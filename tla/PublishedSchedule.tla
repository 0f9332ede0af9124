------------------------- MODULE PublishedSchedule -------------------------
(***************************************************************************)
(* What refresh_schedule promises a reader of the committed database: each *)
(* transition is a whole publication, a recorded failure, or a plan        *)
(* deletion.  There are no requests, no stages and no savepoint here.      *)
(***************************************************************************)
EXTENDS Naturals

CONSTANTS RunIds, Plans, None

VARIABLES rows, runs, active, failure

pub == <<rows, runs, active, failure>>

Init ==
    /\ rows = {}
    /\ active = None
    /\ \A i \in RunIds : runs[i].status = "ABSENT"
    /\ ~failure.failed

\* Run i is added to the runs, and no other run is touched.
AddsRun(i, status) ==
    /\ i \in RunIds
    /\ runs[i].status = "ABSENT"
    /\ runs'[i].status = status
    /\ \A j \in RunIds \ {i} : runs'[j] = runs[j]

\* One run replaces everything from its start on; what started earlier stays.
\* A failed free-time phase publishes the rest without any free time.
Publish(i) ==
    /\ AddsRun(i, "SUCCESS")
    /\ active' = i
    /\ {e \in rows' : e.run # i} = {e \in rows : e.start < runs'[i].startedAt}
    /\ \A e \in rows' : e.run = i => e.start >= runs'[i].startedAt
    /\ failure'.failed =>
          /\ failure'.reason = "FREE_TIME"
          /\ \A e \in rows' : e.run = i => e.kind # "FREE_TIME"

\* The schedule stays; the attempt may leave a FAILED run behind.
RecordFailure ==
    /\ failure'.failed /\ failure'.reason # "FREE_TIME"
    /\ runs' = runs \/ \E i \in RunIds : AddsRun(i, "FAILED")
    /\ UNCHANGED <<rows, active>>

RemovePlan(p) ==
    /\ rows' = {e \in rows : e.kind = "FREE_TIME" \/ e.source # p}
    /\ UNCHANGED <<runs, active, failure>>

Next ==
    \/ \E i \in RunIds : Publish(i)
    \/ RecordFailure
    \/ \E p \in Plans : RemovePlan(p)

Spec == Init /\ [][Next]_pub
=============================================================================
