------------------------ MODULE TimerNotifications ------------------------
(***************************************************************************)
(* Timers and the notification queue (services/timer.py and                *)
(* services/notification_queue.py), with the two writers they meet in the  *)
(* calendar: a schedule refresh, which replaces rows, and a plan deletion. *)
(*                                                                         *)
(* POST /timers/{key}/complete is three steps that other requests can come *)
(* between: find the entry the key names, look for an earlier notification *)
(* of it, insert one.  SQLite runs the two reads outside any transaction.  *)
(*                                                                         *)
(* A refresh is one atomic step here, as ScheduleRefresh shows it to be    *)
(* for readers; which rows it places is left open.                         *)
(***************************************************************************)
EXTENDS Naturals

CONSTANTS
    Clients,       \* concurrent POST /timers/{key}/complete requests
    Plans,         \* BLOCK and TASK plans
    Entries,       \* calendar entry ids that can be handed out
    KindOf,        \* what each entry id is used for: TASK, BLOCK or FREE_TIME
    PlanOf,        \* the plan it stands for, None for free time
    MaxTime,       \* bound on the clock
    MaxRuns,       \* bound on the refreshes that publish
    MaxNotices,    \* bound on the notification rows
    None           \* SQL NULL

Kinds == {"TASK", "BLOCK", "FREE_TIME"}

ASSUME BoundsAssumption == MaxTime \in Nat /\ MaxRuns \in Nat /\ MaxNotices \in Nat
ASSUME NoneAssumption == None \notin Plans
ASSUME EntriesAssumption ==
    /\ KindOf \in [Entries -> Kinds]
    /\ PlanOf \in [Entries -> Plans \cup {None}]
    /\ \A e \in Entries : KindOf[e] = "FREE_TIME" <=> PlanOf[e] = None

VARIABLES
    now,       \* the clock
    plans,     \* the plan table
    rows,      \* calendar_entry and block_calendar_entry
    unused,    \* entry ids not handed out yet
    active,    \* the active calendar run, counted from 1; 0 before the first
    notices,   \* notification_queue_item
    client,    \* where each completion is, and the timer it has found
    deletion   \* how the last delete_plan ended

vars == <<now, plans, rows, unused, active, notices, client, deletion>>

Time == 0 .. MaxTime + 1

Row == {row \in [entry : Entries, start : Time, end : Time, run : 1 .. MaxRuns] :
          row.start < row.end}

Notice == [id : 1 .. MaxNotices, entry : Entries, plan : Plans, end : Time,
           dismissed : BOOLEAN]

Idle == [pc |-> "idle", timer |-> None]

Init ==
    /\ now = 0
    /\ plans = Plans
    /\ rows = {}
    /\ unused = Entries
    /\ active = 0
    /\ notices = {}
    /\ client = [c \in Clients |-> Idle]
    /\ deletion = "none"

-----------------------------------------------------------------------------
(* Completing a timer.  One timer key is one calendar entry.               *)

\* Mutant of HasTimer: the completed timer is not asked whether it has started.
AnyRow(row) == row.run = active

\* Of the active run, and active now or past: an entry yet to start is neither.
HasTimer(row) == row.run = active /\ row.start <= now

\* An unknown key is an error and a free-time timer is not queued: no change.
FindTimer(c) ==
    /\ client[c].pc = "idle"
    /\ \E row \in rows :
          /\ HasTimer(row)
          /\ KindOf[row.entry] # "FREE_TIME"
          /\ client' = [client EXCEPT ![c] = [pc |-> "check", timer |-> row]]
    /\ UNCHANGED <<now, plans, rows, unused, active, notices, deletion>>

\* Mutants of Existing: nothing is looked up; a dismissed one does not count.
NothingExists(timer) == {}

PendingOnly(timer) ==
    {n \in notices : n.entry = timer.entry /\ n.end = timer.end /\ ~n.dismissed}

\* The notifications of (timer_key, window_end_at).
Existing(timer) == {n \in notices : n.entry = timer.entry /\ n.end = timer.end}

\* A pending notification is returned and a dismissed one is not repeated.
CheckExisting(c) ==
    /\ client[c].pc = "check"
    /\ client' = [client EXCEPT ![c] =
                    IF Existing(client[c].timer) = {} THEN [@ EXCEPT !.pc = "insert"] ELSE Idle]
    /\ UNCHANGED <<now, plans, rows, unused, active, notices, deletion>>

NewIds == 1 .. MaxNotices \ {n.id : n \in notices}

\* The foreign keys of a notification: its plan and its calendar entry.
ReferencesExist(timer) == PlanOf[timer.entry] \in plans /\ timer \in rows

\* An insert that breaks a foreign key raises, and the request leaves no trace.
Insert(c) ==
    /\ client[c].pc = "insert"
    /\ LET timer == client[c].timer IN
          IF ReferencesExist(timer)
            THEN \E i \in NewIds :
                    notices' = notices \cup
                      {[id |-> i, entry |-> timer.entry, plan |-> PlanOf[timer.entry],
                        end |-> timer.end, dismissed |-> FALSE]}
            ELSE UNCHANGED notices
    /\ client' = [client EXCEPT ![c] = Idle]
    /\ UNCHANGED <<now, plans, rows, unused, active, deletion>>

\* Dismissing twice, or an id that is unknown, changes nothing.
Dismiss(n) ==
    /\ n \in notices /\ ~n.dismissed
    /\ notices' = (notices \ {n}) \cup {[n EXCEPT !.dismissed = TRUE]}
    /\ UNCHANGED <<now, plans, rows, unused, active, client, deletion>>

-----------------------------------------------------------------------------
(* The calendar changes underneath.                                        *)

Referenced == {n.entry : n \in notices}

Windows(run) == {w \in [start : run .. MaxTime + 1, end : run .. MaxTime + 1] : w.start < w.end}

\* A refresh that started at run replaces every row from then on.  A row that a
\* notification refers to cannot be deleted: the refresh raises, nothing changes.
Publish(run) ==
    /\ active < MaxRuns
    /\ \A row \in rows : row.start >= run => row.entry \notin Referenced
    /\ \E placed \in SUBSET {e \in unused : PlanOf[e] \in plans \cup {None}} :
       \E window \in [placed -> Windows(run)] :
          /\ unused' = unused \ placed
          /\ rows' = {row \in rows : row.start < run} \cup
                {[entry |-> e, start |-> window[e].start, end |-> window[e].end,
                  run |-> active + 1] : e \in placed}
    /\ active' = active + 1
    /\ UNCHANGED <<now, plans, notices, client, deletion>>

\* delete_plan removes the plan's rows and the plan, but not its notifications,
\* and raises when there is one.
DeletePlan(p) ==
    /\ p \in plans
    /\ IF \E n \in notices : n.plan = p
         THEN deletion' = "raised" /\ UNCHANGED <<plans, rows>>
         ELSE /\ deletion' = "deleted"
              /\ plans' = plans \ {p}
              /\ rows' = {row \in rows : PlanOf[row.entry] # p}
    /\ UNCHANGED <<now, unused, active, notices, client>>

Tick ==
    /\ now < MaxTime
    /\ now' = now + 1
    /\ UNCHANGED <<plans, rows, unused, active, notices, client, deletion>>

Complete(c) == FindTimer(c) \/ CheckExisting(c) \/ Insert(c)

Next ==
    \/ \E c \in Clients : Complete(c)
    \/ \E n \in notices : Dismiss(n)
    \/ \E run \in 0 .. now : Publish(run)
    \/ \E p \in Plans : DeletePlan(p)
    \/ Tick

Spec == Init /\ [][Next]_vars

-----------------------------------------------------------------------------
(* Properties.                                                             *)

\* Every variable stays in its domain; no notification is without a plan, so
\* free time is never queued.
TypeOK ==
    /\ now \in 0 .. MaxTime
    /\ plans \in SUBSET Plans
    /\ rows \in SUBSET Row
    /\ unused \in SUBSET Entries
    /\ active \in 0 .. MaxRuns
    /\ notices \in SUBSET Notice
    /\ client \in [Clients -> [pc : {"idle", "check", "insert"}, timer : Row \cup {None}]]
    /\ deletion \in {"none", "deleted", "raised"}

\* A notification always leads to a calendar entry that is still there, of the
\* same plan and window end, and that had started, whatever refreshes and plan
\* deletions come between the finding of a timer and the insert
\* (enqueue_timer_completion and the foreign keys of notification_queue_item).
NoticesLead ==
    \A n \in notices :
        /\ n.plan \in plans
        /\ \E row \in rows : /\ row.entry = n.entry /\ row.end = n.end
                             /\ PlanOf[row.entry] = n.plan
                             /\ row.start <= now

\* Completion is idempotent per (timer_key, window_end_at).
CompletionIdempotent ==
    \A m, n \in notices : m.entry = n.entry /\ m.end = n.end => m = n

\* Once a completion is dismissed, completing the timer again, now or later,
\* does not bring it back into the pending list.
DismissedForGood ==
    [][\A n \in notices : n.dismissed =>
          \A m \in notices' : ~m.dismissed /\ m.entry = n.entry /\ m.end = n.end => m \in notices]_vars

\* What can be previewed for deletion can be deleted.
DeletionMatchesPreview == deletion # "raised"
=============================================================================
