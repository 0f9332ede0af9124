-------------------------- MODULE ScheduleRefresh --------------------------
(***************************************************************************)
(* refresh_schedule (orchestration/refresh_schedule.py) and the three      *)
(* assignment services it composes: blocks, then tasks, then free time,    *)
(* published together under one calendar run.                              *)
(*                                                                         *)
(* Several requests run at once, each in its own database session.  The    *)
(* committed database is db; the uncommitted one of the publication that   *)
(* holds SQLite's write lock is txn.  A request works through              *)
(*                                                                         *)
(*   idle -> resolve -> preflight -> publish                               *)
(*        -> blocks -> resolveTasks -> tasks -> freeTime -> commit -> idle *)
(*                                                                         *)
(* or leaves for rollback from one of the publication's stages.  The first *)
(* three stages are transactions of their own, so other requests and edits *)
(* come between them; from "blocks" on everything is one transaction.      *)
(*                                                                         *)
(* Abstracted: what makes a placement valid beyond "inside the horizon,    *)
(* whole duration, no overlap" (families, constraints, precedence), the    *)
(* objective, and the segments of a divisible plan (one segment here).     *)
(* A solver may therefore succeed with any placement of that kind, or fail.*)
(***************************************************************************)
EXTENDS Naturals

CONSTANTS
    Requests,      \* concurrent POST /schedule/refresh requests
    RunIds,        \* calendar_run ids that can be handed out (bounds the runs)
    Blocks,        \* BLOCK leaves of the plan tree
    Tasks,         \* TASK leaves of the plan tree
    Activities,    \* free-time activities
    Duration,      \* minutes of each block and task
    Horizon,       \* minutes from run_started_at to the master horizon's end
    MaxTime,       \* bound on the clock
    None           \* SQL NULL

Plans == Blocks \cup Tasks

ASSUME HorizonAssumption == Horizon \in Nat /\ MaxTime \in Nat
ASSUME DurationAssumption == Duration \in [Plans -> Nat \ {0}]
ASSUME LeavesAssumption == Blocks \cap Tasks = {}

VARIABLES
    now,     \* the clock, in minutes
    db,      \* the committed database
    owner,   \* the request whose publication holds the write lock, or None
    txn,     \* that publication's uncommitted database
    req      \* where each request is, and what it has resolved so far

vars == <<now, db, owner, txn, req>>

-----------------------------------------------------------------------------
(* Tables.                                                                 *)

Time == 0 .. (MaxTime + Horizon)

Kinds == {"BLOCK", "TASK", "FREE_TIME"}

\* A block_calendar_entry (BLOCK) or a calendar_entry (TASK, FREE_TIME).
Row == [kind : Kinds, source : Plans \cup Activities,
        start : Time, end : Time, run : RunIds]

\* OPTIMAL and FEASIBLE are told apart nowhere here: both are SOLVED.
SolverStatus == {"SOLVED", "INFEASIBLE", "UNKNOWN"}

CalendarRun == [status : {"ABSENT", "SUCCESS", "FAILED"},
                startedAt : Time, solver : SolverStatus]

NoRow == [status |-> "ABSENT", startedAt |-> 0, solver |-> "UNKNOWN"]

Reasons == {"PRECONDITION", "ASSIGNMENT", "FREE_TIME"}

\* NULL is none of the values the columns and variables that allow it hold.
ASSUME NoneAssumption ==
    /\ None \notin RunIds
    /\ None \notin Requests
    /\ None \notin Time
    /\ None \notin Reasons
    /\ None \notin SolverStatus

\* The failure columns of active_calendar_state.
Failure == [failed : BOOLEAN, at : Time \cup {None}, reason : Reasons \cup {None}]

NoFailure == [failed |-> FALSE, at |-> None, reason |-> None]

Failed(reason) == [failed |-> TRUE, at |-> now, reason |-> reason]

Database == [plans : SUBSET Plans, rows : SUBSET Row,
             runs : [RunIds -> CalendarRun],
             active : RunIds \cup {None}, failure : Failure]

EmptyDatabase == [plans |-> {}, rows |-> {}, runs |-> [i \in RunIds |-> NoRow],
                  active |-> None, failure |-> NoFailure]

FreshRuns(d) == {i \in RunIds : d.runs[i].status = "ABSENT"}

NewCalendarRun(status, run, solver) ==
    [status |-> status, startedAt |-> run, solver |-> solver]

-----------------------------------------------------------------------------
(* Requests.                                                               *)

Publishing == {"blocks", "resolveTasks", "tasks", "freeTime", "commit", "rollback"}

Stages == {"idle", "resolve", "preflight", "publish"} \cup Publishing

\* resolved: the plans the last resolution found valid and incomplete.
\* attempt: optimization_status of the attempted assignment, None without one.
Request == [pc : Stages, run : 0 .. MaxTime, resolved : SUBSET Plans,
            attempt : SolverStatus \cup {None}]

Idle == [pc |-> "idle", run |-> 0, resolved |-> {}, attempt |-> None]

GoTo(r, stage) == req' = [req EXCEPT ![r].pc = stage]

\* fail(...) of the pipeline: attempt is None when no assignment was attempted.
FailPipeline(r, attempt) ==
    req' = [req EXCEPT ![r].pc = "rollback", ![r].attempt = attempt]

-----------------------------------------------------------------------------
(* Rows a stage deletes, must avoid and inserts.                           *)

Overlaps(e, f) == e.start < f.end /\ f.start < e.end

\* Mutant of Cleared: the DELETE spares the row that starts with the run.
ClearedAfterStart(rows, kind, run) == {e \in rows : ~(e.kind = kind /\ e.start > run)}

\* DELETE ... WHERE start_time >= run_started_at, for one kind of row.
Cleared(rows, kind, run) == {e \in rows : ~(e.kind = kind /\ e.start >= run)}

\* The TASK rows the block phase and the task phase load and keep as occupied.
PastTasks(d, run) ==
    {e \in d.rows : d.active # None /\ e.kind = "TASK" /\ e.start < run}

\* Mutant of OccupyingBlocks: blocks in progress when the run starts are forgotten.
OwnBlocksOnly(d, run) == {e \in d.rows : e.kind = "BLOCK" /\ e.run = d.active}

\* The block rows the task phase keeps as occupied: past ones of any run and
\* those of the active run, which by now is the one being published.
OccupyingBlocks(d, run) ==
    {e \in d.rows : /\ d.active # None
                    /\ e.kind = "BLOCK"
                    /\ e.start < run \/ e.run = d.active}

TaskOccupied(d, run) == PastTasks(d, run) \cup OccupyingBlocks(d, run)

\* Only future TASK rows block free time; which blocks do depends on families.
FreeTimeBlockers(d, run) ==
    {e \in d.rows : e.kind = "TASK" /\ e.start >= run /\ e.run = d.active}

PlacedAt(kind, id, starts) ==
    {[kind |-> kind, source |-> p, start |-> starts[p],
      end |-> starts[p] + Duration[p], run |-> id] : p \in DOMAIN starts}

FreeTimeWindows(d, run) ==
    {w \in [start : run .. (run + Horizon), end : run .. (run + Horizon)] :
        /\ w.start < w.end
        /\ \A b \in FreeTimeBlockers(d, run) : ~Overlaps(w, b)}

FreeTimeAt(id, windows) ==
    {[kind |-> "FREE_TIME", source |-> a, start |-> windows[a].start,
      end |-> windows[a].end, run |-> id] : a \in DOMAIN windows}

\* Start times that keep every plan inside the master horizon of this refresh.
HorizonStarts(plans, run) ==
    {starts \in [plans -> run .. (run + Horizon)] :
        \A p \in plans : starts[p] + Duration[p] <= run + Horizon}

\* validate_full_assignment: no overlap with occupied time or one another.
Disjoint(placed, occupied) ==
    \A e \in placed :
        /\ \A o \in occupied : ~Overlaps(e, o)
        /\ \A f \in placed : e # f => ~Overlaps(e, f)

-----------------------------------------------------------------------------
Init ==
    /\ now = 0
    /\ db = [EmptyDatabase EXCEPT !.plans = Plans]
    /\ owner = None
    /\ txn = EmptyDatabase
    /\ req = [r \in Requests |-> Idle]

\* The router: run_started_at is the current minute.
StartRefresh(r) ==
    /\ req[r].pc = "idle"
    /\ req' = [req EXCEPT ![r] = [Idle EXCEPT !.pc = "resolve", !.run = now]]
    /\ UNCHANGED <<now, db, owner, txn>>

\* Ungenerated repetitions, or a resolution that fails, end the refresh without
\* a trace in the calendar.  A resolution is a write transaction of its own.
ResolveBlocks(r) ==
    /\ req[r].pc = "resolve"
    /\ \/ req' = [req EXCEPT ![r] = Idle]
       \/ /\ owner = None
          /\ \E blocks \in SUBSET (db.plans \cap Blocks) :
                req' = [req EXCEPT ![r].pc = "preflight", ![r].resolved = blocks]
    /\ UNCHANGED <<now, db, owner, txn>>

\* validate_prerequisite_clones_for_refresh: its failure is recorded in a
\* transaction of its own, before anything is published.
Preflight(r) ==
    /\ req[r].pc = "preflight"
    /\ \/ GoTo(r, "publish") /\ UNCHANGED db
       \/ /\ owner = None
          /\ db' = [db EXCEPT !.failure = Failed("PRECONDITION")]
          /\ req' = [req EXCEPT ![r] = Idle]
    /\ UNCHANGED <<now, owner, txn>>

BeginPublication(r) ==
    /\ req[r].pc = "publish"
    /\ owner = None
    /\ FreshRuns(db) # {}
    /\ owner' = r
    /\ txn' = db
    /\ GoTo(r, "blocks")
    /\ UNCHANGED <<now, db>>

\* The publication of r: the guard of every stage inside it.
Holds(r, stage) == owner = r /\ req[r].pc = stage

-----------------------------------------------------------------------------
(* Phase 1: blocks.                                                        *)

BlocksRefused(r) ==
    /\ txn' = [txn EXCEPT !.failure = Failed("PRECONDITION")]
    /\ FailPipeline(r, None)

BlocksUnsolved(r) ==
    \E i \in FreshRuns(txn), status \in SolverStatus \ {"SOLVED"} :
        /\ txn' = [txn EXCEPT
                     !.runs[i] = NewCalendarRun("FAILED", req[r].run, status),
                     !.failure = Failed("ASSIGNMENT")]
        /\ FailPipeline(r, status)

\* A resolved block that is gone by now cannot be inserted (foreign key).
BlocksPlaced(r) ==
    LET run == req[r].run
        occupied == PastTasks(txn, run) IN
    /\ req[r].resolved \subseteq txn.plans
    /\ \E i \in FreshRuns(txn), starts \in HorizonStarts(req[r].resolved, run) :
        LET placed == PlacedAt("BLOCK", i, starts) IN
        /\ Disjoint(placed, occupied)
        /\ txn' = [txn EXCEPT
                     !.rows = Cleared(@, "BLOCK", run) \cup placed,
                     !.runs[i] = NewCalendarRun("SUCCESS", run, "SOLVED"),
                     !.active = i,
                     !.failure = NoFailure]
    /\ GoTo(r, "resolveTasks")

AssignBlocks(r) ==
    /\ Holds(r, "blocks")
    /\ BlocksRefused(r) \/ BlocksUnsolved(r) \/ BlocksPlaced(r)
    /\ UNCHANGED <<now, db, owner>>

-----------------------------------------------------------------------------
(* Phase 2: tasks, in the run the block phase created.                     *)

\* The attempted assignment is still the (solved) block assignment on failure.
ResolveTasks(r) ==
    /\ Holds(r, "resolveTasks")
    /\ \/ FailPipeline(r, "SOLVED")
       \/ \E tasks \in SUBSET (txn.plans \cap Tasks) :
             req' = [req EXCEPT ![r].pc = "tasks", ![r].resolved = tasks]
    /\ UNCHANGED <<now, db, owner, txn>>

\* Invalid incomplete tasks report INFEASIBLE; a missing solver reports nothing,
\* which leaves the block assignment as the attempted one.
TasksRefused(r) ==
    /\ txn' = [txn EXCEPT !.failure = Failed("PRECONDITION")]
    /\ \E attempt \in {"INFEASIBLE", "SOLVED"} : FailPipeline(r, attempt)

TasksUnsolved(r) ==
    \E status \in SolverStatus \ {"SOLVED"} :
        /\ txn' = [txn EXCEPT !.failure = Failed("ASSIGNMENT")]
        /\ FailPipeline(r, status)

TasksPlaced(r) ==
    LET run == req[r].run
        occupied == TaskOccupied(txn, run) IN
    /\ \E starts \in HorizonStarts(req[r].resolved, run) :
        LET placed == PlacedAt("TASK", txn.active, starts) IN
        /\ Disjoint(placed, occupied)
        /\ txn' = [txn EXCEPT
                     !.rows = Cleared(@, "TASK", run) \cup placed,
                     !.failure = NoFailure]
    /\ GoTo(r, "freeTime")

AssignTasks(r) ==
    /\ Holds(r, "tasks")
    /\ TasksRefused(r) \/ TasksUnsolved(r) \/ TasksPlaced(r)
    /\ UNCHANGED <<now, db, owner>>

-----------------------------------------------------------------------------
(* Phase 3: free time.  Its failure does not undo the two phases before.   *)

\* Mutants of FreeTimeFailed: the previous run's free time stays behind, and the
\* error path that reports a precondition instead of the partial failure.
FreeTimeKept(r) == txn' = [txn EXCEPT !.failure = Failed("FREE_TIME")]

FreeTimeMisreported(r) ==
    txn' = [txn EXCEPT !.rows = Cleared(@, "FREE_TIME", req[r].run),
                       !.failure = Failed("PRECONDITION")]

FreeTimeFailed(r) ==
    txn' = [txn EXCEPT !.rows = Cleared(@, "FREE_TIME", req[r].run),
                       !.failure = Failed("FREE_TIME")]

\* One window, anywhere in the horizon, for each activity that gets time.
FreeTimePlaced(r) ==
    \E activities \in SUBSET Activities :
    \E windows \in [activities -> FreeTimeWindows(txn, req[r].run)] :
        txn' = [txn EXCEPT !.rows = Cleared(@, "FREE_TIME", req[r].run)
                                    \cup FreeTimeAt(txn.active, windows)]

AssignFreeTime(r) ==
    /\ Holds(r, "freeTime")
    /\ FreeTimeFailed(r) \/ FreeTimePlaced(r)
    /\ GoTo(r, "commit")
    /\ UNCHANGED <<now, db, owner>>

-----------------------------------------------------------------------------
(* How a publication ends.                                                 *)

Release(r) ==
    /\ owner' = None
    /\ txn' = EmptyDatabase
    /\ req' = [req EXCEPT ![r] = Idle]

CommitPublication(r) ==
    /\ Holds(r, "commit")
    /\ db' = txn
    /\ Release(r)
    /\ UNCHANGED now

\* The reason is read before the savepoint is rolled back; the failure columns
\* and, when an assignment was attempted, a FAILED run are written after it.
RecordedReason(r) ==
    IF txn.failure.reason = None THEN "PRECONDITION" ELSE txn.failure.reason

\* Mutant of RecordedStatus: the block phase's status is recorded as it is.
StatusAsAttempted(r) == req[r].attempt

RecordedStatus(r) == IF req[r].attempt = "SOLVED" THEN "UNKNOWN" ELSE req[r].attempt

\* Mutant of RolledBack: the savepoint is left out, and staged rows survive.
KeptStaged(r) == [txn EXCEPT !.failure = Failed(RecordedReason(r))]

RolledBack(r) == [db EXCEPT !.failure = Failed(RecordedReason(r))]

RollBack(r) ==
    /\ Holds(r, "rollback")
    /\ IF req[r].attempt = None
         THEN db' = RolledBack(r)
         ELSE \E i \in FreshRuns(db) :
                db' = [RolledBack(r) EXCEPT
                         !.runs[i] = NewCalendarRun("FAILED", req[r].run, RecordedStatus(r))]
    /\ Release(r)
    /\ UNCHANGED now

\* "database is locked", a foreign-key error, an assertion, or the process
\* dying: the request is gone and with it whatever it had not committed.
Abandon(r) ==
    /\ req[r].pc # "idle"
    /\ req' = [req EXCEPT ![r] = Idle]
    /\ IF owner = r THEN owner' = None /\ txn' = EmptyDatabase
                    ELSE UNCHANGED <<owner, txn>>
    /\ UNCHANGED <<now, db>>

-----------------------------------------------------------------------------
(* Edits of the plan tree, each a transaction of another request.  A plan  *)
(* created or completed meanwhile needs no action: a resolution already    *)
(* returns any subset of the plans.  A deleted id never comes back.        *)

\* A deleted plan takes its calendar rows, past and future, with it.
DeletePlan(p) ==
    /\ owner = None
    /\ p \in db.plans
    /\ db' = [db EXCEPT !.plans = @ \ {p},
                        !.rows = {e \in @ : e.kind = "FREE_TIME" \/ e.source # p}]
    /\ UNCHANGED <<now, owner, txn, req>>

Tick ==
    /\ now < MaxTime
    /\ now' = now + 1
    /\ UNCHANGED <<db, owner, txn, req>>

Step(r) ==
    \/ StartRefresh(r)
    \/ ResolveBlocks(r)
    \/ Preflight(r)
    \/ BeginPublication(r)
    \/ AssignBlocks(r)
    \/ ResolveTasks(r)
    \/ AssignTasks(r)
    \/ AssignFreeTime(r)
    \/ CommitPublication(r)
    \/ RollBack(r)
    \/ Abandon(r)

Next ==
    \/ \E r \in Requests : Step(r)
    \/ \E p \in Plans : DeletePlan(p)
    \/ Tick

Spec == Init /\ [][Next]_vars

-----------------------------------------------------------------------------
(* Properties.                                                             *)

\* Every variable stays in its domain; in particular every placement of any
\* refresh ends inside the horizon and carries a run that exists.
TypeOK ==
    /\ now \in 0 .. MaxTime
    /\ db \in Database
    /\ owner \in Requests \cup {None}
    /\ txn \in Database
    /\ req \in [Requests -> Request]

\* Whatever readers are shown from the active run's start on belongs to the
\* active run: no stage leaves a future row of an older run behind, in any
\* order of concurrent refreshes, failures and retries
\* (the three DELETEs ... WHERE start_time >= run_started_at).
FutureBelongsToActive ==
    \A e \in db.rows :
        /\ db.active # None
        /\ e.start >= db.runs[db.active].startedAt => e.run = db.active

Exclusive(tasks, rows) ==
    \A e \in tasks, f \in rows :
        e.kind = "TASK" /\ f.kind # "FREE_TIME" /\ e # f => ~Overlaps(e, f)

\* The persisted calendar never makes two tasks, or a task and a block, share
\* a minute, over the whole history and not only inside one run: a task placed
\* by one refresh also avoids what earlier runs left before run_started_at.
TasksExclusive == Exclusive(db.rows, db.rows)

\* What active_calendar_state and calendar_run tell a reader agrees with the
\* calendar: the active run is a solved SUCCESS, a FAILED run never claims a
\* solution nor owns rows, the failure columns are all set or all clear, and a
\* free-time failure is only reported for a run that shows no free time.
StateTellsTruth ==
    /\ db.active # None => /\ db.runs[db.active].status = "SUCCESS"
                           /\ db.runs[db.active].solver = "SOLVED"
    /\ \A i \in RunIds : db.runs[i].status = "FAILED" => db.runs[i].solver # "SOLVED"
    /\ \A e \in db.rows : db.runs[e.run].status = "SUCCESS"
    /\ db.failure.failed <=> db.failure.reason # None
    /\ db.failure.failed <=> db.failure.at # None
    /\ db.failure.reason = "FREE_TIME" =>
          \A e \in db.rows : e.kind = "FREE_TIME" => e.run # db.active

\* A refresh that reports a failure other than the partial free-time one leaves
\* the rows and the active run exactly as they were before it
\* (the savepoint of refresh_schedule).
FailureKeepsSchedule ==
    [][db'.failure.failed /\ db'.failure # db.failure /\ db'.failure.reason # "FREE_TIME"
          => db'.rows = db.rows /\ db'.active = db.active]_vars

\* The uncommitted database t differs from the committed d by exactly what the
\* stages passed so far publish: the given kinds are replaced from run_started_at
\* on by rows of one new run, and all else is as it was.
Staged(d, t, kinds, run) ==
    /\ t.active \in FreshRuns(d)
    /\ t.runs = [d.runs EXCEPT ![t.active] = NewCalendarRun("SUCCESS", run, "SOLVED")]
    /\ {e \in t.rows : e.run # t.active} =
          {e \in d.rows : ~(e.kind \in kinds /\ e.start >= run)}
    /\ \A e \in t.rows : e.run = t.active => e.kind \in kinds /\ e.start >= run

\* A free-time failure is reported with its time, and no free time of its run.
PartialFailure(t) ==
    /\ t.failure.reason = "FREE_TIME" /\ t.failure.failed /\ t.failure.at # None
    /\ \A e \in t.rows : e.kind = "FREE_TIME" => e.run # t.active

\* What the publication of r has staged fits the stage it is in.
StageInv(r) ==
    /\ txn.plans = db.plans
    /\ req[r].pc = "blocks" => txn = db
    /\ req[r].pc \in {"resolveTasks", "tasks"} =>
          Staged(db, txn, {"BLOCK"}, req[r].run) /\ txn.failure = NoFailure
    /\ req[r].pc = "freeTime" =>
          Staged(db, txn, {"BLOCK", "TASK"}, req[r].run) /\ txn.failure = NoFailure
    /\ req[r].pc = "commit" =>
          /\ Staged(db, txn, Kinds, req[r].run)
          /\ txn.failure = NoFailure \/ PartialFailure(txn)
    /\ req[r].pc = "rollback" => txn.failure.reason # "FREE_TIME"

\* At most one request publishes at a time, and its uncommitted work is always
\* the committed database plus whole stages, all of one run: the inductive
\* invariant behind the theorems of ScheduleRefresh_proofs.
PublicationInv ==
    \A r \in Requests :
        /\ req[r].pc \in Publishing <=> owner = r
        /\ owner = r => StageInv(r)

\* TasksExclusive inside a publication: once the blocks are placed, the tasks that
\* the next phase keeps are clear of them; once the tasks are placed, all are.
StagedExclusive ==
    \A r \in Requests : owner = r =>
        /\ req[r].pc \in {"resolveTasks", "tasks"} =>
              Exclusive({e \in txn.rows : e.start < req[r].run}, txn.rows)
        /\ req[r].pc \in {"freeTime", "commit"} => Exclusive(txn.rows, txn.rows)

\* What readers see of this system are the transitions PublishedSchedule
\* promises: no intermediate stage, and no half of a publication, is ever
\* committed, and nothing that started before the run is lost.
Published == INSTANCE PublishedSchedule
                WITH rows <- db.rows, runs <- db.runs,
                     active <- db.active, failure <- db.failure

AtomicPublication == Published!Spec
=============================================================================
