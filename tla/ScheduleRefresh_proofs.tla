----------------------- MODULE ScheduleRefresh_proofs -----------------------
(***************************************************************************)
(* Theorems of ScheduleRefresh for any number of requests, runs, plans and *)
(* activities, any durations and any horizon.                              *)
(***************************************************************************)
EXTENDS ScheduleRefresh, TLAPS

-----------------------------------------------------------------------------
(* The operators the stages are built from stay in their domains.          *)

\* The failure columns written by a failure at the present minute are typed.
LEMMA FailedType ==
    ASSUME now \in 0 .. MaxTime, NEW reason \in Reasons
    PROVE  Failed(reason) \in Failure
  BY HorizonAssumption DEF Failed, Failure, Time

\* A calendar_run row is typed.
LEMMA NewRunType ==
    ASSUME NEW status \in {"SUCCESS", "FAILED"}, NEW run \in Time,
           NEW solver \in SolverStatus
    PROVE  NewCalendarRun(status, run, solver) \in CalendarRun
  BY DEF NewCalendarRun, CalendarRun

\* The row set of a placement is typed: no placement reaches past the horizon.
LEMMA PlacedType ==
    ASSUME NEW plans \in SUBSET Plans, NEW run \in 0 .. MaxTime,
           NEW starts \in HorizonStarts(plans, run),
           NEW kind \in Kinds, NEW i \in RunIds
    PROVE  /\ PlacedAt(kind, i, starts) \in SUBSET Row
           /\ \A e \in PlacedAt(kind, i, starts) :
                 e.kind = kind /\ e.run = i /\ e.start >= run
  <1>1. /\ starts \in [plans -> run .. (run + Horizon)]
        /\ \A p \in plans : starts[p] + Duration[p] <= run + Horizon
    BY DEF HorizonStarts
  <1>2. DOMAIN starts = plans
    BY <1>1
  <1> SUFFICES ASSUME NEW p \in plans
               PROVE  LET e == [kind |-> kind, source |-> p, start |-> starts[p],
                                end |-> starts[p] + Duration[p], run |-> i]
                      IN  /\ e \in Row
                          /\ e.kind = kind /\ e.run = i /\ e.start >= run
    BY <1>2 DEF PlacedAt
  <1>3. p \in Plans /\ Duration[p] \in Nat
    BY DurationAssumption
  <1>4. starts[p] \in run .. (run + Horizon) /\ starts[p] + Duration[p] <= run + Horizon
    BY <1>1
  <1>5. starts[p] \in Time /\ starts[p] + Duration[p] \in Time
    BY <1>3, <1>4, HorizonAssumption DEF Time
  <1>6. QED
    BY <1>3, <1>4, <1>5 DEF Row

\* The free-time rows of a placement are typed, as PlacedType is for plans.
LEMMA FreeTimeType ==
    ASSUME NEW run \in 0 .. MaxTime, NEW d, NEW i \in RunIds,
           NEW activities \in SUBSET Activities,
           NEW windows \in [activities -> FreeTimeWindows(d, run)]
    PROVE  /\ FreeTimeAt(i, windows) \in SUBSET Row
           /\ \A e \in FreeTimeAt(i, windows) :
                 e.kind = "FREE_TIME" /\ e.run = i /\ e.start >= run
  <1> SUFFICES ASSUME NEW a \in activities
               PROVE  LET e == [kind |-> "FREE_TIME", source |-> a,
                                start |-> windows[a].start, end |-> windows[a].end,
                                run |-> i]
                      IN  /\ e \in Row
                          /\ e.kind = "FREE_TIME" /\ e.run = i /\ e.start >= run
    BY DEF FreeTimeAt
  <1>1. windows[a] \in [start : run .. (run + Horizon), end : run .. (run + Horizon)]
    BY DEF FreeTimeWindows
  <1>2. windows[a].start \in Time /\ windows[a].end \in Time /\ windows[a].start >= run
    BY <1>1, HorizonAssumption DEF Time
  <1>3. QED
    BY <1>2 DEF Row, Kinds

\* A stage can only lose rows by clearing.
LEMMA ClearedSubset ==
    ASSUME NEW rows, NEW kind, NEW run
    PROVE  Cleared(rows, kind, run) \subseteq rows
  BY DEF Cleared

\* The empty database is a database.
LEMMA EmptyType == EmptyDatabase \in Database
  <1>1. NoRow \in CalendarRun
    BY HorizonAssumption DEF NoRow, CalendarRun, Time, SolverStatus
  <1>2. NoFailure \in Failure
    BY DEF NoFailure, Failure
  <1>3. QED
    BY <1>1, <1>2 DEF EmptyDatabase, Database

\* Writing rows and failure columns into a database leaves it one.
LEMMA UpdateType ==
    ASSUME NEW d \in Database, NEW rows \in SUBSET Row, NEW failure \in Failure
    PROVE  /\ [d EXCEPT !.failure = failure] \in Database
           /\ [d EXCEPT !.rows = rows] \in Database
           /\ [d EXCEPT !.rows = rows, !.failure = failure] \in Database
  BY DEF Database

\* What such a write leaves in the rows.
LEMMA UpdateFields ==
    ASSUME NEW d \in Database, NEW rows, NEW failure
    PROVE  [d EXCEPT !.rows = rows, !.failure = failure].rows = rows
  BY DEF Database

\* The two ways a stage moves its request on are typed.
LEMMA MoveType ==
    ASSUME req \in [Requests -> Request], NEW r \in Requests
    PROVE  /\ \A stage \in Stages : GoTo(r, stage) => req' \in [Requests -> Request]
           /\ \A attempt \in SolverStatus \cup {None} :
                 FailPipeline(r, attempt) => req' \in [Requests -> Request]
  BY DEF GoTo, FailPipeline, Request, Stages, Publishing

-----------------------------------------------------------------------------
(* Type correctness, one step per action.  It needs PublicationInv: the    *)
(* task and free-time rows carry txn.active, which is a run by then.       *)

\* An empty calendar with every plan in it is a database, and every request is idle.
LEMMA TypeInit == Init => TypeOK
  <1> SUFFICES ASSUME Init PROVE TypeOK
    OBVIOUS
  <1>1. Idle \in Request
    BY HorizonAssumption DEF Idle, Request, Stages, Publishing, Time
  <1>2. db \in Database
    BY EmptyType DEF Init, Database, EmptyDatabase
  <1>3. QED
    BY <1>1, <1>2, EmptyType, HorizonAssumption DEF Init, TypeOK

\* No stage of a refresh, edit or tick takes a variable out of its domain; the
\* publication invariant is what says that the active run exists once staged.
LEMMA TypeStep == TypeOK /\ PublicationInv /\ [Next]_vars => TypeOK'
  <1> SUFFICES ASSUME TypeOK, PublicationInv, [Next]_vars PROVE TypeOK'
    OBVIOUS
  <1>i. Idle \in Request /\ EmptyDatabase \in Database
    BY EmptyType, HorizonAssumption DEF Idle, Request, Stages, Publishing, Time
  <1>t. \A t \in 0 .. MaxTime : t \in Time
    BY HorizonAssumption DEF Time
  <1>1. ASSUME NEW r \in Requests, StartRefresh(r) PROVE TypeOK'
    BY <1>1, <1>i, <1>t DEF StartRefresh, TypeOK, Idle, Request, Stages
  <1>2. ASSUME NEW r \in Requests, ResolveBlocks(r) PROVE TypeOK'
    BY <1>2, <1>i DEF ResolveBlocks, TypeOK, Request, Stages, Plans
  <1>3. ASSUME NEW r \in Requests, Preflight(r) PROVE TypeOK'
    BY <1>3, <1>i, FailedType DEF Preflight, GoTo, TypeOK, Request, Stages, Database, Reasons
  <1>4. ASSUME NEW r \in Requests, BeginPublication(r) PROVE TypeOK'
    BY <1>4 DEF BeginPublication, GoTo, TypeOK, Request, Stages, Publishing
  <1>5. ASSUME NEW r \in Requests, AssignBlocks(r) PROVE TypeOK'
    <2>1. CASE BlocksRefused(r)
      <3>1. txn' \in Database
        BY <2>1, FailedType, UpdateType DEF BlocksRefused, TypeOK, Reasons
      <3>2. req' \in [Requests -> Request]
        BY <2>1, MoveType DEF BlocksRefused, TypeOK
      <3>3. QED
        BY <1>5, <3>1, <3>2 DEF AssignBlocks, TypeOK
    <2>2. CASE BlocksUnsolved(r)
      <3>1. PICK i \in FreshRuns(txn), status \in SolverStatus \ {"SOLVED"} :
              /\ txn' = [txn EXCEPT
                           !.runs[i] = NewCalendarRun("FAILED", req[r].run, status),
                           !.failure = Failed("ASSIGNMENT")]
              /\ FailPipeline(r, status)
        BY <2>2 DEF BlocksUnsolved
      <3>2. NewCalendarRun("FAILED", req[r].run, status) \in CalendarRun
        BY <1>t, NewRunType DEF TypeOK, Request
      <3>3. txn' \in Database
        <4>1. Failed("ASSIGNMENT") \in Failure
          BY FailedType DEF TypeOK, Reasons
        <4>2. QED
          BY <3>1, <3>2, <4>1 DEF TypeOK, Database, FreshRuns
      <3>4. req' \in [Requests -> Request]
        BY <3>1, MoveType DEF TypeOK
      <3>5. QED
        BY <1>5, <3>3, <3>4 DEF AssignBlocks, TypeOK
    <2>3. CASE BlocksPlaced(r)
      <3> DEFINE run == req[r].run
      <3>1. PICK i \in FreshRuns(txn), starts \in HorizonStarts(req[r].resolved, run) :
              txn' = [txn EXCEPT
                        !.rows = Cleared(@, "BLOCK", run) \cup PlacedAt("BLOCK", i, starts),
                        !.runs[i] = NewCalendarRun("SUCCESS", run, "SOLVED"),
                        !.active = i,
                        !.failure = NoFailure]
        BY <2>3 DEF BlocksPlaced
      <3>2. NewCalendarRun("SUCCESS", run, "SOLVED") \in CalendarRun
        BY <1>t, NewRunType DEF TypeOK, Request, SolverStatus
      <3>3. i \in RunIds /\ PlacedAt("BLOCK", i, starts) \in SUBSET Row
        <4>1. req[r].resolved \in SUBSET Plans /\ run \in 0 .. MaxTime
          BY DEF TypeOK, Request
        <4>2. i \in RunIds /\ "BLOCK" \in Kinds
          BY DEF FreshRuns, Kinds
        <4> HIDE DEF run
        <4>3. QED
          BY <4>1, <4>2, PlacedType
      <3>4. Cleared(txn.rows, "BLOCK", run) \cup PlacedAt("BLOCK", i, starts) \in SUBSET Row
        BY <3>3, ClearedSubset DEF TypeOK, Database
      <3>5. NoFailure \in Failure
        BY DEF NoFailure, Failure
      <3>6. txn' \in Database
        BY <3>1, <3>2, <3>3, <3>4, <3>5 DEF TypeOK, Database
      <3>7. req' \in [Requests -> Request]
        BY <2>3, MoveType DEF BlocksPlaced, TypeOK, Stages, Publishing
      <3>8. QED
        BY <1>5, <3>6, <3>7 DEF AssignBlocks, TypeOK
    <2>4. QED
      BY <1>5, <2>1, <2>2, <2>3 DEF AssignBlocks
  <1>6. ASSUME NEW r \in Requests, ResolveTasks(r) PROVE TypeOK'
    BY <1>6 DEF ResolveTasks, FailPipeline, TypeOK, Request, Stages, Publishing, SolverStatus, Plans
  <1>7. ASSUME NEW r \in Requests, AssignTasks(r) PROVE TypeOK'
    <2>1. CASE TasksRefused(r)
      <3>1. txn' \in Database
        BY <2>1, FailedType, UpdateType DEF TasksRefused, TypeOK, Reasons
      <3>2. req' \in [Requests -> Request]
        BY <2>1, MoveType DEF TasksRefused, TypeOK, SolverStatus
      <3>3. QED
        BY <1>7, <3>1, <3>2 DEF AssignTasks, TypeOK
    <2>2. CASE TasksUnsolved(r)
      <3>1. txn' \in Database
        BY <2>2, FailedType, UpdateType DEF TasksUnsolved, TypeOK, Reasons
      <3>2. req' \in [Requests -> Request]
        BY <2>2, MoveType DEF TasksUnsolved, TypeOK
      <3>3. QED
        BY <1>7, <3>1, <3>2 DEF AssignTasks, TypeOK
    <2>3. CASE TasksPlaced(r)
      <3> DEFINE run == req[r].run
      <3>1. PICK starts \in HorizonStarts(req[r].resolved, run) :
              txn' = [txn EXCEPT
                        !.rows = Cleared(@, "TASK", run) \cup
                                 PlacedAt("TASK", txn.active, starts),
                        !.failure = NoFailure]
        BY <2>3 DEF TasksPlaced
      <3>2. txn.active \in RunIds
        BY <1>7 DEF AssignTasks, Holds, PublicationInv, StageInv, Staged, FreshRuns
      <3>3. PlacedAt("TASK", txn.active, starts) \in SUBSET Row
        <4>1. req[r].resolved \in SUBSET Plans /\ run \in 0 .. MaxTime
          BY DEF TypeOK, Request
        <4>2. "TASK" \in Kinds
          BY DEF Kinds
        <4> HIDE DEF run
        <4>3. QED
          BY <3>2, <4>1, <4>2, PlacedType
      <3>4. Cleared(txn.rows, "TASK", run) \cup PlacedAt("TASK", txn.active, starts)
              \in SUBSET Row
        BY <3>3, ClearedSubset DEF TypeOK, Database
      <3>5. NoFailure \in Failure
        BY DEF NoFailure, Failure
      <3>6. txn' \in Database
        BY <3>1, <3>4, <3>5, UpdateType DEF TypeOK
      <3>7. req' \in [Requests -> Request]
        BY <2>3, MoveType DEF TasksPlaced, TypeOK, Stages, Publishing
      <3>8. QED
        BY <1>7, <3>6, <3>7 DEF AssignTasks, TypeOK
    <2>4. QED
      BY <1>7, <2>1, <2>2, <2>3 DEF AssignTasks
  <1>8. ASSUME NEW r \in Requests, AssignFreeTime(r) PROVE TypeOK'
    <2>0. req' \in [Requests -> Request]
      BY <1>8, MoveType DEF AssignFreeTime, TypeOK, Stages, Publishing
    <2>1. CASE FreeTimeFailed(r)
      <3>1. Failed("FREE_TIME") \in Failure
        BY FailedType DEF TypeOK, Reasons
      <3>2. Cleared(txn.rows, "FREE_TIME", req[r].run) \in SUBSET Row
        BY ClearedSubset DEF TypeOK, Database
      <3>3. txn' \in Database
        BY <2>1, <3>1, <3>2, UpdateType DEF FreeTimeFailed, TypeOK
      <3>4. QED
        BY <1>8, <2>0, <3>3 DEF AssignFreeTime, TypeOK
    <2>2. CASE FreeTimePlaced(r)
      <3> DEFINE run == req[r].run
      <3>0. PICK activities \in SUBSET Activities :
              \E windows \in [activities -> FreeTimeWindows(txn, run)] :
                txn' = [txn EXCEPT !.rows = Cleared(@, "FREE_TIME", run)
                                            \cup FreeTimeAt(txn.active, windows)]
        BY <2>2 DEF FreeTimePlaced
      <3>1. PICK windows \in [activities -> FreeTimeWindows(txn, run)] :
              txn' = [txn EXCEPT !.rows = Cleared(@, "FREE_TIME", run)
                                          \cup FreeTimeAt(txn.active, windows)]
        BY <3>0
      <3>2. txn.active \in RunIds
        BY <1>8 DEF AssignFreeTime, Holds, PublicationInv, StageInv, Staged, FreshRuns
      <3>3. FreeTimeAt(txn.active, windows) \in SUBSET Row
        BY <3>2, FreeTimeType DEF TypeOK, Request
      <3>4. txn' \in Database
        <4>1. Cleared(txn.rows, "FREE_TIME", run) \cup FreeTimeAt(txn.active, windows)
                \in SUBSET Row
          BY <3>3, ClearedSubset DEF TypeOK, Database
        <4>2. QED
          BY <3>1, <4>1 DEF TypeOK, Database
      <3>5. QED
        BY <1>8, <2>0, <3>4 DEF AssignFreeTime, TypeOK
    <2>3. QED
      BY <1>8, <2>1, <2>2 DEF AssignFreeTime
  <1>9. ASSUME NEW r \in Requests, CommitPublication(r) PROVE TypeOK'
    BY <1>9, <1>i DEF CommitPublication, Release, TypeOK
  <1>10. ASSUME NEW r \in Requests, RollBack(r) PROVE TypeOK'
    <2>1. RecordedReason(r) \in Reasons
      BY DEF RecordedReason, TypeOK, Database, Failure, Reasons
    <2>2. RolledBack(r) \in Database
      BY <2>1, FailedType DEF RolledBack, TypeOK, Database
    <2>3. ASSUME req[r].attempt # None, NEW i \in RunIds
          PROVE  [RolledBack(r) EXCEPT
                    !.runs[i] = NewCalendarRun("FAILED", req[r].run, RecordedStatus(r))]
                 \in Database
      <3>1. RecordedStatus(r) \in SolverStatus
        BY <2>3 DEF RecordedStatus, TypeOK, Request, SolverStatus
      <3>2. NewCalendarRun("FAILED", req[r].run, RecordedStatus(r)) \in CalendarRun
        BY <3>1, <1>t, NewRunType DEF TypeOK, Request
      <3>3. QED
        BY <2>2, <3>2 DEF Database
    <2>4. db' \in Database
      BY <1>10, <2>2, <2>3 DEF RollBack, FreshRuns
    <2>5. QED
      BY <1>10, <2>4, <1>i DEF RollBack, Release, TypeOK
  <1>11. ASSUME NEW r \in Requests, Abandon(r) PROVE TypeOK'
    BY <1>11, <1>i DEF Abandon, TypeOK
  <1>12. ASSUME NEW p \in Plans, DeletePlan(p) PROVE TypeOK'
    BY <1>12 DEF DeletePlan, TypeOK, Database
  <1>13. CASE Tick
    BY <1>13, HorizonAssumption DEF Tick, TypeOK
  <1>14. CASE UNCHANGED vars
    BY <1>14 DEF vars, TypeOK
  <1>15. QED
    BY <1>1, <1>2, <1>3, <1>4, <1>5, <1>6, <1>7, <1>8, <1>9, <1>10, <1>11, <1>12, <1>13, <1>14
    DEF Next, Step

-----------------------------------------------------------------------------
(* What is staged.                                                         *)

\* One more stage of a publication: it clears and refills one further kind.
LEMMA StagedNext ==
    ASSUME NEW d, NEW t, NEW u, NEW kinds, NEW kind, NEW run, NEW placed,
           Staged(d, t, kinds, run),
           u.active = t.active, u.runs = t.runs,
           u.rows = Cleared(t.rows, kind, run) \cup placed,
           \A e \in placed : e.kind = kind /\ e.run = t.active /\ e.start >= run
    PROVE  Staged(d, u, kinds \cup {kind}, run)
  BY DEF Staged, Cleared

\* Every row belongs to a run that succeeded (a part of StateTellsTruth), so a
\* fresh run id owns no row yet.
LEMMA FreshOwnsNothing ==
    ASSUME TypeOK, StateTellsTruth, NEW i \in FreshRuns(db)
    PROVE  \A e \in db.rows : e.run # i
  BY DEF StateTellsTruth, FreshRuns

\* Before the first request there is no publication, so nothing is staged.
LEMMA PublicationInit == Init => PublicationInv
  <1> SUFFICES ASSUME Init, NEW r \in Requests
               PROVE  req[r].pc \notin Publishing /\ owner # r
    BY DEF PublicationInv
  <1>1. req[r].pc = "idle"
    BY DEF Init, Idle
  <1>2. QED
    BY <1>1, NoneAssumption DEF Init, Publishing

\* Requests that are not publishing neither gain nor disturb a publication.
LEMMA PublicationKept ==
    ASSUME TypeOK, PublicationInv, NEW r \in Requests,
           owner # r, UNCHANGED <<owner, txn>>,
           owner = None \/ UNCHANGED db,
           \A q \in Requests \ {r} : req'[q] = req[q],
           req'[r].pc \notin Publishing
    PROVE  PublicationInv'
  <1>1. ASSUME NEW q \in Requests PROVE req'[q].pc \in Publishing <=> owner' = q
    BY DEF PublicationInv
  <1>2. ASSUME NEW q \in Requests, owner' = q PROVE StageInv(q)'
    <2>1. q # r /\ owner = q /\ req'[q] = req[q] /\ db' = db /\ txn' = txn
      BY <1>2, NoneAssumption
    <2>2. StageInv(q)
      BY <2>1 DEF PublicationInv
    <2>3. QED
      BY <2>1, <2>2 DEF StageInv, PartialFailure
  <1>3. QED
    BY <1>1, <1>2 DEF PublicationInv

\* A publication's own step: its request stays in Publishing and keeps the lock.
LEMMA PublicationMoved ==
    ASSUME TypeOK, PublicationInv, NEW r \in Requests,
           owner = r, owner' = r,
           \A q \in Requests \ {r} : req'[q] = req[q],
           req'[r].pc \in Publishing,
           StageInv(r)'
    PROVE  PublicationInv'
  BY DEF PublicationInv

\* The end of a publication: its request leaves Publishing with the lock.
LEMMA PublicationEnded ==
    ASSUME TypeOK, PublicationInv, NEW r \in Requests,
           owner = r, owner' = None,
           \A q \in Requests \ {r} : req'[q] = req[q],
           req'[r].pc \notin Publishing
    PROVE  PublicationInv'
  BY NoneAssumption DEF PublicationInv

\* Updating one request leaves the others alone.
LEMMA OnlyOne ==
    ASSUME TypeOK, NEW r \in Requests, NEW x, req' = [req EXCEPT ![r] = x]
    PROVE  req'[r] = x /\ \A q \in Requests \ {r} : req'[q] = req[q]
  BY DEF TypeOK

\* The same for the two moves of a stage.
LEMMA Moved ==
    ASSUME TypeOK, NEW r \in Requests
    PROVE  /\ \A stage : GoTo(r, stage) =>
                 /\ req'[r] = [req[r] EXCEPT !.pc = stage]
                 /\ req'[r].pc = stage /\ req'[r].run = req[r].run
                 /\ req'[r].resolved = req[r].resolved
                 /\ \A q \in Requests \ {r} : req'[q] = req[q]
           /\ \A attempt : FailPipeline(r, attempt) =>
                 /\ req'[r].pc = "rollback" /\ req'[r].run = req[r].run
                 /\ req'[r].attempt = attempt
                 /\ \A q \in Requests \ {r} : req'[q] = req[q]
  BY DEF GoTo, FailPipeline, TypeOK, Request

\* Every step keeps the uncommitted work of the publication equal to whole stages.
LEMMA PublicationStep ==
    TypeOK /\ PublicationInv /\ StateTellsTruth /\ [Next]_vars => PublicationInv'
  <1> SUFFICES ASSUME TypeOK, PublicationInv, StateTellsTruth, [Next]_vars
               PROVE  PublicationInv'
    OBVIOUS
  <1>1. ASSUME NEW r \in Requests, StartRefresh(r) PROVE PublicationInv'
    <2>1. owner # r
      BY <1>1 DEF StartRefresh, PublicationInv, Publishing
    <2>2. req'[r].pc = "resolve"
      BY <1>1 DEF StartRefresh, Idle, TypeOK
    <2>3. QED
      BY <1>1, <2>1, <2>2, OnlyOne, PublicationKept DEF StartRefresh, Publishing
  <1>2. ASSUME NEW r \in Requests, ResolveBlocks(r) PROVE PublicationInv'
    <2>1. owner # r
      BY <1>2 DEF ResolveBlocks, PublicationInv, Publishing
    <2>2. /\ req'[r].pc \in {"idle", "preflight"}
          /\ \A q \in Requests \ {r} : req'[q] = req[q]
      BY <1>2 DEF ResolveBlocks, Idle, TypeOK, Request
    <2>3. QED
      BY <1>2, <2>1, <2>2, PublicationKept DEF ResolveBlocks, Publishing
  <1>3. ASSUME NEW r \in Requests, Preflight(r) PROVE PublicationInv'
    <2>1. owner # r
      BY <1>3 DEF Preflight, PublicationInv, Publishing
    <2>2. /\ req'[r].pc \in {"idle", "publish"}
          /\ \A q \in Requests \ {r} : req'[q] = req[q]
      BY <1>3 DEF Preflight, GoTo, Idle, TypeOK, Request
    <2>3. QED
      BY <1>3, <2>1, <2>2, PublicationKept DEF Preflight, Publishing
  <1>4. ASSUME NEW r \in Requests, BeginPublication(r) PROVE PublicationInv'
    <2>1. req'[r].pc = "blocks" /\ \A q \in Requests \ {r} : req'[q] = req[q]
      BY <1>4, Moved DEF BeginPublication
    <2>2. StageInv(r)'
      BY <1>4, <2>1 DEF BeginPublication, StageInv
    <2>3. \A q \in Requests : req[q].pc \notin Publishing
      BY <1>4, NoneAssumption DEF BeginPublication, PublicationInv
    <2>4. QED
      BY <1>4, <2>1, <2>2, <2>3 DEF BeginPublication, PublicationInv, Publishing
  <1>5. ASSUME NEW r \in Requests, AssignBlocks(r) PROVE PublicationInv'
    <2>0. /\ owner = r /\ owner' = owner /\ db' = db /\ txn = db
          /\ txn.plans = db.plans
      BY <1>5 DEF AssignBlocks, Holds, PublicationInv, StageInv
    <2>1. CASE BlocksRefused(r)
      <3>1. txn'.plans = txn.plans /\ txn'.failure.reason = "PRECONDITION"
        BY <2>1 DEF BlocksRefused, Failed, TypeOK, Database
      <3>2. req'[r].pc = "rollback" /\ \A q \in Requests \ {r} : req'[q] = req[q]
        BY <2>1, Moved DEF BlocksRefused
      <3>3. StageInv(r)'
        BY <2>0, <3>1, <3>2 DEF StageInv
      <3>4. QED
        BY <2>0, <3>2, <3>3, PublicationMoved DEF Publishing
    <2>2. CASE BlocksUnsolved(r)
      <3>1. txn'.plans = txn.plans /\ txn'.failure.reason = "ASSIGNMENT"
        BY <2>2 DEF BlocksUnsolved, Failed, TypeOK, Database
      <3>2. req'[r].pc = "rollback" /\ \A q \in Requests \ {r} : req'[q] = req[q]
        BY <2>2, Moved DEF BlocksUnsolved
      <3>3. StageInv(r)'
        BY <2>0, <3>1, <3>2 DEF StageInv
      <3>4. QED
        BY <2>0, <3>2, <3>3, PublicationMoved DEF Publishing
    <2>3. CASE BlocksPlaced(r)
      <3> DEFINE run == req[r].run
      <3>1. PICK i \in FreshRuns(txn), starts \in HorizonStarts(req[r].resolved, run) :
              txn' = [txn EXCEPT
                        !.rows = Cleared(@, "BLOCK", run) \cup PlacedAt("BLOCK", i, starts),
                        !.runs[i] = NewCalendarRun("SUCCESS", run, "SOLVED"),
                        !.active = i,
                        !.failure = NoFailure]
        BY <2>3 DEF BlocksPlaced
      <3>2. /\ req'[r].pc = "resolveTasks" /\ req'[r].run = run
            /\ \A q \in Requests \ {r} : req'[q] = req[q]
        BY <2>3, Moved DEF BlocksPlaced
      <3>3. \A e \in PlacedAt("BLOCK", i, starts) :
              e.kind = "BLOCK" /\ e.run = i /\ e.start >= run
        <4>1. req[r].resolved \in SUBSET Plans /\ run \in 0 .. MaxTime
          BY DEF TypeOK, Request
        <4>2. i \in RunIds /\ "BLOCK" \in Kinds
          BY DEF FreshRuns, Kinds
        <4> HIDE DEF run
        <4>3. QED
          BY <4>1, <4>2, PlacedType
      <3>4. /\ txn'.active = i /\ txn'.failure = NoFailure /\ txn'.plans = db.plans
            /\ txn'.rows = Cleared(db.rows, "BLOCK", run) \cup PlacedAt("BLOCK", i, starts)
            /\ txn'.runs = [db.runs EXCEPT ![i] = NewCalendarRun("SUCCESS", run, "SOLVED")]
        BY <2>0, <3>1 DEF TypeOK, Database
      <3>5. i \in FreshRuns(db) /\ \A e \in db.rows : e.run # i
        BY <2>0, FreshOwnsNothing
      <3>6. Staged(db, txn', {"BLOCK"}, run)
        BY <3>3, <3>4, <3>5 DEF Staged, Cleared
      <3>7. StageInv(r)'
        BY <2>0, <3>2, <3>4, <3>6 DEF StageInv
      <3>8. QED
        BY <2>0, <3>2, <3>7, PublicationMoved DEF Publishing
    <2>4. QED
      BY <1>5, <2>1, <2>2, <2>3 DEF AssignBlocks
  <1>6. ASSUME NEW r \in Requests, ResolveTasks(r) PROVE PublicationInv'
    <2>0. /\ owner = r /\ owner' = owner /\ db' = db /\ txn' = txn
          /\ req[r].pc = "resolveTasks"
      BY <1>6 DEF ResolveTasks, Holds
    <2>1. StageInv(r)
      BY <2>0 DEF PublicationInv
    <2>2. /\ req'[r].pc \in {"rollback", "tasks"} /\ req'[r].run = req[r].run
          /\ \A q \in Requests \ {r} : req'[q] = req[q]
      BY <1>6 DEF ResolveTasks, FailPipeline, TypeOK, Request
    <2>3. StageInv(r)'
      <3>1. NoFailure.reason # "FREE_TIME"
        BY NoneAssumption DEF NoFailure, Reasons
      <3>2. QED
        BY <2>0, <2>1, <2>2, <3>1 DEF StageInv
    <2>4. QED
      BY <2>0, <2>2, <2>3, PublicationMoved DEF Publishing
  <1>7. ASSUME NEW r \in Requests, AssignTasks(r) PROVE PublicationInv'
    <2>0. /\ owner = r /\ owner' = owner /\ db' = db /\ txn.plans = db.plans
          /\ Staged(db, txn, {"BLOCK"}, req[r].run)
      BY <1>7 DEF AssignTasks, Holds, PublicationInv, StageInv
    <2>1. CASE TasksRefused(r)
      <3>1. txn'.plans = txn.plans /\ txn'.failure.reason = "PRECONDITION"
        BY <2>1 DEF TasksRefused, Failed, TypeOK, Database
      <3>2. req'[r].pc = "rollback" /\ \A q \in Requests \ {r} : req'[q] = req[q]
        BY <2>1, Moved DEF TasksRefused
      <3>3. StageInv(r)'
        BY <2>0, <3>1, <3>2 DEF StageInv
      <3>4. QED
        BY <2>0, <3>2, <3>3, PublicationMoved DEF Publishing
    <2>2. CASE TasksUnsolved(r)
      <3>1. txn'.plans = txn.plans /\ txn'.failure.reason = "ASSIGNMENT"
        BY <2>2 DEF TasksUnsolved, Failed, TypeOK, Database
      <3>2. req'[r].pc = "rollback" /\ \A q \in Requests \ {r} : req'[q] = req[q]
        BY <2>2, Moved DEF TasksUnsolved
      <3>3. StageInv(r)'
        BY <2>0, <3>1, <3>2 DEF StageInv
      <3>4. QED
        BY <2>0, <3>2, <3>3, PublicationMoved DEF Publishing
    <2>3. CASE TasksPlaced(r)
      <3> DEFINE run == req[r].run
      <3>1. PICK starts \in HorizonStarts(req[r].resolved, run) :
              txn' = [txn EXCEPT
                        !.rows = Cleared(@, "TASK", run) \cup
                                 PlacedAt("TASK", txn.active, starts),
                        !.failure = NoFailure]
        BY <2>3 DEF TasksPlaced
      <3>2. /\ req'[r].pc = "freeTime" /\ req'[r].run = run
            /\ \A q \in Requests \ {r} : req'[q] = req[q]
        BY <2>3, Moved DEF TasksPlaced
      <3>3. \A e \in PlacedAt("TASK", txn.active, starts) :
              e.kind = "TASK" /\ e.run = txn.active /\ e.start >= run
        <4>1. req[r].resolved \in SUBSET Plans /\ run \in 0 .. MaxTime
          BY DEF TypeOK, Request
        <4>2. txn.active \in RunIds /\ "TASK" \in Kinds
          BY <2>0 DEF Staged, FreshRuns, Kinds
        <4> HIDE DEF run
        <4>3. QED
          BY <4>1, <4>2, PlacedType
      <3>4. /\ txn'.active = txn.active /\ txn'.runs = txn.runs
            /\ txn'.failure = NoFailure /\ txn'.plans = txn.plans
            /\ txn'.rows = Cleared(txn.rows, "TASK", run) \cup
                            PlacedAt("TASK", txn.active, starts)
        BY <3>1 DEF TypeOK, Database
      <3>5. Staged(db, txn', {"BLOCK"} \cup {"TASK"}, run)
        BY <2>0, <3>3, <3>4, StagedNext
      <3>6. Staged(db, txn', {"BLOCK", "TASK"}, run)
        <4>1. {"BLOCK"} \cup {"TASK"} = {"BLOCK", "TASK"}
          OBVIOUS
        <4>2. QED
          BY <3>5, <4>1
      <3>7. StageInv(r)'
        BY <2>0, <3>2, <3>4, <3>6 DEF StageInv
      <3>8. QED
        BY <2>0, <3>2, <3>7, PublicationMoved DEF Publishing
    <2>4. QED
      BY <1>7, <2>1, <2>2, <2>3 DEF AssignTasks
  <1>8. ASSUME NEW r \in Requests, AssignFreeTime(r) PROVE PublicationInv'
    <2> DEFINE run == req[r].run
    <2>0. /\ owner = r /\ owner' = owner /\ db' = db /\ txn.plans = db.plans
          /\ Staged(db, txn, {"BLOCK", "TASK"}, run) /\ txn.failure = NoFailure
      BY <1>8 DEF AssignFreeTime, Holds, PublicationInv, StageInv
    <2>1. /\ req'[r].pc = "commit" /\ req'[r].run = run
          /\ \A q \in Requests \ {r} : req'[q] = req[q]
      BY <1>8, Moved DEF AssignFreeTime
    <2>2. ASSUME NEW placed, txn'.rows = Cleared(txn.rows, "FREE_TIME", run) \cup placed,
                 txn'.active = txn.active, txn'.runs = txn.runs,
                 \A e \in placed : e.kind = "FREE_TIME" /\ e.run = txn.active /\ e.start >= run
          PROVE  Staged(db, txn', Kinds, run)
      <3>1. Staged(db, txn', {"BLOCK", "TASK"} \cup {"FREE_TIME"}, run)
        BY <2>0, <2>2, StagedNext
      <3>2. {"BLOCK", "TASK"} \cup {"FREE_TIME"} = Kinds
        BY DEF Kinds
      <3>3. QED
        BY <3>1, <3>2
    <2>3. CASE FreeTimeFailed(r)
      <3>1. /\ txn'.rows = Cleared(txn.rows, "FREE_TIME", run) \cup {}
            /\ txn'.active = txn.active /\ txn'.runs = txn.runs
            /\ txn'.plans = txn.plans /\ txn'.failure = Failed("FREE_TIME")
        <4>0. txn' = [txn EXCEPT !.rows = Cleared(txn.rows, "FREE_TIME", run),
                                 !.failure = Failed("FREE_TIME")]
          BY <2>3 DEF FreeTimeFailed
        <4>1. txn'.rows = Cleared(txn.rows, "FREE_TIME", run)
          <5>1. txn \in Database
            BY DEF TypeOK
          <5>2. QED
            BY <4>0, <5>1, UpdateFields
        <4>2. /\ txn'.active = txn.active /\ txn'.runs = txn.runs
              /\ txn'.plans = txn.plans /\ txn'.failure = Failed("FREE_TIME")
          BY <2>3 DEF FreeTimeFailed, TypeOK, Database
        <4>3. QED
          BY <4>1, <4>2
      <3>2. Staged(db, txn', Kinds, run)
        <4>1. PICK none : none = {}
          OBVIOUS
        <4>2. /\ txn'.rows = Cleared(txn.rows, "FREE_TIME", run) \cup none
              /\ \A e \in none : e.kind = "FREE_TIME" /\ e.run = txn.active /\ e.start >= run
          BY <3>1, <4>1
        <4> HIDE DEF run
        <4>3. QED
          BY <2>2, <3>1, <4>2
      <3>3. PartialFailure(txn')
        <4>1. txn'.failure.reason = "FREE_TIME" /\ txn'.failure.failed
          BY <3>1 DEF Failed
        <4>2. txn'.failure.at # None
          BY <3>1, NoneAssumption, HorizonAssumption DEF Failed, TypeOK, Time
        <4>3. \A e \in txn'.rows : e.kind = "FREE_TIME" => e.run # txn'.active
          BY <2>0, <3>1 DEF Staged, Cleared
        <4>4. QED
          BY <4>1, <4>2, <4>3 DEF PartialFailure
      <3>4. StageInv(r)'
        BY <2>0, <2>1, <3>1, <3>2, <3>3 DEF StageInv
      <3>5. QED
        BY <2>0, <2>1, <3>4, PublicationMoved DEF Publishing
    <2>4. CASE FreeTimePlaced(r)
      <3>0. PICK activities \in SUBSET Activities :
              \E windows \in [activities -> FreeTimeWindows(txn, run)] :
                txn' = [txn EXCEPT !.rows = Cleared(@, "FREE_TIME", run)
                                            \cup FreeTimeAt(txn.active, windows)]
        BY <2>4 DEF FreeTimePlaced
      <3>1. PICK windows \in [activities -> FreeTimeWindows(txn, run)] :
              txn' = [txn EXCEPT !.rows = Cleared(@, "FREE_TIME", run)
                                          \cup FreeTimeAt(txn.active, windows)]
        BY <3>0
      <3>2. \A e \in FreeTimeAt(txn.active, windows) :
              e.kind = "FREE_TIME" /\ e.run = txn.active /\ e.start >= run
        <4>1. txn.active \in RunIds /\ run \in 0 .. MaxTime
          BY <2>0 DEF Staged, FreshRuns, TypeOK, Request
        <4> HIDE DEF run
        <4>2. QED
          BY <4>1, FreeTimeType
      <3>3. /\ txn'.rows = Cleared(txn.rows, "FREE_TIME", run)
                            \cup FreeTimeAt(txn.active, windows)
            /\ txn'.active = txn.active /\ txn'.runs = txn.runs
            /\ txn'.plans = txn.plans /\ txn'.failure = txn.failure
        BY <3>1 DEF TypeOK, Database
      <3>4. Staged(db, txn', Kinds, run)
        BY <2>2, <3>2, <3>3
      <3>5. StageInv(r)'
        BY <2>0, <2>1, <3>3, <3>4 DEF StageInv
      <3>6. QED
        BY <2>0, <2>1, <3>5, PublicationMoved DEF Publishing
    <2>5. QED
      BY <1>8, <2>3, <2>4 DEF AssignFreeTime
  <1>9. ASSUME NEW r \in Requests, CommitPublication(r) PROVE PublicationInv'
    <2>1. req'[r].pc = "idle" /\ \A q \in Requests \ {r} : req'[q] = req[q]
      BY <1>9 DEF CommitPublication, Release, Idle, TypeOK
    <2>2. QED
      BY <1>9, <2>1, PublicationEnded DEF CommitPublication, Holds, Release, Publishing
  <1>10. ASSUME NEW r \in Requests, RollBack(r) PROVE PublicationInv'
    <2>1. req'[r].pc = "idle" /\ \A q \in Requests \ {r} : req'[q] = req[q]
      BY <1>10 DEF RollBack, Release, Idle, TypeOK
    <2>2. QED
      BY <1>10, <2>1, PublicationEnded DEF RollBack, Holds, Release, Publishing
  <1>11. ASSUME NEW r \in Requests, Abandon(r) PROVE PublicationInv'
    <2>1. req'[r].pc = "idle" /\ \A q \in Requests \ {r} : req'[q] = req[q]
      BY <1>11 DEF Abandon, Idle, TypeOK
    <2>2. CASE owner = r
      BY <1>11, <2>1, <2>2, PublicationEnded DEF Abandon, Publishing
    <2>3. CASE owner # r
      BY <1>11, <2>1, <2>3, PublicationKept DEF Abandon, Publishing
    <2>4. QED
      BY <2>2, <2>3
  <1>12. ASSUME NEW p \in Plans, DeletePlan(p) PROVE PublicationInv'
    BY <1>12, NoneAssumption DEF DeletePlan, PublicationInv
  <1>13. CASE Tick
    BY <1>13 DEF Tick, PublicationInv, StageInv, PartialFailure
  <1>14. CASE UNCHANGED vars
    BY <1>14 DEF vars, PublicationInv, StageInv, PartialFailure
  <1>15. QED
    BY <1>1, <1>2, <1>3, <1>4, <1>5, <1>6, <1>7, <1>8, <1>9, <1>10, <1>11, <1>12, <1>13, <1>14
    DEF Next, Step

-----------------------------------------------------------------------------
(* What the committed database promises, preserved by every step.          *)

\* Only three actions write the committed database in a way a reader of the
\* schedule sees; everything else leaves it as it is.
LEMMA CommittedStep ==
    ASSUME TypeOK, PublicationInv, [Next]_vars
    PROVE  \/ UNCHANGED db
           \/ \E r \in Requests : Preflight(r) /\ db' = [db EXCEPT !.failure = Failed("PRECONDITION")]
           \/ \E r \in Requests : CommitPublication(r)
           \/ \E r \in Requests : RollBack(r)
           \/ \E p \in Plans : DeletePlan(p)
  BY DEF Next, Step, StartRefresh, ResolveBlocks, Preflight, BeginPublication, AssignBlocks,
         ResolveTasks, AssignTasks, AssignFreeTime, Abandon, Tick, vars

\* The database a publication commits.
LEMMA CommitStaged ==
    ASSUME TypeOK, PublicationInv, NEW r \in Requests, CommitPublication(r)
    PROVE  /\ Staged(db, db', Kinds, req[r].run)
           /\ db'.failure = NoFailure \/ PartialFailure(db')
  BY DEF CommitPublication, Holds, PublicationInv, StageInv

\* The database a rolled-back publication leaves: only its failure columns and
\* at most one more FAILED run differ from what was there before.
LEMMA RollBackChanges ==
    ASSUME TypeOK, PublicationInv, NEW r \in Requests, RollBack(r)
    PROVE  /\ db'.rows = db.rows /\ db'.active = db.active /\ db'.plans = db.plans
           /\ db'.failure = Failed(RecordedReason(r))
           /\ RecordedReason(r) \in Reasons \ {"FREE_TIME"}
           /\ \/ db'.runs = db.runs
              \/ \E i \in FreshRuns(db), status \in SolverStatus \ {"SOLVED"} :
                    db'.runs = [db.runs EXCEPT ![i] =
                                  NewCalendarRun("FAILED", req[r].run, status)]
  <1>1. RecordedReason(r) \in Reasons \ {"FREE_TIME"}
    BY DEF RollBack, Holds, PublicationInv, StageInv, RecordedReason, TypeOK, Database,
           Failure, Reasons
  <1>2. CASE req[r].attempt = None
    BY <1>1, <1>2 DEF RollBack, RolledBack, TypeOK, Database
  <1>3. CASE req[r].attempt # None
    <2>1. PICK i \in FreshRuns(db) :
            db' = [RolledBack(r) EXCEPT
                     !.runs[i] = NewCalendarRun("FAILED", req[r].run, RecordedStatus(r))]
      BY <1>3 DEF RollBack
    <2>2. RecordedStatus(r) \in SolverStatus \ {"SOLVED"}
      BY <1>3 DEF RecordedStatus, TypeOK, Request, SolverStatus
    <2>3. /\ RolledBack(r).rows = db.rows /\ RolledBack(r).active = db.active
          /\ RolledBack(r).plans = db.plans /\ RolledBack(r).runs = db.runs
          /\ RolledBack(r).failure = Failed(RecordedReason(r))
          /\ RolledBack(r) \in [plans : SUBSET Plans, rows : SUBSET Row,
                                runs : [RunIds -> CalendarRun],
                                active : RunIds \cup {None},
                                failure : {Failed(RecordedReason(r))}]
      BY DEF RolledBack, TypeOK, Database
    <2>4. QED
      BY <1>1, <2>1, <2>2, <2>3
  <1>4. QED
    BY <1>2, <1>3

\* A published database satisfies what a reader is told, whatever was there.
LEMMA StagedTruth ==
    ASSUME NEW d, NEW t, NEW run, Staged(d, t, Kinds, run),
           d.runs \in [RunIds -> CalendarRun],
           t.failure = NoFailure \/ PartialFailure(t),
           \A i \in RunIds : d.runs[i].status = "FAILED" => d.runs[i].solver # "SOLVED",
           \A e \in d.rows : e.run \in RunIds /\ d.runs[e.run].status = "SUCCESS",
           \A e \in t.rows : e.run \in RunIds
    PROVE  /\ t.runs[t.active].status = "SUCCESS" /\ t.runs[t.active].solver = "SOLVED"
           /\ t.runs[t.active].startedAt = run
           /\ \A i \in RunIds : t.runs[i].status = "FAILED" => t.runs[i].solver # "SOLVED"
           /\ \A e \in t.rows : t.runs[e.run].status = "SUCCESS"
           /\ t.failure.failed <=> t.failure.reason # None
           /\ t.failure.failed <=> t.failure.at # None
           /\ t.failure.reason = "FREE_TIME" =>
                 \A e \in t.rows : e.kind = "FREE_TIME" => e.run # t.active
  <1>1. /\ t.active \in RunIds
        /\ t.runs = [d.runs EXCEPT ![t.active] = NewCalendarRun("SUCCESS", run, "SOLVED")]
    BY DEF Staged, FreshRuns
  <1>2. /\ t.runs[t.active].status = "SUCCESS" /\ t.runs[t.active].solver = "SOLVED"
        /\ t.runs[t.active].startedAt = run
        /\ \A i \in RunIds \ {t.active} : t.runs[i] = d.runs[i]
    BY <1>1 DEF NewCalendarRun
  <1>3. \A i \in RunIds : t.runs[i].status = "FAILED" => t.runs[i].solver # "SOLVED"
    BY <1>2
  <1>4. \A e \in t.rows : t.runs[e.run].status = "SUCCESS"
    <2>1. \A e \in t.rows : e.run # t.active => e \in d.rows
      BY DEF Staged
    <2>2. QED
      BY <1>2, <2>1
  <1>5. NoFailure.reason = None /\ NoFailure.at = None /\ ~NoFailure.failed
    BY DEF NoFailure
  <1>6. /\ t.failure.failed <=> t.failure.reason # None
        /\ t.failure.failed <=> t.failure.at # None
        /\ t.failure.reason = "FREE_TIME" =>
              \A e \in t.rows : e.kind = "FREE_TIME" => e.run # t.active
    BY <1>5, NoneAssumption DEF PartialFailure, Reasons
  <1>7. QED
    BY <1>2, <1>3, <1>4, <1>6

\* An empty calendar tells no lies.
LEMMA StateTruthInit == Init => StateTellsTruth
  <1> SUFFICES ASSUME Init PROVE StateTellsTruth
    OBVIOUS
  <1>1. /\ db.active = None /\ db.rows = {} /\ db.failure = NoFailure
        /\ db.runs = [i \in RunIds |-> NoRow]
    BY DEF Init, EmptyDatabase
  <1>2. \A i \in RunIds : db.runs[i].status = "ABSENT"
    BY <1>1 DEF NoRow
  <1>3. NoFailure.reason = None /\ NoFailure.at = None /\ ~NoFailure.failed
    BY DEF NoFailure
  <1>4. QED
    BY <1>1, <1>2, <1>3, NoneAssumption DEF StateTellsTruth, Reasons

\* Each of the writes CommittedStep names keeps StateTellsTruth.
LEMMA StateTruthStep ==
    TypeOK /\ PublicationInv /\ StateTellsTruth /\ [Next]_vars => StateTellsTruth'
  <1> SUFFICES ASSUME TypeOK, PublicationInv, StateTellsTruth, [Next]_vars
               PROVE  StateTellsTruth'
    OBVIOUS
  <1> USE NoneAssumption
  <1>0. db.active \in RunIds \cup {None} /\ \A e \in db.rows : e.run \in RunIds
    BY DEF TypeOK, Database, Row
  <1>f. ASSUME NEW reason \in Reasons
        PROVE  /\ Failed(reason).failed /\ Failed(reason).reason = reason
               /\ Failed(reason).reason # None /\ Failed(reason).at # None
    BY <1>f, HorizonAssumption DEF Failed, TypeOK, Time
  <1>1. CASE UNCHANGED db
    BY <1>1 DEF StateTellsTruth
  <1>2. ASSUME db' = [db EXCEPT !.failure = Failed("PRECONDITION")]
        PROVE  StateTellsTruth'
    <2>1. /\ db'.rows = db.rows /\ db'.active = db.active /\ db'.runs = db.runs
          /\ db'.failure = Failed("PRECONDITION")
      BY <1>2 DEF TypeOK, Database
    <2>2. QED
      BY <2>1, <1>f DEF StateTellsTruth, Reasons
  <1>3. ASSUME NEW r \in Requests, CommitPublication(r)
        PROVE  StateTellsTruth'
    <2>1. Staged(db, db', Kinds, req[r].run) /\ (db'.failure = NoFailure \/ PartialFailure(db'))
      BY <1>3, CommitStaged
    <2>2. db.runs \in [RunIds -> CalendarRun] /\ \A e \in db'.rows : e.run \in RunIds
      BY <1>3 DEF CommitPublication, TypeOK, Database, Row
    <2>3. QED
      BY <1>0, <2>1, <2>2, StagedTruth DEF StateTellsTruth
  <1>4. ASSUME NEW r \in Requests, RollBack(r)
        PROVE  StateTellsTruth'
    <2>1. /\ db'.rows = db.rows /\ db'.active = db.active
          /\ db'.failure = Failed(RecordedReason(r))
          /\ RecordedReason(r) \in Reasons \ {"FREE_TIME"}
      BY <1>4, RollBackChanges
    <2>2. CASE db'.runs = db.runs
      BY <1>f, <2>1, <2>2 DEF StateTellsTruth
    <2>3. CASE \E i \in FreshRuns(db), status \in SolverStatus \ {"SOLVED"} :
                  db'.runs = [db.runs EXCEPT ![i] =
                                NewCalendarRun("FAILED", req[r].run, status)]
      <3>1. PICK i \in FreshRuns(db), status \in SolverStatus \ {"SOLVED"} :
                  db'.runs = [db.runs EXCEPT ![i] =
                                NewCalendarRun("FAILED", req[r].run, status)]
        BY <2>3
      <3>2. /\ db'.runs[i].status = "FAILED" /\ db'.runs[i].solver # "SOLVED"
            /\ \A j \in RunIds \ {i} : db'.runs[j] = db.runs[j]
            /\ db.runs[i].status = "ABSENT"
        BY <3>1 DEF NewCalendarRun, FreshRuns, TypeOK, Database
      <3>3. i # db.active /\ \A e \in db.rows : e.run # i
        BY <3>2 DEF StateTellsTruth, FreshRuns
      <3>4. QED
        BY <1>0, <1>f, <2>1, <3>2, <3>3 DEF StateTellsTruth
    <2>4. QED
      BY <1>4, <2>2, <2>3, RollBackChanges
  <1>5. ASSUME NEW p \in Plans, DeletePlan(p)
        PROVE  StateTellsTruth'
    <2>1. /\ db'.rows \subseteq db.rows /\ db'.active = db.active
          /\ db'.runs = db.runs /\ db'.failure = db.failure
      BY <1>5 DEF DeletePlan, TypeOK, Database
    <2>2. QED
      BY <2>1 DEF StateTellsTruth
  <1>6. QED
    BY <1>1, <1>2, <1>3, <1>4, <1>5, CommittedStep

\* The writes CommittedStep names keep FutureBelongsToActive.
LEMMA FutureBelongsStep ==
    TypeOK /\ PublicationInv /\ StateTellsTruth /\ FutureBelongsToActive /\ [Next]_vars
        => FutureBelongsToActive'
  <1> SUFFICES ASSUME TypeOK, PublicationInv, StateTellsTruth, FutureBelongsToActive,
                      [Next]_vars
               PROVE  FutureBelongsToActive'
    OBVIOUS
  <1> USE NoneAssumption
  <1>0. db.active \in RunIds \cup {None}
    BY DEF TypeOK, Database
  <1>1. CASE UNCHANGED db
    BY <1>1 DEF FutureBelongsToActive
  <1>2. ASSUME db' = [db EXCEPT !.failure = Failed("PRECONDITION")]
        PROVE  FutureBelongsToActive'
    <2>1. db'.rows = db.rows /\ db'.active = db.active /\ db'.runs = db.runs
      BY <1>2 DEF TypeOK, Database
    <2>2. QED
      BY <2>1 DEF FutureBelongsToActive
  <1>3. ASSUME NEW r \in Requests, CommitPublication(r)
        PROVE  FutureBelongsToActive'
    <2>1. /\ db'.active \in RunIds
          /\ db'.runs = [db.runs EXCEPT ![db'.active] =
                            NewCalendarRun("SUCCESS", req[r].run, "SOLVED")]
          /\ {e \in db'.rows : e.run # db'.active} =
                {e \in db.rows : ~(e.kind \in Kinds /\ e.start >= req[r].run)}
      BY <1>3, CommitStaged DEF Staged, FreshRuns
    <2>2. db'.runs[db'.active].startedAt = req[r].run
      BY <2>1 DEF NewCalendarRun, TypeOK, Database
    <2>3. \A e \in db.rows : e.kind \in Kinds
      BY DEF TypeOK, Database, Row
    <2>4. QED
      BY <2>1, <2>2, <2>3 DEF FutureBelongsToActive
  <1>4. ASSUME NEW r \in Requests, RollBack(r)
        PROVE  FutureBelongsToActive'
    <2>1. db'.rows = db.rows /\ db'.active = db.active
      BY <1>4, RollBackChanges
    <2>2. db.active # None => db'.runs[db.active] = db.runs[db.active]
      <3>1. CASE db'.runs = db.runs
        BY <3>1
      <3>2. CASE \E i \in FreshRuns(db), status \in SolverStatus \ {"SOLVED"} :
                    db'.runs = [db.runs EXCEPT ![i] =
                                  NewCalendarRun("FAILED", req[r].run, status)]
        BY <1>0, <3>2 DEF FreshRuns, StateTellsTruth, TypeOK, Database
      <3>3. QED
        BY <1>4, <3>1, <3>2, RollBackChanges
    <2>3. QED
      BY <2>1, <2>2 DEF FutureBelongsToActive
  <1>5. ASSUME NEW p \in Plans, DeletePlan(p)
        PROVE  FutureBelongsToActive'
    <2>1. db'.rows \subseteq db.rows /\ db'.active = db.active /\ db'.runs = db.runs
      BY <1>5 DEF DeletePlan, TypeOK, Database
    <2>2. QED
      BY <2>1 DEF FutureBelongsToActive
  <1>6. QED
    BY <1>1, <1>2, <1>3, <1>4, <1>5, CommittedStep

-----------------------------------------------------------------------------
(* No task shares a minute with another task or a block.                   *)

\* Placing blocks clear of the past tasks leaves those clear of every block.
LEMMA BlocksExclusive ==
    ASSUME NEW rows \in SUBSET Row, NEW run, NEW placed,
           Exclusive(rows, rows),
           \A e \in placed : e.kind = "BLOCK",
           Disjoint(placed, {e \in rows : e.kind = "TASK" /\ e.start < run})
    PROVE  LET new == Cleared(rows, "BLOCK", run) \cup placed
           IN  Exclusive({e \in new : e.start < run}, new)
  <1> DEFINE new == Cleared(rows, "BLOCK", run) \cup placed
  <1> SUFFICES ASSUME NEW e \in new, NEW f \in new, e.start < run,
                      e.kind = "TASK", f.kind # "FREE_TIME", e # f
               PROVE  ~Overlaps(e, f)
    BY DEF Exclusive
  <1>1. e \in rows
    BY DEF Cleared
  <1>2. CASE f \in rows
    BY <1>1, <1>2 DEF Exclusive
  <1>3. CASE f \in placed
    BY <1>1, <1>3 DEF Disjoint, Overlaps
  <1>4. QED
    BY <1>2, <1>3 DEF Cleared

\* Placing tasks clear of the past tasks, of one another and of every block
\* leaves every task clear.
LEMMA TasksPlacedExclusive ==
    ASSUME NEW rows \in SUBSET Row, NEW run, NEW placed,
           Exclusive({e \in rows : e.start < run}, rows),
           \A e \in placed : e.kind = "TASK",
           Disjoint(placed, {e \in rows : e.kind = "BLOCK" \/ (e.kind = "TASK" /\ e.start < run)}),
           \A e \in rows : e.start >= run \/ e.start < run
    PROVE  LET new == Cleared(rows, "TASK", run) \cup placed
           IN  Exclusive(new, new)
  <1> DEFINE new == Cleared(rows, "TASK", run) \cup placed
  <1> SUFFICES ASSUME NEW e \in new, NEW f \in new,
                      e.kind = "TASK", f.kind # "FREE_TIME", e # f
               PROVE  ~Overlaps(e, f)
    BY DEF Exclusive
  <1>0. \A g \in new : \/ g \in placed
                       \/ g \in rows /\ (g.kind = "TASK" => g.start < run)
    BY DEF Cleared
  <1>1. \A g \in rows : g.kind \in {"BLOCK", "TASK", "FREE_TIME"}
    BY DEF Row, Kinds
  <1>2. CASE e \in rows /\ e.start < run /\ f \in rows
    BY <1>2 DEF Exclusive
  <1>3. CASE e \in rows /\ e.start < run /\ f \in placed
    BY <1>3 DEF Disjoint, Overlaps
  <1>4. CASE e \in placed /\ f \in rows /\ (f.kind = "TASK" => f.start < run)
    BY <1>1, <1>4 DEF Disjoint
  <1>5. CASE e \in placed /\ f \in placed
    BY <1>5 DEF Disjoint
  <1>6. QED
    BY <1>0, <1>2, <1>3, <1>4, <1>5

\* Rows that differ only in free time are as exclusive.
LEMMA FreeTimeExclusive ==
    ASSUME NEW rows, NEW new, Exclusive(rows, rows),
           \A e \in new : e \in rows \/ e.kind = "FREE_TIME"
    PROVE  Exclusive(new, new)
  BY DEF Exclusive

\* Stages of other requests, and what happens outside publications, keep it.
LEMMA ExclusiveKept ==
    ASSUME StagedExclusive, UNCHANGED <<owner, txn>>,
           \A q \in Requests : owner = q =>
               req'[q].run = req[q].run /\ req'[q].pc \in {req[q].pc, "rollback"}
    PROVE  StagedExclusive'
  BY DEF StagedExclusive

\* A stage of the publication itself.
LEMMA ExclusiveMoved ==
    ASSUME NEW r \in Requests, owner' = r,
           req'[r].pc \in {"resolveTasks", "tasks"} =>
              Exclusive({e \in txn'.rows : e.start < req'[r].run}, txn'.rows),
           req'[r].pc \in {"freeTime", "commit"} => Exclusive(txn'.rows, txn'.rows)
    PROVE  StagedExclusive'
  BY DEF StagedExclusive

\* Every stage hands the next one rows whose tasks are as clear as it needs.
LEMMA StagedExclusiveStep ==
    TypeOK /\ PublicationInv /\ FutureBelongsToActive /\ TasksExclusive /\ StagedExclusive
        /\ [Next]_vars => StagedExclusive'
  <1> SUFFICES ASSUME TypeOK, PublicationInv, FutureBelongsToActive, TasksExclusive,
                      StagedExclusive, [Next]_vars
               PROVE  StagedExclusive'
    OBVIOUS
  <1>1. ASSUME NEW r \in Requests, owner # r, UNCHANGED <<owner, txn>>,
               \A q \in Requests \ {r} : req'[q] = req[q]
        PROVE  StagedExclusive'
    BY <1>1, ExclusiveKept
  <1>2. ASSUME NEW r \in Requests,
               StartRefresh(r) \/ ResolveBlocks(r) \/ Preflight(r)
        PROVE  StagedExclusive'
    <2>1. owner # r
      BY <1>2 DEF StartRefresh, ResolveBlocks, Preflight, PublicationInv, Publishing
    <2>2. UNCHANGED <<owner, txn>> /\ \A q \in Requests \ {r} : req'[q] = req[q]
      BY <1>2 DEF StartRefresh, ResolveBlocks, Preflight, GoTo, TypeOK
    <2>3. QED
      BY <1>1, <2>1, <2>2
  <1>3. ASSUME NEW r \in Requests, BeginPublication(r)
        PROVE  StagedExclusive'
    <2>1. owner' = r /\ req'[r].pc = "blocks"
      BY <1>3, Moved DEF BeginPublication
    <2>2. QED
      BY <2>1, ExclusiveMoved
  <1>4. ASSUME NEW r \in Requests, AssignBlocks(r)
        PROVE  StagedExclusive'
    <2>0. owner' = r /\ txn = db /\ owner = r
      BY <1>4 DEF AssignBlocks, Holds, PublicationInv, StageInv
    <2>1. CASE BlocksRefused(r) \/ BlocksUnsolved(r)
      <3>1. req'[r].pc = "rollback"
        BY <2>1, Moved DEF BlocksRefused, BlocksUnsolved
      <3>2. QED
        BY <2>0, <3>1, ExclusiveMoved
    <2>2. CASE BlocksPlaced(r)
      <3> DEFINE run == req[r].run
      <3>1. PICK i \in FreshRuns(txn), starts \in HorizonStarts(req[r].resolved, run) :
              /\ Disjoint(PlacedAt("BLOCK", i, starts), PastTasks(txn, run))
              /\ txn' = [txn EXCEPT
                        !.rows = Cleared(@, "BLOCK", run) \cup PlacedAt("BLOCK", i, starts),
                        !.runs[i] = NewCalendarRun("SUCCESS", run, "SOLVED"),
                        !.active = i,
                        !.failure = NoFailure]
        BY <2>2 DEF BlocksPlaced
      <3>2. req'[r].pc = "resolveTasks" /\ req'[r].run = run
        BY <2>2, Moved DEF BlocksPlaced
      <3>3. \A e \in PlacedAt("BLOCK", i, starts) : e.kind = "BLOCK"
        BY DEF PlacedAt
      <3>4. txn'.rows = Cleared(txn.rows, "BLOCK", run) \cup PlacedAt("BLOCK", i, starts)
        BY <3>1 DEF TypeOK, Database
      <3>5. PastTasks(txn, run) = {e \in txn.rows : e.kind = "TASK" /\ e.start < run}
        BY <2>0 DEF PastTasks, FutureBelongsToActive
      <3>6. txn.rows \in SUBSET Row /\ Exclusive(txn.rows, txn.rows)
        BY <2>0 DEF TasksExclusive, TypeOK, Database
      <3>7. Exclusive({e \in txn'.rows : e.start < run}, txn'.rows)
        <4> HIDE DEF run
        <4>1. QED
          BY <3>1, <3>3, <3>4, <3>5, <3>6, BlocksExclusive
      <3>8. QED
        BY <2>0, <3>2, <3>7, ExclusiveMoved
    <2>3. QED
      BY <1>4, <2>1, <2>2 DEF AssignBlocks
  <1>5. ASSUME NEW r \in Requests, ResolveTasks(r)
        PROVE  StagedExclusive'
    <2>1. /\ owner' = r /\ owner = r /\ txn' = txn /\ req[r].pc = "resolveTasks"
          /\ req'[r].pc \in {"rollback", "tasks"} /\ req'[r].run = req[r].run
      BY <1>5 DEF ResolveTasks, Holds, FailPipeline, TypeOK, Request
    <2>2. Exclusive({e \in txn.rows : e.start < req[r].run}, txn.rows)
      BY <2>1 DEF StagedExclusive
    <2>3. QED
      BY <2>1, <2>2, ExclusiveMoved
  <1>6. ASSUME NEW r \in Requests, AssignTasks(r)
        PROVE  StagedExclusive'
    <2>0. /\ owner' = r /\ owner = r
          /\ Staged(db, txn, {"BLOCK"}, req[r].run)
          /\ Exclusive({e \in txn.rows : e.start < req[r].run}, txn.rows)
      BY <1>6 DEF AssignTasks, Holds, PublicationInv, StageInv, StagedExclusive
    <2>1. CASE TasksRefused(r) \/ TasksUnsolved(r)
      <3>1. req'[r].pc = "rollback"
        BY <2>1, Moved DEF TasksRefused, TasksUnsolved
      <3>2. QED
        BY <2>0, <3>1, ExclusiveMoved
    <2>2. CASE TasksPlaced(r)
      <3> DEFINE run == req[r].run
      <3>1. PICK starts \in HorizonStarts(req[r].resolved, run) :
              /\ Disjoint(PlacedAt("TASK", txn.active, starts), TaskOccupied(txn, run))
              /\ txn' = [txn EXCEPT
                        !.rows = Cleared(@, "TASK", run) \cup
                                 PlacedAt("TASK", txn.active, starts),
                        !.failure = NoFailure]
        BY <2>2 DEF TasksPlaced
      <3>2. req'[r].pc = "freeTime"
        BY <2>2, Moved DEF TasksPlaced
      <3>3. \A e \in PlacedAt("TASK", txn.active, starts) : e.kind = "TASK"
        BY DEF PlacedAt
      <3>4. txn'.rows = Cleared(txn.rows, "TASK", run) \cup PlacedAt("TASK", txn.active, starts)
        BY <3>1 DEF TypeOK, Database
      <3>5. /\ txn.rows \in SUBSET Row /\ run \in Nat
            /\ \A e \in txn.rows : e.start \in Nat
        BY HorizonAssumption DEF TypeOK, Database, Row, Request, Time
      <3>6. \A e \in txn.rows : e.kind = "BLOCK" => e.start < run \/ e.run = txn.active
        BY <2>0, <3>5 DEF Staged
      <3>7. TaskOccupied(txn, run) =
              {e \in txn.rows : e.kind = "BLOCK" \/ (e.kind = "TASK" /\ e.start < run)}
        <4>1. txn.active # None
          BY <2>0, NoneAssumption DEF Staged, FreshRuns
        <4>2. QED
          BY <3>6, <4>1 DEF TaskOccupied, PastTasks, OccupyingBlocks
      <3>8. \A e \in txn.rows : e.start >= run \/ e.start < run
        BY <3>5
      <3>9. Exclusive(txn'.rows, txn'.rows)
        <4>1. Exclusive({e \in txn.rows : e.start < run}, txn.rows)
          BY <2>0
        <4> HIDE DEF run
        <4>2. QED
          BY <3>1, <3>3, <3>4, <3>5, <3>7, <3>8, <4>1, TasksPlacedExclusive
      <3>10. QED
        BY <2>0, <3>2, <3>9, ExclusiveMoved
    <2>3. QED
      BY <1>6, <2>1, <2>2 DEF AssignTasks
  <1>7. ASSUME NEW r \in Requests, AssignFreeTime(r)
        PROVE  StagedExclusive'
    <2>0. owner' = r /\ owner = r /\ req'[r].pc = "commit" /\ Exclusive(txn.rows, txn.rows)
      BY <1>7, Moved DEF AssignFreeTime, Holds, StagedExclusive
    <2>1. \A e \in txn'.rows : e \in txn.rows \/ e.kind = "FREE_TIME"
      <3>1. CASE FreeTimeFailed(r)
        <4>1. PICK failure, rows : /\ txn' = [txn EXCEPT !.rows = rows, !.failure = failure]
                                   /\ rows \subseteq txn.rows
          BY <3>1, ClearedSubset DEF FreeTimeFailed
        <4>2. txn \in Database
          BY DEF TypeOK
        <4>3. QED
          BY <4>1, <4>2, UpdateFields
      <3>2. CASE FreeTimePlaced(r)
        <4>1. PICK activities \in SUBSET Activities :
                \E windows \in [activities -> FreeTimeWindows(txn, req[r].run)] :
                  txn' = [txn EXCEPT !.rows = Cleared(@, "FREE_TIME", req[r].run)
                                              \cup FreeTimeAt(txn.active, windows)]
          BY <3>2 DEF FreeTimePlaced
        <4>2. PICK windows \in [activities -> FreeTimeWindows(txn, req[r].run)] :
                txn' = [txn EXCEPT !.rows = Cleared(@, "FREE_TIME", req[r].run)
                                            \cup FreeTimeAt(txn.active, windows)]
          BY <4>1
        <4>3. txn'.rows = Cleared(txn.rows, "FREE_TIME", req[r].run)
                          \cup FreeTimeAt(txn.active, windows)
          BY <4>2 DEF TypeOK, Database
        <4>4. \A e \in FreeTimeAt(txn.active, windows) : e.kind = "FREE_TIME"
          BY DEF FreeTimeAt
        <4>5. QED
          BY <4>3, <4>4, ClearedSubset
      <3>3. QED
        BY <1>7, <3>1, <3>2 DEF AssignFreeTime
    <2>2. QED
      BY <2>0, <2>1, FreeTimeExclusive, ExclusiveMoved
  <1>8. ASSUME NEW r \in Requests, CommitPublication(r) \/ RollBack(r)
        PROVE  StagedExclusive'
    BY <1>8, NoneAssumption DEF CommitPublication, RollBack, Release, StagedExclusive
  <1>9. ASSUME NEW r \in Requests, Abandon(r)
        PROVE  StagedExclusive'
    <2>1. CASE owner = r
      BY <1>9, <2>1, NoneAssumption DEF Abandon, StagedExclusive
    <2>2. CASE owner # r
      BY <1>9, <2>2, <1>1 DEF Abandon, TypeOK
    <2>3. QED
      BY <2>1, <2>2
  <1>10. ASSUME NEW p \in Plans, DeletePlan(p)
         PROVE  StagedExclusive'
    BY <1>10, ExclusiveKept DEF DeletePlan
  <1>11. CASE Tick \/ UNCHANGED vars
    BY <1>11, ExclusiveKept DEF Tick, vars
  <1>12. QED
    BY <1>2, <1>3, <1>4, <1>5, <1>6, <1>7, <1>8, <1>9, <1>10, <1>11 DEF Next, Step

\* Only a commit adds rows to the committed database, and it adds exclusive ones.
LEMMA TasksExclusiveStep ==
    TypeOK /\ PublicationInv /\ TasksExclusive /\ StagedExclusive /\ [Next]_vars
        => TasksExclusive'
  <1> SUFFICES ASSUME TypeOK, PublicationInv, TasksExclusive, StagedExclusive, [Next]_vars
               PROVE  TasksExclusive'
    OBVIOUS
  <1>1. ASSUME db'.rows \subseteq db.rows PROVE TasksExclusive'
    BY <1>1 DEF TasksExclusive, Exclusive
  <1>2. ASSUME db' = [db EXCEPT !.failure = Failed("PRECONDITION")]
        PROVE  TasksExclusive'
    <2>1. db'.rows = db.rows
      BY <1>2 DEF TypeOK, Database
    <2>2. QED
      BY <1>1, <2>1
  <1>3. ASSUME NEW r \in Requests, CommitPublication(r)
        PROVE  TasksExclusive'
    BY <1>3 DEF CommitPublication, Holds, StagedExclusive, TasksExclusive
  <1>4. ASSUME NEW r \in Requests, RollBack(r)
        PROVE  TasksExclusive'
    BY <1>4, <1>1, RollBackChanges
  <1>5. ASSUME NEW p \in Plans, DeletePlan(p)
        PROVE  TasksExclusive'
    <2>1. db'.rows \subseteq db.rows
      BY <1>5 DEF DeletePlan, TypeOK, Database
    <2>2. QED
      BY <1>1, <2>1
  <1>6. CASE UNCHANGED db
    BY <1>1, <1>6
  <1>7. QED
    BY <1>2, <1>3, <1>4, <1>5, <1>6, CommittedStep

-----------------------------------------------------------------------------
(* The inductive invariant, and what follows from it.                      *)

IInv == /\ TypeOK /\ PublicationInv /\ StateTellsTruth
        /\ FutureBelongsToActive /\ TasksExclusive /\ StagedExclusive

\* IInv holds of the empty calendar, every step keeps it, so it always holds.
THEOREM Invariance == Spec => []IInv
  <1>1. Init => IInv
    <2> SUFFICES ASSUME Init PROVE IInv
      OBVIOUS
    <2>1. TypeOK /\ StateTellsTruth
      BY TypeInit, StateTruthInit
    <2>2. db.rows = {} /\ owner = None
      BY DEF Init, EmptyDatabase
    <2>3. PublicationInv
      BY PublicationInit
    <2>4. FutureBelongsToActive /\ TasksExclusive /\ StagedExclusive
      BY <2>2, NoneAssumption DEF FutureBelongsToActive, TasksExclusive, Exclusive,
                                  StagedExclusive
    <2>5. QED
      BY <2>1, <2>3, <2>4 DEF IInv
  <1>2. IInv /\ [Next]_vars => IInv'
    BY TypeStep, PublicationStep, StateTruthStep, FutureBelongsStep, StagedExclusiveStep,
       TasksExclusiveStep DEF IInv
  <1>3. QED
    BY <1>1, <1>2, PTL DEF Spec

\* No refresh persists a row outside its horizon, or of a run or plan that is not.
THEOREM TypeCorrect == Spec => []TypeOK
  <1>1. IInv => TypeOK
    BY DEF IInv
  <1>2. QED
    BY <1>1, Invariance, PTL

\* A publication in progress is the committed database plus whole stages of one
\* run, and the only one (the write lock and the savepoint of refresh_schedule).
THEOREM PublicationCorrect == Spec => []PublicationInv
  <1>1. IInv => PublicationInv
    BY DEF IInv
  <1>2. QED
    BY <1>1, Invariance, PTL

\* The run and failure columns agree with the rows, after any failure or retry.
THEOREM StateCorrect == Spec => []StateTellsTruth
  <1>1. IInv => StateTellsTruth
    BY DEF IInv
  <1>2. QED
    BY <1>1, Invariance, PTL

\* No refresh, however late it publishes, leaves a stale row in the future.
THEOREM FutureCorrect == Spec => []FutureBelongsToActive
  <1>1. IInv => FutureBelongsToActive
    BY DEF IInv
  <1>2. QED
    BY <1>1, Invariance, PTL

\* No task ever shares a minute with another task or a block, across all runs.
THEOREM TasksCorrect == Spec => []TasksExclusive
  <1>1. IInv => TasksExclusive
    BY DEF IInv
  <1>2. QED
    BY <1>1, Invariance, PTL

\* A refresh that fails before free time leaves the published schedule as it was.
THEOREM FailureCorrect == Spec => FailureKeepsSchedule
  <1> DEFINE A == db'.failure.failed /\ db'.failure # db.failure
                     /\ db'.failure.reason # "FREE_TIME"
                       => db'.rows = db.rows /\ db'.active = db.active
  <1>1. IInv /\ [Next]_vars => [A]_vars
    <2> SUFFICES ASSUME IInv, [Next]_vars PROVE A
      OBVIOUS
    <2>0. TypeOK /\ PublicationInv
      BY DEF IInv
    <2>1. CASE UNCHANGED db
      BY <2>1
    <2>2. CASE db' = [db EXCEPT !.failure = Failed("PRECONDITION")]
      BY <2>0, <2>2 DEF TypeOK, Database
    <2>3. ASSUME NEW r \in Requests, CommitPublication(r) PROVE A
      BY <2>0, <2>3, CommitStaged DEF PartialFailure, NoFailure
    <2>4. ASSUME NEW r \in Requests, RollBack(r) PROVE A
      BY <2>0, <2>4, RollBackChanges
    <2>5. ASSUME NEW p \in Plans, DeletePlan(p) PROVE A
      BY <2>0, <2>5 DEF DeletePlan, TypeOK, Database
    <2>6. QED
      BY <2>0, <2>1, <2>2, <2>3, <2>4, <2>5, CommittedStep
  <1>2. QED
    BY <1>1, Invariance, PTL DEF Spec, FailureKeepsSchedule

-----------------------------------------------------------------------------
(* The refinement: what is committed behaves as PublishedSchedule says.    *)

\* A run id that is filled in is the one run that changes.
LEMMA RunAdded ==
    ASSUME TypeOK, NEW i \in FreshRuns(db), NEW status, NEW run, NEW solver,
           db'.runs = [db.runs EXCEPT ![i] = NewCalendarRun(status, run, solver)]
    PROVE  Published!AddsRun(i, status) /\ db'.runs[i].startedAt = run
  BY DEF Published!AddsRun, FreshRuns, NewCalendarRun, TypeOK, Database

\* What readers see of the detailed system is a behaviour of the abstract one:
\* a commit publishes a whole run, a rollback or a refusal records a failure,
\* a plan deletion removes a plan, and all other steps are invisible.
THEOREM Refinement == Spec => AtomicPublication
  <1>1. Init => Published!Init
    BY DEF Init, Published!Init, EmptyDatabase, NoRow, NoFailure
  <1>2. IInv /\ [Next]_vars => [Published!Next]_(Published!pub)
    <2> SUFFICES ASSUME IInv, [Next]_vars
                 PROVE  Published!Next \/ UNCHANGED Published!pub
      OBVIOUS
    <2>0. TypeOK /\ PublicationInv
      BY DEF IInv
    <2>1. CASE UNCHANGED db
      BY <2>1 DEF Published!pub
    <2>2. CASE db' = [db EXCEPT !.failure = Failed("PRECONDITION")]
      <3>1. /\ db'.rows = db.rows /\ db'.active = db.active /\ db'.runs = db.runs
            /\ db'.failure = Failed("PRECONDITION")
        BY <2>0, <2>2 DEF TypeOK, Database
      <3>2. Published!RecordFailure
        BY <3>1 DEF Published!RecordFailure, Failed
      <3>3. QED
        BY <3>2 DEF Published!Next
    <2>3. ASSUME NEW r \in Requests, CommitPublication(r)
          PROVE  Published!Next
      <3>1. /\ Staged(db, db', Kinds, req[r].run)
            /\ db'.failure = NoFailure \/ PartialFailure(db')
        BY <2>0, <2>3, CommitStaged
      <3>2. /\ db'.active \in FreshRuns(db)
            /\ db'.runs = [db.runs EXCEPT ![db'.active] =
                             NewCalendarRun("SUCCESS", req[r].run, "SOLVED")]
        BY <3>1 DEF Staged
      <3>3. /\ Published!AddsRun(db'.active, "SUCCESS")
            /\ db'.runs[db'.active].startedAt = req[r].run
        BY <2>0, <3>2, RunAdded
      <3>4. {e \in db'.rows : e.run # db'.active} = {e \in db.rows : e.start < req[r].run}
        <4>1. \A e \in db.rows : e.kind \in Kinds /\ e.start \in Nat
          BY <2>0, HorizonAssumption DEF TypeOK, Database, Row, Time
        <4>2. req[r].run \in Nat
          BY <2>0, HorizonAssumption DEF TypeOK, Request
        <4>3. QED
          BY <3>1, <4>1, <4>2 DEF Staged
      <3>5. \A e \in db'.rows : e.run = db'.active => e.start >= req[r].run
        BY <3>1 DEF Staged
      <3>6. db'.failure.failed =>
              /\ db'.failure.reason = "FREE_TIME"
              /\ \A e \in db'.rows : e.run = db'.active => e.kind # "FREE_TIME"
        BY <3>1 DEF NoFailure, PartialFailure
      <3>7. Published!Publish(db'.active)
        BY <3>3, <3>4, <3>5, <3>6 DEF Published!Publish
      <3>8. db'.active \in RunIds
        BY <3>2 DEF FreshRuns
      <3>9. QED
        BY <3>7, <3>8 DEF Published!Next
    <2>4. ASSUME NEW r \in Requests, RollBack(r)
          PROVE  Published!Next
      <3>1. /\ db'.rows = db.rows /\ db'.active = db.active
            /\ db'.failure.failed /\ db'.failure.reason # "FREE_TIME"
        <4>1. \A reason : Failed(reason).failed /\ Failed(reason).reason = reason
          BY DEF Failed
        <4>2. /\ db'.rows = db.rows /\ db'.active = db.active
              /\ db'.failure = Failed(RecordedReason(r)) /\ RecordedReason(r) # "FREE_TIME"
          BY <2>0, <2>4, RollBackChanges
        <4>3. QED
          BY <4>1, <4>2
      <3>2. db'.runs = db.runs \/ \E i \in RunIds : Published!AddsRun(i, "FAILED")
        <4>1. CASE \E i \in FreshRuns(db), status \in SolverStatus \ {"SOLVED"} :
                      db'.runs = [db.runs EXCEPT ![i] =
                                    NewCalendarRun("FAILED", req[r].run, status)]
          <5>1. PICK i \in FreshRuns(db), status \in SolverStatus \ {"SOLVED"} :
                      db'.runs = [db.runs EXCEPT ![i] =
                                    NewCalendarRun("FAILED", req[r].run, status)]
            BY <4>1
          <5>2. Published!AddsRun(i, "FAILED")
            BY <2>0, <5>1, RunAdded
          <5>3. QED
            BY <5>2 DEF FreshRuns
        <4>2. QED
          BY <2>0, <2>4, <4>1, RollBackChanges
      <3>3. Published!RecordFailure
        BY <3>1, <3>2 DEF Published!RecordFailure
      <3>4. QED
        BY <3>3 DEF Published!Next
    <2>5. ASSUME NEW p \in Plans, DeletePlan(p)
          PROVE  Published!Next
      <3>1. /\ db'.rows = {e \in db.rows : e.kind = "FREE_TIME" \/ e.source # p}
            /\ db'.active = db.active /\ db'.runs = db.runs /\ db'.failure = db.failure
        BY <2>0, <2>5 DEF DeletePlan, TypeOK, Database
      <3>2. Published!RemovePlan(p)
        BY <3>1 DEF Published!RemovePlan
      <3>3. QED
        BY <3>2 DEF Published!Next
    <2>6. QED
      BY <2>0, <2>1, <2>2, <2>3, <2>4, <2>5, CommittedStep
  <1>3. QED
    BY <1>1, <1>2, Invariance, PTL DEF Spec, AtomicPublication, Published!Spec
=============================================================================
