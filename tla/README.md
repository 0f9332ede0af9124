# Verification of calendar_backend

TLA+ modules for `calendar_backend/`, a planner that places the leaves of a plan
tree (tasks and blocks) and free-time activities on a calendar. The whole state is
one SQLite database; every HTTP request works on it through a session of its own,
and requests run concurrently in a thread pool. There is no in-memory state, no
queue and no background job, so what is hard is what happens *between* the
statements of one request: other requests, failures half-way, and rows that an
earlier run of the scheduler left behind.

## 1. Inventory

| Part | State | Operations | Interacts with | Hard behaviour | What makes it correct |
|---|---|---|---|---|---|
| Refresh orchestration (`orchestration/refresh_schedule.py`) | `calendar_run`, `active_calendar_state`, calendar rows | `refresh_schedule` | resolution, the three assignment services | three phases in one savepoint, failure recorded after rollback, concurrent refreshes with different `run_started_at` | readers see whole publications or the previous one |
| Block / task assignment (`services/*_assignment.py`, `domain/*assignment.py`) | `block_calendar_entry`, `calendar_entry` | `assign_blocks`, `assign_tasks` | solvers, `calendar_state` | rows of earlier runs that stay, as occupied time | no task shares a minute with a task or block, across runs |
| Free-time assignment (`services/free_time_assignment.py`, `domain/free_time.py`) | `calendar_entry` | `assign_free_time` | tasks just placed, families, week buckets | its failure is partial; rounding of quotas | old free time never outlives the tasks it was made for |
| Resolution (`domain/resolution.py`, `domain/block_resolution.py`) | none | `resolve_blocks`, `resolve_tasks` | plan tree, constraints, prerequisites | inherited windows, templates, repetitions | every schedulable leaf exactly once |
| Solvers (`scheduling/`) | none | decompose, exact, heuristic, validate | assignment services | independent components; greedy order against precedence | a result is a valid full assignment |
| Timers (`services/timer.py`) | none | `complete_timer` | calendar reads, notifications | read, look up, insert in three statements | idempotent per (timer, window end) |
| Notification queue (`services/notification_queue.py`) | `notification_queue_item` | enqueue, dismiss | foreign keys to plans and calendar rows | rows it refers to are deleted by others | a notification leads somewhere; a dismissed one stays away |
| Plan tree (`services/plan_tree.py`, `services/goal.py`) | `plan` and subtypes, sibling order, prerequisites | create, move, rename, delete, link | deletion preview, repetitions, calendar | cascades in waves, renumbering, detaching linked clones | INV-* rules of `domain/invariant_validation.py` |
| Prerequisites (`domain/prerequisites.py`) | `plan_prerequisite` | add, remove, expand | plan tree, template traces | validated outside the write | the graph is a DAG |
| Repetitions (`services/repetition*.py`) | instances, skipped occurrences, receipts | generate, commit, refresh | templates, horizon, plan tree | retries, double generation, template sync with detached clones | each occurrence at most once; linked clones equal the template |
| Free-time activities and drafts | activities, prerequisites | create, enable, delete, commit draft | plan deletion | fractions must sum to one over many rows | enabled fractions sum to one |
| Deletion preview (`deletion/`, `domain/deletion.py`) | none | preview, rank | plan tree | closure over critical siblings, shells, clones | the preview is what is deleted |
| Settings, horizon, constraints, leaf fields | one row or a few | upsert, update | resolution | little | validated values |
| Reads, DTOs, HTTP, migrations, tools | none | - | - | none | not modelled |

## 2. Modules

| Module | Models | State and actions |
|---|---|---|
| `PublishedSchedule` | the promise to a reader of the calendar | rows, runs, active run, failure columns; publish, record a failure, remove a plan |
| `ScheduleRefresh` | `refresh_schedule` and everything it calls | committed and uncommitted database, the writer, where each request is; one action per stage |
| `TimerNotifications` | `complete_timer`, `enqueue_timer_completion`, `dismiss`, against refreshes and deletions | calendar rows, notifications, where each completion is |
| `PlanPrerequisites` | prerequisites, and the wiring of a repetition instance's clones | plans, detached clones, prerequisites, what each request has read; validate, insert, remove, edit, create, generate, refresh |
| `PlanTree` | creating, ordering, moving, changing and deleting plans, the clones a refresh keeps in step with their template, the validation of the stored tree | plan table, instances, skipped occurrences, the count; one action per service call |
| `RepetitionGeneration` | previews and their confirmation, direct generation, settings, horizon, refresh of the instances | repetition, instances, omissions, receipts, horizon, and what clients, connections and requests in flight hold |
| `PlanResolution` | the tree as leaves with priority paths, prerequisites as an order of leaves | tree, sibling order, what is generated and completed, prerequisites; one action per edit between two resolutions |
| `AssignmentSolver` | how a refresh places its plans: block families, decomposition, exact and greedy solving, validation | windows, union-find groups, where sweep and solvers are, segments placed; one action per union, window swept, component solved or given up, plan placed |
| `FreeTimePlanner` | where an activity may go, how much it gets, how gaps are filled | operators only |
| `FreeTimeActivities` | editing activities, drafts, plan deletions, the fill of the calendar; uses `FreeTimePlanner` | activities, plans, free-time rows, edits validated but not written, the fill loaded but not written |
| `..._proofs` | the theorems about the module of that name | |
| `MC...` | TLC instances | |

How they compose. `ScheduleRefresh` takes a resolution as any subset of the plans, a
solution as any valid placement and free time as any rows that fit; `PlanResolution`,
`AssignmentSolver` and `FreeTimePlanner` are those three in detail. It implements
`PublishedSchedule`, and that is why `TimerNotifications` and `FreeTimeActivities` may
take a publication as one step. A repetition is split by what its parts have in common:
`RepetitionGeneration` has which instances exist, `PlanTree` their plans and sibling
order, `PlanPrerequisites` their prerequisites.

### ScheduleRefresh

`db` is the committed database and `txn` the uncommitted one of the request in
`owner`. A request resolves blocks and checks the prerequisite clones in
transactions of its own (`ResolveBlocks`, `Preflight`), begins the publication
(`BeginPublication`), runs the phases (`AssignBlocks`, `ResolveTasks`,
`AssignTasks`, `AssignFreeTime`), and commits or rolls back to the savepoint
(`CommitPublication`, `RollBack`). The publication is opened with `BEGIN` and reads
before it writes; SQLite then either lets it become the one writer or answers
"database is locked", which is `Abandon`. `Abandon` is also every exception and the
death of the process. `DeletePlan` is a plan deletion of another request.

A solver is abstracted to "any placement inside the horizon that overlaps neither
occupied time nor itself, or a failure with any status": what the properties need
from it is what `validate_full_assignment` checks before anything is persisted.
The three deletes (`start_time >= run_started_at`), the rows each phase loads as
occupied, the run id they are inserted with, and the failure columns are exact.

`PublishedSchedule` has no requests, stages or savepoints. `AtomicPublication` is the
refinement: `db` restricted to what readers see takes only its steps.

### TimerNotifications

A completion is three steps, `FindTimer`, `CheckExisting` and `Insert`, because
SQLite runs the two reads outside any transaction. A refresh is one step here,
`Publish`, which is what `AtomicPublication` justifies. Foreign keys are enforced
(`db/session.py`), so an insert or a delete that breaks one raises and changes
nothing: `Insert`, `Publish` and `DeletePlan` say so.

### PlanPrerequisites

Two writers of the same rows. A user's request checks a prerequisite against the
traces of its two plans and against cycles, and then inserts it. The wiring of clones
(`_sync_clone_prerequisite_refs`) copies what the template's plans wait for to the
linked clones of an instance and checks neither. `links` holds both the
`plan_prerequisite` rows and the `immediate_prerequisite_plan_id` columns, by kind;
`detached` is the clones whose `clone_status` is `DETACHED`.

Adding a prerequisite is `ValidateLink`, then `InsertLink`: the reads come before the
request's first write, and SQLite runs reads outside a transaction
(`db/session.py`). A repetition refresh is `ReadInstance`, then `RefreshInstance`:
template, clones and the root clone's status are read first; the first write then
takes the lock and the other clones' status is read again, so the root's is the only
stale one. `Generate` is one step because it begins with a write, the no-op
`UPDATE` of the repetition. Editing, creating and removing read only what their
own write changes. A request that fails changes nothing and has no action, except where
it has read before: `InsertLink` on a duplicate key, and `RefreshInstance` on a
missing clone (`CloneMissing`) or a broken table constraint (`ConstraintBroken`).

The plan tree is a constant: `Parent` gives every plan id its place, and `plans` grows
by `CreateChild`, `Generate` and `RefreshInstance`. Scope: one repetition with one
instance, no repetition inside the template, no deletion. Under this scope a clone has
its template plan's trace, which is what `TraceAssumption` says.

### AssignmentSolver

One refresh, from the resolution of its windows to the last validation; blocks first,
then tasks. `Resolve` computes the windows of the phase (for tasks, narrowed by block
families from the rows of blocks) and the edges whose two ends are in the phase.
`JoinEdge` and `SweepInterval` are the two loops of `_connected_components`; `group` is
`find` after path compression. `SolveExact`, `ProveInfeasible` and `GiveUpExact` are
what `solve_exact_component` may answer for a component; `PlaceGreedily` is one
turn of the heuristic's loop, and `Validate` ends the phase. `ScheduleRefresh` takes the
result of all this as any valid placement, which is what `MergedValid` justifies.

Where detail is left out:

- Minutes count from `run_started_at`; rows of the past appear as far as they reach
  into the run.
- The objectives, hints and diagnoses rank or explain placements and change none of the
  constraints. The greedy solver's earliest placement is any placement within its
  bounds, and its order, by priority and id, is any order. Both allow more than the
  code does, so what passes holds for the code.
- CP-SAT is a library: it finds any solution of its hard constraints, proves that
  there is none, or gives up (time limit, model size guard). `max_segments` is taken not to
  bind, and an indivisible plan is one whose `Chunk` is its `Duration`.
- Base windows are inputs; how they are inherited and intersected is not modelled.

### PlanTree

`plan` is the plan table with parent, bucket, sort order and clone status; the clone of
template plan `t` in occurrence `i` is `<<t, i>>`, so `cloned_from_id` needs no column.
Edits of the tree come one at a time here (section 5 says what happens otherwise), so an
operation is one step: `Create`, `OrderChildren`, `Move`, `MoveInstance`, `Change` (any edit of a linked clone's own
fields), `Grow` (the count of a generated repetition), `Delete`, and `Refresh`, which is
free and may come at any time. `Impact` is the fixpoint of the four rules that preview
and deletion share; `Delete` happens when `Deletable` does, that is, when the waves of
`DELETE` statements meet no surviving clone that still refers to a deleted plan.
`Detach`, `Renumbered`, `Cut` and `Omitted` are what the handler does besides removing
rows. `Followed` is the template sync for instances that exist, `Appended` the new ones.
`MasterTreeValid` is `validate_master_tree_graph` as far as it looks at the tree.
`Serial` is the order of the ids, which decides between equal numbers. `unwanted` is a
history variable for `DeletedStaysDeleted`: the linked clones that users deleted, as long
as their goal and their template's plan stay. Scope: one generated
repetition in `MANUAL_COUNT` mode whose template holds no repetition.

### RepetitionGeneration

A client (outside `src/`) reads a preview, confirms it under an idempotency key, and,
when no answer comes, sends the same request again or one with other omissions; `sent`
and `answers` are the connections, which may lose either. `commit_generation` begins with
a write, so `Commit`, `Repeat`, `TooLate`, `Stale` and `NotFound`, its five outcomes, are
one step each; its guards are in the order of the code, the receipt first.
`update_settings` and a refresh read before they write: `ReadSettings` and
`WriteSettings`, `ReadInstances` and `AddInstances`, with anything in between. Only the
columns an edit changes are written (`Merged`). A template is a version here: the snapshot
compares its whole content, and nothing else in this module looks inside. `Indices` is
`compute_instance_indices`, with time in any unit; an open range
ends at the stored horizon, or at the preview's own.

### PlanResolution

A resolution is one transaction that only reads, so it is operators over the state, and
the actions are the edits between two of them. `Walk` is the recursive walk of the two
collectors: `Walk[p][path][n]` is what is found from `p` with a path and the counter that
runs through the whole walk, `Visits` the loop over the children or instances of `p` and
`Visit` its body. `Emitted` is the list that comes out, and `Collected` the places in it of
one kind, because the task and the block collector walk and count alike. `LeavesBelow`, `Reached`, `LeafEdges` and `ImmediateEdges` are the
second traversal, in `domain/prerequisites.py`. `Edges` is what the solvers get. Leaves
are taken for valid: windows that are malformed and how they are inherited are left out.

### FreeTimePlanner and FreeTimeActivities

Times are minutes, and a window is the set of its minutes. `Eligible` is what an
activity may use in one local week, `Quotas` the minutes its share is worth (a share
without a finite decimal expansion may lose a minute, which is a choice), `Place` the
passes over the gaps. An edit is `Validate`, reading outside any transaction, then
`Write`; `stale` is a history variable with the edits whose validation another write has
overtaken. A draft (`ApplyDraft`) validates under the write lock after all its edits. A
fill is `LoadFill` and `WriteFill`, two transactions; inside a refresh they are two
savepoints under one lock, so that what comes between them here is what a caller of the
service alone may meet. `DeletePlans` is what a deletion leaves of the activities:
`AfterPlans`. Nothing is assumed of published blocks but that they have families: a new
block may lie over the rest of one in progress, which the block phase does not load as
occupied time, and the run's calendar has such blocks. What is planned there follows the
rule for blocks an activity lists, which are offered whole (`PlannedWhereAllowed`).
No constraint of the database stands behind the validation of shares and minimum
lengths, so `TypeOK` does not promise them; `EditsKeepValid` says when they hold.

## 3. Runs

| Run | Expect | Shows |
|---|---|---|
| `refresh` | pass | two concurrent refreshes with two run ids, one block, one task, one activity: `FutureBelongsToActive`, `TasksExclusive`, `StateTellsTruth`, `PublicationInv`, `FailureKeepsSchedule`, and the refinement `AtomicPublication` |
| `timers` | pass | one completion at a time against two refreshes, deletions and dismissals: `NoticesLead`, `CompletionIdempotent`, `DismissedForGood` |
| `prerequisites` | pass | one request at a time, any number of them: `TracesMatch`, `OneClonePerNode`, `OnlyRefreshClosesCycles`, `DetachedKept`, `InstancesStandAlone` |
| `solver` | pass | one block and three tasks from 2048 starts: `ComponentsExact`, `GreedyValid`, `MergedValid`, `InfeasibleProven` |
| `free_time` | pass | two activities, drafts, deletions of plans and fills in every order: `ReferencesHold`, `EditsKeepValid`, `EvidenceKept`, `OnlyUnblockedPlanned`, `PlannedWhereAllowed`, `ShareGiven` |
| `plan_tree` | pass | three user operations of any kind and any number of refreshes: `TreeValid`, `OccurrencesOnce`, `DeletedStaysDeleted`, `RefreshSettles`, `OrderKept`, `CriticalTogether` |
| `generation` | pass | one key and one request in flight against losses, retries, edits, generation and deletions: `OccurrencesDense`, `AnswersTrue`, `AsPreviewed`, and the liveness property `SuccessTold` |
| `resolution` | pass | five trees in two orders: `LeavesAgree`, `PriorityIsTreeOrder`, `ReadyOnly`, `ProgressFreesOnly` |
| `notified_plan` | violation | a plan with a notification, even a dismissed one, cannot be deleted |
| `false_infeasible` | violation | a block in progress is placed over the rest of its own row, and the exact solver then calls every task infeasible |
| `duplicate_order` | violation | an edit of a linked child, a reorder of the template and a refresh give two children of a goal one number, and the stored tree is refused |
| `twin_refresh` | violation | two refreshes of one repetition at once generate one occurrence twice |

Type invariants are proved; `free_time` and `plan_tree` also check theirs, which there
hold by more than shape: no planned row reaches past the horizon, and exactly the
children of goals have a place in a bucket.

Bounds.

- `refresh`: two requests are enough for one to overtake another, and two run ids for a
  row of an older run to be left behind; a horizon of 3 with durations of 2 leaves room
  for one plan beside another in progress, and the clock's two values give two different
  `run_started_at`. The proofs lift all of these.
- `timers`: one entry of each kind, two runs (one replaces the other) and two
  notifications (one to repeat).
- `prerequisites`: nine plan ids: the master plan, the repetition and its template (root,
  a goal below it and a task below that, created later) and their clones, two of them for
  the task so that it could be cloned twice; three prerequisites when a user adds one, the
  length of a cycle that goes through the template, a clone and back (the wiring of clones
  may go beyond the bound).
- `solver`: three tasks are the fewest for which a sweep that compares neighbours would
  lose a pair (a long window, a short one inside it, one that meets only the long one) and
  for which the heuristic can place the middle of a chain last; one of them is divisible.
  The starts combine overlapping, touching, nested and split windows, chains, crossing and
  circular edges, rows in progress of a block or a task, and refreshes without the
  heuristic. `false_infeasible` has starts of its own, chosen so that no objective could
  avoid the violation.
- `free_time`: eight minutes in two local weeks, a default block in progress with a
  free-time block and a block of a third family over it, and a task; shares of thirds, so that rounding matters; the edits and drafts
  listed in `MCFreeTimeActivities` pass through sums that are wrong on the way. One edit in
  flight, which others overtake.
- `plan_tree`: a template with a nested goal over a critical task, and a plain task beside
  it, two occurrences and one plan to create. Three operations are what the violation in
  `duplicate_order` needs at least, and refreshes are not counted.
- `generation`: two settings that grow with the horizon and one that does not, two
  templates, two horizon lengths, a clock of two values, two edits. One key: keys do not
  share a receipt, and a second client's success is the first one's `TooLate`, which
  `GenerateInstances` brings about as well. The proofs lift these.
- `resolution`: eleven plans in five trees: nested goals, a repetition inside a goal, in an
  instance of another and in a template; prerequisites between plans of every kind, at
  most two, so that one waits for another.

`CHECK_DEADLOCK FALSE` is set for `timers`, `notified_plan`, `generation`,
`twin_refresh`, `plan_tree`, `duplicate_order` and `free_time` because there the bounds on
time, runs, edits or deletions stop the system, and for the solver runs because a refresh
that has placed its plans or failed is over.

Fairness. Only `RepetitionGeneration` states any, and it is about the client and the
network, not about the server: a client that waits keeps sending (weak fairness of
`Send`), and what is sent again and again is handled, and answers that come again and
again arrive (strong fairness of `Handle` and `Receive`, because `Lose` may take any one
of them). Nothing is assumed of users' edits, refreshes or the clock. A refresh of the
schedule is a client's request that nothing in the code retries, so no other module
has a liveness property.

## 4. Proofs

`ScheduleRefresh_proofs`, for any number of requests, runs, plans and activities and
any horizon, from the assumptions `HorizonAssumption`, `DurationAssumption`,
`LeavesAssumption` and `NoneAssumption`. The committed properties say nothing about
what a publication in progress has staged, so none is inductive. The invariant `IInv`
adds `PublicationInv`: a request is in a publishing stage iff it is the owner, and its
`txn` is `db` with the kinds of row staged so far replaced, from `run_started_at` on, by
rows of one new run; and `StagedExclusive`: what the next phase keeps is clear of
what was placed. Type correctness needs `PublicationInv` too, because task and
free-time rows carry `txn.active`. From `IInv`: `TypeCorrect`, `PublicationCorrect`,
`StateCorrect`, `FutureCorrect`, `TasksCorrect`, `FailureCorrect` (an action property)
and `Refinement`, which shows each step to be a step of `PublishedSchedule` or a
stutter: only `CommitPublication`, `RollBack`, a failing `Preflight` and `DeletePlan`
change what readers see.

`TimerNotifications_proofs`: `NoticesCorrect` for any number of clients;
`IdempotentOneAtATime` and `DismissedOneAtATime` under the assumption that at most one
completion is in flight, which they need (section 5).

`PlanPrerequisites_proofs`: `TypeCorrect` and `TracesCorrect` for any number of
requests at once, any plan tree and any instance. The invariant `IInv` adds `SessionInv`
to them: a link about to be inserted joins existing plans of equal trace, and what
a refresh has read still exists. Traces stay equal under `Rewire` because both ends of a copy
are either the original plan or a clone of it. With one request in flight
(`OneAtATime`), `AloneInv` adds that what was read is current (`ReadsCurrent`) and that
clones exist only once the root clone does (`RootFirst`); from it follow
`OneCloneOneAtATime`, `DagOneAtATime`, `StandAloneOneAtATime` and `DetachedOneAtATime`. That a generation closes
no cycle is the step of `DagOneAtATime` with content: the new clones had no
prerequisite and nobody waited for them, so a set of plans that cannot be
left after the generation projects, clone by clone, to one of the template before it.
`DetachedOneAtATime` rests on `ForestAssumption`, that parents form a tree: a new clone
below a detached plan would have a parent that is new and below it too, and no set of
plans holds the parents of all its members.
Section 5 says what happens with two.

`AssignmentSolver_proofs`, for any plans, durations, windows, families and edges, from
`LeafAssumption`, `DurationAssumption`, `InputAssumption` and `NoneAssumption`:
`TypeCorrect`, `DecompositionCorrect`, `GreedyCorrect`, `MergeCorrect` and
`InfeasibleCorrect`. That the sweep loses no pair needs two facts about every
window it has passed (`FurthestInv`, `IslandInv`): none reaches further than `furthest`, and
each is in the component of `furthest` or ends before every window left. So a window
that overlaps any of them overlaps `furthest` and joins its component. That it joins
nothing without need (`FinestInv`) is stated over every closed set of plans. With
`PlacedInv`, placed plans are valid by themselves and within their component; plans of two
components are apart because their windows are. `InfeasibleCorrect` restricts a
solution of the phase to a component (`SolutionOfPart`). Its premise, that occupied
intervals do not overlap one another, is what `false_infeasible` shows the code not to
guarantee.

`RepetitionGeneration_proofs`, from `SettingsAssumption`, `HorizonAssumption`,
`BoundsAssumption` and `OmissionAssumption`, for any number of keys
and requests, any settings and any order of losses and retries. The domains of messages,
entries and slots (`Typed`) and the fact that nothing is stored for a repetition that is
not generated (`EmptyBefore`) give `TypeCorrect`. `AnswersCorrect` adds `Truthful`: what is
true of a success when it is made (`Made`: the ids are the ones asked for, each stored or
deleted, none from elsewhere) is kept by every later step, for the receipt, for each
answer on its way and for each entry. `PreviewsCorrect` needs `RunsPast`, that every
request was previewed at a moment up to now, so that the horizon of a confirmation which
is `Current` is a moment plus the stored duration. `DenseOneAtATime` assumes one
request in flight (`\A p, q \in Slots : p = q`), which it needs (`twin_refresh`); its
invariant adds `SlotSees`: what a refresh has read is what is stored, less what has been
deleted meanwhile. The indices of any settings are a set closed downwards, and so is
a union of such sets, which is why growing a range or a count leaves no gap.

`PlanTree_proofs`, for any plans the services start from, any number of occurrences and of
edits, from `NamesAssumption`, `BoundsAssumption`, `NoneAssumption` and `StartAssumption`.
`TreeValid` is what the code validates and far from inductive. `IInv` says how the table
hangs together: `Rooted` (one tree: a set that holds the master plan and, with a plan,
its children holds every plan), `Kinds`, `OwnFit` (what is no clone, and that only a detached
clone has children of its own), `ClonesFit` (clones hang as their templates do; under a
detached clone everything is detached), `Placed`, and beside the shape of the table
`OwnOrder` (goals outside the clones are densely numbered), `OccurrencesFit` (instances are
the occurrences whose root is there, and indices leave no gap) and `UnwantedFit` (the goal
that a deleted clone left is detached, which is why no refresh brings the clone back). Each
handler has a lemma per part it disturbs. `Below` and `Impact` are recursive functions on
sets: `ClosureExists` shows that the recursion has a solution and `ClosureIsLeast` that it
returns the least set around its argument that the step leaves alone; everything else
uses only that. Results: `TypeCorrect`, `TreeStaysValid`, `GeneratedOnce`, `StaysDeleted`,
`Settles`, `OrderIsKept`, `CriticalStayTogether`, `ImpactIsLeast`.

`FreeTimeActivities_proofs`, for any activities, plans, families, weeks, shares and
calendars, from the assumptions of the two modules. `IInv` adds to `TypeOK` and
`ReferencesHold` that a row names the activity it is labelled with or none (`Labelled`:
without it a draft could delete an activity and create it anew under a row that had
started) and that an edit in flight which is not stale still is what its validation found
(`Validated`). From it: `TypeCorrect`, `NothingDangles`, `ValidStays`, `StartedStays`. Drafts
are folds over any number of edits; `DraftKeeps` carries what one edit keeps through all.
What a fill plans is computed, not assumed: `WindowsCover` and `GapsList` (the gaps of a set
of minutes are its maximal windows, in order), `OfferFills`, `PassFills` and `PlaceFills`
(the invariant `Filling` of the nested passes: gaps only shrink, windows lie in what they
took, and a pass that places nothing finds nothing long enough), `PlaceGives`, `QuotasNat`.
`AllowedOnly` and `SharesAreGiven` are these for every survivor and week, with
`RegionAllowed` (which minutes `Eligible` offers) and `WeeksApart`. `UnblockedOnly` follows
what decides a complete plan down the tree: within one level less it is complete too.

`PlanResolution_proofs`, for any tree and any prerequisites: `CompletionRelaxes`, because
completing leaves changes neither `LeavesBelow` nor `Waits`, what is complete grows and what
is open shrinks; and `ReadyCorrect`, which needs what the recursions return: a schedulable
leaf is found from every plan above it (`LeafFound`; nothing above it is a template or a
repetition still to be generated), and `Reached` is closed under prerequisites
(`ReachedIs`, because there are finitely many plans). It rests on `TreeAssumption`: of any
set of plans one has its parent outside it. `CollectorsAgree` and `PathsFollowTree` need the
walk itself. `OrderedIs` (by ranks) says that the children are visited once each and as the
user sorted them; `WalkIs` that there is a walk at all: the steps of the recursion settle
once they have been taken as often as the tree is high (`Heights`, `StepsExist`). What is to
be shown of one walk is `Tells`: the leaves below the plan, each at a path that extends the
plan's, and of two the earlier has the smaller path and comes first for the user. `SoFar` is
the invariant of its loop: every path found so far goes on with a number below `Bound`, the
next that is given, which is the running counter for a goal and the place for an instance.
`AllClaim` carries that up the tree. Two facts make the comparison one of the two ways and
not both: paths that `Differ` do so within both (no path is the beginning of another), and no
plan is below two siblings (`SiblingsApart`, `TreeOrderOneWay`).

How recursion is reasoned about. A recursive function is a CHOOSE: its equation holds when
some function satisfies it. `Iterates`, `StepsExist`, `FoldExists`, `ClosureExists` and the
lemmas named after a function (`AboveIs`, `LeavesBelowIs`, `ReachedIs`, `WalkIs`,
`CompleteIs`) provide one, and induction is replaced by a least counterexample (`Least`, `UpTo`). The folds of the library
(`FoldLeft`, `SumFunction`) are such functions too.

Only model-checked: the liveness property `SuccessTold`, because fairness and ENABLED are
outside the prover. The four violations are TLC's.

## 5. Where the code does other than one would expect

Shown by a violated run and listed as findings: `notified_plan`, `false_infeasible`,
`duplicate_order`, `twin_refresh`. Met while modelling, and stated here without a run of
their own:

- Two completions of one timer at once both find no earlier notification and queue it
  twice. With `Clients = {c1, c2}`, `CompletionIdempotent` fails.
- Two users who add A before B and B before A at once each pass the cycle check, and the
  graph has a cycle. With two `Sessions`, `OnlyRefreshClosesCycles` fails.
- With one request at a time, a refresh can close a cycle: the template's prerequisites are
  copied to linked clones without the check (`services/repetition.py:840`).
- A template plan that depends on its own clone (the traces allow it) makes a later refresh
  insert a prerequisite of a plan on itself; a constraint refuses it, and every refresh
  fails (`services/repetition.py:844`).
- A refresh of a repetition reads the root clone's status before its first write: an edit
  that detaches the root in between is not noticed until the next refresh
  (`services/repetition.py:489`).
- `update_settings` checks what is locked before its first write; a generation in between
  lets start and interval of generated instances change (`services/repetition.py:133`).
- The enabled fractions are validated outside a transaction, and no constraint repeats the
  check: a write that another one overtook can leave any sum, or an enabled activity with a
  share of 0 (`EditsKeepValid` excludes those writes, and deletions of plans, which validate
  nothing).
- Ordering, moving and deleting read siblings before their first write takes the lock, and
  nothing in the schema keeps sort orders apart: a plan created in between leaves a gap or a
  number twice, and the stored tree is refused (`services/goal.py:352`). `PlanTree` takes
  edits one at a time; what it shows holds for them.
- A deletion of a plan in a template whose clones survive in an instance ends in an
  integrity error although the preview lists it (`services/plan_tree.py:632`).
- The windows of a task that allows block families only lie inside blocks, and the block
  rows are occupied time for the task phase: such a task never fits.
- Blocks are placed before tasks, and an edge between the two kinds is in neither phase: a
  task may be published before the block that is its prerequisite.
- Only the graph of plans is kept acyclic. A goal that waits for x, while x waits for a child
  of the goal, puts their leaves in a circle, and the phase is infeasible.
- A repetition that is not generated has no leaves and so counts as complete: what depends
  on it may be scheduled at once.
- Each free-time activity is planned against the same gaps, so rows of two activities
  overlap; and inside the blocks an activity lists, and those of free time, time is offered
  whole, whatever task lies there.
- Only tasks are occupied time for the block phase (`services/block_assignment.py:90`), and
  a refresh keeps blocks that have started: a new block may lie over the rest of a block in
  progress. Free time in the new block then lies in the old one too, also when the activity
  does not allow the old one's family.
- A linked clone that a user deletes stays deleted only as long as its goal does. When it is
  the goal's last critical child, the goal goes with it, nothing is detached for it
  (`services/plan_tree.py:504`), and a refresh recreates both where what is above the goal
  is still linked. `DeletedStaysDeleted` is about clones whose goal stays.
- An entry that runs when a refresh publishes keeps the older run's id, and reads that
  filter on the active run no longer show it (`services/calendar_read.py:65`).

## 6. Not modelled

- CP-SAT itself (a library), objectives, hints and diagnoses that only rank or explain
  placements, the ranking of suggestions for deletions.
- How windows are inherited and intersected down the tree, and the messages about malformed
  ones; edits of constraints. They are pure, per plan, and tested by example.
- Repetitions inside templates in `PlanTree` and `PlanPrerequisites` (`PlanResolution` has
  them), the copies of constraints, names and leaf settings a refresh makes, and the
  instances' own windows.
- The fields of one row that only its own validation looks at: names, durations, time
  zones, settings.
- DTOs and reads without side effects, request parsing and serialisation, migrations,
  `tools/` and `scripts/`.
- An immediate prerequisite is an edge like any other in the solver, because the code treats
  it so: section 5.3 of the design asks that the two plans touch, which nothing enforces.

What would be next: windows inherited along the tree as part of `PlanResolution`,
repetitions inside templates, and one tree shared by `PlanTree` and `RepetitionGeneration`.
