-------------------------- MODULE FreeTimeActivities --------------------------
(***************************************************************************)
(* Free-time activities: their editing one by one (services/               *)
(* free_time_activity.py) and in drafts (services/free_time_draft.py),     *)
(* what the deletion of plans does to them, and the fill of the calendar   *)
(* by a refresh (services/free_time_assignment.py) with the planner of     *)
(* FreeTimePlanner.                                                        *)
(*                                                                         *)
(* An edit reads and validates outside any database transaction and then   *)
(* writes; a draft validates what it has written, under the write lock; a  *)
(* fill loads in one transaction and writes in another, which inside a     *)
(* refresh are two savepoints under one lock.  Tasks and blocks are        *)
(* published before free time and stand still here.                        *)
(***************************************************************************)
EXTENDS FreeTimePlanner

CONSTANTS
    Ids,            \* activity ids that can be handed out
    Requests,       \* edits at work at the same time
    Shares,         \* real_fraction, in units of which Whole are 1
    Whole,
    MinimumSizes,   \* minimum_block_size_minutes
    FamilyLists,    \* allowed_block_families as stored; {} is NULL
    Sent,           \* the single edits users send
    Drafts,         \* the drafts users send: sequences of edits
    Plans, Kind, Parent, Critical, Template, Generated,   \* the plan tree, see below
    Horizon,        \* the end of the master horizon
    Moments,        \* the minutes at which requests come and refreshes run
    Calendars,      \* published tasks and blocks
    None            \* SQL NULL

\* Kind[p] is TASK, BLOCK, GOAL or REPETITION.  Critical: the critical children of
\* goals and the roots of critical instances.  Template: the plans of templates.
\* Generated: the repetitions with generated_at.
ASSUME PlanTreeAssumption ==
    /\ IsFiniteSet(Plans)
    /\ Kind \in [Plans -> {"TASK", "BLOCK", "GOAL", "REPETITION"}]
    /\ Parent \in [Plans -> Plans \cup {None}]
    /\ \A p \in Plans : Parent[p] \in Plans => Kind[Parent[p]] \in {"GOAL", "REPETITION"}
    /\ UNION {Critical, Template, Generated} \subseteq Plans
ASSUME MomentsAssumption == Horizon \in Nat /\ Moments \subseteq 0 .. Horizon
ASSUME UnitsAssumption == Whole \in Nat \ {0} /\ Shares \subseteq Nat /\ MinimumSizes \subseteq Int
ASSUME NoneAssumption == None \notin Ids \cup Plans \cup Shares \cup MinimumSizes
ASSUME FamilyListsAssumption == {} \in FamilyLists
ASSUME IdsAssumption == IsFiniteSet(Ids)
\* Nothing keeps blocks apart: only tasks are occupied time for the block phase, so a
\* new block may lie over the rest of a block in progress, of another family too.
ASSUME CalendarsAssumption == \A cal \in Calendars : \A b \in cal.blocks : b.family \in Families

VARIABLES
    activity,   \* the free_time_activity table with its prerequisites
    plans,      \* the plan table
    done,       \* the completed TASK plans
    rows,       \* the FREE_TIME rows of the calendar
    calendar,   \* the published task and block rows
    now,
    request,    \* what each edit has validated and is about to write
    stale,      \* the edits whose validation another write has overtaken
    fill        \* what the refresh has loaded and planned

vars == <<activity, plans, done, rows, calendar, now, request, stale, fill>>

Activity == [enabled : BOOLEAN, share : Shares, minimum : MinimumSizes,
             families : FamilyLists, prerequisites : SUBSET Plans]

ASSUME NullAssumption == None \notin Activity

\* label: display_label, which survives the activity.
Row == [label : Ids, source : Ids \cup {None}, start : 0 .. Horizon, end : 0 .. Horizon]

Idle == [op |-> "idle"]

Exists(acts, a) == acts[a] # None

Existing(acts) == {a \in Ids : Exists(acts, a)}

Init ==
    /\ activity = [a \in Ids |-> None]
    /\ plans = Plans
    /\ done = {}
    /\ rows = {}
    /\ calendar \in Calendars
    /\ now = 0
    /\ request = [r \in Requests |-> Idle]
    /\ stale = {}
    /\ fill = Idle

-----------------------------------------------------------------------------
(* Validation.                                                             *)

FieldsValid(x) == x.minimum >= 0 /\ (x.enabled => x.share > 0)

AllFieldsValid(acts) == \A a \in Existing(acts) : FieldsValid(acts[a])

Contributing(acts) == {a \in Existing(acts) : acts[a].enabled /\ acts[a].share > 0}

SumOver(acts, S) == SumFunction([a \in S |-> acts[a].share])

SharesValid(acts) ==
    Contributing(acts) = {} \/ SumOver(acts, Contributing(acts)) = Whole

-----------------------------------------------------------------------------
(* One edit at a time: create_activity, update_activity, set_enabled,      *)
(* add_prerequisite, remove_prerequisite, set_allowed_block_families,      *)
(* clear_allowed_block_families and delete_activity.                       *)

\* The edit e asks for, on the table as it is.  A field the edit leaves out stays.
After(acts, e) ==
    CASE e.op = "create" ->
            [acts EXCEPT ![e.id] = [enabled |-> e.enabled, share |-> e.share,
                minimum |-> e.minimum, families |-> {}, prerequisites |-> {}]]
      [] e.op = "update" ->
            [acts EXCEPT ![e.id].share = IF e.share = None THEN @ ELSE e.share,
                         ![e.id].minimum = IF e.minimum = None THEN @ ELSE e.minimum]
      [] e.op = "enable" -> [acts EXCEPT ![e.id].enabled = e.enabled]
      [] e.op = "require" -> [acts EXCEPT ![e.id].prerequisites = @ \cup {e.plan}]
      [] e.op = "release" -> [acts EXCEPT ![e.id].prerequisites = @ \ {e.plan}]
      [] e.op = "families" -> [acts EXCEPT ![e.id].families = e.families]
      [] e.op = "delete" -> [acts EXCEPT ![e.id] = None]

\* What an edit needs to find, whoever sends it.  A deletion removes the
\* prerequisites it has seen; one it has not seen keeps the activity in place.
Applies(acts, e) ==
    /\ e.op = "create" <=> ~Exists(acts, e.id)
    /\ e.op = "require" => e.plan \in plans \ acts[e.id].prerequisites
    /\ e.op = "release" => e.plan \in acts[e.id].prerequisites
    /\ e.op = "delete" => acts[e.id].prerequisites \subseteq e.seen

Saves(e) == e.op \in {"create", "update", "enable"}

\* Mutant of SumChecked: a deletion may leave any sum.
SumCheckedOnSaves(e) == Saves(e)

SumChecked(e) == Saves(e) \/ e.op = "delete"

\* Mutant of RowsAfterDelete: the rows of the past go too.
AllRowsAfterDelete(rs, a, t) == {r \in rs : r.source # a}

\* Deleting an activity removes its bookings to come and takes its name off the rest.
RowsAfterDelete(rs, a, t) ==
    {IF r.source = a THEN [r EXCEPT !.source = None] ELSE r :
        r \in {x \in rs : ~(x.source = a /\ x.start >= t)}}

Edits ==
    UNION {
        [op : {"create"}, id : Ids, enabled : BOOLEAN, share : Shares, minimum : MinimumSizes],
        [op : {"update"}, id : Ids, share : Shares \cup {None}, minimum : MinimumSizes \cup {None}],
        [op : {"enable"}, id : Ids, enabled : BOOLEAN],
        [op : {"require", "release"}, id : Ids, plan : Plans],
        [op : {"families"}, id : Ids, families : FamilyLists],
        [op : {"delete"}, id : Ids, seen : SUBSET Plans] }

\* What a draft deletes without having created it.
Forget == [op |-> "forget"]

ASSUME SentAssumption == Sent \subseteq Edits /\ Drafts \subseteq Seq(Edits \cup {Forget})

\* new_id gives no id twice: none that a request, a fill or a row still carries.
Handed(id) ==
    \/ \E q \in Requests : request[q] # Idle /\ request[q].id = id
    \/ \E r \in rows : r.label = id
    \/ fill # Idle /\ \E r \in fill.rows : r.label = id

\* Read and validate: the sum with the row as it will be, read outside a transaction.
Validate(r, e) ==
    /\ request[r] = Idle
    /\ Applies(activity, e)
    /\ e.op = "create" => ~Handed(e.id)
    /\ e.op = "delete" => e.seen = activity[e.id].prerequisites
    /\ LET next == After(activity, e) IN
       /\ Saves(e) => FieldsValid(next[e.id])
       /\ SumChecked(e) => SharesValid(next)
    /\ request' = [request EXCEPT ![r] = e]
    /\ stale' = stale \ {r}
    /\ UNCHANGED <<activity, plans, done, rows, calendar, now, fill>>

\* Every other validated edit has now been overtaken.
Overtaken(r) == stale' = (stale \cup {q \in Requests : request[q] # Idle}) \ {r}

\* The write: foreign keys are enforced, a row that is gone cannot be changed.
Write(r) ==
    /\ request[r] # Idle
    /\ LET e == request[r] IN
       \/ /\ Applies(activity, e)
          /\ activity' = After(activity, e)
          /\ rows' = IF e.op = "delete" THEN RowsAfterDelete(rows, e.id, now) ELSE rows
       \/ /\ ~Applies(activity, e)
          /\ UNCHANGED <<activity, rows>>
    /\ request' = [request EXCEPT ![r] = Idle]
    /\ Overtaken(r)
    /\ UNCHANGED <<plans, done, calendar, now, fill>>

-----------------------------------------------------------------------------
(* A draft: its edits in order, then the whole table is validated.         *)

\* The table and the rows so far, and whether every edit found what it needs.
\* "forget" deletes an activity the draft names but never created: nothing to do.
DraftStep(state, e) ==
    IF e.op = "forget" THEN state
    ELSE IF ~state.ok \/ ~Applies(state.acts, e) THEN [state EXCEPT !.ok = FALSE]
    ELSE [ok |-> TRUE,
          acts |-> After(state.acts, e),
          rows |-> IF e.op = "delete" THEN RowsAfterDelete(state.rows, e.id, now)
                   ELSE state.rows]

DraftValid(acts) == AllFieldsValid(acts) /\ SharesValid(acts)

\* A draft that fails anywhere changes nothing.
ApplyDraft(draft) ==
    /\ \A i \in DOMAIN draft : draft[i].op = "create" => ~Handed(draft[i].id)
    /\ LET end == FoldLeft(DraftStep, [ok |-> TRUE, acts |-> activity, rows |-> rows], draft) IN
       /\ end.ok /\ DraftValid(end.acts)
       /\ activity' = end.acts
       /\ rows' = end.rows
    /\ stale' = {q \in Requests : request[q] # Idle}
    /\ UNCHANGED <<plans, done, calendar, now, request, fill>>

-----------------------------------------------------------------------------
(* Plans: completion, and what their deletion leaves of the activities.    *)

CriticalBelow(p) == {q \in plans \cap Critical : Parent[q] = p}

\* A block never is complete; a goal or a generated repetition is when its critical
\* children are, so also when it has none.
CompleteGiven(p, below) ==
    \/ Kind[p] = "TASK" /\ p \in done
    \/ Kind[p] = "GOAL" /\ CriticalBelow(p) \subseteq below
    \/ Kind[p] = "REPETITION" /\ p \in Generated /\ CriticalBelow(p) \subseteq below

\* The plans found complete after looking n levels down, none of a template.
CompleteWithin[n \in Nat] ==
    IF n = 0 THEN {} ELSE {p \in plans \ Template : CompleteGiven(p, CompleteWithin[n - 1])}

LogicallyComplete == CompleteWithin[Cardinality(Plans)]

\* mark_complete and mark_incomplete of a task.  (Nothing here asks whether a block
\* is complete.)
Toggle(p) ==
    /\ p \in plans /\ Kind[p] = "TASK"
    /\ done' = (done \ {p}) \cup ({p} \ done)
    /\ UNCHANGED <<activity, plans, rows, calendar, now, request, stale, fill>>

\* Mutant of Referenced: bookings to come count for nothing.
ReferencedInThePast(a) == \E r \in rows : r.source = a /\ r.start < now

Referenced(a) == \E r \in rows : r.source = a

\* An activity that loses its last prerequisite goes, or is switched off when the
\* calendar names it.
AfterPlans(a, gone) ==
    LET x == activity[a]
        left == [x EXCEPT !.prerequisites = @ \ gone]
    IN  IF x.prerequisites \cap gone = {} THEN x
        ELSE IF left.prerequisites # {} THEN left
        ELSE IF Referenced(a) THEN [left EXCEPT !.enabled = FALSE]
        ELSE None

\* delete_plan of the plans the preview lists, closed under descendants.
DeletePlans(gone) ==
    /\ gone # {} /\ gone \subseteq plans
    /\ \A p \in plans : Parent[p] \in gone => p \in gone
    /\ plans' = plans \ gone
    /\ done' = done \ gone
    /\ activity' = [a \in Ids |-> IF Exists(activity, a) THEN AfterPlans(a, gone) ELSE None]
    /\ stale' = {q \in Requests : request[q] # Idle}
    /\ UNCHANGED <<rows, calendar, now, request, fill>>

-----------------------------------------------------------------------------
(* The fill.                                                               *)

\* Mutant of Blocked: one complete prerequisite is enough.
AllIncomplete(x) == x.prerequisites # {} /\ x.prerequisites \cap LogicallyComplete = {}

Blocked(x) == ~(x.prerequisites \subseteq LogicallyComplete)

Survivors ==
    {a \in Contributing(activity) : ~Blocked(activity[a])}

\* The stored shares of the survivors, made to sum to 1 again.
EffectiveShare(a) == [num |-> activity[a].share, den |-> SumOver(activity, Survivors)]

Scene == [run |-> now, horizon |-> Horizon, tasks |-> calendar.tasks, blocks |-> calendar.blocks]

\* The weeks in which a share can fall short, for the survivors.
Roundings ==
    {w \in Survivors \X WeekAnchors :
        LET region == Eligible(Bucket(w[2], Scene), Effective(activity[w[1]].families), Scene)
            share == EffectiveShare(w[1])
        IN  Cardinality(Quotas(Cardinality(region), share.num, share.den)) > 1}

\* One planner call per survivor, each against the same calendar.
Planned(short) ==
    UNION {RowsOf(a, activity[a], EffectiveShare(a), Scene,
                  {w \in WeekAnchors : <<a, w>> \in short}) : a \in Survivors}

LoadFill ==
    /\ fill = Idle
    /\ \E short \in SUBSET Roundings :
          fill' = [op |-> "write", run |-> now, rows |-> Planned(short)]
    /\ UNCHANGED <<activity, plans, done, rows, calendar, now, request, stale>>

\* Replace the rows from the run on.  A row of an activity deleted since violates
\* its foreign key, and nothing is written.
WriteFill ==
    /\ fill # Idle
    /\ rows' = IF \A r \in fill.rows : Exists(activity, r.source)
               THEN {r \in rows : r.start < fill.run} \cup fill.rows
               ELSE rows
    /\ fill' = Idle
    /\ UNCHANGED <<activity, plans, done, calendar, now, request, stale>>

Tick ==
    /\ \E t \in Moments : t > now /\ now' = t
    /\ UNCHANGED <<activity, plans, done, rows, calendar, request, stale, fill>>

Next ==
    \/ \E r \in Requests : Write(r) \/ \E e \in Sent : Validate(r, e)
    \/ \E draft \in Drafts : ApplyDraft(draft)
    \/ \E p \in Plans : Toggle(p)
    \/ \E gone \in SUBSET Plans : DeletePlans(gone)
    \/ LoadFill
    \/ WriteFill
    \/ Tick

Spec == Init /\ [][Next]_vars

-----------------------------------------------------------------------------
(* Properties.                                                             *)

\* Every activity, row, request and fill is well formed: no planned row reaches
\* past the horizon.
TypeOK ==
    /\ activity \in [Ids -> Activity \cup {None}]
    /\ plans \subseteq Plans /\ done \subseteq plans
    /\ rows \subseteq Row
    /\ calendar \in Calendars
    /\ now \in Moments \cup {0}
    /\ request \in [Requests -> Edits \cup {Idle}]
    /\ stale \subseteq {r \in Requests : request[r] # Idle}
    /\ \/ fill = Idle
       \/ fill.op = "write" /\ fill.run \in 0 .. now /\ fill.rows \subseteq Row

\* Calendar rows and prerequisites name activities and plans that exist: the
\* deletions of activities and of plans and the cleanup leave nothing behind.
ReferencesHold ==
    /\ \A r \in rows : r.source \in Existing(activity) \cup {None}
    /\ \A a \in Existing(activity) : activity[a].prerequisites \subseteq plans

\* The write of an edit whose validation another write has overtaken.
StaleWrite == \E r \in stale : request[r] # Idle /\ request'[r] = Idle

\* After every edit the enabled fractions sum to 1 if they did before, and every
\* enabled activity has a positive share if all had one, unless the edit was
\* validated against a table that has changed since: no constraint of the database
\* stands behind the validation.
EditsKeepValid ==
    [][(plans' = plans /\ ~StaleWrite) =>
          /\ SharesValid(activity) => SharesValid(activity')
          /\ AllFieldsValid(activity) => AllFieldsValid(activity')]_vars

\* When the writing request, or the fill, read the clock.
ReadAt == IF fill # Idle /\ fill' = Idle THEN fill.run ELSE now

\* A free-time row that had started is evidence: deletions and fills leave it in
\* the calendar, at most without its activity.
EvidenceKept ==
    [][\A r \in rows : r.start < ReadAt =>
          r \in rows' \/ (~Exists(activity', r.source) /\ [r EXCEPT !.source = None] \in rows')]_vars

\* The leaves and repetitions that decide whether a plan is complete.
Decisive(p) ==
    LET below[n \in Nat] ==
            IF n = 0 THEN {p}
            ELSE below[n - 1] \cup {q \in plans \cap Critical : Parent[q] \in below[n - 1]}
    IN  below[Cardinality(Plans)]

\* A fill plans rows only for activities that are enabled and whose prerequisites
\* are finished down to the last critical task, none of them in a template.
OnlyUnblockedPlanned ==
    [][fill = Idle /\ fill' # Idle =>
          \A r \in fill'.rows :
             /\ activity[r.label].enabled
             /\ \A p \in activity[r.label].prerequisites : \A q \in Decisive(p) :
                    /\ q \notin Template
                    /\ Kind[q] = "TASK" => q \in done
                    /\ Kind[q] = "REPETITION" => q \in Generated
                    /\ Kind[q] # "BLOCK"]_vars

FilledBy(a, rs) == {t \in 0 .. Horizon - 1 : \E r \in rs : r.label = a /\ t \in Minutes(r)}

\* Planned free time stays out of tasks and out of blocks of families the activity
\* does not allow, but where a block of a family it lists, or of free time, lies over
\* them: such a block is offered whole.  It never runs past the horizon and has at
\* least the activity's minimum length; rows of one activity do not overlap.
PlannedWhereAllowed ==
    [][fill = Idle /\ fill' # Idle =>
          \A r \in fill'.rows :
             LET x == activity[r.label]
                 allowed == BlocksOf(Effective(x.families), Scene)
                 others == fill'.rows \ {r}
             IN  /\ r.start >= now /\ r.end <= Horizon /\ r.end - r.start >= LeastChunk(x.minimum)
                 /\ Minutes(r) \cap (Covered(FutureTasks(Scene)) \cup Covered(Scene.blocks \ allowed))
                        \subseteq Covered(BlocksOf(Effective(x.families) \ {Default}, Scene))
                 /\ \A s \in others : s.label = r.label => Minutes(s) \cap Minutes(r) = {}]_vars

\* In every week an activity gets its share of the time it may use, no more, and
\* less only when what is left of the share or of every gap is too short for it.
ShareGiven ==
    [][fill = Idle /\ fill' # Idle =>
          \A a \in Survivors, w \in WeekAnchors :
             LET x == activity[a]
                 least == LeastChunk(x.minimum)
                 region == Eligible(Bucket(w, Scene), Effective(x.families), Scene)
                 given == FilledBy(a, fill'.rows) \cap Bucket(w, Scene)
             IN  /\ given \subseteq region
                 /\ \E quota \in Quotas(Cardinality(region), x.share, SumOver(activity, Survivors)) :
                       /\ Cardinality(given) <= quota
                       /\ \/ quota - Cardinality(given) < least
                          \/ \A t \in region \ given :
                                ~(t .. t + least - 1 \subseteq region \ given)]_vars
=============================================================================
