--------------------------- MODULE PlanResolution ---------------------------
(***************************************************************************)
(* The resolution of the master tree into leaves and their order           *)
(* (domain/resolution.py, domain/block_resolution.py,                      *)
(* domain/plan_traversal.py and the second half of                         *)
(* domain/prerequisites.py).                                               *)
(*                                                                         *)
(* Two traversals of the tree must agree: the collectors walk it from the  *)
(* master plan and number what they pass, and the expansion of             *)
(* prerequisites walks the plans a prerequisite joins.  Resolution itself  *)
(* is one transaction that reads; it is a set of operators here, and the   *)
(* actions are the edits between two resolutions.                          *)
(*                                                                         *)
(* Every leaf is taken for valid: services write no malformed window and   *)
(* no empty duration, and a leaf that fits nowhere fails its whole phase   *)
(* before the order is looked at (AssignmentSolver, ScheduleRefresh).      *)
(***************************************************************************)
EXTENDS Naturals, FiniteSets, SequencesExt

CONSTANTS
    Plans,         \* plan ids
    Master,        \* the master plan, a goal
    Goals,         \* GOAL plans
    Tasks,         \* TASK plans
    Blocks,        \* BLOCK plans
    Repetitions,   \* REPETITION plans
    TemplateRoot,  \* the root of each repetition's template
    Trees,         \* the trees to look at: the parent of each plan
    Orders,        \* criticality and sort orders to look at
    Linked,        \* bound: the plans that prerequisites join
    MaxLinks,      \* bound on the prerequisites when one is added
    None           \* SQL NULL

Leaves == Tasks \cup Blocks

ASSUME KindAssumption ==
    /\ IsFiniteSet(Plans)
    /\ Plans = Goals \cup Leaves \cup Repetitions /\ Master \in Goals /\ None \notin Plans
    /\ Goals \cap (Leaves \cup Repetitions) = {} /\ Leaves \cap Repetitions = {}
    /\ Tasks \cap Blocks = {}
ASSUME TemplateAssumption ==
    /\ TemplateRoot \in [Repetitions -> Plans]
    /\ \A tree \in Trees : \A r \in Repetitions : tree[TemplateRoot[r]] = r
\* No plan is above itself: of any plans, one has its parent elsewhere.
ASSUME TreeAssumption ==
    \A tree \in Trees :
        /\ tree \in [Plans -> Goals \cup Repetitions \cup {None}]
        /\ \A p \in Plans : tree[p] = None <=> p = Master
        /\ \A S \in SUBSET Plans : S # {} => \E p \in S : tree[p] \notin S
\* No two siblings of one bucket share a sort order: the invariant validation that
\* comes before a resolution refuses them.
ASSUME OrderAssumption ==
    \A order \in Orders :
        /\ order.critical \subseteq Plans /\ order.sort \in [Plans -> Nat]
        /\ \A p, q \in Plans : order.sort[p] = order.sort[q] => p = q
ASSUME LinksAssumption == Linked \subseteq Plans /\ MaxLinks \in Nat

VARIABLES
    parent,      \* parent_id
    order,       \* goal_is_critical and goal_sort_order, or those of an instance
    generated,   \* repetitions with a generated_at
    completed,   \* leaves with user_completed
    needs,       \* plan_prerequisite rows: <<plan_id, prerequisite_plan_id>>
    immediate    \* immediate_prerequisite_plan_id of each leaf

vars == <<parent, order, generated, completed, needs, immediate>>

-----------------------------------------------------------------------------
(* The tree.                                                               *)

Children(p) == {q \in Plans : parent[q] = p}

\* A plan and everything above it.
Above[p \in Plans] == IF parent[p] = None THEN {p} ELSE {p} \cup Above[parent[p]]

\* The root clones of a repetition: what hangs below it beside its template.
RootClones(r) == Children(r) \ {TemplateRoot[r]}

\* Clones come into being when their repetition is generated.
Present == {p \in Plans : \A r \in Repetitions \ generated : RootClones(r) \cap Above[p] = {}}

InTemplate(p) == \E r \in Repetitions : TemplateRoot[r] \in Above[p]

\* Critical siblings come first, then the sort order counts.
Before(p, q) ==
    IF (p \in order.critical) = (q \in order.critical)
      THEN order.sort[p] < order.sort[q]
      ELSE p \in order.critical

\* The members of S in that order.
Ordered(S) ==
    [n \in 1..Cardinality(S) |->
        CHOOSE x \in S : Cardinality({y \in S : Before(y, x)}) = n - 1]

-----------------------------------------------------------------------------
(* Collecting leaves.  A goal's children are numbered by one counter that  *)
(* runs through the whole walk, the instances of a repetition by their     *)
(* place.                                                                  *)

\* Mutant of InstancePath: an instance has no number of its own.
ShellPath(path, i) == path

InstancePath(path, i) == Append(path, i - 1)

\* A repetition that was not generated has nothing to schedule.
Instances(r) == IF r \in generated THEN RootClones(r) ELSE {}

\* What a walk passes below p, one after the other.
Visited(p) ==
    Ordered(IF p \in Goals THEN {c \in Children(p) : ~InTemplate(c)} ELSE Instances(p))

\* Mutant of Entered: an instance is taken for a goal.
GoalsEntered(root) == root \in Goals

\* The root of an instance may be of any kind.
Entered(root) == ~InTemplate(root)

Found(counter, leaves) == [counter |-> counter, leaves |-> leaves]

Joined(found, sub) == Found(sub.counter, found.leaves \o sub.leaves)

\* One step of the walk of p, at the i-th of what it passes: below[q][n] is what there is
\* to find from there with the path q when the counter is n.
Visit(p, path, found, i, below) ==
    IF p \in Goals
      THEN Joined(found, below[Append(path, found.counter)][found.counter + 1])
    ELSE IF Entered(Visited(p)[i])
      THEN Joined(found, below[InstancePath(path, i)][found.counter])
    ELSE found

Visits(p, path, n, below) ==
    LET found[i \in 0..Len(below)] ==
            IF i = 0 THEN Found(n, << >>) ELSE Visit(p, path, found[i - 1], i, below[i])
    IN  found[Len(below)]

Walk[p \in Plans] ==
    LET below == [i \in 1..Len(Visited(p)) |-> Walk[Visited(p)[i]]]
    IN  [path \in Seq(Nat) |-> [n \in Nat |->
            IF p \in Leaves THEN Found(n, <<[plan |-> p, path |-> path]>>)
            ELSE Visits(p, path, n, below)]]

\* What the collectors emit, one leaf after the other.
Emitted == Walk[Master][<< >>][0].leaves

\* The places of what the collector of a kind emits.
Collected(kind) == LET leaves == Emitted IN {i \in DOMAIN leaves : leaves[i].plan \in kind}

-----------------------------------------------------------------------------
(* Expanding prerequisites.                                                *)

\* leaf_task_ids_in_subtree: the leaves below a plan, none of a template.
LeavesBelow[p \in Plans] ==
    IF InTemplate(p) THEN {}
    ELSE CASE p \in Leaves -> {p}
           [] p \in Goals  -> UNION {LeavesBelow[c] : c \in Children(p)}
           [] OTHER        -> UNION {LeavesBelow[c] : c \in Instances(p)}

\* A plan without leaves is complete.
Complete(p) == LeavesBelow[p] \subseteq completed

Direct(S) == {l[2] : l \in {m \in needs : m[1] \in S}}

Reached[S \in SUBSET Plans] ==
    LET more == S \cup Direct(S) IN IF more = S THEN S ELSE Reached[more]

\* Mutant of Waits: the prerequisites of a prerequisite do not count.
WaitsDirectly(d) == Direct({d})

\* The plans that d waits for, over any number of prerequisites.
Waits(d) == Reached[Direct({d})]

Open == LeavesBelow[Master] \ completed

\* Mutant of LeafEdges: one leaf of the prerequisite is enough to hold the others back.
OneLeafEdges(d, p) ==
    LET first == LeavesBelow[p] \cap Open IN
    IF first = {} THEN {}
    ELSE {CHOOSE x \in first : TRUE} \X (LeavesBelow[d] \cap Open)

\* Every leaf of an incomplete prerequisite comes before every leaf of its dependent.
LeafEdges(d, p) ==
    IF Complete(p) THEN {} ELSE (LeavesBelow[p] \cap Open) \X (LeavesBelow[d] \cap Open)

Dependents == {l[1] : l \in needs}

PlanEdges == UNION {UNION {LeafEdges(d, p) : p \in Waits(d)} : d \in Dependents}

ImmediateEdges ==
    {<<immediate[y], y>> : y \in {z \in Leaves \cap Open : immediate[z] \in Open}}

\* The precedence of the solvers: <<first, later>>.
Edges == {e \in PlanEdges : e[1] # e[2]} \cup ImmediateEdges

-----------------------------------------------------------------------------
(* Edits.                                                                  *)

Init ==
    /\ parent \in Trees
    /\ order \in Orders
    /\ generated \in SUBSET Repetitions
    /\ completed = {}
    /\ needs = {}
    /\ immediate = [p \in Leaves |-> None]

Links == Cardinality(needs) + Cardinality({p \in Leaves : immediate[p] # None})

TracesAgree(d, p) == Above[d] \cap Repetitions = Above[p] \cap Repetitions

AddPrerequisite(d, p) ==
    /\ Links < MaxLinks
    /\ d # p /\ d # Master /\ <<d, p>> \notin needs
    /\ {d, p} \subseteq Present \cap Linked
    /\ TracesAgree(d, p)
    /\ d \notin Reached[{p}]
    /\ needs' = needs \cup {<<d, p>>}
    /\ UNCHANGED <<parent, order, generated, completed, immediate>>

SetImmediatePrerequisite(y, x) ==
    /\ Links < MaxLinks
    /\ y # x /\ immediate[y] # x
    /\ {x, y} \subseteq Present \cap Linked /\ TracesAgree(y, x)
    /\ immediate' = [immediate EXCEPT ![y] = x]
    /\ UNCHANGED <<parent, order, generated, completed, needs>>

\* mark_complete and reopen of a task or a block.
MarkComplete(p) ==
    /\ p \in Present \ completed
    /\ completed' = completed \cup {p}
    /\ UNCHANGED <<parent, order, generated, needs, immediate>>

Reopen(p) ==
    /\ p \in completed
    /\ completed' = completed \ {p}
    /\ UNCHANGED <<parent, order, generated, needs, immediate>>

Generate(r) ==
    /\ r \in Present \ generated
    /\ generated' = generated \cup {r}
    /\ UNCHANGED <<parent, order, completed, needs, immediate>>

Next ==
    \/ \E d, p \in Linked : AddPrerequisite(d, p)
    \/ \E y, x \in Leaves \cap Linked : SetImmediatePrerequisite(y, x)
    \/ \E p \in Leaves : MarkComplete(p) \/ Reopen(p)
    \/ \E r \in Repetitions : Generate(r)

Spec == Init /\ [][Next]_vars

-----------------------------------------------------------------------------
(* Properties.                                                             *)

\* What is to be scheduled: the leaves outside templates.
Schedulable == {p \in Leaves \cap Present : ~InTemplate(p)}

\* The collectors emit each schedulable leaf once, and exactly the leaves that the
\* expansion of prerequisites finds below the master plan: nothing is scheduled
\* outside the order, and nothing is ordered that is not scheduled.
LeavesAgree ==
    LET leaves == Emitted
        places == Collected(Tasks) \cup Collected(Blocks)
    IN  /\ {leaves[i].plan : i \in places} = Schedulable /\ LeavesBelow[Master] = Schedulable
        /\ \A i, j \in places : leaves[i].plan = leaves[j].plan => i = j

\* How the solvers compare priority paths: as tuples.
PathBefore(a, b) ==
    \E i \in 1..Len(b) :
        /\ \A j \in 1..(i - 1) : j <= Len(a) /\ a[j] = b[j]
        /\ i <= Len(a) => a[i] < b[i]

TreeBefore(x, y) == \E a \in Above[x], b \in Above[y] : parent[a] = parent[b] /\ Before(a, b)

\* Of any two tasks the one with the smaller priority path is the one the user put
\* first, in the nearest goal or repetition that holds both; so also for blocks.
PriorityIsTreeOrder ==
    LET leaves == Emitted IN
    \A kind \in {Tasks, Blocks} : \A i, j \in Collected(kind) :
        i # j => (PathBefore(leaves[i].path, leaves[j].path) <=> TreeBefore(leaves[i].plan, leaves[j].plan))

Prerequisites == {l[2] : l \in needs}

\* What some of the plans ds need, directly or not: what no set that holds their own
\* prerequisites and is closed under prerequisites can miss.
Needed(ds) ==
    {p \in Prerequisites :
        \A S \in SUBSET Prerequisites : Direct(ds) \subseteq S /\ Direct(S) \subseteq S => p \in S}

Ready == {y \in Schedulable \ completed : \A e \in Edges : e[2] # y}

\* A leaf that no edge holds back belongs to no plan with an open prerequisite: all
\* other leaves of what the plans above it need are completed.
ReadyOnly ==
    \A y \in Ready : \A p \in Needed(Above[y]) :
        \A z \in Schedulable \ ({y} \cup completed) : p \notin Above[z]

\* Completing leaves never adds to the order: a schedule that respected it still does.
ProgressFreesOnly ==
    [][completed \subseteq completed' /\ UNCHANGED <<generated, needs, immediate>>
          => Edges' \subseteq Edges]_vars
=============================================================================
