------------------------------- MODULE PlanTree -------------------------------
(***************************************************************************)
(* The plan tree (services/plan_tree.py, services/goal.py): creating,      *)
(* ordering, moving and deleting plans, with the copies a repetition keeps *)
(* in step with its template (services/repetition.py), and the validation  *)
(* that every refresh of the schedule starts with                          *)
(* (domain/invariant_validation.py).                                       *)
(*                                                                         *)
(* Operations follow one another here.  Each is one transaction, but it    *)
(* reads before its first write takes the lock: what two edits at once may *)
(* do to each other is not modelled.                                       *)
(* One repetition, already generated, whose template holds no repetition.  *)
(* The clone of template plan t in occurrence i is called <<t, i>>.        *)
(***************************************************************************)
EXTENDS Integers, FiniteSets, SequencesExt

CONSTANTS
    Ids,             \* plans that are no clones
    Master, Shell,   \* the master goal and the REPETITION plan
    Root,            \* the root of the template
    Start,           \* the plans when the first occurrence is generated
    Serial,          \* the order of the ids, which decides between equal numbers
    Occurrences,     \* instance_index: 0 .. some bound
    DefaultCritical, \* default_instance_critical
    MaxEdits,        \* bound on the operations users ask for
    None             \* SQL NULL

Clones == (Ids \ {Master, Shell}) \X Occurrences

All == Ids \cup Clones

\* An id is no name of a clone.
ASSUME NamesAssumption ==
    /\ IsFiniteSet(Ids)
    /\ {Master, Shell, Root} \subseteq Ids /\ Cardinality({Master, Shell, Root}) = 3
    /\ Ids \cap (Ids \X Occurrences) = {}
    /\ Serial \in [All -> Nat] /\ IsInjective(Serial)
ASSUME BoundsAssumption ==
    /\ MaxEdits \in Nat /\ DefaultCritical \in BOOLEAN
    /\ IsFiniteSet(Occurrences)
    /\ Occurrences = 0 .. Cardinality(Occurrences) - 1 /\ Occurrences # {}

VARIABLES
    plan,       \* the plan table
    instance,   \* the repetition_instance table
    skipped,    \* the repetition_skipped_occurrence table
    count,      \* manual_count
    edits,      \* how many operations users have asked for
    unwanted    \* the linked clones users have deleted, with the goals they left,
                \* as long as the goal and the template's plan stay

vars == <<plan, instance, skipped, count, edits, unwanted>>

Record ==
    [kind : {"GOAL", "TASK", "REPETITION"}, parent : All \cup {None},
     critical : BOOLEAN \cup {None}, order : Nat \cup {None},
     status : {"NOT_CLONED", "TEMPLATE", "LINKED", "DETACHED"}]

Instance == [critical : BOOLEAN, order : Nat]

ASSUME NoneAssumption ==
    None \notin All /\ None \notin BOOLEAN /\ None \notin Nat
    /\ None \notin Record /\ None \notin Instance

-----------------------------------------------------------------------------
(* Reading the tree.                                                       *)

PlansIn(table) == {p \in All : table[p] # None}

Plans == PlansIn(plan)

Children(table, p) == {q \in PlansIn(table) : table[q].parent = p}

Below(table, p) ==
    LET reach[S \in SUBSET All] ==
            LET more == S \cup {q \in PlansIn(table) : table[q].parent \in S} IN
            IF more = S THEN S ELSE reach[more]
    IN  reach[{p}]

Bucket(table, goal, critical) ==
    {p \in Children(table, goal) : table[p].critical = critical}

\* The members of S, each after those that are earlier.
Sorted(S, Earlier(_, _)) ==
    [n \in 1 .. Cardinality(S) |->
        CHOOSE x \in S : Cardinality({y \in S : Earlier(y, x)}) = n - 1]

Before(table, p, q) ==
    \/ table[p].order < table[q].order
    \/ table[p].order = table[q].order /\ Serial[p] < Serial[q]

InOrder(table, S) == Sorted(S, LAMBDA p, q : Before(table, p, q))

Orders(table, goal, critical) == {table[p].order : p \in Bucket(table, goal, critical)}

Above(numbers) == IF numbers = {} THEN 0 ELSE 1 + Max(numbers)

RootOf(i) == <<Root, i>>

Existing(insts) == {i \in Occurrences : insts[i] # None}

OfBucket(insts, critical) == {i \in Existing(insts) : insts[i].critical = critical}

\* In the hands of the template: not detached, nor below a detached plan.
Linked(table, p) ==
    LET up[q \in PlansIn(table)] ==
            IF table[q].status = "LINKED" THEN table[q].parent # None /\ up[table[q].parent]
                                          ELSE table[q].status # "DETACHED"
    IN  up[p]

-----------------------------------------------------------------------------
(* Writing it.                                                             *)

\* The plans of seq become the bucket, numbered from 0.
Numbered(table, seq, critical) ==
    [p \in All |-> IF Contains(seq, p)
                   THEN [table[p] EXCEPT !.critical = critical,
                                         !.order = CHOOSE n \in 0 .. Len(seq) - 1 : seq[n + 1] = p]
                   ELSE table[p]]

\* detach_linked_self_and_descendants
Detach(table, p) ==
    IF table[p].status # "LINKED" THEN table
    ELSE [q \in All |-> IF q \in Below(table, p) /\ table[q].status = "LINKED"
                        THEN [table[q] EXCEPT !.status = "DETACHED"] ELSE table[q]]

Edit == edits < MaxEdits /\ edits' = edits + 1

IsGoal(p) == p \in Plans /\ plan[p].kind = "GOAL"

NextOrder(goal, critical) == Above(Orders(plan, goal, critical))

\* Plans still to be created.  An id that is deleted is nowhere referred to, so it
\* can stand for a new one.
New == {id \in Ids : Start[id] = None}

\* create_child: at the end of a bucket.
Create(goal, id, kind, critical) ==
    /\ Edit
    /\ IsGoal(goal) /\ id \in New \ Plans
    /\ goal = Master => ~critical
    /\ plan' = [Detach(plan, goal) EXCEPT ![id] =
                   [kind |-> kind, parent |-> goal, critical |-> critical,
                    order |-> NextOrder(goal, critical), status |-> "NOT_CLONED"]]
    /\ UNCHANGED <<instance, skipped, count, unwanted>>

\* The goal's children in the order asked for.
Reordered(goal, critical, others) ==
    Numbered(Numbered(Detach(plan, goal), critical, TRUE), others, FALSE)

\* Every child once; critical children of the master plan are refused.
OrderAllowed(goal, critical, others) ==
    /\ goal = Master => critical = << >>
    /\ IsInjective(critical \o others)
    /\ ToSet(critical \o others) = Children(plan, goal)

\* order_children.  An order that changes no row detaches nothing.
OrderChildren(goal, critical, others) ==
    /\ Edit
    /\ IsGoal(goal)
    /\ OrderAllowed(goal, critical, others)
    /\ Numbered(Numbered(plan, critical, TRUE), others, FALSE) # plan
    /\ plan' = Reordered(goal, critical, others)
    /\ UNCHANGED <<instance, skipped, count, unwanted>>

Rest(goal, critical, p) == InOrder(plan, Bucket(plan, goal, critical) \ {p})

\* move_plan of a goal's child, to a place in either bucket.
Move(p, critical, place) ==
    /\ Edit
    /\ plan[p].critical # None /\ IsGoal(plan[p].parent)
    /\ LET goal == plan[p].parent
           target == Rest(goal, critical, p)
           moved == InsertAt(target, place + 1, p)
           left == Rest(goal, ~critical, p)
       IN  /\ place \in 0 .. Len(target)
           /\ plan[p].critical = critical => moved # InOrder(plan, Bucket(plan, goal, critical))
           /\ goal = Master => ~critical
           /\ plan' = Detach(IF critical THEN Reordered(goal, moved, left)
                                         ELSE Reordered(goal, left, moved), p)
    /\ UNCHANGED <<instance, skipped, count, unwanted>>

\* Instances in the order of their bucket.
InstancesInOrder(insts, S) ==
    Sorted(S, LAMBDA i, j : \/ insts[i].order < insts[j].order
                            \/ insts[i].order = insts[j].order /\ i < j)

NumberedInstances(insts, seq, critical) ==
    [i \in Occurrences |->
        IF Contains(seq, i)
        THEN [critical |-> critical, order |-> CHOOSE n \in 0 .. Len(seq) - 1 : seq[n + 1] = i]
        ELSE insts[i]]

\* move_plan of the root of an instance.
MoveInstance(i, critical, place) ==
    /\ Edit
    /\ i \in Existing(instance)
    /\ LET old == instance[i].critical
           source == InstancesInOrder(instance, OfBucket(instance, old) \ {i})
           target == InstancesInOrder(instance, OfBucket(instance, critical) \ {i})
       IN  /\ place \in 0 .. Len(target)
           /\ instance[i] # [critical |-> critical, order |-> place]
           /\ instance' = NumberedInstances(NumberedInstances(instance, source, old),
                                            InsertAt(target, place + 1, i), critical)
    /\ plan' = Detach(plan, RootOf(i))
    /\ UNCHANGED <<skipped, count, unwanted>>

\* Any edit of a linked clone's own fields: its name, its duration, its windows.
Change(p) ==
    /\ Edit
    /\ plan[p].status = "LINKED"
    /\ plan' = Detach(plan, p)
    /\ UNCHANGED <<instance, skipped, count, unwanted>>

\* update_settings of a generated repetition: the count only grows.
Grow ==
    /\ Edit
    /\ Shell \in Plans /\ count < Cardinality(Occurrences)
    /\ count' = count + 1
    /\ UNCHANGED <<plan, instance, skipped, unwanted>>

-----------------------------------------------------------------------------
(* Deletion.                                                               *)

CriticalChildren(goal) ==
    IF plan[goal].kind = "GOAL" THEN Bucket(plan, goal, TRUE) ELSE {}

\* Mutant of WithSiblings: critical siblings stay.
WithoutSiblings(S) == S

WithSiblings(S) == S \cup UNION {CriticalChildren(plan[p].parent) :
                                     p \in {q \in S : plan[q].critical = TRUE}}

WithChildren(S) == S \cup UNION {Children(plan, p) : p \in S}

\* A goal with critical children goes when they all go.
WithEmptied(S) ==
    S \cup {g \in Plans : CriticalChildren(g) # {} /\ CriticalChildren(g) \subseteq S}

\* A repetition goes with the root of its template.
WithShell(S) == IF Root \in S THEN S \cup {Shell} ELSE S

\* compute_deletion_impact: rounds of the four rules until nothing is added.
Impact(p) ==
    LET round[S \in SUBSET All] ==
            LET more == WithShell(WithEmptied(WithChildren(WithSiblings(S)))) IN
            IF more = S THEN S ELSE round[more]
    IN  round[{p}]

\* The rows of the affected plans can go: no surviving clone refers to one of them.
Deletable(affected) ==
    /\ Master \notin affected
    /\ \A k \in (Plans \ affected) \cap Clones : k[1] \notin affected

\* Mutant of Cut: the goal is left as it is.
Uncut(p, affected) == plan

\* The linked child of a goal that stays takes the goal out of the template's hands.
Cut(p, affected) ==
    LET parent == plan[p].parent IN
    IF plan[p].status = "LINKED" /\ p[1] # Root /\ parent \notin affected
    THEN Detach(plan, parent) ELSE plan

\* Mutant of Renumbered: the parents' buckets keep their gap.
Removed(table, affected) == [p \in All |-> IF p \in affected THEN None ELSE table[p]]

\* Both buckets of every surviving parent of an affected plan close up.
Renumbered(table, affected) ==
    LET kept == [p \in All |-> IF p \in affected THEN None ELSE table[p]]
        parents == {plan[p].parent : p \in affected} \ affected
        place(p) == Cardinality({q \in Bucket(kept, kept[p].parent, kept[p].critical) :
                                     Before(kept, q, p)})
    IN  [p \in All |-> IF kept[p] # None /\ kept[p].parent \in parents /\ kept[p].critical # None
                       THEN [kept[p] EXCEPT !.order = place(p)] ELSE kept[p]]

\* Mutant of Omitted: nothing remembers the deleted occurrence.
Forgotten(gone, affected) == skipped

Omitted(gone, affected) == IF Shell \in affected THEN {} ELSE skipped \cup gone

\* The instances that stay, both buckets numbered anew when one went.
RemainingInstances(gone) ==
    LET kept == [i \in Occurrences |-> IF i \in gone THEN None ELSE instance[i]]
        closed(insts, critical) ==
            NumberedInstances(insts, InstancesInOrder(insts, OfBucket(insts, critical)), critical)
    IN  IF gone = {} THEN kept ELSE closed(closed(kept, FALSE), TRUE)

\* delete_plan
Delete(p) ==
    /\ Edit
    /\ LET affected == Impact(p)
           gone == {i \in Existing(instance) : RootOf(i) \in affected}
       IN  /\ Deletable(affected)
           /\ plan' = Renumbered(Cut(p, affected), affected)
           /\ instance' = RemainingInstances(gone)
           /\ skipped' = Omitted(gone, affected)
           /\ unwanted' =
                 {u \in unwanted \cup {<<p, plan[p].parent>>} :
                     /\ u \in unwanted \/ plan[p].status = "LINKED"
                     /\ {u[1][1], u[2]} \cap (affected \cup {Shell}) = {}}
    /\ UNCHANGED count

-----------------------------------------------------------------------------
(* A refresh of the repetition.                                            *)

Template(table) == Below(table, Root)

InHand(table) == {p \in PlansIn(table) : Linked(table, p)}

\* Mutant of Missing: only the children of clones that are there.
MissingHere(table, insts) ==
    {k \in (Template(table) \ {Root}) \X Existing(insts) :
        table[k] = None /\ <<table[k[1]].parent, k[2]>> \in InHand(table)}

\* The clones that instances in the template's hands miss, under parents that are.
Missing(table, insts) ==
    LET absent == {k \in (Template(table) \ {Root}) \X Existing(insts) : table[k] = None}
        grown[S \in SUBSET All] ==
            LET more == S \cup {k \in absent : <<table[k[1]].parent, k[2]>> \in S} IN
            IF more = S THEN S ELSE grown[more]
    IN  absent \cap grown[InHand(table)]

\* Mutant of CloneOf: the clone gets no place in its bucket.
UnplacedClone(table, k) ==
    [table[k[1]] EXCEPT !.parent = IF k[1] = Root THEN Shell ELSE <<table[k[1]].parent, k[2]>>,
                        !.order = None, !.status = "LINKED"]

CloneOf(table, k) ==
    [table[k[1]] EXCEPT !.parent = IF k[1] = Root THEN Shell ELSE <<table[k[1]].parent, k[2]>>,
                        !.status = "LINKED"]

Materialized(table, new) == [p \in All |-> IF p \in new THEN CloneOf(table, p) ELSE table[p]]

\* The instances there are follow the template: missing clones are made, and linked
\* ones take their place in the bucket from the template.
Followed(table, insts) ==
    LET new == Missing(table, insts)
        linked == {k \in InHand(table) \cap Clones :
                       k[2] \in Existing(insts) /\ table[k[1]].critical # None}
    IN  [p \in All |->
            IF p \in new THEN CloneOf(table, p)
            ELSE IF p \in linked THEN [table[p] EXCEPT !.critical = table[p[1]].critical,
                                                       !.order = table[p[1]].order]
            ELSE table[p]]

\* Mutant of Due: skipped occurrences are due as well.
AllDue(insts) == (0 .. count - 1) \ Existing(insts)

Due(insts) == (0 .. count - 1) \ (Existing(insts) \cup skipped)

\* New instances go to the end of the default bucket, in the order of their index.
Appended(insts) ==
    LET next == Above({insts[i].order : i \in OfBucket(insts, DefaultCritical)})
        new == Due(insts)
    IN  [i \in Occurrences |->
            IF i \in new THEN [critical |-> DefaultCritical,
                               order |-> next + Cardinality({j \in new : j < i})]
            ELSE insts[i]]

\* refresh_repetition, on its own or in refresh_all_repetitions
Refresh ==
    /\ Shell \in Plans
    /\ plan' = Materialized(Followed(plan, instance), Template(plan) \X Due(instance))
    /\ instance' = Appended(instance)
    /\ UNCHANGED <<skipped, count, edits, unwanted>>

-----------------------------------------------------------------------------
(* The validation of the stored tree.                                      *)

\* A bucket's numbers are 0, 1, 2 and so on, each once.
Dense(table, goal, critical) ==
    Orders(table, goal, critical) = 0 .. Cardinality(Bucket(table, goal, critical)) - 1

MasterGoalValid == Master \in Plans /\ plan[Master].parent = None

Reachable == Below(plan, Master) = Plans

MasterChildrenValid == \A p \in Children(plan, Master) : plan[p].critical # TRUE

GoalOrderValid ==
    \A g \in Plans, c \in BOOLEAN : plan[g].kind = "GOAL" => Dense(plan, g, c)

RepetitionValid ==
    Shell \in Plans => /\ Root \in Children(plan, Shell)
                       /\ plan[Root].critical = None /\ plan[Root].order = None

TemplateStatusValid == \A p \in Plans : plan[p].status = "TEMPLATE" => p = Root

InstancesValid ==
    /\ \A i \in Existing(instance) : RootOf(i) \in Children(plan, Shell)
    /\ \E n \in 0 .. Cardinality(Occurrences) : Existing(instance) \cup skipped = 0 .. n - 1
    /\ \A c \in BOOLEAN :
          {instance[i].order : i \in OfBucket(instance, c)}
              = 0 .. Cardinality(OfBucket(instance, c)) - 1

\* validate_master_tree_graph, as far as the tree goes.
MasterTreeValid ==
    /\ MasterGoalValid /\ Reachable /\ MasterChildrenValid /\ GoalOrderValid
    /\ RepetitionValid /\ TemplateStatusValid /\ InstancesValid

-----------------------------------------------------------------------------
\* What the services have built when the repetition is generated: a valid tree with
\* its template, and nothing cloned yet.
ASSUME StartAssumption ==
    /\ Start \in [All -> Record \cup {None}]
    /\ {Master, Shell, Root} \subseteq PlansIn(Start) /\ PlansIn(Start) \subseteq Ids
    /\ Start[Master].kind = "GOAL" /\ Start[Master].parent = None
    /\ Below(Start, Master) = PlansIn(Start)
    /\ \A p \in PlansIn(Start) :
          /\ Start[p].kind = "REPETITION" <=> p = Shell
          /\ Start[p].status = IF p = Root THEN "TEMPLATE" ELSE "NOT_CLONED"
          /\ p \in {Master, Root} => {Start[p].critical, Start[p].order} = {None}
          /\ p = Root => Start[p].parent = Shell
          /\ p \notin {Master, Root} =>
                /\ Start[p].parent \in PlansIn(Start) /\ Start[Start[p].parent].kind = "GOAL"
                /\ None \notin {Start[p].critical, Start[p].order}
                /\ Start[p].parent = Master => ~Start[p].critical
          /\ \A c \in BOOLEAN : Start[p].kind = "GOAL" => Dense(Start, p, c)

Init ==
    /\ plan = Materialized(Start, Template(Start) \X {0})
    /\ instance = [i \in Occurrences |->
                      IF i = 0 THEN [critical |-> DefaultCritical, order |-> 0] ELSE None]
    /\ skipped = {}
    /\ count = 1
    /\ edits = 0
    /\ unwanted = {}

Next ==
    \/ \E g \in Plans, id \in New, kind \in {"GOAL", "TASK"}, c \in BOOLEAN : Create(g, id, kind, c)
    \/ \E g \in Plans : \E C \in SUBSET Children(plan, g) :
          \E critical \in SetToSeqs(C), others \in SetToSeqs(Children(plan, g) \ C) :
             OrderChildren(g, critical, others)
    \/ \E p \in Plans, c \in BOOLEAN :
          \E place \in 0 .. Cardinality(Children(plan, plan[p].parent)) : Move(p, c, place)
    \/ \E i \in Occurrences, c \in BOOLEAN, place \in Occurrences : MoveInstance(i, c, place)
    \/ \E p \in Plans : Change(p) \/ Delete(p)
    \/ Grow
    \/ Refresh

Spec == Init /\ [][Next]_vars

-----------------------------------------------------------------------------
(* Properties.                                                             *)

\* Every stored plan and instance is well formed, and exactly the children of goals
\* have a place in a bucket.
TypeOK ==
    /\ plan \in [All -> Record \cup {None}]
    /\ \A p \in Plans \ {Master} :
          IF IsGoal(plan[p].parent) THEN None \notin {plan[p].critical, plan[p].order}
                                    ELSE {plan[p].critical, plan[p].order} = {None}
    /\ instance \in [Occurrences -> Instance \cup {None}]
    /\ skipped \subseteq Occurrences
    /\ count \in 1 .. Cardinality(Occurrences)
    /\ edits \in 0 .. MaxEdits
    /\ unwanted \subseteq Clones \X Clones

\* No sequence of edits, deletions and refreshes breaks what the validation looks
\* for outside sibling order: one tree under the master plan, non-critical children
\* of the master, the template under its repetition, and instances whose roots,
\* indices and order fit.
TreeValid ==
    /\ MasterGoalValid /\ Reachable /\ MasterChildrenValid
    /\ RepetitionValid /\ TemplateStatusValid /\ InstancesValid

\* An occurrence is an instance or skipped, never both, and has clones only while
\* it is an instance: one that was deleted is not generated again.
OccurrencesOnce ==
    /\ Existing(instance) \cap skipped = {}
    /\ \A k \in Clones \cap Plans : k[2] \in Existing(instance) /\ RootOf(k[2]) \in Plans

\* Edits keep the numbers of both buckets of every goal dense, and so does a
\* refresh where no child of the goal is detached.
OrderKept ==
    [][\A g \in Plans \cap Plans', c \in BOOLEAN :
          (/\ plan[g].kind = "GOAL" /\ Dense(plan, g, c)
           /\ edits' = edits => \A p \in Children(plan', g) : plan'[p].status # "DETACHED")
          => Dense(plan', g, c)]_vars

\* The critical children of a goal that survives a step survive it together.
CriticalTogether ==
    [][\A g \in Plans \cap Plans' : CriticalChildren(g) \subseteq Plans']_vars

\* A linked clone that a user deleted is not recreated by a refresh as long as the
\* goal it was deleted from stays.
DeletedStaysDeleted == \A u \in unwanted : u[1] \notin Plans

\* A refresh settles: following the template a second time changes nothing.
RefreshSettles ==
    LET once == Followed(plan, instance) IN Followed(once, instance) = once

\* Sibling order is dense under every goal (INV-GCH-1), and the rest of the
\* validation passes: a refresh of the schedule is never refused.
NeverRefused == MasterTreeValid
=============================================================================
