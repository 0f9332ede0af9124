------------------------- MODULE PlanResolution_proofs -------------------------
(***************************************************************************)
(* The order of leaves as completion goes on, what the walks down the tree *)
(* find and how they number it, for any tree, any prerequisites and any    *)
(* number of plans.                                                        *)
(***************************************************************************)
EXTENDS PlanResolution, FiniteSetTheorems, TLAPS

\* The tree and the prerequisites are as they were.
SameGraph == UNCHANGED <<parent, order, generated, needs, immediate>>

\* What the tree determines stays while the tree stays.
LEMMA SameTree ==
    ASSUME SameGraph
    PROVE  Above' = Above
  BY DEF SameGraph, Above

\* So do the leaves below every plan.
LEMMA SameLeaves ==
    ASSUME SameGraph
    PROVE  LeavesBelow' = LeavesBelow
  BY DEF SameGraph, LeavesBelow, InTemplate, Above, Instances, RootClones, Children

\* So does what every plan waits for.
LEMMA SameWaits ==
    ASSUME SameGraph
    PROVE  \A d : Waits(d)' = Waits(d)
  BY DEF SameGraph, Waits, Reached, Direct

\* Completing leaves of an unchanged tree adds no edge: what is open shrinks, what is
\* complete stays so, and no dependent waits for another plan than before.
LEMMA EdgesShrink ==
    ASSUME SameGraph, completed \subseteq completed'
    PROVE  Edges' \subseteq Edges
<1>1. Open' \subseteq Open
  BY SameLeaves DEF Open
<1>2. \A p : Complete(p) => Complete(p)'
  BY SameLeaves DEF Complete
<1>3. \A d, p : LeafEdges(d, p)' \subseteq LeafEdges(d, p)
  BY <1>1, <1>2, SameLeaves DEF LeafEdges
<1>4. Dependents' = Dependents
  BY DEF SameGraph, Dependents
<1>5. PlanEdges' \subseteq PlanEdges
  BY <1>3, <1>4, SameWaits DEF PlanEdges
<1>6. ImmediateEdges' \subseteq ImmediateEdges
  BY <1>1 DEF SameGraph, ImmediateEdges
<1> QED BY <1>5, <1>6 DEF Edges

\* No edit of the completed leaves, of a generation or of a prerequisite moves a plan.
LEMMA TreeStays ==
    ASSUME [Next]_vars
    PROVE  UNCHANGED <<parent, order>>
<1>1. ASSUME NEW d \in Linked, NEW p \in Linked, AddPrerequisite(d, p)
      PROVE  UNCHANGED <<parent, order>>
  BY <1>1 DEF AddPrerequisite
<1>2. ASSUME NEW y, NEW x, SetImmediatePrerequisite(y, x)
      PROVE  UNCHANGED <<parent, order>>
  BY <1>2 DEF SetImmediatePrerequisite
<1>3. ASSUME NEW p, MarkComplete(p) \/ Reopen(p)
      PROVE  UNCHANGED <<parent, order>>
  BY <1>3 DEF MarkComplete, Reopen
<1>4. ASSUME NEW r, Generate(r)
      PROVE  UNCHANGED <<parent, order>>
  BY <1>4 DEF Generate
<1>5. CASE UNCHANGED vars
  BY <1>5 DEF vars
<1> QED BY <1>1, <1>2, <1>3, <1>4, <1>5 DEF Next

\* Whatever the tree and the prerequisites: a step that only completes leaves leaves
\* the solvers an order that is contained in the one before it (the expansion in
\* domain/prerequisites.py).
THEOREM CompletionRelaxes == Spec => ProgressFreesOnly
<1>1. ASSUME [Next]_vars, completed \subseteq completed', UNCHANGED <<generated, needs, immediate>>
      PROVE  Edges' \subseteq Edges
  <2>1. SameGraph
    BY <1>1, TreeStays DEF SameGraph
  <2> QED BY <1>1, <2>1, EdgesShrink
<1>2. [Next]_vars => [completed \subseteq completed' /\ UNCHANGED <<generated, needs, immediate>>
                        => Edges' \subseteq Edges]_vars
  BY <1>1
<1> QED BY <1>2, PTL DEF Spec, ProgressFreesOnly

-----------------------------------------------------------------------------
(* The tree.                                                               *)

\* A tree of plans: parents are goals or repetitions, the master plan alone has none,
\* and going up ends.
LEMMA TreeIs ==
    ASSUME parent \in Trees
    PROVE  /\ \A p \in Plans : parent[p] = None <=> p = Master
           /\ \A p \in Plans : p # Master => parent[p] \in Goals \cup Repetitions /\ parent[p] \in Plans
           /\ \A S \in SUBSET Plans : S # {} => \E p \in S : parent[p] \notin S
           /\ Master \in Plans
  BY TreeAssumption, KindAssumption

\* What is above a plan: itself, and what is above its parent.
LEMMA AboveIs ==
    ASSUME parent \in Trees
    PROVE  /\ \A p \in Plans : Above[p] = IF p = Master THEN {p} ELSE {p} \cup Above[parent[p]]
           /\ \A p \in Plans : p \in Above[p] /\ Above[p] \subseteq Plans
<1> DEFINE Closed(S) == \A x \in S : x # Master => parent[x] \in S
           least(p) == {q \in Plans : \A S \in SUBSET Plans : p \in S /\ Closed(S) => q \in S}
           f == [p \in Plans |-> least(p)]
           Body(g) == [p \in Plans |-> IF parent[p] = None THEN {p} ELSE {p} \cup g[parent[p]]]
<1>1. \A p \in Plans : parent[p] = None <=> p = Master
  BY TreeIs
<1>2. \A p \in Plans : p # Master => parent[p] \in Plans
  BY TreeIs
<1>3. ASSUME NEW p \in Plans
      PROVE  f[p] = IF parent[p] = None THEN {p} ELSE {p} \cup f[parent[p]]
  <2> DEFINE X == IF p = Master THEN {p} ELSE {p} \cup least(parent[p])
  <2>1. \A q \in Plans : \A x \in least(q) : x # Master => parent[x] \in least(q)
    BY <1>2
  <2>2. \A q \in Plans : q \in least(q) /\ least(q) \in SUBSET Plans
    OBVIOUS
  <2>3. p # Master => least(parent[p]) \subseteq least(p)
    BY <1>2
  <2>4. X \in SUBSET Plans /\ p \in X
    BY <1>2, <2>2
  <2>5. Closed(X)
    <3> HIDE DEF least
    <3> QED BY <1>2, <2>1, <2>2
  <2>6. least(p) \subseteq X
    <3> HIDE DEF X, Closed
    <3> QED BY <2>4, <2>5
  <2>7. X \subseteq least(p)
    <3> HIDE DEF least
    <3> QED BY <2>2, <2>3
  <2>8. f[p] = least(p) /\ (p # Master => f[parent[p]] = least(parent[p]))
    BY <1>2
  <2> HIDE DEF f, least
  <2> QED BY <1>1, <2>6, <2>7, <2>8
<1>4. f = Body(f)
  <2>1. f = [p \in Plans |-> f[p]]
    OBVIOUS
  <2> HIDE DEF f
  <2> QED BY <1>3, <2>1
<1> HIDE DEF f
<1>5. Above = CHOOSE g : g = Body(g)
  BY DEF Above
<1>6. Above = Body(Above)
  <2> HIDE DEF Body
  <2> QED BY <1>4, <1>5
<1>7. \A p \in Plans : Above[p] = IF p = Master THEN {p} ELSE {p} \cup Above[parent[p]]
  BY <1>1, <1>6
<1> DEFINE Bad == {p \in Plans : ~(Above[p] \subseteq Plans)}
<1>8. Bad = {}
  <2> SUFFICES ASSUME Bad # {} PROVE FALSE
    OBVIOUS
  <2>1. PICK p \in Bad : parent[p] \notin Bad
    BY TreeIs
  <2>2. p \in Plans /\ ~(Above[p] \subseteq Plans)
    OBVIOUS
  <2>3. p # Master /\ Above[p] = {p} \cup Above[parent[p]]
    <3> HIDE DEF Bad, Closed, least, Body
    <3>1. Above[p] = IF p = Master THEN {p} ELSE {p} \cup Above[parent[p]]
      BY <1>7, <2>2
    <3> QED BY <2>2, <3>1
  <2>4. Above[parent[p]] \subseteq Plans
    BY <1>2, <2>1, <2>3
  <2> QED BY <2>2, <2>3, <2>4
<1>9. \A p \in Plans : p \in Above[p]
  BY <1>7
<1> QED BY <1>7, <1>8, <1>9

\* The master plan is above every plan, and what is above is above throughout.
LEMMA AboveAll ==
    ASSUME parent \in Trees
    PROVE  /\ \A p \in Plans : Master \in Above[p]
           /\ \A p \in Plans : \A q \in Above[p] : Above[q] \subseteq Above[p]
<1>1. /\ \A p \in Plans : Above[p] = IF p = Master THEN {p} ELSE {p} \cup Above[parent[p]]
      /\ \A p \in Plans : p \in Above[p] /\ Above[p] \subseteq Plans
  BY AboveIs
<1>2. \A p \in Plans : p # Master => parent[p] \in Plans
  BY TreeIs
<1> DEFINE Bad == {p \in Plans : Master \notin Above[p] \/ \E q \in Above[p] : ~(Above[q] \subseteq Above[p])}
<1>3. Bad = {}
  <2> SUFFICES ASSUME Bad # {} PROVE FALSE
    OBVIOUS
  <2>1. PICK p \in Bad : parent[p] \notin Bad
    BY TreeIs
  <2>2. CASE p = Master
    <3>1. Above[p] = {p}
      BY <1>1, <2>2
    <3> QED BY <2>2, <3>1
  <2>3. CASE p # Master
    <3>1. /\ Master \in Above[parent[p]]
          /\ \A q \in Above[parent[p]] : Above[q] \subseteq Above[parent[p]]
      BY <1>2, <2>1, <2>3
    <3>2. Above[p] = {p} \cup Above[parent[p]]
      BY <1>1, <2>3
    <3> QED BY <2>1, <3>1, <3>2
  <2> QED BY <2>2, <2>3
<1> QED BY <1>3

\* Where the expansion of prerequisites goes on from a plan.
Enter(p) == IF p \in Goals THEN Children(p) ELSE IF p \in Repetitions THEN Instances(p) ELSE {}

\* A leaf is below a plan outside templates when it is the plan, or below one entered.
LEMMA LeavesBelowIs ==
    \A p \in Plans :
        LeavesBelow[p] = IF InTemplate(p) THEN {}
                         ELSE IF p \in Leaves THEN {p}
                         ELSE UNION {LeavesBelow[c] : c \in Enter(p)}
<1> DEFINE Holds(S, z) == \A x \in Plans : ~InTemplate(x) /\ (x = z \/ \E c \in Enter(x) : c \in S) => x \in S
           f == [p \in Plans |-> {z \in Leaves : \A S \in SUBSET Plans : Holds(S, z) => p \in S}]
           Body(g) == [p \in Plans |->
                          IF InTemplate(p) THEN {}
                          ELSE CASE p \in Leaves -> {p}
                                 [] p \in Goals  -> UNION {g[c] : c \in Children(p)}
                                 [] OTHER        -> UNION {g[c] : c \in Instances(p)}]
           Next1(g, p) == IF InTemplate(p) THEN {}
                          ELSE IF p \in Leaves THEN {p}
                          ELSE UNION {g[c] : c \in Enter(p)}
<1>1. /\ Plans = Goals \cup Leaves \cup Repetitions
      /\ Goals \cap Leaves = {} /\ Repetitions \cap Leaves = {} /\ Goals \cap Repetitions = {}
  BY KindAssumption
<1>2. \A p \in Plans : Enter(p) \subseteq Plans /\ (p \in Leaves => Enter(p) = {})
  BY <1>1 DEF Enter, Children, Instances, RootClones
<1>3. ASSUME NEW g, NEW p \in Plans
      PROVE  Body(g)[p] = Next1(g, p)
  <2>1. Body(g)[p] = IF InTemplate(p) THEN {}
                     ELSE CASE p \in Leaves -> {p}
                            [] p \in Goals  -> UNION {g[c] : c \in Children(p)}
                            [] OTHER        -> UNION {g[c] : c \in Instances(p)}
    OBVIOUS
  <2>2. CASE p \in Leaves
    BY <1>1, <2>1, <2>2
  <2>3. CASE p \in Goals
    BY <1>1, <2>1, <2>3 DEF Enter
  <2>4. CASE p \in Repetitions
    BY <1>1, <2>1, <2>4 DEF Enter
  <2> QED BY <1>1, <2>2, <2>3, <2>4
<1>4. ASSUME NEW p \in Plans, NEW z \in Leaves
      PROVE  z \in f[p] <=> ~InTemplate(p) /\ (p = z \/ \E c \in Enter(p) : z \in f[c])
  <2> DEFINE Starts(x) == ~InTemplate(x) /\ (x = z \/ \E c \in Enter(x) : z \in f[c])
             X == {x \in Plans : Starts(x)}
  <2>1. \A x \in Plans : z \in f[x] <=> \A S \in SUBSET Plans : Holds(S, z) => x \in S
    OBVIOUS
  <2> HIDE DEF f
  <2>2. ASSUME NEW x \in Plans, Starts(x)
        PROVE  z \in f[x]
    BY <1>2, <2>1, <2>2
  <2>3. Holds(X, z)
    <3> SUFFICES ASSUME NEW x \in Plans, ~InTemplate(x), x = z \/ \E c \in Enter(x) : c \in X
                 PROVE  x \in X
      OBVIOUS
    <3>1. \A c \in X : z \in f[c]
      BY <2>2
    <3> QED BY <3>1
  <2>4. z \in f[p] => p \in X
    <3>1. X \in SUBSET Plans
      OBVIOUS
    <3> HIDE DEF X, Holds
    <3> QED BY <2>1, <2>3, <3>1
  <2> QED BY <2>2, <2>4
<1>5. \A p \in Plans : f[p] \subseteq Leaves
  OBVIOUS
<1> HIDE DEF f
<1>6. ASSUME NEW p \in Plans
      PROVE  f[p] = Next1(f, p)
  <2>1. \A z \in Leaves : z \in f[p] <=> z \in Next1(f, p)
    BY <1>1, <1>2, <1>4
  <2>2. Next1(f, p) \subseteq Leaves
    BY <1>2, <1>5
  <2> HIDE DEF Next1
  <2> QED BY <1>5, <2>1, <2>2
<1>7. f = Body(f)
  <2>1. f = [p \in Plans |-> f[p]]
    BY DEF f
  <2>2. \A p \in Plans : f[p] = Body(f)[p]
    <3> HIDE DEF Body, Next1
    <3> QED BY <1>3, <1>6
  <2> QED BY <2>1, <2>2
<1>8. LeavesBelow = CHOOSE g : g = Body(g)
  BY DEF LeavesBelow
<1>9. LeavesBelow = Body(LeavesBelow)
  <2> HIDE DEF Body
  <2> QED BY <1>7, <1>8
<1>10. \A p \in Plans : LeavesBelow[p] = Next1(LeavesBelow, p)
  <2> HIDE DEF Body, Next1
  <2> QED BY <1>3, <1>9
<1> QED BY <1>10

\* Nothing above a schedulable leaf is a template or a repetition still to be generated:
\* from every plan above it the leaf is found.
LEMMA LeafFound ==
    ASSUME parent \in Trees, NEW z \in Schedulable
    PROVE  \A p \in Above[z] : z \in LeavesBelow[p]
<1>1. /\ \A p \in Plans : Above[p] = IF p = Master THEN {p} ELSE {p} \cup Above[parent[p]]
      /\ \A p \in Plans : p \in Above[p] /\ Above[p] \subseteq Plans
      /\ \A p \in Plans : \A q \in Above[p] : Above[q] \subseteq Above[p]
  BY AboveIs, AboveAll
<1>2. \A p \in Plans : p # Master => parent[p] \in Goals \cup Repetitions /\ parent[p] \in Plans
  BY TreeIs
<1>3. z \in Plans /\ z \in Leaves /\ ~InTemplate(z) /\ \A r \in Repetitions \ generated : RootClones(r) \cap Above[z] = {}
  BY DEF Schedulable, Present
<1>4. \A w \in Above[z] : ~InTemplate(w)
  BY <1>1, <1>3 DEF InTemplate
<1>5. ASSUME NEW w \in Above[z], w # Master, z \in LeavesBelow[w]
      PROVE  parent[w] \in Above[z] /\ z \in LeavesBelow[parent[w]]
  <2>1. w \in Plans /\ parent[w] \in Plans /\ parent[w] \in Goals \cup Repetitions
    BY <1>1, <1>2, <1>3, <1>5
  <2>2. Above[parent[w]] \subseteq Above[w] /\ Above[w] \subseteq Above[z]
    BY <1>1, <1>3, <1>5, <2>1
  <2>3. parent[w] \in Above[z]
    BY <1>1, <2>1, <2>2
  <2>4. w \in Children(parent[w])
    BY <2>1 DEF Children
  <2>5. w \in Enter(parent[w])
    <3>1. CASE parent[w] \in Goals
      BY <2>4, <3>1 DEF Enter
    <3>2. CASE parent[w] \in Repetitions
      <4>1. w # TemplateRoot[parent[w]]
        <5>1. w \in Above[w]
          BY <1>1, <2>1
        <5> QED BY <1>4, <1>5, <3>2, <5>1 DEF InTemplate
      <4>2. w \in RootClones(parent[w])
        BY <2>4, <4>1 DEF RootClones
      <4>3. parent[w] \in generated
        BY <1>3, <1>5, <3>2, <4>2
      <4>4. parent[w] \notin Goals
        BY <3>2, KindAssumption
      <4> QED BY <3>2, <4>2, <4>3, <4>4 DEF Enter, Instances
    <3> QED BY <2>1, <3>1, <3>2
  <2>6. ~InTemplate(parent[w]) /\ parent[w] \notin Leaves
    BY <1>4, <2>1, <2>3, KindAssumption
  <2>7. LeavesBelow[parent[w]] = UNION {LeavesBelow[c] : c \in Enter(parent[w])}
    BY <2>1, <2>6, LeavesBelowIs
  <2> QED BY <1>5, <2>3, <2>5, <2>7
<1> DEFINE Bad == {w \in Above[z] : z \in LeavesBelow[w] /\ \E p \in Above[w] : z \notin LeavesBelow[p]}
<1>6. Bad = {}
  <2> SUFFICES ASSUME Bad # {} PROVE FALSE
    OBVIOUS
  <2>1. Bad \in SUBSET Plans
    BY <1>1, <1>3
  <2>2. PICK w \in Bad : parent[w] \notin Bad
    BY <2>1, TreeIs
  <2>3. PICK p \in Above[w] : z \notin LeavesBelow[p]
    BY <2>2
  <2>4. w \in Plans /\ w \in Above[z] /\ z \in LeavesBelow[w] /\ p # w
    BY <2>1, <2>3
  <2>5. w # Master /\ p \in Above[parent[w]]
    <3>1. p \in (IF w = Master THEN {w} ELSE {w} \cup Above[parent[w]])
      BY <1>1, <2>3, <2>4
    <3> QED BY <2>4, <3>1
  <2>6. parent[w] \in Above[z] /\ z \in LeavesBelow[parent[w]]
    BY <1>5, <2>4, <2>5
  <2> QED BY <2>2, <2>3, <2>5, <2>6
<1>7. z \in Above[z] /\ z \in LeavesBelow[z]
  <2>1. z \in Above[z]
    BY <1>1, <1>3
  <2>2. LeavesBelow[z] = {z}
    BY <1>3, LeavesBelowIs
  <2> QED BY <2>1, <2>2
<1> QED BY <1>6, <1>7

-----------------------------------------------------------------------------
(* Prerequisites.                                                          *)

\* Every non-empty set of natural numbers has a least one.
LEMMA Least ==
    ASSUME NEW T \in SUBSET Nat, T # {}
    PROVE  \E m \in T : \A n \in T : m <= n
<1> DEFINE R == OpToRel(<, Nat)
<1>1. IsWellFoundedOn(R, Nat)
  BY NatLessThanWellFounded
<1>2. \E m \in T : \A n \in T : ~(<<n, m>> \in R)
  <2> HIDE DEF R
  <2> QED BY <1>1, WFMin
<1>3. \A m, n \in Nat : <<n, m>> \in R <=> n < m
  BY DEF OpToRel
<1>4. PICK m \in T : \A n \in T : ~(<<n, m>> \in R)
  BY <1>2
<1>5. \A n \in T : ~(n < m)
  <2> HIDE DEF R
  <2> QED BY <1>3, <1>4
<1> QED BY <1>5

\* What is reached from a set holds it and is closed under prerequisites, and the walk
\* ends because there are finitely many plans.
LEMMA ReachedIs ==
    ASSUME needs \subseteq Plans \X Plans
    PROVE  \A S \in SUBSET Plans :
              S \subseteq Reached[S] /\ Direct(Reached[S]) \subseteq Reached[S]
<1> DEFINE more(S) == S \cup Direct(S)
           least(S) == {q \in Plans : \A T \in SUBSET Plans : S \subseteq T /\ Direct(T) \subseteq T => q \in T}
           f == [S \in SUBSET Plans |-> least(S)]
           Body(g) == [S \in SUBSET Plans |-> IF more(S) = S THEN S ELSE g[more(S)]]
<1>1. \A S \in SUBSET Plans : Direct(S) \subseteq Plans /\ more(S) \in SUBSET Plans
  BY DEF Direct
<1>2. \A S, T : S \subseteq T => Direct(S) \subseteq Direct(T)
  BY DEF Direct
<1>3. ASSUME NEW S \in SUBSET Plans
      PROVE  f[S] = IF more(S) = S THEN S ELSE f[more(S)]
  <2>1. f[S] = least(S) /\ f[more(S)] = least(more(S))
    BY <1>1
  <2>2. CASE more(S) = S
    <3>1. Direct(S) \subseteq S
      BY <2>2
    <3>2. least(S) = S
      BY <3>1
    <3> QED BY <2>1, <2>2, <3>2
  <2>3. \A T \in SUBSET Plans : S \subseteq T /\ Direct(T) \subseteq T => more(S) \subseteq T
    BY <1>2
  <2>4. \A T \in SUBSET Plans : more(S) \subseteq T => S \subseteq T
    OBVIOUS
  <2> HIDE DEF f, more
  <2>5. least(S) = least(more(S))
    BY <2>3, <2>4
  <2> HIDE DEF least
  <2> QED BY <2>1, <2>2, <2>5
<1> HIDE DEF more
<1>4. f = Body(f)
  <2>1. f = [S \in SUBSET Plans |-> f[S]]
    OBVIOUS
  <2> HIDE DEF f
  <2> QED BY <1>3, <2>1
<1> HIDE DEF f
<1>5. Reached = CHOOSE g : g = Body(g)
  BY DEF Reached, more
<1>6. Reached = Body(Reached)
  <2> HIDE DEF Body
  <2> QED BY <1>4, <1>5
<1>7. \A S \in SUBSET Plans : Reached[S] = IF more(S) = S THEN S ELSE Reached[more(S)]
  BY <1>6
<1> DEFINE Closed(S) == S \subseteq Reached[S] /\ Direct(Reached[S]) \subseteq Reached[S]
           left(S) == Cardinality(Plans \ S)
           Bad == {n \in Nat : \E S \in SUBSET Plans : ~Closed(S) /\ left(S) = n}
<1>8. \A S \in SUBSET Plans : left(S) \in Nat
  BY KindAssumption, FS_Difference, FS_CardinalityType
<1>9. ASSUME NEW S \in SUBSET Plans, more(S) # S
      PROVE  left(more(S)) < left(S)
  <2>1. (Plans \ more(S)) \subseteq (Plans \ S) /\ Plans \ more(S) # Plans \ S
    BY <1>1, <1>9 DEF more
  <2>2. IsFiniteSet(Plans \ S)
    BY KindAssumption, FS_Difference
  <2> DEFINE A == Plans \ more(S)
             B == Plans \ S
  <2>3. A \subseteq B /\ A # B /\ IsFiniteSet(B)
    BY <2>1, <2>2
  <2> HIDE DEF A, B
  <2>4. Cardinality(A) < Cardinality(B)
    <3>1. Cardinality(A) <= Cardinality(B) /\ (Cardinality(A) = Cardinality(B) => A = B)
      BY <2>3, FS_Subset
    <3>2. Cardinality(A) \in Nat /\ Cardinality(B) \in Nat
      BY <2>3, FS_Subset, FS_CardinalityType
    <3> QED BY <2>3, <3>1, <3>2
  <2> QED BY <2>4 DEF A, B
<1> HIDE DEF left
<1>10. ASSUME NEW S \in SUBSET Plans, ~Closed(S)
       PROVE  FALSE
  <2>1. left(S) \in Bad
    BY <1>8, <1>10
  <2>2. PICK m \in Bad : \A n \in Bad : m <= n
    <3>1. Bad \in SUBSET Nat
      OBVIOUS
    <3> HIDE DEF Bad
    <3> QED BY <2>1, <3>1, Least
  <2>3. PICK T \in SUBSET Plans : ~Closed(T) /\ left(T) = m
    BY <2>2
  <2>4. CASE more(T) = T
    <3>1. Reached[T] = T
      BY <1>7, <2>4
    <3> QED BY <2>3, <2>4, <3>1 DEF more
  <2>5. CASE more(T) # T
    <3>1. Reached[T] = Reached[more(T)]
      BY <1>7, <2>5
    <3>2. Closed(more(T)) => Closed(T)
      BY <3>1 DEF more
    <3>3. more(T) \in SUBSET Plans /\ left(more(T)) < m /\ left(more(T)) \in Nat
      BY <1>1, <1>8, <1>9, <2>3, <2>5
    <3>4. left(more(T)) \in Bad
      BY <2>3, <3>2, <3>3
    <3>5. m <= left(more(T)) /\ m \in Nat
      BY <2>2, <3>4
    <3> QED BY <3>3, <3>5
  <2> QED BY <2>4, <2>5
<1> QED BY <1>10

-----------------------------------------------------------------------------
(* Ready leaves.                                                           *)

\* The tree and the order are of those looked at, and prerequisites join plans.
IInv == parent \in Trees /\ order \in Orders /\ needs \subseteq Plans \X Plans

\* Prerequisites join plans throughout.
THEOREM Inv == Spec => []IInv
<1>1. Init => IInv
  BY DEF Init, IInv
<1>2. ASSUME IInv, [Next]_vars
      PROVE  IInv'
  <2>1. UNCHANGED <<parent, order>>
    BY <1>2, TreeStays
  <2>2. needs' \subseteq Plans \X Plans
    <3>1. ASSUME NEW d \in Linked, NEW p \in Linked, AddPrerequisite(d, p)
          PROVE  needs' \subseteq Plans \X Plans
      BY <1>2, <3>1, LinksAssumption DEF AddPrerequisite, IInv
    <3>2. ASSUME UNCHANGED needs
          PROVE  needs' \subseteq Plans \X Plans
      BY <1>2, <3>2 DEF IInv
    <3> QED BY <1>2, <3>1, <3>2 DEF Next, vars, SetImmediatePrerequisite, MarkComplete, Reopen, Generate
  <2> QED BY <1>2, <2>1, <2>2 DEF IInv
<1> QED BY <1>1, <1>2, PTL DEF Spec

\* Every open leaf below what a plan above y needs, or what that needs, has an edge to y.
LEMMA ReadyHolds ==
    ASSUME IInv
    PROVE  ReadyOnly
<1> SUFFICES ASSUME NEW y \in Ready, NEW p \in Needed(Above[y]),
                    NEW z \in Schedulable \ ({y} \cup completed), p \in Above[z]
             PROVE  FALSE
  BY DEF ReadyOnly
<1>1. y \in Schedulable /\ y \notin completed /\ z \in Schedulable /\ z \notin completed /\ z # y
  BY DEF Ready
<1>2. y \in Plans /\ z \in Plans /\ Above[y] \subseteq Plans
  BY <1>1, AboveIs DEF Schedulable, Present, IInv
<1>3. (\A q \in Above[y] : y \in LeavesBelow[q]) /\ z \in LeavesBelow[p]
  BY <1>1, LeafFound DEF IInv
<1>4. y \in Open /\ z \in Open
  <2>1. y \in LeavesBelow[Master] /\ z \in LeavesBelow[Master]
    BY <1>1, <1>2, AboveAll, LeafFound DEF IInv
  <2> QED BY <1>1, <2>1 DEF Open
<1> DEFINE S == {q \in Prerequisites : \E d \in Above[y] \cap Dependents : q \in Waits(d)}
<1>5. \A d \in Above[y] : Direct({d}) \in SUBSET Plans
  BY DEF Direct, IInv
<1>6. \A d \in Above[y] : Direct({d}) \subseteq Waits(d) /\ Direct(Waits(d)) \subseteq Waits(d)
  BY <1>5, ReachedIs DEF Waits, IInv
<1>7. Direct(Above[y]) \subseteq S
  BY <1>6 DEF Direct, Prerequisites, Dependents
<1>8. Direct(S) \subseteq S
  <2> SUFFICES ASSUME NEW l \in needs, l[1] \in S PROVE l[2] \in S
    BY DEF Direct
  <2>1. PICK d \in Above[y] \cap Dependents : l[1] \in Waits(d)
    OBVIOUS
  <2>2. l[2] \in Direct(Waits(d))
    BY <2>1 DEF Direct
  <2> QED BY <1>6, <2>1, <2>2 DEF Prerequisites
<1>9. S \in SUBSET Prerequisites
  OBVIOUS
<1>10. p \in S
  <2> HIDE DEF S
  <2> QED BY <1>7, <1>8, <1>9 DEF Needed
<1>11. PICK d \in Above[y] \cap Dependents : p \in Waits(d)
  BY <1>10
<1>12. ~Complete(p)
  BY <1>1, <1>3 DEF Complete
<1>13. <<z, y>> \in LeafEdges(d, p)
  BY <1>3, <1>4, <1>12 DEF LeafEdges
<1>14. <<z, y>> \in Edges
  BY <1>1, <1>11, <1>13 DEF PlanEdges, Edges
<1> QED BY <1>14 DEF Ready

\* A leaf the solvers may take is held back by nothing: everything that the plans above
\* it need, directly or not, is finished.
THEOREM ReadyCorrect == Spec => []ReadyOnly
<1>1. IInv => ReadyOnly
  BY ReadyHolds
<1> QED BY <1>1, Inv, PTL
-----------------------------------------------------------------------------
(* The order of siblings.                                                  *)

StrictOrder(S, R) ==
    /\ \A x, y \in S : x # y => <<x, y>> \in R \/ <<y, x>> \in R
    /\ \A x \in S : <<x, x>> \notin R
    /\ \A x, y, z \in S : <<x, y>> \in R /\ <<y, z>> \in R => <<x, z>> \in R

\* How many elements of S are earlier than each.
Rank(S, R) == [x \in S |-> Cardinality({y \in S : <<y, x>> \in R})]

\* In a finite set with a strict total order every element has a rank of its own, and
\* the ranks are 0, 1, 2 and so on.
LEMMA Ranks ==
    ASSUME NEW S, IsFiniteSet(S), NEW R, StrictOrder(S, R)
    PROVE  /\ Rank(S, R) \in Bijection(S, 0 .. Cardinality(S) - 1)
           /\ \A x, y \in S : <<x, y>> \in R => Rank(S, R)[x] < Rank(S, R)[y]
<1> USE DEF StrictOrder
<1> DEFINE below(x) == {y \in S : <<y, x>> \in R}
           rank == [x \in S |-> Cardinality(below(x))]
<1>r. Rank(S, R) = rank
  BY DEF Rank
<1>0. Cardinality(S) \in Nat
  BY FS_CardinalityType
<1>1. \A x \in S : IsFiniteSet(below(x)) /\ Cardinality(below(x)) \in Nat
  <2> TAKE x \in S
  <2>1. below(x) \in SUBSET S
    OBVIOUS
  <2> HIDE DEF below
  <2> QED BY <2>1, FS_Subset, FS_CardinalityType
<1>2. \A x \in S : rank[x] \in 0 .. Cardinality(S) - 1
  <2> TAKE x \in S
  <2>1. below(x) \in SUBSET S /\ x \notin below(x)
    OBVIOUS
  <2> HIDE DEF below
  <2>2. Cardinality(below(x)) <= Cardinality(S) /\ Cardinality(below(x)) # Cardinality(S)
    BY <2>1, FS_Subset
  <2> QED BY <1>0, <1>1, <2>2
<1>3. ASSUME NEW x \in S, NEW y \in S, <<x, y>> \in R
      PROVE  rank[x] < rank[y]
  <2>1. below(x) \in SUBSET below(y) /\ below(x) # below(y)
    BY <1>3
  <2> HIDE DEF below
  <2>2. Cardinality(below(x)) <= Cardinality(below(y)) /\ Cardinality(below(x)) # Cardinality(below(y))
    BY <1>1, <2>1, FS_Subset
  <2> QED BY <1>1, <2>2
<1>4. rank \in Injection(S, 0 .. Cardinality(S) - 1)
  <2>1. rank \in [S -> 0 .. Cardinality(S) - 1]
    BY <1>2
  <2>2. ASSUME NEW x \in S, NEW y \in S, x # y
        PROVE  rank[x] # rank[y]
    <3>1. rank[x] < rank[y] \/ rank[y] < rank[x]
      <4> HIDE DEF rank
      <4> QED BY <1>3, <2>2
    <3>2. rank[x] \in Nat /\ rank[y] \in Nat
      <4> HIDE DEF below
      <4> QED BY <1>1
    <3> HIDE DEF rank
    <3> QED BY <3>1, <3>2
  <2> HIDE DEF rank
  <2> QED BY <2>1, <2>2 DEF Injection, IsInjective
<1>5. IsFiniteSet(0 .. Cardinality(S) - 1) /\ Cardinality(0 .. Cardinality(S) - 1) = Cardinality(S)
  <2> DEFINE n == Cardinality(S)
  <2>1. n \in Nat /\ 0 \in Int /\ n - 1 \in Int
    BY <1>0
  <2> HIDE DEF n, rank, below
  <2>2. IsFiniteSet(0 .. n - 1) /\ Cardinality(0 .. n - 1) = IF 0 > n - 1 THEN 0 ELSE (n - 1) - 0 + 1
    BY <2>1, FS_Interval
  <2>3. IsFiniteSet(0 .. n - 1) /\ Cardinality(0 .. n - 1) = n
    BY <2>1, <2>2
  <2> QED BY <2>3 DEF n
<1>6. rank \in Bijection(S, 0 .. Cardinality(S) - 1)
  <2> HIDE DEF rank
  <2>1. rank \in Surjection(S, 0 .. Cardinality(S) - 1)
    BY <1>4, <1>5, FS_Injection
  <2> QED BY <1>4, <2>1 DEF Bijection
<1> HIDE DEF rank
<1> QED BY <1>r, <1>3, <1>6

\* The list holds every member of S once.
Lists(seq, S) ==
    /\ seq \in Seq(S) /\ Len(seq) = Cardinality(S)
    /\ \A m, n \in 1 .. Len(seq) : seq[m] = seq[n] => m = n
    /\ \A x \in S : \E n \in 1 .. Len(seq) : seq[n] = x

\* Every element at the place its rank says.
Ranked(S, R) == [n \in 1 .. Cardinality(S) |-> CHOOSE x \in S : Rank(S, R)[x] = n - 1]

LEMMA RankedLists ==
    ASSUME NEW S, IsFiniteSet(S), NEW R, StrictOrder(S, R),
           NEW seq, seq = Ranked(S, R)
    PROVE  Lists(seq, S) /\ \A n \in 1 .. Len(seq) : Rank(S, R)[seq[n]] = n - 1
<1> USE DEF Ranked
<1> DEFINE rank == Rank(S, R)
<1>1. rank \in Bijection(S, 0 .. Cardinality(S) - 1)
  BY Ranks
<1> HIDE DEF rank
<1>2. Cardinality(S) \in Nat
  BY FS_CardinalityType
<1>3. /\ \A x \in S : rank[x] \in 0 .. Cardinality(S) - 1
      /\ \A x, y \in S : rank[x] = rank[y] => x = y
      /\ \A n \in 0 .. Cardinality(S) - 1 : \E x \in S : rank[x] = n
  BY <1>1 DEF Bijection, Injection, Surjection, IsInjective
<1>4. \A n \in 1 .. Cardinality(S) : seq[n] \in S /\ rank[seq[n]] = n - 1
  <2> TAKE n \in 1 .. Cardinality(S)
  <2>1. seq[n] = CHOOSE x \in S : rank[x] = n - 1
    BY DEF rank
  <2>2. n - 1 \in 0 .. Cardinality(S) - 1
    BY <1>2
  <2>3. \E x \in S : rank[x] = n - 1
    BY <1>3, <2>2
  <2> QED BY <2>1, <2>3
<1>5. seq \in Seq(S) /\ Len(seq) = Cardinality(S)
  <2>1. seq \in [1 .. Cardinality(S) -> S]
    BY <1>4
  <2>2. \A n \in Nat : \A f \in [1 .. n -> S] : f \in Seq(S) /\ Len(f) = n
    OBVIOUS
  <2> QED BY <1>2, <2>1, <2>2
<1>6. \A m, n \in 1 .. Len(seq) : seq[m] = seq[n] => m = n
  BY <1>2, <1>4, <1>5
<1>7. \A x \in S : \E n \in 1 .. Len(seq) : seq[n] = x
  <2> TAKE x \in S
  <2>1. rank[x] \in 0 .. Cardinality(S) - 1
    BY <1>3
  <2>2. rank[x] + 1 \in 1 .. Cardinality(S) /\ (rank[x] + 1) - 1 = rank[x]
    BY <1>2, <2>1
  <2>3. seq[rank[x] + 1] = x
    BY <1>3, <1>4, <2>2
  <2> QED BY <1>5, <2>2, <2>3
<1> QED BY <1>4, <1>5, <1>6, <1>7 DEF Lists, rank


\* A set of numbers with 0 that goes up by one holds all numbers up to a bound.
LEMMA UpTo ==
    ASSUME NEW k \in Nat, NEW S \in SUBSET (0 .. k), 0 \in S,
           \A n \in 1 .. k : n - 1 \in S => n \in S
    PROVE  S = 0 .. k
<1> DEFINE T == (0 .. k) \ S
<1>1. SUFFICES ASSUME T # {} PROVE FALSE
  OBVIOUS
<1>2. T \in SUBSET Nat
  OBVIOUS
<1>3. PICK m \in T : \A n \in T : m <= n
  <2> HIDE DEF T
  <2> QED BY <1>1, <1>2, Least
<1>4. m \in 1 .. k /\ m - 1 \in 0 .. k /\ ~(m <= m - 1)
  BY <1>3
<1>5. m - 1 \in S
  BY <1>3, <1>4
<1> QED BY <1>3, <1>4, <1>5

\* The i-th step keeps values of St in St; f takes m steps from the value base.
Keeps(m, St, step) == \A i \in 1 .. m : \A v \in St : step[i][v] \in St
Takes(m, base, step, f) == f[0] = base /\ \A i \in 1 .. m : f[i] = step[i][f[i - 1]]

\* Steps on values of St can be taken one after the other, any number of times.
LEMMA StepsExist ==
    ASSUME NEW m \in Nat, NEW St, NEW base \in St, NEW step, Keeps(m, St, step)
    PROVE  \E f \in [0 .. m -> St] : Takes(m, base, step, f)
<1> USE DEF Keeps, Takes
<1> DEFINE Good(k, f) == f[0] = base /\ \A i \in 1 .. k : f[i] = step[i][f[i - 1]]
           Reach == {k \in 0 .. m : \E f \in [0 .. m -> St] : Good(k, f)}
<1>1. 0 \in Reach
  <2>1. [i \in 0 .. m |-> base] \in [0 .. m -> St] /\ Good(0, [i \in 0 .. m |-> base])
    OBVIOUS
  <2> HIDE DEF Good
  <2> QED BY <2>1
<1>2. ASSUME NEW k \in 1 .. m, k - 1 \in Reach
      PROVE  k \in Reach
  <2>1. PICK f \in [0 .. m -> St] : Good(k - 1, f)
    <3> HIDE DEF Good
    <3> QED BY <1>2
  <2> DEFINE g == [f EXCEPT ![k] = step[k][f[k - 1]]]
  <2>2. g \in [0 .. m -> St]
    <3>1. k - 1 \in 0 .. m
      OBVIOUS
    <3>2. f[k - 1] \in St
      BY <3>1
    <3> QED BY <3>2
  <2>3. g[0] = base
    BY <2>1
  <2>4. ASSUME NEW i \in 1 .. k PROVE g[i] = step[i][g[i - 1]]
    <3>1. i - 1 # k /\ i - 1 \in 0 .. m /\ i \in 0 .. m
      OBVIOUS
    <3>2. g[i - 1] = f[i - 1]
      BY <3>1
    <3>3. CASE i = k
      BY <3>2, <3>3
    <3>4. CASE i # k
      <4>1. i \in 1 .. k - 1
        BY <3>4
      <4>2. g[i] = f[i]
        BY <3>1, <3>4
      <4> QED BY <2>1, <3>2, <4>1, <4>2
    <3> QED BY <3>3, <3>4
  <2> HIDE DEF g
  <2>5. Good(k, g)
    BY <2>3, <2>4
  <2> HIDE DEF Good
  <2> QED BY <2>2, <2>5
<1>3. Reach \in SUBSET (0 .. m)
  OBVIOUS
<1> HIDE DEF Reach
<1>4. Reach = 0 .. m
  BY <1>1, <1>2, <1>3, UpTo
<1>5. m \in Reach
  BY <1>4
<1> QED BY <1>5 DEF Reach

\* Siblings are told apart by criticality and sort order, and are listed in that order.
LEMMA OrderedIs ==
    ASSUME order \in Orders, NEW S \in SUBSET Plans
    PROVE  /\ Lists(Ordered(S), S)
           /\ \A i, j \in 1 .. Len(Ordered(S)) : i < j => Before(Ordered(S)[i], Ordered(S)[j])
<1> DEFINE R == {p \in S \X S : Before(p[1], p[2])}
           seq == Ordered(S)
<1>1. /\ order.sort \in [Plans -> Nat]
      /\ \A p, q \in Plans : order.sort[p] = order.sort[q] => p = q
  BY OrderAssumption
<1>2. IsFiniteSet(S)
  BY KindAssumption, FS_Subset
<1>3. \A x, y \in S : <<x, y>> \in R <=> Before(x, y)
  OBVIOUS
<1>4. \A x, y \in S : x # y => Before(x, y) \/ Before(y, x)
  BY <1>1 DEF Before
<1>5. \A x \in S : ~Before(x, x)
  BY <1>1 DEF Before
<1>6. \A x, y, z \in S : Before(x, y) /\ Before(y, z) => Before(x, z)
  BY <1>1 DEF Before
<1> HIDE DEF R
<1>7. StrictOrder(S, R)
  BY <1>3, <1>4, <1>5, <1>6 DEF StrictOrder
<1>8. \A x \in S : Rank(S, R)[x] = Cardinality({y \in S : Before(y, x)})
  <2> TAKE x \in S
  <2>1. {y \in S : <<y, x>> \in R} = {y \in S : Before(y, x)}
    BY <1>3
  <2> QED BY <2>1 DEF Rank
<1>9. seq = Ranked(S, R)
  BY <1>8 DEF Ordered, Ranked
<1> HIDE DEF seq
<1>10. Lists(seq, S) /\ \A n \in 1 .. Len(seq) : Rank(S, R)[seq[n]] = n - 1
  BY <1>2, <1>7, <1>9, RankedLists
<1>11. ASSUME NEW i \in 1 .. Len(seq), NEW j \in 1 .. Len(seq), i < j
       PROVE  Before(seq[i], seq[j])
  <2>1. seq[i] \in S /\ seq[j] \in S /\ i \in Nat /\ j \in Nat
    BY <1>10 DEF Lists
  <2>2. Rank(S, R)[seq[i]] = i - 1 /\ Rank(S, R)[seq[j]] = j - 1
    BY <1>10
  <2>3. <<seq[j], seq[i]>> \in R => Rank(S, R)[seq[j]] < Rank(S, R)[seq[i]]
    BY <1>2, <1>7, <2>1, Ranks
  <2>4. ~Before(seq[j], seq[i])
    BY <1>3, <1>11, <2>1, <2>2, <2>3
  <2>5. seq[i] # seq[j]
    BY <1>10, <1>11, <2>1 DEF Lists
  <2> QED BY <1>4, <2>1, <2>4, <2>5
<1> QED BY <1>10, <1>11 DEF seq

-----------------------------------------------------------------------------
(* Above and below.                                                        *)

\* No plan is above its own parent.
LEMMA NeverAboveParent ==
    ASSUME parent \in Trees, NEW a \in Plans \ {Master}
    PROVE  a \notin Above[parent[a]]
<1>1. /\ \A p \in Plans : Above[p] = IF p = Master THEN {p} ELSE {p} \cup Above[parent[p]]
      /\ \A p \in Plans : p \in Above[p] /\ Above[p] \subseteq Plans
      /\ \A p \in Plans : \A q \in Above[p] : Above[q] \subseteq Above[p]
  BY AboveIs, AboveAll
<1>2. \A p \in Plans : p # Master => parent[p] \in Plans
  BY TreeIs
<1>3. SUFFICES ASSUME a \in Above[parent[a]] PROVE FALSE
  OBVIOUS
<1> DEFINE S == {q \in Above[parent[a]] : a \in Above[q]}
<1>4. S \in SUBSET Plans /\ parent[a] \in S
  BY <1>1, <1>2, <1>3
<1>5. PICK q \in S : parent[q] \notin S
  <2> HIDE DEF S
  <2> QED BY <1>4, TreeIs
<1>6. q \in Plans /\ q \in Above[parent[a]] /\ a \in Above[q] /\ parent[a] \in Plans
  BY <1>4, <1>5, <1>2
<1>7. q # Master
  BY <1>1, <1>6
<1>8. parent[q] \in Plans /\ Above[q] = {q} \cup Above[parent[q]] /\ parent[q] \in Above[parent[q]]
  BY <1>1, <1>2, <1>6, <1>7
<1>9. parent[q] \in Above[parent[a]]
  BY <1>1, <1>2, <1>6, <1>8
<1>10. a \in Above[parent[q]]
  BY <1>3, <1>6, <1>8
<1> QED BY <1>5, <1>9, <1>10

\* Of two plans above a third one is above the other.
LEMMA AboveChain ==
    ASSUME parent \in Trees
    PROVE  \A x \in Plans : \A a, b \in Above[x] : a \in Above[b] \/ b \in Above[a]
<1>1. /\ \A p \in Plans : Above[p] = IF p = Master THEN {p} ELSE {p} \cup Above[parent[p]]
      /\ \A p \in Plans : p \in Above[p] /\ Above[p] \subseteq Plans
  BY AboveIs
<1>2. \A p \in Plans : p # Master => parent[p] \in Plans
  BY TreeIs
<1> DEFINE Bad == {x \in Plans : \E a, b \in Above[x] : a \notin Above[b] /\ b \notin Above[a]}
<1>3. SUFFICES ASSUME Bad # {} PROVE FALSE
  OBVIOUS
<1>4. PICK x \in Bad : parent[x] \notin Bad
  BY <1>3, TreeIs
<1>5. PICK a \in Above[x], b \in Above[x] : a \notin Above[b] /\ b \notin Above[a]
  BY <1>4
<1>6. x \in Plans
  OBVIOUS
<1>7. CASE x = Master
  BY <1>1, <1>5, <1>6, <1>7
<1>8. CASE x # Master
  <2>1. Above[x] = {x} \cup Above[parent[x]] /\ parent[x] \in Plans
    BY <1>1, <1>2, <1>6, <1>8
  <2>2. a # x /\ b # x
    BY <1>5
  <2>3. a \in Above[parent[x]] /\ b \in Above[parent[x]]
    BY <1>5, <2>1, <2>2
  <2> QED BY <1>4, <1>5, <2>1, <2>3
<1> QED BY <1>7, <1>8

\* No plan is below two siblings.
LEMMA SiblingsApart ==
    ASSUME parent \in Trees, NEW x \in Plans, NEW a \in Above[x], NEW b \in Above[x],
           parent[a] = parent[b]
    PROVE  a = b
<1>1. /\ \A p \in Plans : Above[p] = IF p = Master THEN {p} ELSE {p} \cup Above[parent[p]]
      /\ \A p \in Plans : p \in Above[p] /\ Above[p] \subseteq Plans
      /\ \A p \in Plans : parent[p] = None <=> p = Master
  BY AboveIs, TreeIs
<1>2. a \in Plans /\ b \in Plans
  BY <1>1
<1>3. CASE a = Master \/ b = Master
  BY <1>1, <1>2, <1>3
<1>4. CASE a # Master /\ b # Master
  <2>1. Above[a] = {a} \cup Above[parent[a]] /\ Above[b] = {b} \cup Above[parent[b]]
    BY <1>1, <1>2, <1>4
  <2>2. a \notin Above[parent[a]] /\ b \notin Above[parent[b]]
    BY <1>2, <1>4, NeverAboveParent
  <2>3. a \in Above[b] \/ b \in Above[a]
    BY AboveChain
  <2> QED BY <2>1, <2>2, <2>3
<1> QED BY <1>3, <1>4

\* The user puts one of two plans first, never each before the other.
LEMMA TreeOrderOneWay ==
    ASSUME parent \in Trees, order \in Orders, NEW x \in Plans, NEW y \in Plans,
           TreeBefore(x, y)
    PROVE  ~TreeBefore(y, x) /\ x # y
<1>1. /\ \A p \in Plans : Above[p] = IF p = Master THEN {p} ELSE {p} \cup Above[parent[p]]
      /\ \A p \in Plans : p \in Above[p] /\ Above[p] \subseteq Plans
      /\ \A p \in Plans : \A q \in Above[p] : Above[q] \subseteq Above[p]
      /\ \A p \in Plans : parent[p] = None <=> p = Master
      /\ \A p \in Plans : p # Master => parent[p] \in Plans
  BY AboveIs, AboveAll, TreeIs
<1>2. /\ order.sort \in [Plans -> Nat]
      /\ \A p, q \in Plans : order.sort[p] = order.sort[q] => p = q
  BY OrderAssumption
<1>3. \A p, q \in Plans : Before(p, q) => p # q /\ ~Before(q, p)
  BY <1>2 DEF Before
<1>4. PICK a \in Above[x], b \in Above[y] : parent[a] = parent[b] /\ Before(a, b)
  BY DEF TreeBefore
<1>5. a \in Plans /\ b \in Plans /\ a # b /\ ~Before(b, a)
  BY <1>1, <1>3, <1>4
<1>6. a # Master /\ b # Master
  BY <1>1, <1>4, <1>5
<1>7. x # y
  BY <1>4, <1>5, SiblingsApart
<1>8. ASSUME NEW c \in Above[x], NEW d \in Above[y], parent[d] = parent[c], Before(d, c)
      PROVE  FALSE
  <2>1. c \in Plans /\ d \in Plans /\ c # d
    BY <1>1, <1>3, <1>8
  <2>2. c # Master /\ d # Master
    BY <1>1, <1>8, <2>1
  <2>3. CASE c = a
    <3>1. b = d
      BY <1>4, <1>8, <2>3, SiblingsApart
    <3> QED BY <1>5, <1>8, <2>3, <3>1
  <2>4. CASE c # a /\ c \in Above[a]
    <3>1. c \in Above[parent[b]]
      <4>1. Above[a] = {a} \cup Above[parent[a]]
        BY <1>1, <1>5, <1>6
      <4> QED BY <1>4, <2>4, <4>1
    <3>2. parent[b] \in Plans /\ parent[b] \in Above[b]
      <4>1. parent[b] \in Plans /\ Above[b] = {b} \cup Above[parent[b]]
        BY <1>1, <1>5, <1>6
      <4>2. parent[b] \in Above[parent[b]]
        BY <1>1, <4>1
      <4> QED BY <4>1, <4>2
    <3>3. c \in Above[y]
      BY <1>1, <1>5, <3>1, <3>2
    <3> QED BY <1>8, <2>1, <3>3, SiblingsApart
  <2>5. CASE c # a /\ a \in Above[c]
    <3>1. a \in Above[parent[d]]
      <4>1. Above[c] = {c} \cup Above[parent[c]]
        BY <1>1, <2>1, <2>2
      <4> QED BY <1>8, <2>5, <4>1
    <3>2. parent[d] \in Plans /\ parent[d] \in Above[d]
      <4>1. parent[d] \in Plans /\ Above[d] = {d} \cup Above[parent[d]]
        BY <1>1, <2>1, <2>2
      <4>2. parent[d] \in Above[parent[d]]
        BY <1>1, <4>1
      <4> QED BY <4>1, <4>2
    <3>3. a \in Above[y]
      BY <1>1, <2>1, <3>1, <3>2
    <3> QED BY <1>4, <1>5, <3>3, SiblingsApart
  <2>6. c \in Above[a] \/ a \in Above[c]
    BY AboveChain
  <2> QED BY <2>3, <2>4, <2>5, <2>6
<1> QED BY <1>7, <1>8 DEF TreeBefore

\* There are no endless ways down: children are less high than their parent.
LEMMA Heights ==
    ASSUME parent \in Trees
    PROVE  \E N \in Nat : \E h \in [Plans -> 0 .. N] :
               \A p \in Plans : \A c \in Children(p) : h[c] < h[p]
<1> DEFINE depth(p) == Cardinality(Above[p])
           N == Cardinality(Plans)
           h == [p \in Plans |-> N - depth(p)]
<1>1. \A p \in Plans : depth(p) \in Nat /\ depth(p) <= N /\ IsFiniteSet(Above[p])
  <2> TAKE p \in Plans
  <2>1. Above[p] \subseteq Plans
    BY AboveIs
  <2> QED BY <2>1, KindAssumption, FS_Subset, FS_CardinalityType
<1>2. N \in Nat
  BY KindAssumption, FS_CardinalityType
<1>3. ASSUME NEW p \in Plans, NEW c \in Children(p)
      PROVE  depth(c) = depth(p) + 1
  <2>1. c \in Plans /\ parent[c] = p /\ c # Master
    BY TreeIs, <1>3 DEF Children
  <2>2. Above[c] = {c} \cup Above[p] /\ c \notin Above[p]
    BY <2>1, AboveIs, NeverAboveParent
  <2>3. Above[c] = Above[p] \cup {c}
    BY <2>2
  <2> QED BY <1>1, <2>2, <2>3, FS_AddElement
<1> HIDE DEF N, depth
<1>4. h \in [Plans -> 0 .. N]
  BY <1>1, <1>2
<1>5. ASSUME NEW p \in Plans, NEW c \in Children(p) PROVE h[c] < h[p]
  <2>1. c \in Plans
    BY DEF Children
  <2>2. depth(c) = depth(p) + 1 /\ depth(p) \in Nat
    BY <1>1, <1>3
  <2> QED BY <1>2, <2>1, <2>2
<1> HIDE DEF h
<1> QED BY <1>2, <1>4, <1>5

\* Of any plans, one has its children elsewhere.
LEMMA Lowest ==
    ASSUME parent \in Trees, NEW S \in SUBSET Plans, S # {}
    PROVE  \E p \in S : Children(p) \cap S = {}
<1>n. PICK N \in Nat : \E h \in [Plans -> 0 .. N] : \A p \in Plans : \A c \in Children(p) : h[c] < h[p]
  BY Heights
<1>1. PICK h \in [Plans -> 0 .. N] : \A p \in Plans : \A c \in Children(p) : h[c] < h[p]
  BY <1>n
<1> DEFINE T == {h[p] : p \in S}
<1>2. T \in SUBSET Nat /\ T # {}
  BY <1>1
<1>3. PICK t \in T : \A k \in T : t <= k
  <2> HIDE DEF T
  <2> QED BY <1>2, Least
<1>4. PICK p \in S : t = h[p]
  BY <1>3
<1>5. ASSUME NEW c \in Children(p) \cap S PROVE FALSE
  <2>1. h[p] <= h[c] /\ h[c] < h[p]
    BY <1>1, <1>3, <1>4
  <2>2. h[p] \in Nat /\ h[c] \in Nat
    BY <1>1
  <2> QED BY <2>1, <2>2
<1> QED BY <1>4, <1>5

-----------------------------------------------------------------------------
(* The walk.                                                               *)

Leaf == [plan : Leaves, path : Seq(Nat)]

\* What a walk has found, and what there is to find for any path and counter.
FoundSet == [counter : Nat, leaves : Seq(Leaf)]
WalkSet == [Seq(Nat) -> [Nat -> FoundSet]]

\* What a walk passes below p.
Passing(p) == IF p \in Goals THEN {c \in Children(p) : ~InTemplate(c)} ELSE Instances(p)

\* It passes all of them once, as the user put them.
LEMMA VisitedIs ==
    ASSUME order \in Orders, NEW p \in Plans
    PROVE  /\ Visited(p) \in Seq(Plans)
           /\ \A i \in 1 .. Len(Visited(p)) : Visited(p)[i] \in Children(p) /\ Visited(p)[i] \in Passing(p)
           /\ \A c \in Passing(p) : \E i \in 1 .. Len(Visited(p)) : Visited(p)[i] = c
           /\ \A i, j \in 1 .. Len(Visited(p)) : i < j => Before(Visited(p)[i], Visited(p)[j])
<1>1. Passing(p) \in SUBSET Plans /\ Passing(p) \subseteq Children(p)
  BY DEF Passing, Instances, RootClones, Children
<1>2. Visited(p) = Ordered(Passing(p))
  BY DEF Visited, Passing
<1>3. /\ Lists(Visited(p), Passing(p))
      /\ \A i, j \in 1 .. Len(Visited(p)) : i < j => Before(Visited(p)[i], Visited(p)[j])
  BY <1>1, <1>2, OrderedIs
<1>4. Visited(p) \in Seq(Passing(p))
  BY <1>3 DEF Lists
<1>5. \A i \in 1 .. Len(Visited(p)) : Visited(p)[i] \in Passing(p)
  BY <1>4
<1>6. Visited(p) \in Seq(Plans)
  BY <1>1, <1>4
<1> QED BY <1>1, <1>3, <1>5, <1>6 DEF Lists

\* What is joined is something found.
LEMMA JoinedIs ==
    ASSUME NEW found \in FoundSet, NEW sub \in FoundSet
    PROVE  Joined(found, sub) \in FoundSet
<1>1. found.leaves \in Seq(Leaf) /\ sub.leaves \in Seq(Leaf) /\ sub.counter \in Nat
  BY DEF FoundSet
<1>2. found.leaves \o sub.leaves \in Seq(Leaf)
  BY <1>1
<1> QED BY <1>1, <1>2 DEF Joined, Found, FoundSet

\* So is what a step leaves.
LEMMA VisitIs ==
    ASSUME NEW p, NEW path \in Seq(Nat), NEW found \in FoundSet, NEW i \in Nat \ {0}, NEW below \in WalkSet
    PROVE  Visit(p, path, found, i, below) \in FoundSet
<1>1. found.counter \in Nat /\ found.counter + 1 \in Nat /\ i - 1 \in Nat
  BY DEF FoundSet
<1>2. Append(path, found.counter) \in Seq(Nat) /\ InstancePath(path, i) \in Seq(Nat)
  BY <1>1 DEF InstancePath
<1>3. /\ below[Append(path, found.counter)][found.counter + 1] \in FoundSet
      /\ below[InstancePath(path, i)][found.counter] \in FoundSet
  BY <1>1, <1>2 DEF WalkSet
<1> QED BY <1>3, JoinedIs DEF Visit

\* at tells what was found after each step of the walk of p.
Passes(p, path, n, below, at) ==
    /\ at[0] = Found(n, << >>)
    /\ \A i \in 1 .. Len(below) : at[i] = Visit(p, path, at[i - 1], i, below[i])
    /\ Visits(p, path, n, below) = at[Len(below)]

\* The walk of p takes a step for every child it passes.
LEMMA VisitsSteps ==
    ASSUME NEW p, NEW path \in Seq(Nat), NEW n \in Nat, NEW below \in Seq(WalkSet)
    PROVE  \E at \in [0 .. Len(below) -> FoundSet] : Passes(p, path, n, below, at)
<1> USE DEF Passes
<1> DEFINE m == Len(below)
           base == Found(n, << >>)
           step == [i \in 1 .. m |-> [v \in FoundSet |-> Visit(p, path, v, i, below[i])]]
           Body(g) == [i \in 0 .. m |-> IF i = 0 THEN base ELSE Visit(p, path, g[i - 1], i, below[i])]
           c == CHOOSE g : g = Body(g)
<1>1. m \in Nat /\ \A i \in 1 .. m : below[i] \in WalkSet /\ i \in Nat \ {0}
  OBVIOUS
<1>2. base \in FoundSet
  <2>1. << >> \in Seq(Leaf)
    OBVIOUS
  <2> QED BY <2>1 DEF Found, FoundSet
<1>3. Visits(p, path, n, below) = c[m]
  BY DEF Visits
<1> HIDE DEF m, base
<1>4. \A i \in 1 .. m : \A v \in FoundSet : Visit(p, path, v, i, below[i]) \in FoundSet
  BY <1>1, VisitIs
<1>5. \A i \in 1 .. m : \A v \in FoundSet : step[i][v] = Visit(p, path, v, i, below[i])
  OBVIOUS
<1>6. \A i \in 1 .. m : \A v \in FoundSet : step[i][v] \in FoundSet
  BY <1>4, <1>5
<1> HIDE DEF step
<1>7. PICK f \in [0 .. m -> FoundSet] : f[0] = base /\ \A i \in 1 .. m : f[i] = step[i][f[i - 1]]
  <2>1. m \in Nat /\ Keeps(m, FoundSet, step)
    BY <1>1, <1>6 DEF Keeps
  <2>2. \E f \in [0 .. m -> FoundSet] : Takes(m, base, step, f)
    BY <1>2, <2>1, StepsExist
  <2> QED BY <2>2 DEF Takes
<1>8. \A i \in 1 .. m : f[i] = Visit(p, path, f[i - 1], i, below[i])
  <2> TAKE i \in 1 .. m
  <2>1. i - 1 \in 0 .. m
    BY <1>1
  <2> QED BY <1>5, <1>7, <2>1
<1>9. f = Body(f)
  <2>1. \A i \in 0 .. m : i # 0 => i \in 1 .. m
    BY <1>1
  <2>2. \A i \in 0 .. m : f[i] = IF i = 0 THEN base ELSE Visit(p, path, f[i - 1], i, below[i])
    BY <1>7, <1>8, <2>1
  <2>3. f = [i \in 0 .. m |-> f[i]]
    BY <1>7
  <2> QED BY <2>2, <2>3
<1>10. c = Body(c)
  <2> HIDE DEF Body
  <2> QED BY <1>9
<1> HIDE DEF c
<1>11. c[0] = base /\ \A i \in 1 .. m : c[i] = Visit(p, path, c[i - 1], i, below[i])
  <2>1. 0 \in 0 .. m /\ \A i \in 1 .. m : i \in 0 .. m /\ i # 0
    BY <1>1
  <2>2. \A i \in 0 .. m : c[i] = IF i = 0 THEN base ELSE Visit(p, path, c[i - 1], i, below[i])
    BY <1>10
  <2> QED BY <2>1, <2>2
<1> DEFINE Same == {i \in 0 .. m : c[i] = f[i]}
<1>12. Same = 0 .. m
  <2>1. 0 \in Same /\ Same \in SUBSET (0 .. m)
    BY <1>1, <1>7, <1>11
  <2>2. \A i \in 1 .. m : i - 1 \in Same => i \in Same
    BY <1>8, <1>11
  <2> HIDE DEF Same
  <2> QED BY <1>1, <2>1, <2>2, UpTo
<1>13. c[m] = f[m]
  BY <1>1, <1>12
<1> QED BY <1>3, <1>7, <1>8, <1>13 DEF m, base

\* What is to be found from each of the children that the walk of p passes, and from p.
Under(walk, p) == [i \in 1 .. Len(Visited(p)) |-> walk[Visited(p)[i]]]

From(p, below) ==
    [path \in Seq(Nat) |-> [n \in Nat |->
        IF p \in Leaves THEN Found(n, <<[plan |-> p, path |-> path]>>)
        ELSE Visits(p, path, n, below)]]

\* From walks of its children a plan has a walk.
LEMMA FromIs ==
    ASSUME NEW p \in Plans, NEW below \in Seq(WalkSet)
    PROVE  From(p, below) \in WalkSet
<1> SUFFICES ASSUME NEW path \in Seq(Nat), NEW n \in Nat
             PROVE  (IF p \in Leaves THEN Found(n, <<[plan |-> p, path |-> path]>>)
                     ELSE Visits(p, path, n, below)) \in FoundSet
  BY DEF From, WalkSet
<1>1. CASE p \in Leaves
  <2>1. [plan |-> p, path |-> path] \in Leaf
    BY <1>1 DEF Leaf
  <2>2. <<[plan |-> p, path |-> path]>> \in Seq(Leaf)
    BY <2>1
  <2> QED BY <1>1, <2>2 DEF Found, FoundSet
<1>2. CASE p \notin Leaves
  <2>1. PICK at \in [0 .. Len(below) -> FoundSet] : Passes(p, path, n, below, at)
    BY VisitsSteps
  <2>2. Len(below) \in 0 .. Len(below)
    OBVIOUS
  <2>3. Visits(p, path, n, below) = at[Len(below)]
    BY <2>1 DEF Passes
  <2> QED BY <1>2, <2>2, <2>3
<1> QED BY <1>1, <1>2

\* The walks of the children, one for each that is passed.
LEMMA UnderIs ==
    ASSUME order \in Orders, NEW p \in Plans, NEW walk, \A c \in Children(p) : walk[c] \in WalkSet
    PROVE  Under(walk, p) \in Seq(WalkSet) /\ Len(Under(walk, p)) = Len(Visited(p))
<1>1. Len(Visited(p)) \in Nat /\ \A i \in 1 .. Len(Visited(p)) : walk[Visited(p)[i]] \in WalkSet
  BY VisitedIs
<1>2. \A m \in Nat : \A f \in [1 .. m -> WalkSet] : f \in Seq(WalkSet) /\ Len(f) = m
  OBVIOUS
<1>3. Under(walk, p) \in [1 .. Len(Visited(p)) -> WalkSet]
  BY <1>1 DEF Under
<1> QED BY <1>1, <1>2, <1>3

\* There is a walk of every plan, and it is made of the walks of its children.
LEMMA WalkIs ==
    ASSUME parent \in Trees, order \in Orders
    PROVE  \A p \in Plans : Walk[p] \in WalkSet /\ Walk[p] = From(p, Under(Walk, p))
<1> DEFINE V == [Plans -> WalkSet]
           Body(g) == [p \in Plans |-> From(p, Under(g, p))]
<1>1. ASSUME NEW g \in V PROVE Body(g) \in V
  <2>1. \A p \in Plans : \A c \in Children(p) : g[c] \in WalkSet
    BY DEF Children
  <2>2. \A p \in Plans : From(p, Under(g, p)) \in WalkSet
    BY <2>1, UnderIs, FromIs
  <2> QED BY <2>2
<1>n. PICK N \in Nat : \E h \in [Plans -> 0 .. N] : \A p \in Plans : \A c \in Children(p) : h[c] < h[p]
  BY Heights
<1>2. PICK h \in [Plans -> 0 .. N] : \A p \in Plans : \A c \in Children(p) : h[c] < h[p]
  BY <1>n
<1> DEFINE base == [p \in Plans |-> [path \in Seq(Nat) |-> [n \in Nat |-> Found(0, << >>)]]]
           step == [i \in 1 .. N + 2 |-> [g \in V |-> Body(g)]]
<1>3. base \in V
  <2>1. << >> \in Seq(Leaf)
    OBVIOUS
  <2>2. Found(0, << >>) \in FoundSet
    BY <2>1 DEF Found, FoundSet
  <2> QED BY <2>2 DEF WalkSet
<1> HIDE DEF base
<1>4. Keeps(N + 2, V, step)
  <2> HIDE DEF V, Body
  <2>1. \A i \in 1 .. N + 2 : \A g \in V : step[i][g] = Body(g)
    OBVIOUS
  <2> QED BY <1>1, <2>1 DEF Keeps
<1>5. PICK f \in [0 .. N + 2 -> V] : Takes(N + 2, base, step, f)
  <2>1. N + 2 \in Nat
    OBVIOUS
  <2> HIDE DEF V, step
  <2> QED BY <1>3, <1>4, <2>1, StepsExist
<1>6. \A i \in 1 .. N + 2 : f[i - 1] \in V /\ f[i] = Body(f[i - 1])
  <2> HIDE DEF V, Body
  <2> TAKE i \in 1 .. N + 2
  <2>1. i - 1 \in 0 .. N + 2
    OBVIOUS
  <2> QED BY <1>5, <2>1 DEF Takes
<1> DEFINE Settled(k) == \A p \in Plans : h[p] < k => f[k + 1][p] = f[k][p]
           S == {k \in 0 .. N + 1 : Settled(k)}
<1>7. 0 \in S
  BY <1>2
<1>8. ASSUME NEW k \in 1 .. N + 1, k - 1 \in S
      PROVE  k \in S
  <2> SUFFICES ASSUME NEW p \in Plans, h[p] < k PROVE f[k + 1][p] = f[k][p]
    OBVIOUS
  <2>1. f[k] = Body(f[k - 1]) /\ f[k + 1] = Body(f[k])
    <3>1. k \in 1 .. N + 2 /\ k + 1 \in 1 .. N + 2 /\ (k + 1) - 1 = k
      OBVIOUS
    <3> HIDE DEF Body, V
    <3> QED BY <1>6, <3>1
  <2>2. (k - 1) + 1 = k
    OBVIOUS
  <2>3. \A c \in Children(p) : f[k][c] = f[k - 1][c]
    <3> TAKE c \in Children(p)
    <3>1. c \in Plans /\ h[c] < h[p] /\ h[c] \in Nat /\ h[p] \in Nat
      BY <1>2 DEF Children
    <3>2. h[c] < k - 1
      BY <3>1
    <3> HIDE DEF Body, V
    <3> QED BY <1>8, <2>2, <3>1, <3>2
  <2>4. Under(f[k], p) = Under(f[k - 1], p)
    BY <2>3, VisitedIs DEF Under
  <2>5. f[k][p] = From(p, Under(f[k - 1], p)) /\ f[k + 1][p] = From(p, Under(f[k], p))
    BY <2>1
  <2> QED BY <2>4, <2>5
<1>9. N + 1 \in S
  <2>1. S \in SUBSET (0 .. N + 1) /\ N + 1 \in Nat /\ N + 1 \in 0 .. N + 1
    OBVIOUS
  <2> HIDE DEF S
  <2> QED BY <1>7, <1>8, <2>1, UpTo
<1> DEFINE g == f[N + 1]
<1>10. g = Body(g)
  <2>1. g \in V
    BY <1>2, <1>5
  <2>2. f[N + 2] = Body(g)
    <3>1. N + 2 \in 1 .. N + 2 /\ (N + 2) - 1 = N + 1
      OBVIOUS
    <3> HIDE DEF Body, V
    <3> QED BY <1>6, <3>1
  <2>3. \A p \in Plans : f[N + 2][p] = g[p]
    <3> TAKE p \in Plans
    <3>1. h[p] < N + 1 /\ (N + 1) + 1 = N + 2
      BY <1>2
    <3> HIDE DEF V, Body
    <3> QED BY <1>9, <3>1
  <2> HIDE DEF g
  <2>4. \A p \in Plans : g[p] = From(p, Under(g, p))
    BY <2>2, <2>3
  <2> QED BY <2>1, <2>4
<1> HIDE DEF g
<1>11. Walk = CHOOSE w : w = Body(w)
  BY DEF Walk, From, Under
<1>12. Walk = Body(Walk)
  <2> HIDE DEF Body
  <2> QED BY <1>10, <1>11
<1>13. \A p \in Plans : Walk[p] = From(p, Under(Walk, p))
  BY <1>12
<1> DEFINE Bad == {p \in Plans : Walk[p] \notin WalkSet}
<1>14. Bad = {}
  <2> SUFFICES ASSUME Bad # {} PROVE FALSE
    OBVIOUS
  <2>1. PICK p \in Bad : Children(p) \cap Bad = {}
    BY Lowest
  <2>2. p \in Plans /\ \A c \in Children(p) : Walk[c] \in WalkSet
    BY <2>1 DEF Children
  <2>3. From(p, Under(Walk, p)) \in WalkSet
    BY <2>2, UnderIs, FromIs
  <2> QED BY <1>13, <2>1, <2>2, <2>3
<1> QED BY <1>13, <1>14

-----------------------------------------------------------------------------
(* Paths and lists of leaves.                                              *)

Extends(path, q) == Len(path) <= Len(q) /\ \A j \in 1 .. Len(path) : q[j] = path[j]

\* The first difference of two paths is within both.
Differ(a, b) ==
    \E k \in 1 .. Len(a) : k <= Len(b) /\ a[k] < b[k] /\ \A j \in 1 .. k - 1 : a[j] = b[j]

\* A path that extends another by v has v behind it.
LEMMA ExtendsLess ==
    ASSUME NEW path \in Seq(Nat), NEW v \in Nat, NEW q \in Seq(Nat), Extends(Append(path, v), q)
    PROVE  Extends(path, q) /\ Len(path) + 1 <= Len(q) /\ q[Len(path) + 1] = v
<1>1. /\ Len(Append(path, v)) = Len(path) + 1 /\ Append(path, v)[Len(path) + 1] = v
      /\ \A j \in 1 .. Len(path) : Append(path, v)[j] = path[j]
      /\ Len(path) \in Nat /\ Len(q) \in Nat
  OBVIOUS
<1> DEFINE longer == Append(path, v)
<1>2. Len(longer) <= Len(q) /\ \A j \in 1 .. Len(longer) : q[j] = longer[j]
  BY DEF Extends
<1> HIDE DEF longer
<1>3. /\ Len(longer) = Len(path) + 1 /\ longer[Len(path) + 1] = v
      /\ \A j \in 1 .. Len(path) : longer[j] = path[j]
  BY <1>1 DEF longer
<1>4. Len(path) + 1 \in 1 .. Len(longer) /\ \A j \in 1 .. Len(path) : j \in 1 .. Len(longer)
  BY <1>1, <1>3
<1>5. \A j \in 1 .. Len(path) : q[j] = path[j]
  BY <1>2, <1>3, <1>4
<1>6. q[Len(path) + 1] = v /\ Len(path) + 1 <= Len(q) /\ Len(path) <= Len(q)
  BY <1>1, <1>2, <1>3, <1>4
<1> QED BY <1>5, <1>6 DEF Extends

\* Paths that go on from one path with different numbers are ordered by these.
LEMMA DifferAfter ==
    ASSUME NEW path \in Seq(Nat), NEW u \in Nat, NEW v \in Nat, u < v,
           NEW a \in Seq(Nat), NEW b \in Seq(Nat),
           Extends(Append(path, u), a), Extends(Append(path, v), b)
    PROVE  Differ(a, b)
<1> DEFINE k == Len(path) + 1
<1>1. /\ Extends(path, a) /\ k <= Len(a) /\ a[k] = u
      /\ Extends(path, b) /\ k <= Len(b) /\ b[k] = v
  BY ExtendsLess
<1>2. k \in 1 .. Len(a) /\ k - 1 = Len(path)
  BY <1>1
<1>3. \A j \in 1 .. k - 1 : a[j] = b[j]
  BY <1>1, <1>2 DEF Extends
<1> HIDE DEF k
<1> QED BY <1>1, <1>2, <1>3 DEF Differ

\* As tuples such paths are ordered one way only.
LEMMA DifferBefore ==
    ASSUME NEW a \in Seq(Nat), NEW b \in Seq(Nat), Differ(a, b)
    PROVE  PathBefore(a, b) /\ ~PathBefore(b, a)
<1>1. PICK k \in 1 .. Len(a) : k <= Len(b) /\ a[k] < b[k] /\ \A j \in 1 .. k - 1 : a[j] = b[j]
  BY DEF Differ
<1>2. k \in Nat /\ Len(a) \in Nat /\ Len(b) \in Nat /\ k <= Len(a) /\ k \in 1 .. Len(b)
  BY <1>1
<1>3. a[k] \in Nat /\ b[k] \in Nat
  BY <1>2
<1>4. PathBefore(a, b)
  <2>1. \A j \in 1 .. k - 1 : j <= Len(a) /\ a[j] = b[j]
    BY <1>1, <1>2
  <2> QED BY <1>1, <1>2, <2>1 DEF PathBefore
<1>5. ASSUME PathBefore(b, a) PROVE FALSE
  <2>1. PICK i \in 1 .. Len(a) : /\ \A j \in 1 .. i - 1 : j <= Len(b) /\ b[j] = a[j]
                                 /\ i <= Len(b) => b[i] < a[i]
    BY <1>5 DEF PathBefore
  <2>2. CASE i < k
    <3>1. i \in 1 .. k - 1 /\ i <= Len(b) /\ i \in 1 .. Len(b)
      BY <1>2, <2>2
    <3>2. a[i] = b[i] /\ b[i] < a[i] /\ a[i] \in Nat
      BY <1>1, <2>1, <3>1
    <3> QED BY <3>2
  <2>3. CASE i = k
    BY <1>1, <1>2, <1>3, <2>1, <2>3
  <2>4. CASE k < i
    <3>1. k \in 1 .. i - 1
      BY <1>2, <2>4
    <3>2. b[k] = a[k]
      BY <2>1, <3>1
    <3> QED BY <1>1, <1>3, <3>2
  <2> QED BY <1>2, <2>2, <2>3, <2>4
<1> QED BY <1>4, <1>5

\* Of two leaves the earlier has the smaller path and comes first for the user.
Sorted(ls) ==
    \A i, j \in 1 .. Len(ls) :
        i < j => Differ(ls[i].path, ls[j].path) /\ TreeBefore(ls[i].plan, ls[j].plan)

\* Where the members of a concatenation come from.
LEMMA Concatenated ==
    ASSUME NEW T, NEW ls \in Seq(T), NEW ms \in Seq(T)
    PROVE  /\ \A i \in 1 .. Len(ls) : i \in 1 .. Len(ls \o ms) /\ (ls \o ms)[i] = ls[i]
           /\ \A j \in 1 .. Len(ms) : /\ Len(ls) + j \in 1 .. Len(ls \o ms)
                                      /\ (ls \o ms)[Len(ls) + j] = ms[j]
           /\ \A i \in 1 .. Len(ls \o ms) :
                 i \in 1 .. Len(ls) \/ i - Len(ls) \in 1 .. Len(ms)
           /\ Len(ls) \in Nat /\ Len(ms) \in Nat
<1>1. Len(ls) \in Nat /\ Len(ms) \in Nat /\ Len(ls \o ms) = Len(ls) + Len(ms)
  OBVIOUS
<1>2. \A i \in 1 .. Len(ls) + Len(ms) :
         (ls \o ms)[i] = IF i <= Len(ls) THEN ls[i] ELSE ms[i - Len(ls)]
  OBVIOUS
<1>3. ASSUME NEW j \in 1 .. Len(ms)
      PROVE  Len(ls) + j \in 1 .. Len(ls \o ms) /\ (ls \o ms)[Len(ls) + j] = ms[j]
  <2>1. Len(ls) + j \in 1 .. Len(ls) + Len(ms) /\ ~(Len(ls) + j <= Len(ls)) /\ (Len(ls) + j) - Len(ls) = j
    BY <1>1
  <2> QED BY <1>1, <1>2, <2>1
<1>4. ASSUME NEW i \in 1 .. Len(ls)
      PROVE  i \in 1 .. Len(ls \o ms) /\ (ls \o ms)[i] = ls[i]
  <2>1. i \in 1 .. Len(ls) + Len(ms) /\ i <= Len(ls)
    BY <1>1
  <2> QED BY <1>1, <1>2, <2>1
<1>5. ASSUME NEW i \in 1 .. Len(ls \o ms)
      PROVE  i \in 1 .. Len(ls) \/ i - Len(ls) \in 1 .. Len(ms)
  BY <1>1
<1> QED BY <1>1, <1>3, <1>4, <1>5

\* Sorted lists make a sorted list when every leaf of the first comes before every leaf of the second.
LEMMA SortedJoin ==
    ASSUME NEW T, NEW ls \in Seq(T), NEW ms \in Seq(T), Sorted(ls), Sorted(ms),
           \A i \in 1 .. Len(ls) : \A j \in 1 .. Len(ms) :
               Differ(ls[i].path, ms[j].path) /\ TreeBefore(ls[i].plan, ms[j].plan)
    PROVE  Sorted(ls \o ms)
<1> DEFINE ns == ls \o ms
<1>1. /\ \A i \in 1 .. Len(ls) : ns[i] = ls[i]
      /\ \A j \in 1 .. Len(ms) : ns[Len(ls) + j] = ms[j]
      /\ \A i \in 1 .. Len(ns) : i \in 1 .. Len(ls) \/ i - Len(ls) \in 1 .. Len(ms)
      /\ Len(ls) \in Nat /\ Len(ms) \in Nat
  BY Concatenated
<1>2. \A i \in 1 .. Len(ns) : i - Len(ls) \in 1 .. Len(ms) => ns[i] = ms[i - Len(ls)]
  <2> TAKE i \in 1 .. Len(ns)
  <2> HAVE i - Len(ls) \in 1 .. Len(ms)
  <2>1. Len(ls) + (i - Len(ls)) = i
    BY <1>1
  <2> HIDE DEF ns
  <2> QED BY <1>1, <2>1
<1> HIDE DEF ns
<1>3. ASSUME NEW i \in 1 .. Len(ns), NEW j \in 1 .. Len(ns), i < j
      PROVE  Differ(ns[i].path, ns[j].path) /\ TreeBefore(ns[i].plan, ns[j].plan)
  <2>1. CASE i \in 1 .. Len(ls) /\ j \in 1 .. Len(ls)
    BY <1>1, <1>3, <2>1 DEF Sorted
  <2>2. CASE i \in 1 .. Len(ls) /\ j - Len(ls) \in 1 .. Len(ms)
    BY <1>1, <1>2, <2>2
  <2>3. CASE i - Len(ls) \in 1 .. Len(ms) /\ j - Len(ls) \in 1 .. Len(ms)
    <3>1. i - Len(ls) < j - Len(ls)
      BY <1>1, <1>3
    <3>2. ns[i] = ms[i - Len(ls)] /\ ns[j] = ms[j - Len(ls)]
      BY <1>2, <2>3
    <3> QED BY <2>3, <3>1, <3>2 DEF Sorted
  <2>4. ~(i - Len(ls) \in 1 .. Len(ms) /\ j \in 1 .. Len(ls))
    BY <1>1, <1>3
  <2> QED BY <1>1, <2>1, <2>2, <2>3, <2>4
<1> QED BY <1>3 DEF Sorted, ns

-----------------------------------------------------------------------------
(* What a walk finds.                                                      *)

\* The leaves below a plan are outside templates, and between them and the plan no
\* repetition is still to be generated.
LEMMA BelowAre ==
    ASSUME parent \in Trees
    PROVE  \A p \in Plans : \A z \in LeavesBelow[p] :
              /\ z \in Leaves /\ z \in Plans /\ p \in Above[z] /\ ~InTemplate(z)
              /\ \A r \in Repetitions \ generated : RootClones(r) \cap Above[z] \subseteq Above[p]
<1> DEFINE Well(p, z) ==
              /\ z \in Leaves /\ z \in Plans /\ p \in Above[z] /\ ~InTemplate(z)
              /\ \A r \in Repetitions \ generated : RootClones(r) \cap Above[z] \subseteq Above[p]
           Bad == {p \in Plans : \E z \in LeavesBelow[p] : ~Well(p, z)}
<1>1. /\ \A p \in Plans : Above[p] = IF p = Master THEN {p} ELSE {p} \cup Above[parent[p]]
      /\ \A p \in Plans : p \in Above[p] /\ Above[p] \subseteq Plans
      /\ \A p \in Plans : \A q \in Above[p] : Above[q] \subseteq Above[p]
      /\ \A p \in Plans : parent[p] = None <=> p = Master
  BY AboveIs, AboveAll, TreeIs
<1>2. Leaves \subseteq Plans
  BY KindAssumption
<1>3. SUFFICES ASSUME Bad # {} PROVE FALSE
  OBVIOUS
<1>4. PICK p \in Bad : Children(p) \cap Bad = {}
  <2> HIDE DEF Bad
  <2>1. Bad \in SUBSET Plans
    BY DEF Bad
  <2> QED BY <1>3, <2>1, Lowest
<1>5. PICK z \in LeavesBelow[p] : ~Well(p, z)
  BY <1>4
<1>6. p \in Plans /\ \A c \in Children(p) : \A y \in LeavesBelow[c] : Well(c, y)
  <2>1. Children(p) \subseteq Plans
    BY DEF Children
  <2> HIDE DEF Well
  <2> QED BY <1>4, <2>1
<1>7. /\ ~InTemplate(p)
      /\ z \in (IF p \in Leaves THEN {p} ELSE UNION {LeavesBelow[c] : c \in Enter(p)})
  <2>1. z \in (IF InTemplate(p) THEN {}
               ELSE IF p \in Leaves THEN {p}
               ELSE UNION {LeavesBelow[c] : c \in Enter(p)})
    BY <1>5, <1>6, LeavesBelowIs
  <2> QED BY <2>1
<1>8. CASE p \in Leaves
  <2>1. z = p
    BY <1>7, <1>8
  <2> QED BY <1>1, <1>2, <1>5, <1>7, <1>8, <2>1
<1>9. CASE p \notin Leaves
  <2>1. PICK c \in Enter(p) : z \in LeavesBelow[c]
    BY <1>7, <1>9
  <2>2. c \in Children(p) /\ c \in Plans /\ parent[c] = p /\ c # Master
    BY <1>1, <1>6, KindAssumption, <2>1 DEF Enter, Instances, RootClones, Children
  <2>3. Well(c, z)
    <3> HIDE DEF Well
    <3> QED BY <1>6, <2>1, <2>2
  <2>4. Above[c] = {c} \cup Above[p]
    BY <1>1, <2>2
  <2>5. p \in Above[z]
    <3>1. p \in Above[c] /\ Above[c] \subseteq Above[z]
      BY <1>1, <1>6, <2>3, <2>4
    <3> QED BY <3>1
  <2>6. ASSUME NEW r \in Repetitions \ generated
        PROVE  RootClones(r) \cap Above[z] \subseteq Above[p]
    <3>1. RootClones(r) \cap Above[z] \subseteq {c} \cup Above[p]
      BY <2>3, <2>4
    <3>2. c \notin RootClones(r)
      <4>1. SUFFICES ASSUME r = p PROVE FALSE
        BY <2>2 DEF RootClones, Children
      <4>2. Enter(p) = {}
        BY <2>6, <4>1, KindAssumption DEF Enter, Instances
      <4> QED BY <2>1, <4>2
    <3> QED BY <3>1, <3>2
  <2> QED BY <1>5, <2>3, <2>5, <2>6
<1> QED BY <1>8, <1>9

\* What a walk of p with that path and that counter should find: every leaf below p, in
\* the user's order, at paths that extend its own.
Tells(p, path, n, r) ==
    /\ r.counter >= n
    /\ \A i \in 1 .. Len(r.leaves) :
          r.leaves[i].plan \in LeavesBelow[p] /\ Extends(path, r.leaves[i].path)
    /\ \A z \in LeavesBelow[p] : \E i \in 1 .. Len(r.leaves) : r.leaves[i].plan = z
    /\ Sorted(r.leaves)

Claim(p) == \A path \in Seq(Nat) : \A n \in Nat : Tells(p, path, n, Walk[p][path][n])

\* The walk of a plan for one path and one counter.
LEMMA WalkOf ==
    ASSUME parent \in Trees, order \in Orders, NEW p \in Plans, NEW path \in Seq(Nat), NEW n \in Nat
    PROVE  /\ Walk[p][path][n] \in FoundSet
           /\ Walk[p][path][n] = IF p \in Leaves THEN Found(n, <<[plan |-> p, path |-> path]>>)
                                 ELSE Visits(p, path, n, Under(Walk, p))
<1>1. Walk[p] \in WalkSet /\ Walk[p] = From(p, Under(Walk, p))
  BY WalkIs
<1>2. Walk[p][path][n] \in FoundSet
  BY <1>1 DEF WalkSet
<1> DEFINE below == Under(Walk, p)
<1> HIDE DEF below
<1>3. From(p, below)[path][n] = IF p \in Leaves THEN Found(n, <<[plan |-> p, path |-> path]>>)
                                ELSE Visits(p, path, n, below)
  BY DEF From
<1> QED BY <1>1, <1>2, <1>3 DEF below

\* The walk of a leaf tells the leaf.
LEMMA LeafClaim ==
    ASSUME parent \in Trees, order \in Orders, NEW p \in Leaves, ~InTemplate(p)
    PROVE  Claim(p)
<1> SUFFICES ASSUME NEW path \in Seq(Nat), NEW n \in Nat
             PROVE  Tells(p, path, n, Walk[p][path][n])
  BY DEF Claim
<1>1. p \in Plans
  BY KindAssumption
<1>2. LeavesBelow[p] = {p}
  BY <1>1, LeavesBelowIs
<1> DEFINE r == Walk[p][path][n]
<1>3. r = Found(n, <<[plan |-> p, path |-> path]>>)
  BY <1>1, WalkOf
<1> HIDE DEF r
<1>4. /\ r.counter = n /\ Len(r.leaves) = 1
      /\ r.leaves[1].plan = p /\ r.leaves[1].path = path
  BY <1>3 DEF Found
<1>5. \A i \in 1 .. Len(r.leaves) : i = 1
  BY <1>4
<1>6. 1 \in 1 .. Len(r.leaves)
  BY <1>4
<1>7. Extends(path, path)
  BY DEF Extends
<1>8. Sorted(r.leaves)
  BY <1>5 DEF Sorted
<1> QED BY <1>2, <1>4, <1>5, <1>6, <1>7, <1>8 DEF Tells, r

\* The next number that the walk of p gives, when it found this in k steps.
Bound(p, found, k) == IF p \in Goals THEN found.counter ELSE k

\* What k steps of the walk of p have found.
SoFar(p, path, n, found, k) ==
    /\ found.counter >= n
    /\ \A i \in 1 .. Len(found.leaves) :
          /\ \E c \in 1 .. k : found.leaves[i].plan \in LeavesBelow[Visited(p)[c]]
          /\ \E v \in Nat : v < Bound(p, found, k) /\ Extends(Append(path, v), found.leaves[i].path)
    /\ \A c \in 1 .. k : \A z \in LeavesBelow[Visited(p)[c]] :
          \E i \in 1 .. Len(found.leaves) : found.leaves[i].plan = z
    /\ Sorted(found.leaves)

\* A step that enters the k-th child adds what the walk of the child tells.
LEMMA EnteredStep ==
    ASSUME parent \in Trees, order \in Orders, NEW p \in Plans, NEW path \in Seq(Nat), NEW n \in Nat,
           NEW k \in 1 .. Len(Visited(p)), NEW found \in FoundSet, SoFar(p, path, n, found, k - 1),
           NEW start \in Nat, start >= found.counter, p \in Goals => start > found.counter,
           NEW sub \in FoundSet,
           Tells(Visited(p)[k], Append(path, Bound(p, found, k - 1)), start, sub)
    PROVE  SoFar(p, path, n, Joined(found, sub), k)
<1> DEFINE q == Visited(p)[k]
           v == Bound(p, found, k - 1)
           new == Joined(found, sub)
           ls == found.leaves
           ms == sub.leaves
<1>1. /\ Len(Visited(p)) \in Nat
      /\ \A i \in 1 .. Len(Visited(p)) : Visited(p)[i] \in Children(p)
      /\ \A i, j \in 1 .. Len(Visited(p)) : i < j => Before(Visited(p)[i], Visited(p)[j])
  BY VisitedIs
<1>2. /\ found.counter \in Nat /\ sub.counter \in Nat
      /\ ls \in Seq(Leaf) /\ ms \in Seq(Leaf)
  BY DEF FoundSet
<1>3. new.counter = sub.counter /\ new.leaves = ls \o ms
  BY DEF Joined, Found
<1>4. k \in Nat /\ k - 1 \in Nat /\ v \in Nat
  BY <1>1, <1>2 DEF Bound
<1>5. v < Bound(p, new, k) /\ new.counter >= n
  <2>1. sub.counter >= start /\ found.counter >= n
    BY DEF Tells, SoFar
  <2> HIDE DEF new
  <2> QED BY <1>2, <1>3, <1>4, <2>1 DEF Bound
<1>6. /\ \A i \in 1 .. Len(ms) : ms[i].plan \in LeavesBelow[q] /\ Extends(Append(path, v), ms[i].path)
      /\ \A z \in LeavesBelow[q] : \E i \in 1 .. Len(ms) : ms[i].plan = z
      /\ Sorted(ms)
  BY DEF Tells
<1>7. /\ \A i \in 1 .. Len(ls) :
            /\ \E c \in 1 .. k - 1 : ls[i].plan \in LeavesBelow[Visited(p)[c]]
            /\ \E u \in Nat : u < v /\ Extends(Append(path, u), ls[i].path)
      /\ \A c \in 1 .. k - 1 : \A z \in LeavesBelow[Visited(p)[c]] :
            \E i \in 1 .. Len(ls) : ls[i].plan = z
      /\ Sorted(ls)
  BY DEF SoFar
<1> HIDE DEF v, new, ls, ms
<1>8. \A i \in 1 .. Len(ls) : ls[i].path \in Seq(Nat)
  <2>1. \A i \in 1 .. Len(ls) : ls[i] \in Leaf
    BY <1>2
  <2> QED BY <2>1 DEF Leaf
<1>9. \A j \in 1 .. Len(ms) : ms[j].path \in Seq(Nat)
  <2>1. \A j \in 1 .. Len(ms) : ms[j] \in Leaf
    BY <1>2
  <2> QED BY <2>1 DEF Leaf
<1>10. ASSUME NEW i \in 1 .. Len(ls), NEW j \in 1 .. Len(ms)
       PROVE  Differ(ls[i].path, ms[j].path) /\ TreeBefore(ls[i].plan, ms[j].plan)
  <2>1. PICK u \in Nat : u < v /\ Extends(Append(path, u), ls[i].path)
    BY <1>7
  <2>2. Differ(ls[i].path, ms[j].path)
    BY <1>4, <1>6, <1>8, <1>9, <2>1, DifferAfter
  <2>3. PICK c \in 1 .. k - 1 : ls[i].plan \in LeavesBelow[Visited(p)[c]]
    BY <1>7
  <2>4. c \in 1 .. Len(Visited(p)) /\ c < k
    BY <1>1, <1>4, <2>3
  <2>5. /\ Visited(p)[c] \in Children(p) /\ q \in Children(p) /\ Before(Visited(p)[c], q)
    BY <1>1, <2>4
  <2>6. parent[Visited(p)[c]] = parent[q] /\ Visited(p)[c] \in Plans /\ q \in Plans
    BY <2>5 DEF Children
  <2>7. Visited(p)[c] \in Above[ls[i].plan] /\ q \in Above[ms[j].plan]
    <3>1. \A x \in Plans : \A z \in LeavesBelow[x] : x \in Above[z]
      BY BelowAre
    <3>2. ms[j].plan \in LeavesBelow[q]
      BY <1>6
    <3> QED BY <2>3, <2>6, <3>1, <3>2
  <2> HIDE DEF q
  <2> QED BY <2>2, <2>5, <2>6, <2>7 DEF TreeBefore
<1>11. Sorted(new.leaves)
  <2>1. Sorted(ls \o ms)
    BY <1>2, <1>6, <1>7, <1>10, SortedJoin
  <2> QED BY <1>3, <2>1
<1>12. /\ \A i \in 1 .. Len(ls) : i \in 1 .. Len(new.leaves) /\ new.leaves[i] = ls[i]
       /\ \A j \in 1 .. Len(ms) : Len(ls) + j \in 1 .. Len(new.leaves) /\ new.leaves[Len(ls) + j] = ms[j]
       /\ \A i \in 1 .. Len(new.leaves) : i \in 1 .. Len(ls) \/ i - Len(ls) \in 1 .. Len(ms)
       /\ Len(ls) \in Nat /\ Len(ms) \in Nat
  BY <1>2, <1>3, Concatenated
<1>13. ASSUME NEW i \in 1 .. Len(new.leaves)
       PROVE  /\ \E c \in 1 .. k : new.leaves[i].plan \in LeavesBelow[Visited(p)[c]]
              /\ \E u \in Nat : u < Bound(p, new, k) /\ Extends(Append(path, u), new.leaves[i].path)
  <2>1. CASE i \in 1 .. Len(ls)
    <3>1. PICK c \in 1 .. k - 1 : ls[i].plan \in LeavesBelow[Visited(p)[c]]
      BY <1>7, <2>1
    <3>2. PICK u \in Nat : u < v /\ Extends(Append(path, u), ls[i].path)
      BY <1>7, <2>1
    <3>3. c \in 1 .. k /\ new.leaves[i] = ls[i]
      BY <1>4, <1>12, <2>1
    <3>4. u < Bound(p, new, k)
      <4>1. Bound(p, new, k) \in Nat
        BY <1>2, <1>3, <1>4 DEF Bound
      <4> QED BY <1>4, <1>5, <3>2, <4>1
    <3> QED BY <3>1, <3>2, <3>3, <3>4
  <2>2. CASE i - Len(ls) \in 1 .. Len(ms)
    <3> DEFINE j == i - Len(ls)
    <3>1. Len(ls) + j = i
      BY <1>12
    <3>2. j \in 1 .. Len(ms)
      BY <2>2
    <3> HIDE DEF j
    <3>3. new.leaves[i] = ms[j]
      BY <1>12, <3>1, <3>2
    <3>4. ms[j].plan \in LeavesBelow[q] /\ Extends(Append(path, v), ms[j].path)
      BY <1>6, <3>2
    <3>5. k \in 1 .. k
      BY <1>4
    <3> QED BY <1>4, <1>5, <3>3, <3>4, <3>5
  <2> QED BY <1>12, <2>1, <2>2
<1>14. ASSUME NEW c \in 1 .. k, NEW z \in LeavesBelow[Visited(p)[c]]
       PROVE  \E i \in 1 .. Len(new.leaves) : new.leaves[i].plan = z
  <2>1. CASE c = k
    <3>1. PICK j \in 1 .. Len(ms) : ms[j].plan = z
      BY <1>6, <2>1
    <3> QED BY <1>12, <3>1
  <2>2. CASE c # k
    <3>1. c \in 1 .. k - 1
      BY <1>4, <2>2
    <3>2. PICK i \in 1 .. Len(ls) : ls[i].plan = z
      BY <1>7, <3>1
    <3> QED BY <1>12, <3>2
  <2> QED BY <2>1, <2>2
<1>15. SoFar(p, path, n, new, k)
  BY <1>5, <1>11, <1>13, <1>14 DEF SoFar
<1> QED BY <1>15 DEF new

\* Every step of the walk does, and so the walk of p tells what it should when those of
\* its children do.
LEMMA SoFarStep ==
    ASSUME parent \in Trees, order \in Orders, NEW p \in Plans, NEW path \in Seq(Nat), NEW n \in Nat,
           \A c \in Children(p) : ~InTemplate(c) => Claim(c),
           NEW k \in 1 .. Len(Visited(p)), NEW found \in FoundSet, SoFar(p, path, n, found, k - 1)
    PROVE  SoFar(p, path, n, Visit(p, path, found, k, Walk[Visited(p)[k]]), k)
<1> DEFINE q == Visited(p)[k]
<1>1. /\ Visited(p) \in Seq(Plans) /\ k \in Nat /\ k - 1 \in Nat
      /\ q \in Children(p) /\ q \in Passing(p)
  BY VisitedIs
<1>2. q \in Plans
  BY <1>1 DEF Children
<1>3. found.counter \in Nat
  BY DEF FoundSet
<1> HIDE DEF q
<1>4. CASE p \in Goals
  <2> DEFINE sub == Walk[q][Append(path, found.counter)][found.counter + 1]
  <2>1. Visit(p, path, found, k, Walk[q]) = Joined(found, sub)
    BY <1>4 DEF Visit
  <2>2. Append(path, found.counter) \in Seq(Nat) /\ found.counter + 1 \in Nat
    BY <1>3
  <2>3. Claim(q)
    BY <1>1, <1>4 DEF Passing
  <2>4. Tells(q, Append(path, found.counter), found.counter + 1, sub)
    BY <2>2, <2>3 DEF Claim
  <2>5. sub \in FoundSet
    BY <1>2, <2>2, WalkOf
  <2>6. Bound(p, found, k - 1) = found.counter
    BY <1>4 DEF Bound
  <2> HIDE DEF sub
  <2>7. found.counter + 1 >= found.counter /\ found.counter + 1 > found.counter
    BY <1>3
  <2>8. SoFar(p, path, n, Joined(found, sub), k)
    BY <2>2, <2>4, <2>5, <2>6, <2>7, EnteredStep DEF q
  <2> QED BY <2>1, <2>8 DEF q
<1>5. CASE p \notin Goals /\ Entered(q)
  <2> DEFINE sub == Walk[q][Append(path, k - 1)][found.counter]
  <2>1. Visit(p, path, found, k, Walk[q]) = Joined(found, sub)
    BY <1>5 DEF Visit, InstancePath, q
  <2>2. Append(path, k - 1) \in Seq(Nat)
    BY <1>1
  <2>3. Claim(q)
    BY <1>1, <1>5 DEF Entered
  <2>4. Tells(q, Append(path, k - 1), found.counter, sub)
    BY <1>3, <2>2, <2>3 DEF Claim
  <2>5. sub \in FoundSet
    BY <1>2, <1>3, <2>2, WalkOf
  <2>6. Bound(p, found, k - 1) = k - 1
    BY <1>5 DEF Bound
  <2> HIDE DEF sub
  <2>7. found.counter >= found.counter
    BY <1>3
  <2>8. SoFar(p, path, n, Joined(found, sub), k)
    BY <1>3, <1>5, <2>4, <2>5, <2>6, <2>7, EnteredStep DEF q
  <2> QED BY <2>1, <2>8 DEF q
<1>6. CASE p \notin Goals /\ ~Entered(q)
  <2>1. Visit(p, path, found, k, Walk[q]) = found
    BY <1>6 DEF Visit, q
  <2>2. LeavesBelow[q] = {}
    BY <1>2, <1>6, LeavesBelowIs DEF Entered
  <2>3. \A c \in 1 .. k : c \in 1 .. k - 1 \/ c = k
    BY <1>1
  <2>4. \A c \in 1 .. k - 1 : c \in 1 .. k
    BY <1>1
  <2>5. Bound(p, found, k - 1) = k - 1 /\ Bound(p, found, k) = k
    BY <1>6 DEF Bound
  <2>6. \A v \in Nat : v < k - 1 => v < k
    BY <1>1
  <2>7. SoFar(p, path, n, found, k)
    <3>1. ASSUME NEW i \in 1 .. Len(found.leaves)
          PROVE  /\ \E c \in 1 .. k : found.leaves[i].plan \in LeavesBelow[Visited(p)[c]]
                 /\ \E v \in Nat : v < k /\ Extends(Append(path, v), found.leaves[i].path)
      <4>1. PICK c \in 1 .. k - 1 : found.leaves[i].plan \in LeavesBelow[Visited(p)[c]]
        BY DEF SoFar
      <4>2. PICK v \in Nat : v < k - 1 /\ Extends(Append(path, v), found.leaves[i].path)
        BY <2>5 DEF SoFar
      <4> QED BY <2>4, <2>6, <4>1, <4>2
    <3>2. ASSUME NEW c \in 1 .. k, NEW z \in LeavesBelow[Visited(p)[c]]
          PROVE  \E i \in 1 .. Len(found.leaves) : found.leaves[i].plan = z
      <4>1. c \in 1 .. k - 1
        BY <2>2, <2>3 DEF q
      <4> QED BY <4>1 DEF SoFar
    <3> QED BY <2>5, <3>1, <3>2 DEF SoFar
  <2> QED BY <2>1, <2>7 DEF q
<1> QED BY <1>4, <1>5, <1>6

\* The walk of any other plan tells what it should when the walks of its children do.
LEMMA StepClaim ==
    ASSUME parent \in Trees, order \in Orders, NEW p \in Plans \ Leaves, ~InTemplate(p),
           \A c \in Children(p) : ~InTemplate(c) => Claim(c)
    PROVE  Claim(p)
<1> SUFFICES ASSUME NEW path \in Seq(Nat), NEW n \in Nat
             PROVE  Tells(p, path, n, Walk[p][path][n])
  BY DEF Claim
<1> DEFINE m == Len(Visited(p))
           below == Under(Walk, p)
<1>1. /\ Visited(p) \in Seq(Plans)
      /\ \A i \in 1 .. m : Visited(p)[i] \in Children(p) /\ Visited(p)[i] \in Passing(p)
      /\ \A c \in Passing(p) : \E i \in 1 .. m : Visited(p)[i] = c
  BY VisitedIs
<1>2. m \in Nat
  BY <1>1
<1>3. below \in Seq(WalkSet) /\ Len(below) = m
  <2>1. \A c \in Children(p) : Walk[c] \in WalkSet
    BY WalkIs DEF Children
  <2> QED BY <2>1, UnderIs
<1>4. \A i \in 1 .. m : below[i] = Walk[Visited(p)[i]]
  BY DEF Under
<1>5. Walk[p][path][n] = Visits(p, path, n, below)
  BY WalkOf
<1> HIDE DEF m, below
<1>6. PICK at \in [0 .. m -> FoundSet] : Passes(p, path, n, below, at)
  <2>1. \E at \in [0 .. Len(below) -> FoundSet] : Passes(p, path, n, below, at)
    BY <1>3, VisitsSteps
  <2> QED BY <1>3, <2>1
<1> DEFINE Good(k) == SoFar(p, path, n, at[k], k)
           S == {k \in 0 .. m : Good(k)}
<1>7. Good(0)
  <2>1. at[0] = Found(n, << >>)
    BY <1>6 DEF Passes
  <2>2. at[0].counter = n /\ Len(at[0].leaves) = 0
    BY <2>1 DEF Found
  <2>3. \A i \in 1 .. Len(at[0].leaves) : FALSE
    BY <2>2
  <2>4. Sorted(at[0].leaves)
    BY <2>3 DEF Sorted
  <2> QED BY <2>2, <2>3, <2>4 DEF SoFar
<1>8. ASSUME NEW k \in 1 .. m, k - 1 \in S
      PROVE  k \in S
  <2>1. k - 1 \in 0 .. m /\ k \in 0 .. m /\ Good(k - 1)
    BY <1>8
  <2>2. at[k - 1] \in FoundSet
    BY <2>1
  <2>3. at[k] = Visit(p, path, at[k - 1], k, Walk[Visited(p)[k]])
    BY <1>3, <1>4, <1>6 DEF Passes
  <2>4. SoFar(p, path, n, Visit(p, path, at[k - 1], k, Walk[Visited(p)[k]]), k)
    BY <2>1, <2>2, SoFarStep DEF m
  <2> QED BY <2>1, <2>3, <2>4
<1>9. m \in S
  <2>1. 0 \in S /\ S \in SUBSET (0 .. m) /\ m \in 0 .. m
    BY <1>2, <1>7
  <2> HIDE DEF S
  <2> QED BY <1>2, <1>8, <2>1, UpTo
<1> DEFINE r == at[m]
<1>10. Walk[p][path][n] = r
  BY <1>3, <1>5, <1>6 DEF Passes
<1>11. SoFar(p, path, n, r, m)
  BY <1>9
<1>12. r \in FoundSet
  BY <1>2, <1>6
<1> HIDE DEF r
<1>13. LeavesBelow[p] = UNION {LeavesBelow[c] : c \in Enter(p)}
  BY LeavesBelowIs
<1>14. Enter(p) = (IF p \in Goals THEN Children(p) ELSE Instances(p)) /\ Enter(p) \subseteq Plans
  BY KindAssumption DEF Enter, Children, Instances, RootClones
<1>15. \A i \in 1 .. Len(r.leaves) :
           r.leaves[i].plan \in LeavesBelow[p] /\ Extends(path, r.leaves[i].path)
  <2> TAKE i \in 1 .. Len(r.leaves)
  <2>1. PICK c \in 1 .. m : r.leaves[i].plan \in LeavesBelow[Visited(p)[c]]
    BY <1>11 DEF SoFar
  <2>2. PICK v \in Nat : Extends(Append(path, v), r.leaves[i].path)
    BY <1>11 DEF SoFar
  <2>3. Visited(p)[c] \in Enter(p)
    BY <1>1, <1>14 DEF Passing
  <2>4. r.leaves[i].path \in Seq(Nat)
    <3>1. r.leaves \in Seq(Leaf)
      BY <1>12 DEF FoundSet
    <3>2. r.leaves[i] \in Leaf
      BY <3>1
    <3> QED BY <3>2 DEF Leaf
  <2>5. Extends(path, r.leaves[i].path)
    BY <2>2, <2>4, ExtendsLess
  <2> QED BY <1>13, <2>1, <2>3, <2>5
<1>16. \A z \in LeavesBelow[p] : \E i \in 1 .. Len(r.leaves) : r.leaves[i].plan = z
  <2> TAKE z \in LeavesBelow[p]
  <2>1. PICK c \in Enter(p) : z \in LeavesBelow[c]
    BY <1>13
  <2>2. ~InTemplate(c)
    BY <1>14, <2>1, LeavesBelowIs
  <2>3. c \in Passing(p)
    BY <1>14, <2>1, <2>2 DEF Passing
  <2>4. PICK i \in 1 .. m : Visited(p)[i] = c
    BY <1>1, <2>3
  <2> QED BY <1>11, <2>1, <2>4 DEF SoFar
<1> QED BY <1>10, <1>11, <1>15, <1>16 DEF Tells, SoFar

\* From every plan outside templates the walk tells what it should.
LEMMA AllClaim ==
    ASSUME parent \in Trees, order \in Orders
    PROVE  \A p \in Plans : ~InTemplate(p) => Claim(p)
<1> DEFINE Bad == {p \in Plans : ~InTemplate(p) /\ ~Claim(p)}
<1>1. SUFFICES ASSUME Bad # {} PROVE FALSE
  OBVIOUS
<1>2. Bad \in SUBSET Plans
  OBVIOUS
<1>3. PICK p \in Bad : Children(p) \cap Bad = {}
  <2> HIDE DEF Bad
  <2> QED BY <1>1, <1>2, Lowest
<1>4. \A c \in Children(p) : ~InTemplate(c) => Claim(c)
  BY <1>3 DEF Children
<1>5. p \in Plans /\ ~InTemplate(p) /\ ~Claim(p)
  BY <1>3
<1>6. CASE p \in Leaves
  BY <1>5, <1>6, LeafClaim
<1>7. CASE p \notin Leaves
  BY <1>4, <1>5, <1>7, StepClaim
<1> QED BY <1>6, <1>7

-----------------------------------------------------------------------------
(* What the collectors emit.                                               *)

\* What can be scheduled is what is below the master plan.
LEMMA BelowMaster ==
    ASSUME parent \in Trees
    PROVE  ~InTemplate(Master) /\ LeavesBelow[Master] = Schedulable
<1>1. /\ Master \in Plans /\ None \notin Plans /\ parent[Master] = None
      /\ Above[Master] = {Master} /\ Repetitions \subseteq Plans
  BY TreeIs, AboveIs, KindAssumption
<1>2. ~InTemplate(Master)
  BY <1>1, TemplateAssumption DEF InTemplate
<1>3. ASSUME NEW z \in LeavesBelow[Master] PROVE z \in Schedulable
  <2>1. /\ z \in Leaves /\ z \in Plans /\ ~InTemplate(z)
        /\ \A r \in Repetitions \ generated : RootClones(r) \cap Above[z] \subseteq {Master}
    BY <1>1, BelowAre
  <2>2. \A r \in Repetitions : Master \notin RootClones(r)
    BY <1>1 DEF RootClones, Children
  <2>3. \A r \in Repetitions \ generated : RootClones(r) \cap Above[z] = {}
    BY <2>1, <2>2
  <2> QED BY <2>1, <2>3 DEF Schedulable, Present
<1>4. ASSUME NEW z \in Schedulable PROVE z \in LeavesBelow[Master]
  <2>1. z \in Plans
    BY DEF Schedulable, Present
  <2> QED BY <2>1, AboveAll, LeafFound
<1> QED BY <1>2, <1>3, <1>4

\* The emitted leaves are sorted, and are the schedulable ones.
LEMMA EmittedIs ==
    ASSUME parent \in Trees, order \in Orders
    PROVE  /\ Emitted \in Seq(Leaf) /\ Sorted(Emitted)
           /\ \A i \in 1 .. Len(Emitted) : Emitted[i].plan \in Schedulable
           /\ \A z \in Schedulable : \E i \in 1 .. Len(Emitted) : Emitted[i].plan = z
<1> DEFINE r == Walk[Master][<< >>][0]
<1>1. << >> \in Seq(Nat) /\ 0 \in Nat /\ Master \in Plans
  BY KindAssumption
<1>2. Claim(Master)
  BY <1>1, BelowMaster, AllClaim
<1>3. Tells(Master, << >>, 0, r)
  BY <1>1, <1>2 DEF Claim
<1>4. r \in FoundSet
  BY <1>1, WalkOf
<1>5. Emitted = r.leaves
  BY DEF Emitted
<1> HIDE DEF r
<1>6. r.leaves \in Seq(Leaf)
  BY <1>4 DEF FoundSet
<1> QED BY <1>3, <1>5, <1>6, BelowMaster DEF Tells

\* The walk of the collectors and the expansion of prerequisites
\* (leaf_task_ids_in_subtree) find the same leaves: the ones to be scheduled, each once.
THEOREM CollectorsAgree == Spec => []LeavesAgree
<1>1. ASSUME IInv PROVE LeavesAgree
  <2>1. /\ Emitted \in Seq(Leaf) /\ Sorted(Emitted)
        /\ \A i \in 1 .. Len(Emitted) : Emitted[i].plan \in Schedulable
        /\ \A z \in Schedulable : \E i \in 1 .. Len(Emitted) : Emitted[i].plan = z
    BY <1>1, EmittedIs DEF IInv
  <2> DEFINE places == Collected(Tasks) \cup Collected(Blocks)
  <2>2. places = 1 .. Len(Emitted)
    BY <2>1 DEF Collected, Schedulable, Leaves
  <2>3. Len(Emitted) \in Nat
    BY <2>1
  <2> HIDE DEF places
  <2>4. {Emitted[i].plan : i \in places} = Schedulable
    BY <2>1, <2>2
  <2>5. \A i, j \in places : i < j => Emitted[i].plan # Emitted[j].plan
    <3> SUFFICES ASSUME NEW i \in places, NEW j \in places, i < j
                 PROVE  Emitted[i].plan # Emitted[j].plan
      OBVIOUS
    <3>1. TreeBefore(Emitted[i].plan, Emitted[j].plan)
      BY <2>1, <2>2 DEF Sorted
    <3>2. Emitted[i].plan \in Plans /\ Emitted[j].plan \in Plans
      BY <2>1, <2>2 DEF Schedulable, Present
    <3> QED BY <1>1, <3>1, <3>2, TreeOrderOneWay DEF IInv
  <2>6. \A i, j \in places : Emitted[i].plan = Emitted[j].plan => i = j
    <3> SUFFICES ASSUME NEW i \in places, NEW j \in places, i # j
                 PROVE  Emitted[i].plan # Emitted[j].plan
      OBVIOUS
    <3>1. i < j \/ j < i
      BY <2>2, <2>3
    <3> QED BY <2>5, <3>1
  <2> QED BY <1>1, <2>4, <2>6, BelowMaster DEF LeavesAgree, places, IInv
<1> QED BY <1>1, Inv, PTL

\* The priority paths that the collectors give, compared as tuples, are the user's order.
THEOREM PathsFollowTree == Spec => []PriorityIsTreeOrder
<1>1. ASSUME IInv PROVE PriorityIsTreeOrder
  <2>1. /\ Emitted \in Seq(Leaf) /\ Sorted(Emitted)
        /\ \A i \in 1 .. Len(Emitted) : Emitted[i].plan \in Schedulable
    BY <1>1, EmittedIs DEF IInv
  <2>2. Len(Emitted) \in Nat
    BY <2>1
  <2>3. \A i \in 1 .. Len(Emitted) : Emitted[i].plan \in Plans /\ Emitted[i].path \in Seq(Nat)
    <3> TAKE i \in 1 .. Len(Emitted)
    <3>1. Emitted[i] \in Leaf /\ Emitted[i].plan \in Schedulable
      BY <2>1
    <3> QED BY <3>1 DEF Leaf, Schedulable, Present
  <2>4. ASSUME NEW i \in 1 .. Len(Emitted), NEW j \in 1 .. Len(Emitted), i < j
        PROVE  /\ PathBefore(Emitted[i].path, Emitted[j].path) /\ ~PathBefore(Emitted[j].path, Emitted[i].path)
               /\ TreeBefore(Emitted[i].plan, Emitted[j].plan) /\ ~TreeBefore(Emitted[j].plan, Emitted[i].plan)
    <3>1. Differ(Emitted[i].path, Emitted[j].path) /\ TreeBefore(Emitted[i].plan, Emitted[j].plan)
      BY <2>1, <2>4 DEF Sorted
    <3>2. PathBefore(Emitted[i].path, Emitted[j].path) /\ ~PathBefore(Emitted[j].path, Emitted[i].path)
      BY <2>3, <3>1, DifferBefore
    <3>3. ~TreeBefore(Emitted[j].plan, Emitted[i].plan)
      BY <1>1, <2>3, <3>1, TreeOrderOneWay DEF IInv
    <3> QED BY <3>1, <3>2, <3>3
  <2>5. \A i, j \in 1 .. Len(Emitted) :
            i # j => (PathBefore(Emitted[i].path, Emitted[j].path) <=> TreeBefore(Emitted[i].plan, Emitted[j].plan))
    <3> SUFFICES ASSUME NEW i \in 1 .. Len(Emitted), NEW j \in 1 .. Len(Emitted), i # j
                 PROVE  PathBefore(Emitted[i].path, Emitted[j].path) <=> TreeBefore(Emitted[i].plan, Emitted[j].plan)
      OBVIOUS
    <3>1. CASE i < j
      BY <2>4, <3>1
    <3>2. CASE j < i
      BY <2>4, <3>2
    <3> QED BY <2>2, <3>1, <3>2
  <2>6. \A kind \in {Tasks, Blocks} : Collected(kind) \subseteq 1 .. Len(Emitted)
    BY <2>1 DEF Collected
  <2> QED BY <2>5, <2>6 DEF PriorityIsTreeOrder
<1> QED BY <1>1, Inv, PTL
=============================================================================
