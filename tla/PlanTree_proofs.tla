---------------------------- MODULE PlanTree_proofs ----------------------------
(***************************************************************************)
(* The plan tree for any set of plans, any tree built by the services, any *)
(* number of occurrences and of edits.                                     *)
(*                                                                         *)
(* The fixpoints of the model (what hangs below a plan, what a deletion    *)
(* takes along, which clones are missing) are least closed sets.  A set    *)
(* that has fewer elements than any other counterexample stands in for     *)
(* induction.                                                              *)
(***************************************************************************)
EXTENDS PlanTree, FiniteSetTheorems, TLAPS

-----------------------------------------------------------------------------
(* Numbers and fixpoints.                                                  *)

\* Every non-empty set of natural numbers has a least one.
LEMMA Least ==
    ASSUME NEW T \in SUBSET Nat, T # {}
    PROVE  \E m \in T : \A n \in T : m <= n
<1> DEFINE R == OpToRel(<, Nat)
<1>1. IsWellFoundedOn(R, Nat)
  BY NatLessThanWellFounded
<1>2. \E m \in T : \A n \in T : ~(<<n, m>> \in R)
  <2> HIDE DEF R
  <2> QED BY <1>1, WFMin
<1>3. \A m, n \in Nat : <<n, m>> \in R <=> n < m
  BY DEF OpToRel
<1>4. PICK m \in T : \A n \in T : ~(<<n, m>> \in R)
  BY <1>2
<1>5. \A n \in T : ~(n < m)
  <2> HIDE DEF R
  <2> QED BY <1>3, <1>4
<1> QED BY <1>5

\* A step that only adds, and adds no less to a larger set.
Growing(U, step) ==
    /\ step \in [SUBSET U -> SUBSET U]
    /\ \A S \in SUBSET U : S \subseteq step[S]
    /\ \A S, T \in SUBSET U : S \subseteq T => step[S] \subseteq step[T]

\* g goes through ever larger sets until one is closed under step.
Saturates(U, step, g) == g = [S \in SUBSET U |-> IF step[S] = S THEN S ELSE g[step[S]]]

\* T is the least set around S that is closed under step.
LeastAround(U, step, S, T) ==
    /\ T \in SUBSET U /\ S \subseteq T /\ step[T] = T
    /\ \A V \in SUBSET U : S \subseteq V /\ step[V] = V => T \subseteq V

\* For a growing step there is such a function: the one that returns the least closed set.
LEMMA ClosureExists ==
    ASSUME NEW U, NEW step, Growing(U, step)
    PROVE  \E g : Saturates(U, step, g)
<1> USE DEF Growing
<1> DEFINE g == [S \in SUBSET U |->
                    {x \in U : \A T \in SUBSET U : S \subseteq T /\ step[T] = T => x \in T}]
<1>1. ASSUME NEW S \in SUBSET U, step[S] = S
      PROVE  g[S] = S
  BY <1>1
<1>2. ASSUME NEW S \in SUBSET U
      PROVE  g[S] = g[step[S]]
  <2>1. \A T \in SUBSET U : step[T] = T => (S \subseteq T <=> step[S] \subseteq T)
    OBVIOUS
  <2> QED BY <2>1
<1>3. g = [S \in SUBSET U |-> IF step[S] = S THEN S ELSE g[step[S]]]
  <2> HIDE DEF g
  <2>1. DOMAIN g = SUBSET U /\ g = [S \in SUBSET U |-> g[S]]
    BY DEF g
  <2> QED BY <1>1, <1>2, <2>1
<1> QED BY <1>3 DEF Saturates

\* Such a function returns the least closed set around its argument.
LEMMA ClosureIsLeast ==
    ASSUME NEW U, IsFiniteSet(U), NEW step, Growing(U, step), NEW g, Saturates(U, step, g)
    PROVE  \A S \in SUBSET U : LeastAround(U, step, S, g[S])
<1> USE DEF Growing, Saturates, LeastAround
<1> DEFINE Good(S) == LeastAround(U, step, S, g[S])
           Bad == {n \in Nat : \E S \in SUBSET U : ~Good(S) /\ Cardinality(U \ S) = n}
<1>1. ASSUME NEW S \in SUBSET U, ~Good(S)
      PROVE  \E n \in Bad : n < Cardinality(U \ S)
  <2>1. step[S] # S
    BY <1>1
  <2>2. step[S] \in SUBSET U /\ g[S] = g[step[S]]
    BY <2>1
  <2>3. ~Good(step[S])
    <3>1. \A T \in SUBSET U : step[T] = T => (S \subseteq T => step[S] \subseteq T)
      OBVIOUS
    <3>2. S \subseteq step[S]
      OBVIOUS
    <3>3. SUFFICES ASSUME Good(step[S]) PROVE Good(S)
      BY <1>1
    <3> QED BY <2>2, <3>1, <3>2, <3>3
  <2>4. /\ IsFiniteSet(U \ S) /\ IsFiniteSet(U \ step[S])
        /\ Cardinality(U \ step[S]) < Cardinality(U \ S)
    <3>1. IsFiniteSet(U \ S) /\ U \ step[S] \in SUBSET (U \ S) /\ U \ step[S] # U \ S
      <4>1. IsFiniteSet(U \ S)
        BY FS_Difference
      <4>2. S \subseteq step[S] /\ step[S] \subseteq U /\ S \subseteq U
        BY <2>2
      <4> QED BY <2>1, <4>1, <4>2
    <3>2. /\ IsFiniteSet(U \ step[S]) /\ Cardinality(U \ step[S]) <= Cardinality(U \ S)
          /\ Cardinality(U \ step[S]) # Cardinality(U \ S)
      BY <3>1, FS_Subset
    <3>3. Cardinality(U \ step[S]) \in Nat /\ Cardinality(U \ S) \in Nat
      BY <3>1, <3>2, FS_CardinalityType
    <3> QED BY <3>1, <3>2, <3>3
  <2>5. Cardinality(U \ step[S]) \in Bad
    <3> HIDE DEF Good
    <3> QED BY <2>2, <2>3, <2>4, FS_CardinalityType
  <2> QED BY <2>4, <2>5
<1>2. Bad = {}
  <2>1. SUFFICES ASSUME Bad # {} PROVE FALSE
    OBVIOUS
  <2>2. PICK m \in Bad : \A n \in Bad : m <= n
    <3>1. Bad \in SUBSET Nat
      OBVIOUS
    <3> HIDE DEF Bad
    <3> QED BY <2>1, <3>1, Least
  <2>3. PICK S \in SUBSET U : ~Good(S) /\ Cardinality(U \ S) = m
    <3> HIDE DEF Good
    <3> QED BY <2>2
  <2> HIDE DEF Good, Bad
  <2>4. PICK n \in Bad : n < m
    BY <2>3, <1>1
  <2>5. m \in Nat /\ n \in Nat /\ m <= n
    BY <2>2 DEF Bad
  <2> QED BY <2>4, <2>5
<1>3. \A S \in SUBSET U : Cardinality(U \ S) \in Nat
  BY FS_Difference, FS_CardinalityType
<1>4. \A S \in SUBSET U : Good(S)
  <2> HIDE DEF Good
  <2> QED BY <1>2, <1>3
<1> QED BY <1>4

StrictOrder(S, R) ==
    /\ \A x, y \in S : x # y => <<x, y>> \in R \/ <<y, x>> \in R
    /\ \A x \in S : <<x, x>> \notin R
    /\ \A x, y, z \in S : <<x, y>> \in R /\ <<y, z>> \in R => <<x, z>> \in R

\* How many elements of S are earlier than each.
Rank(S, R) == [x \in S |-> Cardinality({y \in S : <<y, x>> \in R})]

\* In a finite set with a strict total order every element has a rank of its own, and
\* the ranks are 0, 1, 2 and so on.
LEMMA Ranks ==
    ASSUME NEW S, IsFiniteSet(S), NEW R, StrictOrder(S, R)
    PROVE  /\ Rank(S, R) \in Bijection(S, 0 .. Cardinality(S) - 1)
           /\ \A x, y \in S : <<x, y>> \in R => Rank(S, R)[x] < Rank(S, R)[y]
<1> USE DEF StrictOrder
<1> DEFINE below(x) == {y \in S : <<y, x>> \in R}
           rank == [x \in S |-> Cardinality(below(x))]
<1>r. Rank(S, R) = rank
  BY DEF Rank
<1>0. Cardinality(S) \in Nat
  BY FS_CardinalityType
<1>1. \A x \in S : IsFiniteSet(below(x)) /\ Cardinality(below(x)) \in Nat
  <2> TAKE x \in S
  <2>1. below(x) \in SUBSET S
    OBVIOUS
  <2> HIDE DEF below
  <2> QED BY <2>1, FS_Subset, FS_CardinalityType
<1>2. \A x \in S : rank[x] \in 0 .. Cardinality(S) - 1
  <2> TAKE x \in S
  <2>1. below(x) \in SUBSET S /\ x \notin below(x)
    OBVIOUS
  <2> HIDE DEF below
  <2>2. Cardinality(below(x)) <= Cardinality(S) /\ Cardinality(below(x)) # Cardinality(S)
    BY <2>1, FS_Subset
  <2> QED BY <1>0, <1>1, <2>2
<1>3. ASSUME NEW x \in S, NEW y \in S, <<x, y>> \in R
      PROVE  rank[x] < rank[y]
  <2>1. below(x) \in SUBSET below(y) /\ below(x) # below(y)
    BY <1>3
  <2> HIDE DEF below
  <2>2. Cardinality(below(x)) <= Cardinality(below(y)) /\ Cardinality(below(x)) # Cardinality(below(y))
    BY <1>1, <2>1, FS_Subset
  <2> QED BY <1>1, <2>2
<1>4. rank \in Injection(S, 0 .. Cardinality(S) - 1)
  <2>1. rank \in [S -> 0 .. Cardinality(S) - 1]
    BY <1>2
  <2>2. ASSUME NEW x \in S, NEW y \in S, x # y
        PROVE  rank[x] # rank[y]
    <3>1. rank[x] < rank[y] \/ rank[y] < rank[x]
      <4> HIDE DEF rank
      <4> QED BY <1>3, <2>2
    <3>2. rank[x] \in Nat /\ rank[y] \in Nat
      <4> HIDE DEF below
      <4> QED BY <1>1
    <3> HIDE DEF rank
    <3> QED BY <3>1, <3>2
  <2> HIDE DEF rank
  <2> QED BY <2>1, <2>2 DEF Injection, IsInjective
<1>5. IsFiniteSet(0 .. Cardinality(S) - 1) /\ Cardinality(0 .. Cardinality(S) - 1) = Cardinality(S)
  <2> DEFINE n == Cardinality(S)
  <2>1. n \in Nat /\ 0 \in Int /\ n - 1 \in Int
    BY <1>0
  <2> HIDE DEF n, rank, below
  <2>2. IsFiniteSet(0 .. n - 1) /\ Cardinality(0 .. n - 1) = IF 0 > n - 1 THEN 0 ELSE (n - 1) - 0 + 1
    BY <2>1, FS_Interval
  <2>3. IsFiniteSet(0 .. n - 1) /\ Cardinality(0 .. n - 1) = n
    BY <2>1, <2>2
  <2> QED BY <2>3 DEF n
<1>6. rank \in Bijection(S, 0 .. Cardinality(S) - 1)
  <2> HIDE DEF rank
  <2>1. rank \in Surjection(S, 0 .. Cardinality(S) - 1)
    BY <1>4, <1>5, FS_Injection
  <2> QED BY <1>4, <2>1 DEF Bijection
<1> HIDE DEF rank
<1> QED BY <1>r, <1>3, <1>6

-----------------------------------------------------------------------------
(* Names.                                                                  *)

\* There are finitely many plans and occurrences.
LEMMA AllFinite ==
    /\ IsFiniteSet(All) /\ IsFiniteSet(Occurrences)
    /\ \A S \in SUBSET All : IsFiniteSet(S) /\ Cardinality(S) \in Nat
    /\ \A S \in SUBSET Occurrences : IsFiniteSet(S) /\ Cardinality(S) \in Nat
<1>1. IsFiniteSet(Occurrences)
  BY BoundsAssumption
<1>2. IsFiniteSet(Clones)
  <2>1. IsFiniteSet(Ids \ {Master, Shell})
    BY NamesAssumption, FS_Difference
  <2> QED BY <1>1, <2>1, FS_Product DEF Clones
<1>3. IsFiniteSet(All)
  BY <1>2, NamesAssumption, FS_Union DEF All
<1>4. \A S \in SUBSET All : IsFiniteSet(S) /\ Cardinality(S) \in Nat
  BY <1>3, FS_Subset, FS_CardinalityType
<1>5. \A S \in SUBSET Occurrences : IsFiniteSet(S) /\ Cardinality(S) \in Nat
  BY <1>1, FS_Subset, FS_CardinalityType
<1> QED BY <1>1, <1>3, <1>4, <1>5

\* The names of plans, of clones and of NULL do not overlap, and a clone is named by its
\* template's plan and its occurrence.
LEMMA Names ==
    /\ Master \in Ids /\ Shell \in Ids /\ Root \in Ids
    /\ Master # Shell /\ Master # Root /\ Shell # Root
    /\ None \notin All /\ Ids \cap Clones = {} /\ All = Ids \cup Clones
    /\ \A k \in Clones : /\ k = <<k[1], k[2]>> /\ k[1] \in Ids \ {Master, Shell}
                         /\ k[2] \in Occurrences
    /\ \A x \in Ids, i \in Occurrences : <<x, i>> \in All => <<x, i>> \in Clones
    /\ \A i \in Occurrences : RootOf(i) \in Clones /\ RootOf(i)[1] = Root /\ RootOf(i)[2] = i
    /\ \A k \in Clones : k[1] = Root => k = RootOf(k[2])
<1>1. Master # Shell /\ Master # Root /\ Shell # Root
  <2>1. Cardinality({Master, Shell, Root}) = 3
    BY NamesAssumption
  <2>2. \A x : IsFiniteSet({x}) /\ Cardinality({x}) = 1
    BY FS_Singleton
  <2>3. ASSUME NEW x, NEW y
        PROVE  Cardinality({x} \cup {y}) # 3
    <3>1. Cardinality({x} \cup {y}) = IF y \in {x} THEN Cardinality({x}) ELSE Cardinality({x}) + 1
      BY <2>2, FS_AddElement
    <3> QED BY <2>2, <3>1
  <2>4. ASSUME Master = Shell \/ Master = Root \/ Shell = Root
        PROVE  {Master, Shell, Root} = {Master} \cup {Root} \/ {Master, Shell, Root} = {Master} \cup {Shell}
    BY <2>4
  <2>5. Cardinality({Master} \cup {Root}) # 3 /\ Cardinality({Master} \cup {Shell}) # 3
    BY <2>3
  <2> QED BY <2>1, <2>4, <2>5
<1> QED BY <1>1, NamesAssumption, NoneAssumption DEF All, Clones, RootOf

-----------------------------------------------------------------------------
(* What hangs below a plan.                                                *)

\* The set is closed under children.
Closed(table, T) == \A q \in PlansIn(table) : table[q].parent \in T => q \in T

\* Below is the least set that holds the plan and, with a plan, its children.
LEMMA BelowIsLeast ==
    ASSUME NEW table, NEW p \in All
    PROVE  /\ Below(table, p) \in SUBSET All /\ p \in Below(table, p)
           /\ Closed(table, Below(table, p))
           /\ \A T \in SUBSET All : p \in T /\ Closed(table, T) => Below(table, p) \subseteq T
<1> DEFINE more(S) == S \cup {q \in PlansIn(table) : table[q].parent \in S}
           step == [S \in SUBSET All |-> more(S)]
           reach == CHOOSE g : g = [S \in SUBSET All |-> IF more(S) = S THEN S ELSE g[more(S)]]
<1>1. Growing(All, step)
  BY DEF PlansIn, Growing
<1>2. \A g : Saturates(All, step, g)
             <=> g = [S \in SUBSET All |-> IF more(S) = S THEN S ELSE g[more(S)]]
  <2> TAKE g
  <2>1. \A S \in SUBSET All : (IF step[S] = S THEN S ELSE g[step[S]])
                                = (IF more(S) = S THEN S ELSE g[more(S)])
    OBVIOUS
  <2> HIDE DEF step, more
  <2> QED BY <2>1 DEF Saturates
<1>3. Saturates(All, step, reach)
  <2> HIDE DEF step, more
  <2>1. \E g : g = [S \in SUBSET All |-> IF more(S) = S THEN S ELSE g[more(S)]]
    BY <1>1, <1>2, ClosureExists
  <2>2. reach = [S \in SUBSET All |-> IF more(S) = S THEN S ELSE reach[more(S)]]
    BY <2>1
  <2> HIDE DEF reach
  <2> QED BY <1>2, <2>2
<1>6. \A S \in SUBSET All : LeastAround(All, step, S, reach[S])
  <2> HIDE DEF step, reach
  <2> QED BY <1>1, <1>3, AllFinite, ClosureIsLeast
<1>7. Below(table, p) = reach[{p}]
  BY DEF Below
<1>8. \A T \in SUBSET All : step[T] = T <=> Closed(table, T)
  BY DEF Closed
<1>9. LeastAround(All, step, {p}, Below(table, p))
  <2> HIDE DEF step, reach
  <2> QED BY <1>6, <1>7
<1> HIDE DEF step, reach
<1> QED BY <1>8, <1>9 DEF LeastAround
-----------------------------------------------------------------------------
(* The inductive invariant.                                                *)

Typed(table) == table \in [All -> Record \cup {None}]

\* One tree under the master plan: a set that holds it, and with a plan its children,
\* holds every plan.
Rooted(table) ==
    /\ Master \in PlansIn(table)
    /\ table[Master].parent = None /\ table[Master].kind = "GOAL"
    /\ \A T \in SUBSET All : Master \in T /\ Closed(table, T) => PlansIn(table) \subseteq T

Kinds(table) == \A p \in PlansIn(table) : table[p].kind = "REPETITION" <=> p = Shell

\* Plans that are no clones: the root of the template hangs below the repetition, all
\* others below goals, and a clone that has got a child of its own is detached.
OwnFit(table) ==
    \A p \in PlansIn(table) \cap Ids :
        /\ table[p].status \in {"NOT_CLONED", "TEMPLATE"}
        /\ table[p].status = "TEMPLATE" => p = Root
        /\ p = Root => table[p].parent = Shell
        /\ p \notin {Master, Root} =>
              table[p].parent \in PlansIn(table) /\ table[table[p].parent].kind = "GOAL"
        /\ table[p].parent \in Clones => table[table[p].parent].status = "DETACHED"

\* Clones hang as their templates do, and under a detached clone all are detached.
ClonesFit(table) ==
    \A k \in PlansIn(table) \cap Clones :
        /\ k[1] \in PlansIn(table) /\ table[k].kind = table[k[1]].kind
        /\ table[k].status \in {"LINKED", "DETACHED"}
        /\ k[1] = Root => table[k].parent = Shell
        /\ k[1] # Root =>
              /\ table[k].parent = <<table[k[1]].parent, k[2]>>
              /\ table[k].parent \in PlansIn(table) \cap Clones
              /\ table[k].status = "LINKED" => table[table[k].parent].status = "LINKED"

IsRoot(p) == p = Root \/ (p \in Clones /\ p[1] = Root)

\* What has a place in a bucket: all but the master plan and the roots.
Placed(table) ==
    \A p \in PlansIn(table) \ {Master} :
        /\ IsRoot(p) => table[p].critical = None /\ table[p].order = None
        /\ ~IsRoot(p) => table[p].critical \in BOOLEAN /\ table[p].order \in Nat
        /\ table[p].parent = Master => table[p].critical = FALSE

Shape(table) ==
    /\ Typed(table) /\ Rooted(table) /\ Kinds(table) /\ OwnFit(table) /\ ClonesFit(table)
    /\ Placed(table)
    /\ Shell \in PlansIn(table) <=> Root \in PlansIn(table)

\* The goals that are no clones, the template's among them, never lose their order.
OwnOrder(table) ==
    \A g \in PlansIn(table) \cap Ids, c \in BOOLEAN :
        table[g].kind = "GOAL" => Dense(table, g, c)

InstanceOrder(insts) ==
    \A c \in BOOLEAN :
        {insts[i].order : i \in OfBucket(insts, c)} = 0 .. Cardinality(OfBucket(insts, c)) - 1

\* Instances are the occurrences whose root is there; indices leave no gap.
OccurrencesFit ==
    /\ instance \in [Occurrences -> Instance \cup {None}]
    /\ skipped \subseteq Occurrences
    /\ count \in 1 .. Cardinality(Occurrences)
    /\ \A i \in Occurrences : i \in Existing(instance) <=> RootOf(i) \in Plans
    /\ Existing(instance) \cap skipped = {}
    /\ \E n \in 0 .. Cardinality(Occurrences) : Existing(instance) \cup skipped = 0 .. n - 1
    /\ InstanceOrder(instance)

\* The goal that a deleted clone left is detached, so that nothing brings the clone back.
UnwantedFit ==
    \A u \in unwanted :
        /\ u \in Clones \X Clones /\ u[1] \notin Plans /\ u[1][1] # Root
        /\ u[1][1] \in Plans /\ u[2] = <<plan[u[1][1]].parent, u[1][2]>>
        /\ u[2] \in Plans /\ plan[u[2]].status = "DETACHED"

IInv ==
    /\ Shape(plan) /\ OwnOrder(plan) /\ OccurrencesFit /\ UnwantedFit
    /\ edits \in 0 .. MaxEdits

-----------------------------------------------------------------------------
(* Lists.                                                                  *)

\* The list holds every member of S once.
Lists(seq, S) ==
    /\ seq \in Seq(S) /\ Len(seq) = Cardinality(S)
    /\ \A m, n \in 1 .. Len(seq) : seq[m] = seq[n] => m = n
    /\ \A x \in S : \E n \in 1 .. Len(seq) : seq[n] = x

\* Any enumeration of a finite set lists it.
LEMMA EnumerationLists ==
    ASSUME NEW S, IsFiniteSet(S), NEW seq \in SetToSeqs(S)
    PROVE  Lists(seq, S)
<1>1. Cardinality(S) \in Nat
  BY FS_CardinalityType
<1>2. /\ seq \in [1 .. Cardinality(S) -> S]
      /\ \A m, n \in 1 .. Cardinality(S) : seq[m] = seq[n] => m = n
  BY DEF SetToSeqs
<1>3. seq \in Seq(S) /\ Len(seq) = Cardinality(S)
  BY <1>1, <1>2
<1>4. seq \in Injection(1 .. Cardinality(S), S)
  BY <1>2 DEF Injection, IsInjective
<1>5. IsFiniteSet(1 .. Cardinality(S)) /\ Cardinality(1 .. Cardinality(S)) = Cardinality(S)
  <2> DEFINE n == Cardinality(S)
  <2>1. n \in Nat /\ 1 \in Int /\ n \in Int
    BY <1>1
  <2> HIDE DEF n
  <2>2. IsFiniteSet(1 .. n) /\ Cardinality(1 .. n) = IF 1 > n THEN 0 ELSE n - 1 + 1
    BY <2>1, FS_Interval
  <2>3. IsFiniteSet(1 .. n) /\ Cardinality(1 .. n) = n
    BY <2>1, <2>2
  <2> QED BY <2>3 DEF n
<1>6. seq \in Surjection(1 .. Cardinality(S), S)
  BY <1>4, <1>5, FS_Injection
<1> QED BY <1>2, <1>3, <1>6 DEF Lists, Surjection

\* Every element at the place its rank says.
LEMMA RankedLists ==
    ASSUME NEW S, IsFiniteSet(S), NEW R, StrictOrder(S, R),
           NEW seq, seq = [n \in 1 .. Cardinality(S) |-> CHOOSE x \in S : Rank(S, R)[x] = n - 1]
    PROVE  Lists(seq, S) /\ \A n \in 1 .. Len(seq) : Rank(S, R)[seq[n]] = n - 1
<1> DEFINE rank == Rank(S, R)
<1>1. rank \in Bijection(S, 0 .. Cardinality(S) - 1)
  BY Ranks
<1> HIDE DEF rank
<1>2. Cardinality(S) \in Nat
  BY FS_CardinalityType
<1>3. /\ \A x \in S : rank[x] \in 0 .. Cardinality(S) - 1
      /\ \A x, y \in S : rank[x] = rank[y] => x = y
      /\ \A n \in 0 .. Cardinality(S) - 1 : \E x \in S : rank[x] = n
  BY <1>1 DEF Bijection, Injection, Surjection, IsInjective
<1>4. \A n \in 1 .. Cardinality(S) : seq[n] \in S /\ rank[seq[n]] = n - 1
  <2> TAKE n \in 1 .. Cardinality(S)
  <2>1. seq[n] = CHOOSE x \in S : rank[x] = n - 1
    BY DEF rank
  <2>2. n - 1 \in 0 .. Cardinality(S) - 1
    BY <1>2
  <2>3. \E x \in S : rank[x] = n - 1
    BY <1>3, <2>2
  <2> QED BY <2>1, <2>3
<1>5. seq \in Seq(S) /\ Len(seq) = Cardinality(S)
  <2>1. seq \in [1 .. Cardinality(S) -> S]
    BY <1>4
  <2>2. \A n \in Nat : \A f \in [1 .. n -> S] : f \in Seq(S) /\ Len(f) = n
    OBVIOUS
  <2> QED BY <1>2, <2>1, <2>2
<1>6. \A m, n \in 1 .. Len(seq) : seq[m] = seq[n] => m = n
  BY <1>2, <1>4, <1>5
<1>7. \A x \in S : \E n \in 1 .. Len(seq) : seq[n] = x
  <2> TAKE x \in S
  <2>1. rank[x] \in 0 .. Cardinality(S) - 1
    BY <1>3
  <2>2. rank[x] + 1 \in 1 .. Cardinality(S) /\ (rank[x] + 1) - 1 = rank[x]
    BY <1>2, <2>1
  <2>3. seq[rank[x] + 1] = x
    BY <1>3, <1>4, <2>2
  <2> QED BY <1>5, <2>2, <2>3
<1> QED BY <1>4, <1>5, <1>6, <1>7 DEF Lists, rank

\* InsertAt puts one more element into the list, wherever it is put.
LEMMA InsertionLists ==
    ASSUME NEW S, IsFiniteSet(S), NEW seq, Lists(seq, S), NEW x, x \notin S,
           NEW place \in 0 .. Len(seq)
    PROVE  Lists(InsertAt(seq, place + 1, x), S \cup {x})
<1> DEFINE new == InsertAt(seq, place + 1, x)
           T == S \cup {x}
<1>1. seq \in Seq(T) /\ Len(seq) \in Nat /\ place \in Nat
  BY DEF Lists
<1>2. new = SubSeq(seq, 1, place) \o <<x>> \o SubSeq(seq, place + 1, Len(seq))
  <2>1. (place + 1) - 1 = place
    BY <1>1
  <2> QED BY <2>1 DEF InsertAt
<1>3. /\ SubSeq(seq, 1, place) \in Seq(T) /\ Len(SubSeq(seq, 1, place)) = place
      /\ \A n \in 1 .. place : SubSeq(seq, 1, place)[n] = seq[n]
  BY <1>1
<1>4. /\ SubSeq(seq, place + 1, Len(seq)) \in Seq(T)
      /\ Len(SubSeq(seq, place + 1, Len(seq))) = Len(seq) - place
      /\ \A n \in 1 .. Len(seq) - place : SubSeq(seq, place + 1, Len(seq))[n] = seq[place + n]
  BY <1>1
<1>5. /\ new \in Seq(T) /\ Len(new) = Len(seq) + 1
      /\ \A n \in 1 .. Len(new) :
            new[n] = IF n <= place THEN seq[n] ELSE IF n = place + 1 THEN x ELSE seq[n - 1]
  <2> DEFINE front == SubSeq(seq, 1, place)
             back == SubSeq(seq, place + 1, Len(seq))
             mid == front \o <<x>>
  <2>1. /\ front \in Seq(T) /\ Len(front) = place /\ \A n \in 1 .. place : front[n] = seq[n]
        /\ back \in Seq(T) /\ Len(back) = Len(seq) - place
        /\ \A n \in 1 .. Len(seq) - place : back[n] = seq[place + n]
    BY <1>3, <1>4
  <2>2. new = mid \o back
    BY <1>2
  <2> HIDE DEF front, back, new
  <2>3. /\ mid \in Seq(T) /\ Len(mid) = place + 1
        /\ \A n \in 1 .. place + 1 : mid[n] = IF n <= place THEN seq[n] ELSE x
    BY <1>1, <2>1
  <2> HIDE DEF mid
  <2>4. /\ new \in Seq(T) /\ Len(new) = Len(seq) + 1
        /\ \A n \in 1 .. Len(new) : new[n] = IF n <= place + 1 THEN mid[n] ELSE back[n - (place + 1)]
    BY <1>1, <2>1, <2>2, <2>3
  <2>5. ASSUME NEW n \in 1 .. Len(new), n > place + 1
        PROVE  new[n] = seq[n - 1]
    <3> DEFINE m == n - (place + 1)
    <3>1. m \in 1 .. Len(seq) - place /\ place + m = n - 1
      BY <1>1, <2>4, <2>5
    <3>2. new[n] = back[m]
      BY <1>1, <2>4, <2>5
    <3> HIDE DEF m
    <3> QED BY <2>1, <3>1, <3>2
  <2> QED BY <1>1, <2>3, <2>4, <2>5
<1>6. Cardinality(T) = Cardinality(S) + 1
  BY FS_AddElement
<1>7. \A m, n \in 1 .. Len(new) : new[m] = new[n] => m = n
  <2>1. \A n \in 1 .. Len(seq) : seq[n] \in S /\ seq[n] # x
    BY DEF Lists
  <2> HIDE DEF new
  <2> QED BY <1>1, <1>5, <2>1 DEF Lists
<1>8. \A y \in T : \E n \in 1 .. Len(new) : new[n] = y
  <2> HIDE DEF new
  <2>1. new[place + 1] = x /\ place + 1 \in 1 .. Len(new)
    BY <1>1, <1>5
  <2>2. ASSUME NEW y \in S
        PROVE  \E n \in 1 .. Len(new) : new[n] = y
    <3>1. PICK n \in 1 .. Len(seq) : seq[n] = y
      BY DEF Lists
    <3>2. CASE n <= place
      BY <1>1, <1>5, <3>1, <3>2
    <3>3. CASE n > place
      <4>1. n + 1 \in 1 .. Len(new) /\ (n + 1) - 1 = n /\ ~(n + 1 <= place) /\ n + 1 # place + 1
        BY <1>1, <1>5, <3>3
      <4>2. new[n + 1] = seq[n]
        BY <1>5, <4>1
      <4> QED BY <3>1, <4>1, <4>2
    <3> QED BY <1>1, <3>2, <3>3
  <2> QED BY <2>1, <2>2
<1> HIDE DEF new
<1>9. Lists(new, T)
  BY <1>5, <1>6, <1>7, <1>8 DEF Lists
<1> QED BY <1>9 DEF new

-----------------------------------------------------------------------------
(* What the shape of the tree implies.                                     *)

\* What hangs below a plan hangs below it through its parent.
LEMMA BelowInverse ==
    ASSUME NEW table, NEW p \in All, NEW q \in Below(table, p), q # p
    PROVE  q \in PlansIn(table) /\ table[q].parent \in Below(table, p)
<1> SUFFICES ASSUME ~(q \in PlansIn(table) /\ table[q].parent \in Below(table, p))
             PROVE  FALSE
  OBVIOUS
<1> DEFINE T == Below(table, p) \ {q}
<1>1. T \in SUBSET All /\ p \in T /\ Closed(table, T)
  BY BelowIsLeast DEF Closed
<1>2. Below(table, p) \subseteq T
  <2> HIDE DEF T
  <2> QED BY <1>1, BelowIsLeast
<1> QED BY <1>2

\* Plans that are there have rows, all others have none.
LEMMA Rows ==
    ASSUME NEW table, Typed(table)
    PROVE  /\ PlansIn(table) \subseteq All
           /\ \A p \in PlansIn(table) : table[p] \in Record
           /\ \A p \in All : p \notin PlansIn(table) <=> table[p] = None
BY DEF Typed, PlansIn

\* Every plan but the master goal has a parent that is there.
LEMMA Parents ==
    ASSUME NEW table, Shape(table)
    PROVE  \A p \in PlansIn(table) \ {Master} : table[p].parent \in PlansIn(table)
<1> DEFINE T == {Master} \cup {p \in PlansIn(table) : table[p].parent \in PlansIn(table)}
<1>1. T \in SUBSET All /\ T \subseteq PlansIn(table)
  BY Rows DEF Shape, Rooted
<1>2. Closed(table, T)
  BY <1>1 DEF Closed
<1>3. PlansIn(table) \subseteq T
  <2> HIDE DEF T
  <2>1. Master \in T
    BY DEF T
  <2> QED BY <1>1, <1>2, <2>1 DEF Shape, Rooted
<1> QED BY <1>3

\* A clone is part of an instance whose root is there, and its template is below
\* the template's root.
LEMMA CloneRoots ==
    ASSUME NEW table, Shape(table)
    PROVE  \A k \in PlansIn(table) \cap Clones :
              RootOf(k[2]) \in PlansIn(table) /\ k[1] \in Template(table)
<1> DEFINE T == {p \in PlansIn(table) : p \in Clones =>
                    RootOf(p[2]) \in PlansIn(table) /\ p[1] \in Template(table)}
<1>1. T \in SUBSET All /\ Master \in T
  BY Rows, Names DEF Shape, Rooted
<1>2. Closed(table, T)
  <2>1. SUFFICES ASSUME NEW q \in PlansIn(table) \cap Clones, table[q].parent \in T
                 PROVE  RootOf(q[2]) \in PlansIn(table) /\ q[1] \in Template(table)
    BY DEF Closed
  <2>2. CASE q[1] = Root
    BY <2>2, Names, BelowIsLeast DEF Template, All
  <2>3. CASE q[1] # Root
    <3> DEFINE above == table[q[1]].parent
    <3>1. table[q].parent = <<above, q[2]>> /\ table[q].parent \in Clones
          /\ q[1] \in PlansIn(table)
      BY <2>3 DEF Shape, ClonesFit
    <3>2. RootOf(q[2]) \in PlansIn(table) /\ above \in Template(table)
      BY <2>1, <3>1
    <3> QED BY <3>1, <3>2, BelowIsLeast, Names DEF Template, Closed, All
  <2> QED BY <2>2, <2>3
<1>3. PlansIn(table) \subseteq T
  <2> HIDE DEF T
  <2> QED BY <1>1, <1>2 DEF Shape, Rooted
<1> QED BY <1>3

\* The template holds no clone, and the repetition is not below it.
LEMMA TemplateOwn ==
    ASSUME NEW table, Shape(table)
    PROVE  /\ Template(table) \subseteq Ids \ {Master, Shell} /\ Root \in Template(table)
           /\ \A x \in Template(table) \ {Root} :
                 x \in PlansIn(table) /\ table[x].parent \in Template(table)
           /\ \A x \in PlansIn(table) : table[x].parent \in Template(table) => x \in Template(table)
<1> DEFINE B == Below(table, Root)
<1>0. Root \in All /\ Shell \in All /\ Master \in All
  BY Names
<1>1. B \in SUBSET All /\ Root \in B /\ Closed(table, B)
      /\ \A x \in B : x # Root => x \in PlansIn(table) /\ table[x].parent \in B
  BY <1>0, BelowIsLeast, BelowInverse
<1> HIDE DEF B
<1>2. Master \notin B
  BY <1>1, Names, NoneAssumption DEF Shape, Rooted
<1>3. Shell \notin B
  <2> SUFFICES ASSUME Shell \in B PROVE FALSE
    OBVIOUS
  <2>1. Root \in PlansIn(table) /\ table[Root].parent = Shell
    BY <1>1, Names DEF Shape, OwnFit
  <2> DEFINE T == PlansIn(table) \ B
  <2>2. T \in SUBSET All /\ Master \in T
    BY <1>2, Rows DEF Shape, Rooted
  <2>3. Closed(table, T)
    BY <1>1, <2>1 DEF Closed
  <2>4. PlansIn(table) \subseteq T
    <3> HIDE DEF T
    <3> QED BY <2>2, <2>3 DEF Shape, Rooted
  <2> QED BY <1>1, <2>1, <2>4
<1>4. B \subseteq Ids
  <2> DEFINE T == B \cap Ids
  <2>1. T \in SUBSET All /\ Root \in T
    BY <1>1, Names
  <2>2. Closed(table, T)
    <3>1. SUFFICES ASSUME NEW q \in PlansIn(table), table[q].parent \in T
                   PROVE  q \in Ids
      BY <1>1 DEF Closed
    <3>2. q \in All
      BY Rows DEF Shape
    <3>3. ASSUME q \in Clones PROVE FALSE
      BY <1>3, <3>1, <3>3, Names DEF Shape, ClonesFit
    <3> QED BY <3>2, <3>3 DEF All
  <2>3. B \subseteq T
    <3> HIDE DEF T
    <3> QED BY <1>0, <2>1, <2>2, BelowIsLeast DEF B
  <2> QED BY <2>3
<1> QED BY <1>1, <1>2, <1>3, <1>4 DEF Template, B, Closed

\* The walk up to the repetition finds what the status of the plan itself says.
LEMMA LinkedIs ==
    ASSUME NEW table, Shape(table)
    PROVE  \A p \in PlansIn(table) : Linked(table, p) <=> table[p].status # "DETACHED"
<1> DEFINE next(up, q) ==
              IF table[q].status = "LINKED" THEN table[q].parent # None /\ up[table[q].parent]
                                            ELSE table[q].status # "DETACHED"
           Walk(up) == up = [q \in PlansIn(table) |-> next(up, q)]
           kept == [q \in PlansIn(table) |-> table[q].status # "DETACHED"]
<1>1. \A p \in PlansIn(table) :
         /\ p \in Ids => table[p].status \in {"NOT_CLONED", "TEMPLATE"}
         /\ p \notin Ids => p \in Clones /\ table[p].status \in {"LINKED", "DETACHED"}
  BY Rows, Names DEF Shape, OwnFit, ClonesFit
<1>2. \A p \in PlansIn(table) : table[p].status = "LINKED" =>
         /\ table[p].parent \in PlansIn(table) /\ table[p].parent # None
         /\ table[table[p].parent].status # "DETACHED"
  <2> TAKE p \in PlansIn(table)
  <2> HAVE table[p].status = "LINKED"
  <2>1. p \in Clones /\ p # Master
    BY <1>1, Names
  <2>2. table[p].parent \in PlansIn(table) /\ table[p].parent # None
    BY <2>1, Parents, Rows, Names DEF Shape
  <2>3. CASE p[1] = Root
    <3>1. table[p].parent = Shell
      BY <2>1, <2>3 DEF Shape, ClonesFit
    <3> QED BY <1>1, <2>2, <3>1, Names
  <2>4. CASE p[1] # Root
    BY <2>1, <2>2, <2>4 DEF Shape, ClonesFit
  <2> QED BY <2>2, <2>3, <2>4
<1>3. Walk(kept)
  <2>1. \A q \in PlansIn(table) : kept[q] = next(kept, q)
    BY <1>1, <1>2
  <2>2. kept = [q \in PlansIn(table) |-> kept[q]]
    OBVIOUS
  <2> HIDE DEF kept, next
  <2> QED BY <2>1, <2>2
<1>4. ASSUME NEW up, Walk(up)
      PROVE  \A q \in PlansIn(table) : up[q] <=> table[q].status # "DETACHED"
  <2> DEFINE T == {q \in PlansIn(table) : up[q] <=> table[q].status # "DETACHED"}
  <2>1. \A q \in PlansIn(table) : up[q] = next(up, q)
    <3> HIDE DEF next
    <3> QED BY <1>4
  <2>2. T \in SUBSET All
    BY Rows DEF Shape
  <2>3. Master \in T
    <3>1. Master \in PlansIn(table) /\ table[Master].status \in {"NOT_CLONED", "TEMPLATE"}
      BY <1>1, Names DEF Shape, Rooted
    <3> QED BY <2>1, <3>1
  <2>4. Closed(table, T)
    <3>1. SUFFICES ASSUME NEW q \in PlansIn(table), table[q].parent \in T
                   PROVE  q \in T
      BY DEF Closed
    <3>2. up[q] = next(up, q)
      BY <2>1
    <3>3. CASE table[q].status = "LINKED"
      BY <1>2, <3>1, <3>2, <3>3
    <3>4. CASE table[q].status # "LINKED"
      BY <3>2, <3>4
    <3> QED BY <3>3, <3>4
  <2>5. PlansIn(table) \subseteq T
    <3> HIDE DEF T
    <3> QED BY <2>2, <2>3, <2>4 DEF Shape, Rooted
  <2> QED BY <2>5
<1> DEFINE up == CHOOSE u : Walk(u)
<1>5. \A p : Linked(table, p) = up[p]
  BY DEF Linked
<1>6. Walk(up)
  <2> HIDE DEF Walk, kept
  <2> QED BY <1>3
<1> HIDE DEF up, Walk
<1> QED BY <1>4, <1>5, <1>6

-----------------------------------------------------------------------------
(* Writing to rows that stay.                                              *)

\* The same plans hang where they hung; at most, linked ones are detached.
Keeps(table, new) ==
    /\ Typed(new) /\ PlansIn(new) = PlansIn(table)
    /\ \A p \in PlansIn(table) :
          /\ new[p].parent = table[p].parent /\ new[p].kind = table[p].kind
          /\ \/ new[p].status = table[p].status
             \/ table[p].status = "LINKED" /\ new[p].status = "DETACHED"

\* Below a detached clone all clones are detached.
HandsFit(table) ==
    \A k \in PlansIn(table) \cap Clones :
        k[1] # Root /\ table[k].status = "LINKED" => table[table[k].parent].status = "LINKED"

\* Rows that keep their place in the tree keep its shape.
LEMMA KeepsShape ==
    ASSUME NEW table, Shape(table), NEW new, Keeps(table, new), HandsFit(new), Placed(new)
    PROVE  Shape(new)
<1>1. Rooted(new)
  <2>1. \A T \in SUBSET All : Closed(new, T) => Closed(table, T)
    BY DEF Keeps, Closed
  <2> QED BY <2>1 DEF Keeps, Shape, Rooted
<1>2. Kinds(new)
  BY DEF Keeps, Shape, Kinds
<1>3. OwnFit(new)
  <2> SUFFICES ASSUME NEW p \in PlansIn(table) \cap Ids
               PROVE  /\ new[p].status \in {"NOT_CLONED", "TEMPLATE"}
                      /\ new[p].status = "TEMPLATE" => p = Root
                      /\ p = Root => new[p].parent = Shell
                      /\ p \notin {Master, Root} =>
                            new[p].parent \in PlansIn(table) /\ new[new[p].parent].kind = "GOAL"
                      /\ new[p].parent \in Clones => new[new[p].parent].status = "DETACHED"
    BY DEF OwnFit, Keeps
  <2>1. new[p].status = table[p].status /\ new[p].parent = table[p].parent
    BY DEF Keeps, Shape, OwnFit
  <2>2. p # Master => new[p].parent \in PlansIn(table)
    BY <2>1, Parents
  <2>3. p = Master => new[p].parent \notin Clones
    BY <2>1, Names DEF Shape, Rooted, All
  <2> QED BY <2>1, <2>2, <2>3 DEF Keeps, Shape, OwnFit
<1>4. ClonesFit(new)
  <2> SUFFICES ASSUME NEW k \in PlansIn(table) \cap Clones
               PROVE  /\ k[1] \in PlansIn(table) /\ new[k].kind = new[k[1]].kind
                      /\ new[k].status \in {"LINKED", "DETACHED"}
                      /\ k[1] = Root => new[k].parent = Shell
                      /\ k[1] # Root =>
                            /\ new[k].parent = <<new[k[1]].parent, k[2]>>
                            /\ new[k].parent \in PlansIn(table) \cap Clones
                            /\ new[k].status = "LINKED" => new[new[k].parent].status = "LINKED"
    BY DEF ClonesFit, Keeps
  <2>1. k[1] \in PlansIn(table) /\ k \in PlansIn(table)
    BY DEF Shape, ClonesFit
  <2>2. /\ new[k].parent = table[k].parent /\ new[k].kind = table[k].kind
        /\ new[k[1]].parent = table[k[1]].parent /\ new[k[1]].kind = table[k[1]].kind
        /\ new[k].status \in {"LINKED", "DETACHED"}
    BY <2>1 DEF Keeps, Shape, ClonesFit
  <2>3. k \in PlansIn(new) \cap Clones
    BY DEF Keeps
  <2> QED BY <2>1, <2>2, <2>3 DEF HandsFit, Shape, ClonesFit
<1> QED BY <1>1, <1>2, <1>3, <1>4 DEF Keeps, Shape

\* Places stay with the plans that have them.
SamePlaces(table, new) ==
    \A p \in PlansIn(table) : new[p].critical = table[p].critical /\ new[p].order = table[p].order

\* detach_linked_self_and_descendants takes nothing but linked clones out of the
\* template's hands, and the plan is not linked afterwards.
LEMMA DetachFits ==
    ASSUME NEW table, Shape(table), NEW p \in PlansIn(table), NEW new, new = Detach(table, p)
    PROVE  /\ Shape(new) /\ Keeps(table, new) /\ SamePlaces(table, new)
           /\ new[p].status # "LINKED"
           /\ \A q \in Ids : new[q] = table[q]
<1>1. CASE table[p].status # "LINKED"
  BY <1>1 DEF Detach, Keeps, SamePlaces, Shape
<1>2. CASE table[p].status = "LINKED"
  <2> DEFINE B == Below(table, p)
             gone == {q \in B : table[q].status = "LINKED"}
  <2>1. new = [q \in All |-> IF q \in B /\ table[q].status = "LINKED"
                             THEN [table[q] EXCEPT !.status = "DETACHED"] ELSE table[q]]
    BY <1>2 DEF Detach
  <2>2. p \in All /\ table[p] \in Record /\ p \in B /\ Closed(table, B)
    BY Rows, BelowIsLeast DEF Shape
  <2>3. \A q \in B : q \in PlansIn(table)
    BY <2>2, BelowInverse
  <2> HIDE DEF B
  <2>4. \A q \in PlansIn(table) :
           /\ new[q] \in Record /\ new[q] # None
           /\ new[q].parent = table[q].parent /\ new[q].kind = table[q].kind
           /\ new[q].critical = table[q].critical /\ new[q].order = table[q].order
           /\ new[q].status = IF q \in B /\ table[q].status = "LINKED" THEN "DETACHED"
                              ELSE table[q].status
    <3> TAKE q \in PlansIn(table)
    <3>1. q \in All /\ table[q] \in Record
      BY Rows DEF Shape
    <3>2. new[q] = IF q \in B /\ table[q].status = "LINKED"
                   THEN [table[q] EXCEPT !.status = "DETACHED"] ELSE table[q]
      BY <2>1, <3>1
    <3>3. CASE q \in B /\ table[q].status = "LINKED"
      <4>1. new[q] = [table[q] EXCEPT !.status = "DETACHED"]
        BY <3>2, <3>3
      <4>2. /\ new[q] \in Record /\ new[q].status = "DETACHED"
            /\ new[q].parent = table[q].parent /\ new[q].kind = table[q].kind
            /\ new[q].critical = table[q].critical /\ new[q].order = table[q].order
        BY <3>1, <4>1 DEF Record
      <4> QED BY <3>3, <4>2, NoneAssumption
    <3>4. CASE ~(q \in B /\ table[q].status = "LINKED")
      <4>1. new[q] = table[q]
        BY <3>2, <3>4
      <4> QED BY <3>1, <3>4, <4>1, NoneAssumption
    <3> QED BY <3>3, <3>4
  <2>5. \A q \in All \ PlansIn(table) : new[q] = None
    BY <2>1, <2>3, Rows DEF Shape
  <2>6. Typed(new)
    <3>1. \A q \in All : new[q] \in Record \cup {None}
      BY <2>4, <2>5
    <3> QED BY <2>1, <3>1 DEF Typed
  <2>7. PlansIn(new) = PlansIn(table)
    BY <2>4, <2>5 DEF PlansIn
  <2>8. Keeps(table, new) /\ SamePlaces(table, new)
    BY <2>4, <2>6, <2>7 DEF Keeps, SamePlaces
  <2>9. HandsFit(new)
    <3> SUFFICES ASSUME NEW k \in PlansIn(table) \cap Clones, k[1] # Root, new[k].status = "LINKED"
                 PROVE  new[new[k].parent].status = "LINKED"
      BY <2>7 DEF HandsFit
    <3>1. table[k].status = "LINKED" /\ k \notin B /\ new[k].parent = table[k].parent
      BY <2>4
    <3>2. table[k].parent \in PlansIn(table) /\ table[table[k].parent].status = "LINKED"
      BY <3>1 DEF Shape, ClonesFit
    <3>3. table[k].parent \notin B
      BY <2>2, <3>1 DEF Closed
    <3> QED BY <2>4, <3>1, <3>2, <3>3
  <2>10. Placed(new)
    BY <2>4, <2>7 DEF Shape, Placed
  <2>11. \A q \in Ids : new[q] = table[q]
    <3> TAKE q \in Ids
    <3>1. q \in All /\ (q \in PlansIn(table) => table[q].status # "LINKED")
      BY Names DEF Shape, OwnFit
    <3> QED BY <2>1, <2>3, <3>1
  <2> QED BY <1>2, <2>2, <2>4, <2>8, <2>9, <2>10, <2>11, KeepsShape
<1> QED BY <1>1, <1>2

\* The children of a goal have a place in one of its buckets.
LEMMA GoalChildren ==
    ASSUME NEW table, Shape(table), NEW g \in PlansIn(table), table[g].kind = "GOAL"
    PROVE  \A p \in Children(table, g) :
              /\ p \in PlansIn(table) \ {Master} /\ ~IsRoot(p)
              /\ table[p].critical \in BOOLEAN /\ table[p].order \in Nat
              /\ g = Master => table[p].critical = FALSE
<1> SUFFICES ASSUME NEW p \in PlansIn(table), table[p].parent = g
             PROVE  /\ p # Master /\ ~IsRoot(p)
                    /\ table[p].critical \in BOOLEAN /\ table[p].order \in Nat
                    /\ g = Master => table[p].critical = FALSE
  BY DEF Children
<1>1. g # Shell /\ g # None
  BY Rows, Names DEF Shape, Kinds
<1>2. p # Master
  BY <1>1 DEF Shape, Rooted
<1>3. ~IsRoot(p)
  BY <1>1, Names DEF Shape, OwnFit, ClonesFit, IsRoot
<1> QED BY <1>2, <1>3 DEF Shape, Placed

\* The plans of S are a bucket and numbered 0, 1, 2 and so on; all else is as it was.
NumberedAs(table, new, S, c) ==
    /\ Typed(new) /\ PlansIn(new) = PlansIn(table)
    /\ \A p \in All : p \notin S => new[p] = table[p]
    /\ \A p \in S :
          /\ new[p].parent = table[p].parent /\ new[p].kind = table[p].kind
          /\ new[p].status = table[p].status /\ new[p].critical = c
          /\ new[p].order \in Nat /\ new[p].order \in 0 .. Cardinality(S) - 1
    /\ \A n \in 0 .. Cardinality(S) - 1 : \E p \in S : new[p].order = n

\* Numbered does that for the plans of a list (_apply_child_order).
LEMMA NumberedFits ==
    ASSUME NEW table, Typed(table), NEW S \in SUBSET PlansIn(table), NEW seq, Lists(seq, S),
           NEW c \in BOOLEAN
    PROVE  NumberedAs(table, Numbered(table, seq, c), S, c)
<1> DEFINE new == Numbered(table, seq, c)
<1> DEFINE place(p) == CHOOSE n \in 0 .. Len(seq) - 1 : seq[n + 1] = p
<1>1. S \in SUBSET All /\ Cardinality(S) \in Nat /\ Len(seq) = Cardinality(S)
  BY Rows, AllFinite DEF Lists
<1>2. \A p : Contains(seq, p) <=> p \in S
  BY DEF Contains, Lists
<1>3. \A p \in S : place(p) \in 0 .. Cardinality(S) - 1 /\ seq[place(p) + 1] = p
  <2> TAKE p \in S
  <2>1. PICK m \in 1 .. Len(seq) : seq[m] = p
    BY DEF Lists
  <2>2. m - 1 \in 0 .. Len(seq) - 1 /\ (m - 1) + 1 = m
    BY <1>1
  <2>3. \E n \in 0 .. Len(seq) - 1 : seq[n + 1] = p
    BY <2>1, <2>2
  <2>4. place(p) \in 0 .. Len(seq) - 1 /\ seq[place(p) + 1] = p
    BY <2>3
  <2> QED BY <1>1, <2>4
<1>4. new = [p \in All |-> IF p \in S THEN [table[p] EXCEPT !.critical = c, !.order = place(p)]
                                      ELSE table[p]]
  <2>1. new = [p \in All |-> IF Contains(seq, p)
                             THEN [table[p] EXCEPT !.critical = c, !.order = place(p)]
                             ELSE table[p]]
    BY DEF Numbered
  <2> HIDE DEF new, place
  <2> QED BY <1>2, <2>1
<1> HIDE DEF new, place
<1>5. ASSUME NEW p \in S
      PROVE  /\ new[p] \in Record /\ new[p] # None
             /\ new[p].parent = table[p].parent /\ new[p].kind = table[p].kind
             /\ new[p].status = table[p].status /\ new[p].critical = c
             /\ new[p].order = place(p) /\ new[p].order \in Nat
  <2>1. table[p] \in Record /\ p \in All
    BY <1>1, Rows
  <2>2. new[p] = [table[p] EXCEPT !.critical = c, !.order = place(p)]
    BY <1>4, <2>1
  <2>3. place(p) \in Nat
    BY <1>1, <1>3
  <2>4. new[p] \in Record
    BY <2>1, <2>2, <2>3 DEF Record
  <2>5. /\ new[p].parent = table[p].parent /\ new[p].kind = table[p].kind
        /\ new[p].status = table[p].status /\ new[p].critical = c
        /\ new[p].order = place(p)
    BY <2>1, <2>2 DEF Record
  <2> QED BY <2>3, <2>4, <2>5, NoneAssumption
<1>6. \A p \in All : p \notin S => new[p] = table[p]
  BY <1>4
<1>7. Typed(new)
  <2>1. \A p \in All : new[p] \in Record \cup {None}
    BY <1>5, <1>6 DEF Typed
  <2> QED BY <1>4, <2>1 DEF Typed
<1>8. PlansIn(new) = PlansIn(table)
  BY <1>1, <1>5, <1>6 DEF PlansIn
<1>9. \A n \in 0 .. Cardinality(S) - 1 : \E p \in S : new[p].order = n
  <2> TAKE n \in 0 .. Cardinality(S) - 1
  <2>1. n + 1 \in 1 .. Len(seq) /\ n \in Nat
    BY <1>1
  <2>2. seq[n + 1] \in S
    BY <2>1 DEF Lists
  <2> DEFINE p == seq[n + 1]
  <2>3. place(p) \in 0 .. Cardinality(S) - 1 /\ seq[place(p) + 1] = seq[n + 1]
    BY <1>3, <2>2
  <2>4. place(p) + 1 \in 1 .. Len(seq)
    BY <1>1, <2>3
  <2>5. place(p) + 1 = n + 1
    BY <2>1, <2>3, <2>4 DEF Lists
  <2>6. place(p) = n
    BY <2>1, <2>3, <2>5
  <2> QED BY <1>5, <2>2, <2>6
<1>10. NumberedAs(table, new, S, c)
  BY <1>3, <1>5, <1>6, <1>7, <1>8, <1>9 DEF NumberedAs
<1> QED BY <1>10 DEF new

\* A bucket is as dense as it was when it has the same members with the same numbers.
LEMMA DenseSame ==
    ASSUME NEW table, NEW new, NEW g, NEW c,
           Bucket(new, g, c) = Bucket(table, g, c),
           \A p \in Bucket(table, g, c) : new[p].order = table[p].order
    PROVE  Dense(new, g, c) <=> Dense(table, g, c)
BY DEF Dense, Orders

\* It is dense when its members have been numbered.
LEMMA DenseNumbered ==
    ASSUME NEW table, NEW g, NEW c, NEW S, Bucket(table, g, c) = S,
           \A p \in S : table[p].order \in 0 .. Cardinality(S) - 1,
           \A n \in 0 .. Cardinality(S) - 1 : \E p \in S : table[p].order = n
    PROVE  Dense(table, g, c)
BY DEF Dense, Orders

\* The children of the goal are listed once each, the critical ones apart.
Ordering(table, g, critical, others, SC, SO) ==
    /\ g \in PlansIn(table) /\ table[g].kind = "GOAL"
    /\ SC \cup SO = Children(table, g) /\ SC \cap SO = {}
    /\ g = Master => SC = {}
    /\ Lists(critical, SC) /\ Lists(others, SO)

\* Only the children of g are changed, and they are numbered anew.
Reorders(table, new, g) ==
    /\ Shape(new) /\ Keeps(table, new)
    /\ \A c \in BOOLEAN : Dense(new, g, c)
    /\ \A h \in PlansIn(table) \ {g}, c \in BOOLEAN : Dense(new, h, c) <=> Dense(table, h, c)

\* The children of a goal put in a new order.
LEMMA ReorderedFits ==
    ASSUME NEW table, Shape(table), NEW g, NEW critical, NEW others, NEW SC, NEW SO,
           Ordering(table, g, critical, others, SC, SO)
    PROVE  Reorders(table, Numbered(Numbered(table, critical, TRUE), others, FALSE), g)
<1> USE DEF Ordering
<1> DEFINE new == Numbered(Numbered(table, critical, TRUE), others, FALSE)
           mid == Numbered(table, critical, TRUE)
           K == Children(table, g)
<1>1. K \in SUBSET PlansIn(table) /\ SC \in SUBSET PlansIn(table) /\ SO \in SUBSET PlansIn(table)
      /\ PlansIn(table) \subseteq All
  BY Rows DEF Children, Shape
<1>2. NumberedAs(table, mid, SC, TRUE)
  <2>1. Typed(table) /\ TRUE \in BOOLEAN
    BY DEF Shape
  <2> QED BY <1>1, <2>1, NumberedFits
<1>3. NumberedAs(mid, new, SO, FALSE)
  <2>1. SO \in SUBSET PlansIn(mid) /\ FALSE \in BOOLEAN /\ Typed(mid)
    BY <1>1, <1>2 DEF NumberedAs
  <2> HIDE DEF mid
  <2>2. NumberedAs(mid, Numbered(mid, others, FALSE), SO, FALSE)
    BY <2>1, NumberedFits
  <2> QED BY <2>2 DEF mid
<1> HIDE DEF mid, new
<1> USE DEF NumberedAs
<1>4. \A p \in SC : new[p] = mid[p] /\ p \in All /\ p \in K
  BY <1>1, <1>3
<1>5. \A p \in SO : mid[p] = table[p] /\ p \in All /\ p \in K
  BY <1>1, <1>2
<1>6. \A p \in All : p \notin K => new[p] = table[p]
  BY <1>2, <1>3
<1>7. \A p \in PlansIn(table) :
         /\ new[p].parent = table[p].parent /\ new[p].kind = table[p].kind
         /\ new[p].status = table[p].status
  <2> TAKE p \in PlansIn(table)
  <2>1. CASE p \in SC
    BY <1>2, <1>4, <2>1
  <2>2. CASE p \in SO
    BY <1>3, <1>5, <2>2
  <2>3. CASE p \notin K
    BY <1>1, <1>6, <2>3
  <2> QED BY <2>1, <2>2, <2>3
<1>8. PlansIn(new) = PlansIn(table)
  BY <1>2, <1>3
<1>9. Keeps(table, new)
  BY <1>3, <1>7, <1>8 DEF Keeps
<1>10. HandsFit(new)
  <2> SUFFICES ASSUME NEW k \in PlansIn(table) \cap Clones, k[1] # Root, new[k].status = "LINKED"
               PROVE  new[new[k].parent].status = "LINKED"
    BY <1>8 DEF HandsFit
  <2>1. /\ table[k].parent \in PlansIn(table)
        /\ table[k].status = "LINKED" => table[table[k].parent].status = "LINKED"
    BY DEF Shape, ClonesFit
  <2> QED BY <1>7, <2>1
<1>11. Placed(new)
  <2> SUFFICES ASSUME NEW p \in PlansIn(table) \ {Master}
               PROVE  /\ IsRoot(p) => new[p].critical = None /\ new[p].order = None
                      /\ ~IsRoot(p) => new[p].critical \in BOOLEAN /\ new[p].order \in Nat
                      /\ new[p].parent = Master => new[p].critical = FALSE
    BY <1>8 DEF Placed
  <2>1. Cardinality(SC) \in Nat /\ Cardinality(SO) \in Nat
    BY <1>1, AllFinite
  <2>2. p \in K => ~IsRoot(p) /\ new[p].parent = g
    BY <1>7, GoalChildren DEF Children
  <2>3. CASE p \in SC
    <3>1. new[p].critical = TRUE /\ new[p].order \in Nat /\ g # Master
      BY <1>2, <1>4, <2>3
    <3> QED BY <1>4, <2>2, <2>3, <3>1
  <2>4. CASE p \in SO
    <3>1. new[p].critical = FALSE /\ new[p].order \in Nat
      BY <1>3, <2>4
    <3> QED BY <1>5, <2>2, <2>4, <3>1
  <2>5. CASE p \notin K
    <3>1. new[p] = table[p]
      BY <1>1, <1>6, <2>5
    <3> QED BY <3>1 DEF Shape, Placed
  <2> QED BY <2>3, <2>4, <2>5
<1>12. Shape(new)
  BY <1>9, <1>10, <1>11, KeepsShape
<1>13. Children(new, g) = K
  BY <1>7, <1>8 DEF Children
<1>14. Bucket(new, g, TRUE) = SC /\ Bucket(new, g, FALSE) = SO
  <2>1. \A p \in SC : new[p].critical = TRUE
    BY <1>2, <1>4
  <2>2. \A p \in SO : new[p].critical = FALSE
    BY <1>3
  <2> QED BY <1>13, <2>1, <2>2 DEF Bucket
<1>15. Dense(new, g, TRUE) /\ Dense(new, g, FALSE)
  <2>1. /\ \A p \in SC : new[p].order \in 0 .. Cardinality(SC) - 1
        /\ \A n \in 0 .. Cardinality(SC) - 1 : \E p \in SC : new[p].order = n
    BY <1>2, <1>4
  <2>2. /\ \A p \in SO : new[p].order \in 0 .. Cardinality(SO) - 1
        /\ \A n \in 0 .. Cardinality(SO) - 1 : \E p \in SO : new[p].order = n
    BY <1>3
  <2>3. Dense(new, g, TRUE)
    <3>1. Bucket(new, g, TRUE) = SC
      BY <1>14
    <3> HIDE DEF NumberedAs
    <3> QED BY ONLY <2>1, <3>1, DenseNumbered
  <2>4. Dense(new, g, FALSE)
    BY <1>14, <2>2, DenseNumbered
  <2> QED BY <2>3, <2>4
<1>16. ASSUME NEW h \in PlansIn(table) \ {g}, NEW c \in BOOLEAN
       PROVE  Dense(new, h, c) <=> Dense(table, h, c)
  <2>1. \A p \in PlansIn(table) : new[p].parent = h => new[p] = table[p]
    <3> TAKE p \in PlansIn(table)
    <3> HAVE new[p].parent = h
    <3>1. p \notin K /\ p \in All
      BY <1>1, <1>7 DEF Children
    <3> QED BY <1>6, <3>1
  <2>2. Bucket(new, h, c) = Bucket(table, h, c)
    <3>1. Children(new, h) = Children(table, h)
      BY <1>7, <1>8 DEF Children
    <3>2. \A p \in Children(table, h) : new[p] = table[p]
      BY <1>7, <2>1 DEF Children
    <3> QED BY <3>1, <3>2 DEF Bucket
  <2>3. \A p \in Bucket(table, h, c) : new[p].order = table[p].order
    BY <1>7, <2>1 DEF Bucket, Children
  <2> QED BY <2>2, <2>3, DenseSame
<1>17. \A c \in BOOLEAN : Dense(new, g, c)
  BY <1>15
<1>18. Reorders(table, new, g)
  BY <1>9, <1>12, <1>16, <1>17 DEF Reorders
<1> QED BY <1>18 DEF new

-----------------------------------------------------------------------------
(* Orders.                                                                 *)

\* The sibling order with the tie broken by the id, as a relation on S.
Earlier(table, S) == {pq \in S \X S : Before(table, pq[1], pq[2])}

\* The sort number, then the id, orders siblings strictly: no two of them are equal.
LEMMA SiblingOrder ==
    ASSUME NEW table, NEW S \in SUBSET All, \A p \in S : table[p].order \in Nat
    PROVE  /\ StrictOrder(S, Earlier(table, S))
           /\ \A p, q \in S : <<p, q>> \in Earlier(table, S) <=> Before(table, p, q)
<1> DEFINE R == Earlier(table, S)
<1>1. \A p, q \in S : <<p, q>> \in R <=> Before(table, p, q)
  BY DEF Earlier
<1>2. \A p \in S : Serial[p] \in Nat /\ table[p].order \in Nat
  BY NamesAssumption
<1>3. \A p, q \in S : p # q => Serial[p] # Serial[q]
  BY NamesAssumption DEF IsInjective
<1>4. \A p, q \in S : p # q => Before(table, p, q) \/ Before(table, q, p)
  BY <1>2, <1>3 DEF Before
<1>5. \A p \in S : ~Before(table, p, p)
  BY <1>2 DEF Before
<1>6. \A p, q, r \in S : Before(table, p, q) /\ Before(table, q, r) => Before(table, p, r)
  BY <1>2 DEF Before
<1> HIDE DEF R
<1> QED BY <1>1, <1>4, <1>5, <1>6 DEF StrictOrder, R

\* Siblings in order: each once.
LEMMA InOrderLists ==
    ASSUME NEW table, NEW S \in SUBSET All, \A p \in S : table[p].order \in Nat
    PROVE  Lists(InOrder(table, S), S)
<1> DEFINE R == Earlier(table, S)
           seq == [n \in 1 .. Cardinality(S) |-> CHOOSE x \in S : Rank(S, R)[x] = n - 1]
<1>1. StrictOrder(S, R) /\ \A p, q \in S : <<p, q>> \in R <=> Before(table, p, q)
  BY SiblingOrder
<1>2. IsFiniteSet(S)
  BY AllFinite
<1>3. \A x \in S : Rank(S, R)[x] = Cardinality({y \in S : Before(table, y, x)})
  <2> HIDE DEF R
  <2> TAKE x \in S
  <2>1. {y \in S : <<y, x>> \in R} = {y \in S : Before(table, y, x)}
    BY <1>1
  <2> QED BY <2>1 DEF Rank
<1>4. InOrder(table, S) =
        [n \in 1 .. Cardinality(S) |->
            CHOOSE x \in S : Cardinality({y \in S : Before(table, y, x)}) = n - 1]
  BY DEF InOrder, Sorted
<1>5. \A n \in 1 .. Cardinality(S) :
         (CHOOSE x \in S : Rank(S, R)[x] = n - 1)
           = (CHOOSE x \in S : Cardinality({y \in S : Before(table, y, x)}) = n - 1)
  <2> HIDE DEF R
  <2> QED BY <1>3
<1>6. InOrder(table, S) = seq
  <2> HIDE DEF R
  <2> QED BY <1>4, <1>5
<1>7. Lists(seq, S)
  <2> HIDE DEF R, seq
  <2> QED BY <1>1, <1>2, RankedLists DEF seq
<1> QED BY <1>6, <1>7

\* A finite set of numbers has a largest one, and Above is next to it.
LEMMA AboveAll ==
    ASSUME NEW S \in SUBSET Nat, IsFiniteSet(S)
    PROVE  Above(S) \in Nat /\ \A n \in S : n < Above(S)
<1>1. CASE S = {}
  BY <1>1 DEF Above
<1>2. CASE S # {}
  <2> DEFINE R == {mn \in S \X S : mn[1] < mn[2]}
             last == Cardinality(S) - 1
  <2>1. StrictOrder(S, R)
    BY DEF StrictOrder
  <2>2. Rank(S, R) \in Bijection(S, 0 .. last) /\ \A m, n \in S : <<m, n>> \in R => Rank(S, R)[m] < Rank(S, R)[n]
    <3> HIDE DEF R
    <3> QED BY <2>1, Ranks
  <2>3. Cardinality(S) \in Nat /\ Cardinality(S) # 0
    BY <1>2, FS_CardinalityType, FS_EmptySet
  <2>4. last \in 0 .. last /\ last \in Nat
    BY <2>3
  <2> HIDE DEF last
  <2>5. PICK m \in S : Rank(S, R)[m] = last
    <3> HIDE DEF R
    <3> QED BY <2>2, <2>4 DEF Bijection, Surjection
  <2>6. \A n \in S : Rank(S, R)[n] \in 0 .. last
    <3> HIDE DEF R
    <3> QED BY <2>2 DEF Bijection, Injection
  <2>7. \A n \in S : ~(m < n)
    <3> SUFFICES ASSUME NEW n \in S, m < n PROVE FALSE
      OBVIOUS
    <3>1. <<m, n>> \in R
      OBVIOUS
    <3> HIDE DEF R
    <3> QED BY <2>2, <2>4, <2>5, <2>6, <3>1
  <2>8. \E x \in S : \A n \in S : x >= n
    BY <2>7
  <2> DEFINE top == Max(S)
  <2>9. top \in S /\ \A n \in S : top >= n
    BY <2>8 DEF Max
  <2>10. Above(S) = 1 + top
    BY <1>2 DEF Above
  <2> HIDE DEF top
  <2> QED BY <2>9, <2>10
<1> QED BY <1>1, <1>2

\* After 0, 1, ..., n - 1 comes n.
LEMMA AboveDense ==
    ASSUME NEW n \in Nat
    PROVE  Above(0 .. n - 1) = n
<1>1. CASE n = 0
  BY <1>1 DEF Above
<1>2. CASE n # 0
  <2> DEFINE S == 0 .. n - 1
             top == Max(S)
  <2>1. n - 1 \in S /\ \A m \in S : n - 1 >= m
    BY <1>2
  <2>2. top \in S /\ \A m \in S : top >= m
    <3> HIDE DEF S
    <3> QED BY <2>1 DEF Max
  <2>3. Above(S) = 1 + top
    <3>1. S # {}
      BY <2>1
    <3> HIDE DEF S
    <3> QED BY <3>1 DEF Above
  <2>4. top = n - 1
    <3> HIDE DEF top
    <3> QED BY <2>1, <2>2
  <2> QED BY <2>3, <2>4
<1> QED BY <1>1, <1>2

-----------------------------------------------------------------------------
(* What a step has to show.                                                *)

\* A step keeps the numbers of the buckets dense, as OrderKept demands.
OrderStep ==
    \A g \in Plans \cap Plans', c \in BOOLEAN :
        (/\ plan[g].kind = "GOAL" /\ Dense(plan, g, c)
         /\ edits' = edits => \A p \in Children(plan', g) : plan'[p].status # "DETACHED")
        => Dense(plan', g, c)

\* It leaves no critical child behind, as CriticalTogether demands.
CriticalStep == \A g \in Plans \cap Plans' : CriticalChildren(g) \subseteq Plans'

\* Detaching leaves every bucket as dense as it was.
LEMMA DetachDense ==
    ASSUME NEW table, NEW new, Keeps(table, new), SamePlaces(table, new)
    PROVE  \A g, c : Dense(new, g, c) <=> Dense(table, g, c)
<1> TAKE g, c
<1>1. Bucket(new, g, c) = Bucket(table, g, c)
  BY DEF Keeps, SamePlaces, Bucket, Children
<1>2. \A p \in Bucket(table, g, c) : new[p].order = table[p].order
  BY DEF SamePlaces, Bucket, Children
<1> QED BY <1>1, <1>2, DenseSame

\* An edit is counted, so no edit is a refresh.
LEMMA EditsCounted ==
    ASSUME IInv, Edit
    PROVE  edits' \in 0 .. MaxEdits /\ edits' # edits
BY BoundsAssumption DEF IInv, Edit

\* A step that only keeps rows, detaches linked ones and keeps the numbers dense.
LEMMA KeepsFits ==
    ASSUME IInv, Shape(plan'), Keeps(plan, plan'), UNCHANGED unwanted,
           \A g \in Plans, c \in BOOLEAN :
              plan[g].kind = "GOAL" /\ Dense(plan, g, c) => Dense(plan', g, c)
    PROVE  /\ OwnOrder(plan') /\ UnwantedFit' /\ OrderStep /\ CriticalStep /\ Plans' = Plans
<1>1. Plans' = Plans
  BY DEF Keeps, Plans
<1>2. OwnOrder(plan')
  BY <1>1 DEF IInv, OwnOrder, Keeps, Plans
<1>3. UnwantedFit'
  <2> SUFFICES ASSUME NEW u \in unwanted
               PROVE  /\ u \in Clones \X Clones /\ u[1] \notin Plans /\ u[1][1] # Root
                      /\ u[1][1] \in Plans /\ u[2] = <<plan'[u[1][1]].parent, u[1][2]>>
                      /\ u[2] \in Plans /\ plan'[u[2]].status = "DETACHED"
    BY <1>1 DEF UnwantedFit
  <2>1. /\ u \in Clones \X Clones /\ u[1] \notin Plans /\ u[1][1] # Root
        /\ u[1][1] \in Plans /\ u[2] = <<plan[u[1][1]].parent, u[1][2]>>
        /\ u[2] \in Plans /\ plan[u[2]].status = "DETACHED"
    BY DEF IInv, UnwantedFit
  <2>2. plan'[u[1][1]].parent = plan[u[1][1]].parent
    BY <2>1 DEF Keeps, Plans
  <2>3. plan'[u[2]].status = "DETACHED"
    BY <2>1 DEF Keeps, Plans
  <2> QED BY <2>1, <2>2, <2>3
<1>4. CriticalStep
  BY <1>1 DEF CriticalStep, CriticalChildren, Bucket, Children, Plans
<1>5. OrderStep
  BY DEF OrderStep
<1> QED BY <1>1, <1>2, <1>3, <1>4, <1>5

\* Occurrences fit as long as the roots stay and the instances are not touched.
LEMMA OccurrencesKept ==
    ASSUME OccurrencesFit, \A i \in Occurrences : RootOf(i) \in Plans' <=> RootOf(i) \in Plans,
           UNCHANGED <<instance, skipped>>, count' \in 1 .. Cardinality(Occurrences)
    PROVE  OccurrencesFit'
BY DEF OccurrencesFit, Existing, OfBucket, InstanceOrder

-----------------------------------------------------------------------------
(* Edits.                                                                  *)

\* The number after a goal's last child (_next_sort_order_in_bucket).
LEMMA NewPlaced ==
    ASSUME IInv, NEW g \in Plans, plan[g].kind = "GOAL", NEW c \in BOOLEAN
    PROVE  /\ NextOrder(g, c) \in Nat
           /\ Dense(plan, g, c) => NextOrder(g, c) = Cardinality(Bucket(plan, g, c))
<1> DEFINE B == Bucket(plan, g, c)
           numbers == {plan[p].order : p \in B}
<1>1. B \in SUBSET All
  BY Rows DEF IInv, Shape, Bucket, Children
<1>2. \A p \in B : plan[p].order \in Nat
  BY GoalChildren DEF IInv, Plans, Bucket
<1>3. IsFiniteSet(B) /\ Cardinality(B) \in Nat
  BY <1>1, AllFinite
<1>4. Orders(plan, g, c) = numbers
  BY DEF Orders
<1> HIDE DEF B
<1>5. IsFiniteSet(numbers)
  <2> DEFINE f == [p \in B |-> plan[p].order]
  <2>1. f \in Surjection(B, numbers)
    BY DEF Surjection
  <2> HIDE DEF f, numbers
  <2> QED BY <1>3, <2>1, FS_Surjection
<1>6. numbers \in SUBSET Nat
  BY <1>2
<1>7. Above(numbers) \in Nat
  <2> HIDE DEF numbers
  <2> QED BY <1>5, <1>6, AboveAll
<1>8. Dense(plan, g, c) => numbers = 0 .. Cardinality(B) - 1
  BY <1>4 DEF Dense, B
<1> HIDE DEF numbers
<1>9. Dense(plan, g, c) => Above(numbers) = Cardinality(B)
  BY <1>3, <1>8, AboveDense
<1> QED BY <1>4, <1>7, <1>9 DEF NextOrder, B

\* create_child: the new plan is the last of its bucket, and below a clone that was
\* the template's, the clone no longer is.
LEMMA CreateFits ==
    ASSUME IInv, NEW g \in Plans, NEW id \in New, NEW kind \in {"GOAL", "TASK"},
           NEW c \in BOOLEAN, Create(g, id, kind, c)
    PROVE  IInv' /\ OrderStep /\ CriticalStep
<1> DEFINE mid == Detach(plan, g)
           row == [kind |-> kind, parent |-> g, critical |-> c,
                   order |-> NextOrder(g, c), status |-> "NOT_CLONED"]
<1>1. /\ plan[g].kind = "GOAL" /\ id \notin Plans /\ (g = Master => ~c)
      /\ plan' = [mid EXCEPT ![id] = row]
      /\ UNCHANGED <<instance, skipped, count, unwanted>> /\ Edit
  BY DEF Create, IsGoal
<1>2. Shape(plan) /\ g \in PlansIn(plan) /\ g \in All
  BY Rows DEF IInv, Plans, Shape
<1>3. /\ Shape(mid) /\ Keeps(plan, mid) /\ SamePlaces(plan, mid)
      /\ mid[g].status # "LINKED"
  BY <1>2, DetachFits
<1>4. id \in Ids \ {Master, Shell, Root} /\ id \in All /\ id \notin PlansIn(mid)
  <2>1. id \in Ids /\ Start[id] = None
    BY DEF New
  <2>2. id \notin PlansIn(Start)
    BY <2>1 DEF PlansIn
  <2> QED BY <1>1, <1>3, <2>1, <2>2, StartAssumption, Names DEF Keeps, Plans
<1> HIDE DEF mid
<1>5. row \in Record /\ row # None
  <2>1. NextOrder(g, c) \in Nat
    BY <1>1, NewPlaced
  <2>2. row \in Record
    BY <1>2, <2>1 DEF Record
  <2> QED BY <2>2, NoneAssumption
<1>6. plan'[id] = row /\ \A p \in All : p # id => plan'[p] = mid[p]
  BY <1>1, <1>3, <1>4 DEF Keeps, Typed
<1>7. /\ row.kind = kind /\ row.parent = g /\ row.critical = c
      /\ row.order = NextOrder(g, c) /\ row.status = "NOT_CLONED"
  OBVIOUS
<1> HIDE DEF row
<1>8. Typed(plan')
  <2>1. mid \in [All -> Record \cup {None}]
    BY <1>3 DEF Keeps, Typed
  <2> QED BY <1>1, <1>5, <2>1 DEF Typed
<1>9. PlansIn(plan') = PlansIn(mid) \cup {id} /\ id \notin PlansIn(mid) /\ PlansIn(mid) = Plans
  BY <1>3, <1>4, <1>5, <1>6 DEF PlansIn, Keeps, Plans
<1>10. \A p \in PlansIn(mid) : p # id /\ p \in All /\ plan'[p] = mid[p]
  BY <1>4, <1>6 DEF PlansIn
<1>11. \A p \in PlansIn(mid) \ {Master} : mid[p].parent \in PlansIn(mid)
  BY <1>3, Parents
<1>12. Shape(plan')
  <2>1. Rooted(plan')
    <3>1. ASSUME NEW T \in SUBSET All, Master \in T, Closed(plan', T)
          PROVE  PlansIn(plan') \subseteq T
      <4>1. Closed(mid, T)
        BY <1>9, <1>10, <3>1 DEF Closed
      <4>2. PlansIn(mid) \subseteq T
        BY <1>3, <3>1, <4>1 DEF Shape, Rooted
      <4>3. id \in T
        BY <1>6, <1>7, <1>9, <3>1, <4>2 DEF Closed
      <4> QED BY <1>9, <4>2, <4>3
    <3>2. Master \in PlansIn(mid) /\ mid[Master].parent = None /\ mid[Master].kind = "GOAL"
      BY <1>3 DEF Shape, Rooted
    <3> QED BY <1>9, <1>10, <3>1, <3>2 DEF Rooted
  <2>2. Kinds(plan')
    BY <1>3, <1>4, <1>6, <1>7, <1>9, <1>10 DEF Shape, Kinds
  <2>3. OwnFit(plan')
    <3> SUFFICES ASSUME NEW p \in PlansIn(plan') \cap Ids
                 PROVE  /\ plan'[p].status \in {"NOT_CLONED", "TEMPLATE"}
                        /\ plan'[p].status = "TEMPLATE" => p = Root
                        /\ p = Root => plan'[p].parent = Shell
                        /\ p \notin {Master, Root} =>
                              plan'[p].parent \in PlansIn(plan') /\ plan'[plan'[p].parent].kind = "GOAL"
                        /\ plan'[p].parent \in Clones => plan'[plan'[p].parent].status = "DETACHED"
      BY DEF OwnFit
    <3>1. CASE p = id
      <4>1. plan'[g] = mid[g] /\ mid[g].kind = "GOAL"
        BY <1>1, <1>2, <1>3, <1>10 DEF Keeps, Plans
      <4>2. g \in Clones => mid[g].status = "DETACHED"
        BY <1>3, <1>9 DEF Shape, ClonesFit
      <4> QED BY <1>4, <1>6, <1>7, <1>9, <3>1, <4>1, <4>2
    <3>2. CASE p # id
      <4>1. p \in PlansIn(mid) \cap Ids /\ plan'[p] = mid[p]
        BY <1>9, <1>10, <3>2
      <4>2. p # Master => mid[p].parent \in PlansIn(mid)
        BY <1>11, <4>1
      <4>3. p = Master => mid[p].parent \notin Clones
        BY <1>3, Names DEF Shape, Rooted
      <4> QED BY <1>3, <1>9, <1>10, <4>1, <4>2, <4>3 DEF Shape, OwnFit
    <3> QED BY <3>1, <3>2
  <2>4. ClonesFit(plan')
    <3> SUFFICES ASSUME NEW k \in PlansIn(plan') \cap Clones
                 PROVE  /\ k[1] \in PlansIn(plan') /\ plan'[k].kind = plan'[k[1]].kind
                        /\ plan'[k].status \in {"LINKED", "DETACHED"}
                        /\ k[1] = Root => plan'[k].parent = Shell
                        /\ k[1] # Root =>
                              /\ plan'[k].parent = <<plan'[k[1]].parent, k[2]>>
                              /\ plan'[k].parent \in PlansIn(plan') \cap Clones
                              /\ plan'[k].status = "LINKED" => plan'[plan'[k].parent].status = "LINKED"
      BY DEF ClonesFit
    <3>1. k \in PlansIn(mid) \cap Clones
      BY <1>4, <1>9, Names
    <3>2. k[1] \in PlansIn(mid)
      BY <1>3, <3>1 DEF Shape, ClonesFit
    <3> QED BY <1>3, <1>9, <1>10, <3>1, <3>2 DEF Shape, ClonesFit
  <2>5. Placed(plan')
    <3> SUFFICES ASSUME NEW p \in PlansIn(plan') \ {Master}
                 PROVE  /\ IsRoot(p) => plan'[p].critical = None /\ plan'[p].order = None
                        /\ ~IsRoot(p) => plan'[p].critical \in BOOLEAN /\ plan'[p].order \in Nat
                        /\ plan'[p].parent = Master => plan'[p].critical = FALSE
      BY DEF Placed
    <3>1. CASE p = id
      <4>1. ~IsRoot(p)
        BY <1>4, <3>1, Names DEF IsRoot
      <4>2. NextOrder(g, c) \in Nat
        BY <1>1, NewPlaced
      <4> QED BY <1>1, <1>6, <1>7, <3>1, <4>1, <4>2
    <3>2. CASE p # id
      <4>1. p \in PlansIn(mid) /\ plan'[p] = mid[p]
        BY <1>9, <1>10, <3>2
      <4> QED BY <1>3, <4>1 DEF Shape, Placed
    <3> QED BY <3>1, <3>2
  <2>6. Shell \in PlansIn(plan') <=> Root \in PlansIn(plan')
    BY <1>3, <1>4, <1>9 DEF Shape
  <2> QED BY <1>8, <2>1, <2>2, <2>3, <2>4, <2>5, <2>6 DEF Shape
<1>13. \A h \in Plans : Children(plan', h) = Children(mid, h) \cup (IF h = g THEN {id} ELSE {})
  BY <1>6, <1>7, <1>9, <1>10 DEF Children
<1>14. ASSUME NEW h \in Plans, NEW d \in BOOLEAN, Dense(plan, h, d)
       PROVE  Dense(plan', h, d)
  <2>1. Dense(mid, h, d)
    BY <1>3, <1>14, DetachDense
  <2>2. \A p \in Children(mid, h) : plan'[p] = mid[p] /\ p \in PlansIn(mid)
    BY <1>10 DEF Children
  <2>3. CASE h # g \/ c # d
    <3>1. Bucket(plan', h, d) = Bucket(mid, h, d)
      BY <1>6, <1>7, <1>13, <2>2, <2>3 DEF Bucket
    <3>2. \A p \in Bucket(mid, h, d) : plan'[p].order = mid[p].order
      BY <2>2 DEF Bucket
    <3> QED BY <2>1, <3>1, <3>2, DenseSame
  <2>4. CASE h = g /\ c = d
    <3> DEFINE B == Bucket(mid, g, c)
    <3>1. Bucket(plan', g, c) = B \cup {id} /\ id \notin B
      BY <1>6, <1>7, <1>9, <1>13, <2>2, <2>4 DEF Bucket, Children
    <3>2. B = Bucket(plan, g, c)
      BY <1>3 DEF Bucket, Children, Keeps, SamePlaces
    <3>3. IsFiniteSet(B) /\ Cardinality(B) \in Nat
      <4>1. B \in SUBSET All
        BY Rows, <1>10 DEF Bucket, Children
      <4> QED BY <4>1, AllFinite
    <3>4. Cardinality(B \cup {id}) = Cardinality(B) + 1
      BY <3>1, <3>3, FS_AddElement
    <3>5. plan'[id].order = Cardinality(B)
      BY <1>1, <1>6, <1>7, <1>14, <2>4, <3>2, NewPlaced
    <3>6. {mid[p].order : p \in B} = 0 .. Cardinality(B) - 1
      BY <2>1, <2>4 DEF Dense, Orders
    <3>7. \A p \in B : plan'[p].order = mid[p].order
      BY <2>2, <2>4 DEF Bucket
    <3> HIDE DEF B
    <3>8. \A p \in B \cup {id} : plan'[p].order \in 0 .. Cardinality(B \cup {id}) - 1
      BY <3>3, <3>4, <3>5, <3>6, <3>7
    <3>9. \A n \in 0 .. Cardinality(B \cup {id}) - 1 : \E p \in B \cup {id} : plan'[p].order = n
      <4> TAKE n \in 0 .. Cardinality(B \cup {id}) - 1
      <4>1. n = Cardinality(B) \/ n \in 0 .. Cardinality(B) - 1
        BY <3>3, <3>4
      <4> QED BY <3>5, <3>6, <3>7, <4>1
    <3>10. Dense(plan', g, c)
      BY <3>1, <3>8, <3>9, DenseNumbered
    <3> QED BY <2>4, <3>10
  <2> QED BY <2>3, <2>4
<1>15. OwnOrder(plan')
  <2> SUFFICES ASSUME NEW h \in PlansIn(plan') \cap Ids, NEW d \in BOOLEAN, plan'[h].kind = "GOAL"
               PROVE  Dense(plan', h, d)
    BY DEF OwnOrder
  <2>1. CASE h = id
    <3>1. Children(plan', id) = {}
      <4>1. \A p \in PlansIn(mid) : mid[p].parent # id
        <5>1. mid[Master].parent = None /\ None \notin All
          BY <1>3, Names DEF Shape, Rooted
        <5> QED BY <1>4, <1>9, <1>11, <5>1
      <4>2. g # id
        BY <1>1
      <4> QED BY <1>6, <1>7, <1>9, <1>10, <4>1, <4>2 DEF Children
    <3>2. Bucket(plan', id, d) = {}
      BY <3>1 DEF Bucket
    <3> QED BY <2>1, <3>2, FS_EmptySet DEF Dense, Orders
  <2>2. CASE h # id
    <3>1. h \in PlansIn(plan) \cap Ids /\ plan[h].kind = "GOAL"
      BY <1>3, <1>9, <1>10, <2>2 DEF Keeps, Plans
    <3>2. Dense(plan, h, d)
      BY <3>1 DEF IInv, OwnOrder
    <3> QED BY <1>14, <3>1, <3>2 DEF Plans
  <2> QED BY <2>1, <2>2
<1>16. UnwantedFit'
  <2> SUFFICES ASSUME NEW u \in unwanted
               PROVE  /\ u \in Clones \X Clones /\ u[1] \notin Plans' /\ u[1][1] # Root
                      /\ u[1][1] \in Plans' /\ u[2] = <<plan'[u[1][1]].parent, u[1][2]>>
                      /\ u[2] \in Plans' /\ plan'[u[2]].status = "DETACHED"
    BY <1>1 DEF UnwantedFit
  <2>1. /\ u \in Clones \X Clones /\ u[1] \notin Plans /\ u[1][1] # Root
        /\ u[1][1] \in Plans /\ u[2] = <<plan[u[1][1]].parent, u[1][2]>>
        /\ u[2] \in Plans /\ plan[u[2]].status = "DETACHED"
    BY DEF IInv, UnwantedFit
  <2>2. u[1] \in Clones /\ u[1] # id
    BY <1>4, <2>1, Names
  <2>3. plan'[u[1][1]].parent = plan[u[1][1]].parent
    BY <1>3, <1>9, <1>10, <2>1 DEF Keeps, Plans
  <2>4. plan'[u[2]].status = "DETACHED"
    BY <1>3, <1>9, <1>10, <2>1 DEF Keeps, Plans
  <2> QED BY <1>9, <2>1, <2>2, <2>3, <2>4 DEF Plans
<1>17. OccurrencesFit'
  <2>1. \A i \in Occurrences : RootOf(i) \in Plans' <=> RootOf(i) \in Plans
    BY <1>4, <1>9, Names DEF Plans
  <2>2. OccurrencesFit /\ count' \in 1 .. Cardinality(Occurrences)
    BY <1>1 DEF IInv, OccurrencesFit
  <2> QED BY <1>1, <2>1, <2>2, OccurrencesKept
<1>18. edits' \in 0 .. MaxEdits
  BY <1>1, EditsCounted
<1>19. CriticalStep
  BY <1>9 DEF CriticalStep, CriticalChildren, Bucket, Children, Plans
<1>20. OrderStep
  BY <1>14 DEF OrderStep
<1> QED BY <1>12, <1>15, <1>16, <1>17, <1>18, <1>19, <1>20 DEF IInv

\* Two such steps make one.
LEMMA KeepsTwice ==
    ASSUME NEW first, NEW second, NEW third, Keeps(first, second), Keeps(second, third)
    PROVE  Keeps(first, third)
BY DEF Keeps

\* The goal is detached and its children are put in a new order.
LEMMA ReorderedKeeps ==
    ASSUME Shape(plan), NEW g, NEW critical, NEW others, NEW SC, NEW SO,
           Ordering(plan, g, critical, others, SC, SO)
    PROVE  /\ Shape(Reordered(g, critical, others)) /\ Keeps(plan, Reordered(g, critical, others))
           /\ \A h \in Plans, c \in BOOLEAN :
                 Dense(plan, h, c) => Dense(Reordered(g, critical, others), h, c)
<1> USE DEF Ordering
<1> DEFINE mid == Detach(plan, g)
           new == Reordered(g, critical, others)
<1>1. /\ Shape(mid) /\ Keeps(plan, mid) /\ SamePlaces(plan, mid) /\ g \in PlansIn(plan)
  BY DetachFits DEF Plans
<1>2. new = Numbered(Numbered(mid, critical, TRUE), others, FALSE)
  BY DEF Reordered
<1> HIDE DEF mid, new
<1>3. /\ g \in PlansIn(mid) /\ mid[g].kind = "GOAL" /\ Children(mid, g) = Children(plan, g)
      /\ PlansIn(mid) = Plans
  BY <1>1 DEF Keeps, Children, Plans
<1>4. /\ Shape(new) /\ Keeps(mid, new)
      /\ \A c \in BOOLEAN : Dense(new, g, c)
      /\ \A h \in PlansIn(mid) \ {g}, c \in BOOLEAN : Dense(new, h, c) <=> Dense(mid, h, c)
  <2>1. Ordering(mid, g, critical, others, SC, SO)
    BY <1>3
  <2> HIDE DEF Ordering
  <2>2. Reorders(mid, Numbered(Numbered(mid, critical, TRUE), others, FALSE), g)
    BY <1>1, <2>1, ReorderedFits
  <2> QED BY <1>2, <2>2 DEF Reorders
<1>5. \A h, c : Dense(mid, h, c) <=> Dense(plan, h, c)
  BY <1>1, DetachDense
<1>6. ASSUME NEW h \in Plans, NEW c \in BOOLEAN, Dense(plan, h, c)
      PROVE  Dense(new, h, c)
  <2>1. CASE h = g
    BY <1>4, <2>1
  <2>2. CASE h # g
    BY <1>3, <1>4, <1>5, <1>6, <2>2
  <2> QED BY <2>1, <2>2
<1>7. Keeps(plan, new)
  BY <1>1, <1>4, KeepsTwice
<1> QED BY <1>4, <1>6, <1>7 DEF new

\* Edits that leave instances and occurrences alone.
LEMMA PlanEditFits ==
    ASSUME IInv, Edit, Shape(plan'), Keeps(plan, plan'),
           UNCHANGED <<instance, skipped, count, unwanted>>,
           \A g \in Plans, c \in BOOLEAN : Dense(plan, g, c) => Dense(plan', g, c)
    PROVE  IInv' /\ OrderStep /\ CriticalStep
<1>1. OwnOrder(plan') /\ UnwantedFit' /\ OrderStep /\ CriticalStep /\ Plans' = Plans
  BY KeepsFits
<1>2. OccurrencesFit'
  <2>1. OccurrencesFit /\ count' \in 1 .. Cardinality(Occurrences)
    BY DEF IInv, OccurrencesFit
  <2> QED BY <1>1, <2>1, OccurrencesKept
<1>3. edits' \in 0 .. MaxEdits
  BY EditsCounted
<1> QED BY <1>1, <1>2, <1>3 DEF IInv

\* order_children.
LEMMA OrderChildrenFits ==
    ASSUME IInv, NEW g \in Plans, NEW C \in SUBSET Children(plan, g),
           NEW critical \in SetToSeqs(C), NEW others \in SetToSeqs(Children(plan, g) \ C),
           OrderChildren(g, critical, others)
    PROVE  IInv' /\ OrderStep /\ CriticalStep
<1>1. /\ Edit /\ plan[g].kind = "GOAL" /\ (g = Master => critical = << >>)
      /\ plan' = Reordered(g, critical, others)
      /\ UNCHANGED <<instance, skipped, count, unwanted>>
  BY DEF OrderChildren, OrderAllowed, IsGoal
<1> DEFINE O == Children(plan, g) \ C
<1>2. C \in SUBSET All /\ O \in SUBSET All /\ Shape(plan)
  BY Rows DEF IInv, Shape, Children
<1>3. IsFiniteSet(C) /\ IsFiniteSet(O)
  BY <1>2, AllFinite
<1>4. Lists(critical, C) /\ Lists(others, O)
  BY <1>3, EnumerationLists
<1>5. g = Master => C = {}
  <2>1. g = Master => Cardinality(C) = 0
    BY <1>1, <1>4 DEF Lists
  <2> QED BY <1>3, <2>1, FS_EmptySet
<1>6. C \cup O = Children(plan, g) /\ C \cap O = {}
  OBVIOUS
<1> HIDE DEF O
<1>a. Ordering(plan, g, critical, others, C, O)
  BY <1>1, <1>4, <1>5, <1>6 DEF Ordering, Plans
<1>7. /\ Shape(plan') /\ Keeps(plan, plan')
      /\ \A h \in Plans, c \in BOOLEAN : Dense(plan, h, c) => Dense(plan', h, c)
  BY <1>1, <1>2, <1>a, ReorderedKeeps
<1> QED BY <1>1, <1>7, PlanEditFits

\* move_plan of a goal's child: taken out of its bucket, put into either one, then detached.
LEMMA MoveFits ==
    ASSUME IInv, NEW p \in Plans, NEW critical \in BOOLEAN,
           NEW place \in 0 .. Cardinality(Children(plan, plan[p].parent)),
           Move(p, critical, place)
    PROVE  IInv' /\ OrderStep /\ CriticalStep
<1> DEFINE g == plan[p].parent
           K == Children(plan, g)
           S(c) == Bucket(plan, g, c) \ {p}
           target == Rest(g, critical, p)
           left == Rest(g, ~critical, p)
           moved == InsertAt(target, place + 1, p)
           mid == IF critical THEN Reordered(g, moved, left) ELSE Reordered(g, left, moved)
<1>1. /\ Edit /\ g \in Plans /\ plan[g].kind = "GOAL" /\ place \in 0 .. Len(target)
      /\ (g = Master => ~critical)
      /\ plan' = Detach(mid, p)
      /\ UNCHANGED <<instance, skipped, count, unwanted>>
  BY DEF Move, IsGoal
<1>2. Shape(plan) /\ g \in PlansIn(plan) /\ p \in K
  BY <1>1 DEF IInv, Plans, Children
<1>3. \A q \in K : /\ q \in All /\ plan[q].critical \in BOOLEAN /\ plan[q].order \in Nat
                   /\ g = Master => plan[q].critical = FALSE
  BY <1>1, <1>2, GoalChildren, Rows DEF Shape
<1>4. \A c \in BOOLEAN : Lists(Rest(g, c, p), S(c)) /\ IsFiniteSet(S(c)) /\ p \notin S(c)
  <2> TAKE c \in BOOLEAN
  <2>1. S(c) \in SUBSET All /\ (\A q \in S(c) : plan[q].order \in Nat)
    BY <1>3 DEF Bucket
  <2>2. Rest(g, c, p) = InOrder(plan, S(c))
    BY DEF Rest
  <2>3. p \notin S(c)
    OBVIOUS
  <2> HIDE DEF S, g
  <2> QED BY <2>1, <2>2, <2>3, InOrderLists, AllFinite
<1>5. /\ S(TRUE) \cup S(FALSE) \cup {p} = K /\ S(TRUE) \cap S(FALSE) = {}
      /\ g = Master => S(TRUE) = {}
  BY <1>2, <1>3 DEF Bucket
<1>6. Lists(target, S(critical)) /\ Lists(left, S(~critical)) /\ Lists(moved, S(critical) \cup {p})
  <2>1. Lists(target, S(critical)) /\ IsFiniteSet(S(critical)) /\ p \notin S(critical)
    BY <1>4
  <2>2. Lists(left, S(~critical))
    BY <1>4
  <2> HIDE DEF S, target, left, g
  <2>3. Lists(moved, S(critical) \cup {p})
    BY <1>1, <2>1, InsertionLists
  <2> QED BY <2>1, <2>2, <2>3
<1>7. p \notin S(TRUE) /\ p \notin S(FALSE)
  OBVIOUS
<1> HIDE DEF S, target, left, moved, g, K
<1>8. /\ Shape(mid) /\ Keeps(plan, mid)
      /\ \A h \in Plans, c \in BOOLEAN : Dense(plan, h, c) => Dense(mid, h, c)
  <2>1. CASE critical
    <3> DEFINE SC == S(TRUE) \cup {p}
               SO == S(FALSE)
    <3>1. critical = TRUE /\ ~critical = FALSE
      BY <2>1
    <3>2. Lists(moved, SC) /\ Lists(left, SO)
      BY <1>6, <3>1
    <3>3. SC \cup SO = Children(plan, g) /\ SC \cap SO = {} /\ (g = Master => SC = {})
      BY <1>1, <1>5, <1>7, <2>1 DEF K
    <3>4. mid = Reordered(g, moved, left)
      BY <2>1
    <3>5. Ordering(plan, g, moved, left, SC, SO)
      BY <1>1, <3>2, <3>3 DEF Ordering, Plans
    <3> HIDE DEF SC, SO, mid
    <3> QED BY <1>2, <3>4, <3>5, ReorderedKeeps
  <2>2. CASE ~critical
    <3> DEFINE SC == S(TRUE)
               SO == S(FALSE) \cup {p}
    <3>1. critical = FALSE /\ ~critical = TRUE
      BY <2>2
    <3>2. Lists(left, SC) /\ Lists(moved, SO)
      BY <1>6, <3>1
    <3>3. SC \cup SO = Children(plan, g) /\ SC \cap SO = {} /\ (g = Master => SC = {})
      BY <1>5, <1>7 DEF K
    <3>4. mid = Reordered(g, left, moved)
      BY <2>2
    <3>5. Ordering(plan, g, left, moved, SC, SO)
      BY <1>1, <3>2, <3>3 DEF Ordering, Plans
    <3> HIDE DEF SC, SO, mid
    <3> QED BY <1>2, <3>4, <3>5, ReorderedKeeps
  <2> QED BY <2>1, <2>2
<1> HIDE DEF mid
<1>9. p \in PlansIn(mid)
  BY <1>8 DEF Keeps, Plans
<1>10. Shape(plan') /\ Keeps(mid, plan') /\ SamePlaces(mid, plan')
  BY <1>1, <1>8, <1>9, DetachFits
<1>11. Keeps(plan, plan')
  BY <1>8, <1>10, KeepsTwice
<1>12. \A h \in Plans, c \in BOOLEAN : Dense(plan, h, c) => Dense(plan', h, c)
  BY <1>8, <1>10, DetachDense
<1> QED BY <1>1, <1>10, <1>11, <1>12, PlanEditFits

\* An edit of a clone's own fields detaches it and does nothing else.
LEMMA ChangeFits ==
    ASSUME IInv, NEW p \in Plans, Change(p)
    PROVE  IInv' /\ OrderStep /\ CriticalStep
<1>1. Edit /\ plan' = Detach(plan, p) /\ UNCHANGED <<instance, skipped, count, unwanted>>
  BY DEF Change
<1>2. Shape(plan) /\ p \in PlansIn(plan)
  BY DEF IInv, Plans
<1>3. Shape(plan') /\ Keeps(plan, plan') /\ SamePlaces(plan, plan')
  BY <1>1, <1>2, DetachFits
<1>4. \A g \in Plans, c \in BOOLEAN : Dense(plan, g, c) => Dense(plan', g, c)
  BY <1>3, DetachDense
<1> QED BY <1>1, <1>3, <1>4, PlanEditFits

\* A step that leaves the plans alone.
LEMMA SamePlans ==
    ASSUME IInv, UNCHANGED <<plan, unwanted>>
    PROVE  Shape(plan') /\ OwnOrder(plan') /\ UnwantedFit' /\ OrderStep /\ CriticalStep
           /\ Plans' = Plans
BY DEF IInv, UnwantedFit, OrderStep, CriticalStep, CriticalChildren, Bucket, Children, Plans

\* update_settings: a larger count touches neither plans nor instances.
LEMMA GrowFits ==
    ASSUME IInv, Grow
    PROVE  IInv' /\ OrderStep /\ CriticalStep
<1>1. Edit /\ count < Cardinality(Occurrences) /\ count' = count + 1
      /\ UNCHANGED <<plan, instance, skipped, unwanted>>
  BY DEF Grow
<1>2. Shape(plan') /\ OwnOrder(plan') /\ UnwantedFit' /\ OrderStep /\ CriticalStep
      /\ Plans' = Plans
  BY <1>1, SamePlans
<1>3. count' \in 1 .. Cardinality(Occurrences)
  <2>1. Cardinality(Occurrences) \in Nat /\ count \in 1 .. Cardinality(Occurrences)
    BY AllFinite DEF IInv, OccurrencesFit
  <2> QED BY <1>1, <2>1
<1>4. OccurrencesFit'
  BY <1>1, <1>2, <1>3, OccurrencesKept DEF IInv
<1>5. edits' \in 0 .. MaxEdits
  BY <1>1, EditsCounted
<1> QED BY <1>2, <1>4, <1>5 DEF IInv

-----------------------------------------------------------------------------
(* Instances.                                                              *)

Fit(insts) == insts \in [Occurrences -> Instance \cup {None}]

Even(insts, c) ==
    {insts[i].order : i \in OfBucket(insts, c)} = 0 .. Cardinality(OfBucket(insts, c)) - 1

\* Instances that are there have rows, all others have none.
LEMMA InstanceRows ==
    ASSUME NEW insts, Fit(insts)
    PROVE  /\ \A i \in Existing(insts) :
                 /\ i \in Occurrences /\ insts[i] \in Instance
                 /\ insts[i].critical \in BOOLEAN /\ insts[i].order \in Nat
           /\ \A i \in Occurrences : i \notin Existing(insts) <=> insts[i] = None
<1>1. \A i \in Existing(insts) : i \in Occurrences /\ insts[i] \in Instance
  BY DEF Fit, Existing
<1>2. \A r \in Instance : r.critical \in BOOLEAN /\ r.order \in Nat
  BY DEF Instance
<1> QED BY <1>1, <1>2 DEF Existing

\* Instances in order: each once.
LEMMA InstancesInOrderLists ==
    ASSUME NEW insts, Fit(insts), NEW S \in SUBSET Existing(insts)
    PROVE  Lists(InstancesInOrder(insts, S), S)
<1> DEFINE before(i, j) == \/ insts[i].order < insts[j].order
                           \/ insts[i].order = insts[j].order /\ i < j
           R == {ij \in S \X S : before(ij[1], ij[2])}
           seq == [n \in 1 .. Cardinality(S) |-> CHOOSE x \in S : Rank(S, R)[x] = n - 1]
<1>1. \A i \in S : i \in Nat /\ i \in Occurrences /\ insts[i].order \in Nat
  <2>1. \A i \in S : i \in Occurrences /\ insts[i].order \in Nat
    BY InstanceRows
  <2>2. Occurrences \subseteq Nat
    <3> DEFINE n == Cardinality(Occurrences)
    <3>1. Occurrences = 0 .. n - 1
      BY BoundsAssumption
    <3> HIDE DEF n
    <3> QED BY ONLY <3>1
  <2> QED BY <2>1, <2>2
<1>2. \A i, j \in S : <<i, j>> \in R <=> before(i, j)
  OBVIOUS
<1>3. StrictOrder(S, R)
  <2>1. \A i, j \in S : i # j => before(i, j) \/ before(j, i)
    BY <1>1
  <2>2. \A i \in S : ~before(i, i)
    BY <1>1
  <2>3. \A i, j, k \in S : before(i, j) /\ before(j, k) => before(i, k)
    BY <1>1
  <2> HIDE DEF R, before
  <2> QED BY <1>2, <2>1, <2>2, <2>3 DEF StrictOrder
<1>4. IsFiniteSet(S)
  <2>1. S \in SUBSET Occurrences
    BY DEF Existing
  <2> QED BY <2>1, AllFinite
<1>5. \A x \in S : Rank(S, R)[x] = Cardinality({y \in S : before(y, x)})
  <2> HIDE DEF R, before
  <2> TAKE x \in S
  <2>1. {y \in S : <<y, x>> \in R} = {y \in S : before(y, x)}
    BY <1>2
  <2> QED BY <2>1 DEF Rank
<1>6. InstancesInOrder(insts, S) =
        [n \in 1 .. Cardinality(S) |->
            CHOOSE x \in S : Cardinality({y \in S : before(y, x)}) = n - 1]
  BY DEF InstancesInOrder, Sorted
<1>7. \A n \in 1 .. Cardinality(S) :
         (CHOOSE x \in S : Rank(S, R)[x] = n - 1)
           = (CHOOSE x \in S : Cardinality({y \in S : before(y, x)}) = n - 1)
  <2> HIDE DEF R, before
  <2> QED BY <1>5
<1>8. InstancesInOrder(insts, S) = seq
  <2> HIDE DEF R, before
  <2> QED BY <1>6, <1>7
<1>9. Lists(seq, S)
  <2> HIDE DEF R, seq
  <2> QED BY <1>3, <1>4, RankedLists DEF seq
<1> QED BY <1>8, <1>9

\* The instances of S are a bucket and numbered 0, 1, 2 and so on; all others are as
\* they were.
InstancesAs(insts, new, S, c) ==
    /\ Fit(new) /\ Existing(new) = Existing(insts)
    /\ \A i \in Occurrences : i \notin S => new[i] = insts[i]
    /\ \A i \in S : new[i].critical = c /\ new[i].order \in 0 .. Cardinality(S) - 1
    /\ \A n \in 0 .. Cardinality(S) - 1 : \E i \in S : new[i].order = n

\* NumberedInstances does that for the instances of a list.
LEMMA NumberedInstancesFit ==
    ASSUME NEW insts, Fit(insts), NEW S \in SUBSET Existing(insts), NEW seq, Lists(seq, S),
           NEW c \in BOOLEAN
    PROVE  InstancesAs(insts, NumberedInstances(insts, seq, c), S, c)
<1> DEFINE new == NumberedInstances(insts, seq, c)
           place(i) == CHOOSE n \in 0 .. Len(seq) - 1 : seq[n + 1] = i
<1>1. S \in SUBSET Occurrences /\ Cardinality(S) \in Nat /\ Len(seq) = Cardinality(S)
  <2>1. S \in SUBSET Occurrences
    BY DEF Existing
  <2> QED BY <2>1, AllFinite DEF Lists
<1>2. \A i : Contains(seq, i) <=> i \in S
  BY DEF Contains, Lists
<1>3. \A i \in S : place(i) \in 0 .. Cardinality(S) - 1 /\ seq[place(i) + 1] = i
  <2> TAKE i \in S
  <2>1. PICK m \in 1 .. Len(seq) : seq[m] = i
    BY DEF Lists
  <2>2. m - 1 \in 0 .. Len(seq) - 1 /\ (m - 1) + 1 = m
    BY <1>1
  <2>3. \E n \in 0 .. Len(seq) - 1 : seq[n + 1] = i
    BY <2>1, <2>2
  <2>4. place(i) \in 0 .. Len(seq) - 1 /\ seq[place(i) + 1] = i
    BY <2>3
  <2> QED BY <1>1, <2>4
<1>4. new = [i \in Occurrences |-> IF i \in S THEN [critical |-> c, order |-> place(i)] ELSE insts[i]]
  <2>1. new = [i \in Occurrences |-> IF Contains(seq, i) THEN [critical |-> c, order |-> place(i)]
                                     ELSE insts[i]]
    BY DEF NumberedInstances
  <2> HIDE DEF new, place
  <2> QED BY <1>2, <2>1
<1> HIDE DEF new, place
<1>5. ASSUME NEW i \in S
      PROVE  new[i] \in Instance /\ new[i] # None /\ new[i].critical = c /\ new[i].order = place(i)
  <2>1. new[i] = [critical |-> c, order |-> place(i)]
    BY <1>1, <1>4
  <2>2. place(i) \in Nat
    BY <1>1, <1>3
  <2>3. new[i] \in Instance
    BY <2>1, <2>2 DEF Instance
  <2>4. new[i].critical = c /\ new[i].order = place(i)
    BY <2>1
  <2> QED BY <2>3, <2>4, NoneAssumption
<1>6. \A i \in Occurrences : i \notin S => new[i] = insts[i]
  BY <1>4
<1>7. Fit(new)
  <2>1. \A i \in Occurrences : new[i] \in Instance \cup {None}
    BY <1>5, <1>6 DEF Fit
  <2> QED BY <1>4, <2>1 DEF Fit
<1>8. Existing(new) = Existing(insts)
  BY <1>5, <1>6 DEF Existing
<1>9. \A n \in 0 .. Cardinality(S) - 1 : \E i \in S : new[i].order = n
  <2> TAKE n \in 0 .. Cardinality(S) - 1
  <2>1. n + 1 \in 1 .. Len(seq) /\ n \in Nat
    BY <1>1
  <2>2. seq[n + 1] \in S
    BY <2>1 DEF Lists
  <2> DEFINE i == seq[n + 1]
  <2>3. place(i) \in 0 .. Cardinality(S) - 1 /\ seq[place(i) + 1] = seq[n + 1]
    BY <1>3, <2>2
  <2>4. place(i) + 1 \in 1 .. Len(seq)
    BY <1>1, <2>3
  <2>5. place(i) + 1 = n + 1
    BY <2>1, <2>3, <2>4 DEF Lists
  <2>6. place(i) = n
    BY <2>1, <2>3, <2>5
  <2> QED BY <1>5, <2>2, <2>6
<1>10. InstancesAs(insts, new, S, c)
  BY <1>3, <1>5, <1>6, <1>7, <1>8, <1>9 DEF InstancesAs
<1> QED BY <1>10 DEF new

\* A bucket of instances is even when its members have been numbered,
LEMMA EvenNumbered ==
    ASSUME NEW insts, NEW c, NEW S, OfBucket(insts, c) = S,
           \A i \in S : insts[i].order \in 0 .. Cardinality(S) - 1,
           \A n \in 0 .. Cardinality(S) - 1 : \E i \in S : insts[i].order = n
    PROVE  Even(insts, c)
BY DEF Even

\* and stays so while its members keep their numbers.
LEMMA EvenSame ==
    ASSUME NEW insts, NEW new, NEW c, OfBucket(new, c) = OfBucket(insts, c),
           \A i \in OfBucket(insts, c) : new[i].order = insts[i].order, Even(insts, c)
    PROVE  Even(new, c)
BY DEF Even

\* A number given to a whole bucket makes it even, and the other bucket stays as it is.
LEMMA BucketNumbered ==
    ASSUME NEW insts, Fit(insts), NEW c \in BOOLEAN, NEW S, NEW new,
           InstancesAs(insts, new, S, c), S \subseteq Existing(insts),
           \A i \in OfBucket(insts, c) : i \in S
    PROVE  /\ Even(new, c) /\ OfBucket(new, c) = S
           /\ \A d \in BOOLEAN \ {c} :
                 /\ OfBucket(new, d) = OfBucket(insts, d) \ S
                 /\ \A i \in OfBucket(new, d) : new[i] = insts[i]
<1>1. \A i \in Existing(insts) : i \in Occurrences
  BY DEF Existing
<1>2. OfBucket(new, c) = S
  BY <1>1 DEF InstancesAs, OfBucket
<1>3. Even(new, c)
  BY <1>2, EvenNumbered DEF InstancesAs
<1>4. ASSUME NEW d \in BOOLEAN \ {c}
      PROVE  /\ OfBucket(new, d) = OfBucket(insts, d) \ S
             /\ \A i \in OfBucket(new, d) : new[i] = insts[i]
  <2>1. \A i \in Existing(insts) : i \notin S => new[i] = insts[i]
    BY <1>1 DEF InstancesAs
  <2>2. \A i \in S : new[i].critical # d
    BY DEF InstancesAs
  <2>3. Existing(new) = Existing(insts)
    BY DEF InstancesAs
  <2> QED BY <2>1, <2>2, <2>3 DEF OfBucket
<1> QED BY <1>2, <1>3, <1>4

\* move_plan of the root of an instance: both buckets of instances are numbered anew.
LEMMA MoveInstanceFits ==
    ASSUME IInv, NEW i \in Occurrences, NEW critical \in BOOLEAN, NEW place \in Occurrences,
           MoveInstance(i, critical, place)
    PROVE  IInv' /\ OrderStep /\ CriticalStep
<1> DEFINE old == instance[i].critical
           S1 == OfBucket(instance, old) \ {i}
           S2 == (OfBucket(instance, critical) \ {i}) \cup {i}
           source == InstancesInOrder(instance, S1)
           target == InstancesInOrder(instance, OfBucket(instance, critical) \ {i})
           moved == InsertAt(target, place + 1, i)
           mid == NumberedInstances(instance, source, old)
           new == NumberedInstances(mid, moved, critical)
<1>1. /\ Edit /\ i \in Existing(instance) /\ place \in 0 .. Len(target)
      /\ instance' = new /\ plan' = Detach(plan, RootOf(i))
      /\ UNCHANGED <<skipped, count, unwanted>>
  BY DEF MoveInstance
<1>2. Shape(plan) /\ OccurrencesFit /\ Fit(instance) /\ old \in BOOLEAN
  BY <1>1, InstanceRows DEF IInv, OccurrencesFit, Fit
<1>3. S1 \in SUBSET Existing(instance) /\ S2 \in SUBSET Existing(instance)
      /\ OfBucket(instance, critical) \ {i} \in SUBSET Existing(instance)
  BY <1>1 DEF OfBucket
<1>4. Lists(source, S1)
  <2> HIDE DEF S1
  <2> QED BY <1>2, <1>3, InstancesInOrderLists
<1>5. Lists(moved, S2)
  <2> DEFINE T == OfBucket(instance, critical) \ {i}
  <2>1. Lists(target, T)
    <3>1. T \in SUBSET Existing(instance)
      BY <1>3
    <3> HIDE DEF T
    <3>2. Lists(InstancesInOrder(instance, T), T)
      BY <1>2, <3>1, InstancesInOrderLists
    <3> QED BY <3>2 DEF T
  <2>2. IsFiniteSet(T) /\ i \notin T
    <3>1. T \in SUBSET Occurrences
      BY DEF OfBucket, Existing
    <3> QED BY <3>1, AllFinite
  <2>3. S2 = T \cup {i}
    OBVIOUS
  <2> HIDE DEF T, target, S2
  <2> QED BY <1>1, <2>1, <2>2, <2>3, InsertionLists
<1>6. InstancesAs(instance, mid, S1, old)
  <2> HIDE DEF S1, source, old
  <2> QED BY <1>2, <1>3, <1>4, NumberedInstancesFit
<1>7. InstancesAs(mid, new, S2, critical)
  <2>1. Fit(mid) /\ S2 \in SUBSET Existing(mid)
    BY <1>3, <1>6 DEF InstancesAs
  <2> HIDE DEF S2, mid, moved
  <2> QED BY <1>5, <2>1, NumberedInstancesFit
<1> HIDE DEF mid, new, moved, source, target
<1>8. Fit(mid) /\ Existing(mid) = Existing(instance) /\ S2 \subseteq Existing(mid)
      /\ Fit(new) /\ Existing(new) = Existing(instance)
  BY <1>3, <1>6, <1>7 DEF InstancesAs
<1>9. /\ \A j \in Existing(instance) : j \notin S1 => mid[j] = instance[j]
      /\ \A j \in S1 : mid[j].critical = old
  BY <1>6 DEF InstancesAs, Existing
<1>10. \A c \in BOOLEAN : OfBucket(mid, c) = OfBucket(instance, c)
  BY <1>8, <1>9 DEF OfBucket
<1>11. \A j \in OfBucket(mid, critical) : j \in S2
  BY <1>10
<1> HIDE DEF S2
<1>12. /\ Even(new, critical)
       /\ \A d \in BOOLEAN \ {critical} :
             /\ OfBucket(new, d) = OfBucket(mid, d) \ S2
             /\ \A j \in OfBucket(new, d) : new[j] = mid[j]
  BY <1>7, <1>8, <1>11, BucketNumbered
<1>13. ASSUME NEW d \in BOOLEAN \ {critical}
       PROVE  Even(new, d)
  <2>1. CASE d = old
    <3>1. OfBucket(new, d) = S1
      <4>1. \A j \in OfBucket(instance, d) : j \notin OfBucket(instance, critical)
        BY <1>13 DEF OfBucket
      <4> QED BY <1>10, <1>12, <2>1, <4>1 DEF S2
    <3>2. \A j \in S1 : new[j] = mid[j]
      BY <1>12, <3>1
    <3>3. /\ \A j \in S1 : new[j].order \in 0 .. Cardinality(S1) - 1
          /\ \A n \in 0 .. Cardinality(S1) - 1 : \E j \in S1 : new[j].order = n
      BY <1>6, <3>2 DEF InstancesAs
    <3> HIDE DEF S1
    <3> QED BY <3>1, <3>3, EvenNumbered
  <2>2. CASE d # old
    <3>1. critical = old
      BY <1>2, <1>13, <2>2
    <3>2. i \notin OfBucket(instance, d)
      BY <2>2 DEF OfBucket
    <3>3. \A j \in OfBucket(instance, d) : j \notin OfBucket(instance, old) /\ j \in Existing(instance)
      BY <2>2 DEF OfBucket
    <3>4. OfBucket(new, d) = OfBucket(instance, d)
      BY <1>10, <1>12, <3>1, <3>2, <3>3 DEF S2
    <3>5. \A j \in OfBucket(instance, d) : new[j].order = instance[j].order
      BY <1>9, <1>12, <3>3, <3>4
    <3>6. Even(instance, d)
      BY <1>2 DEF OccurrencesFit, InstanceOrder, Even
    <3> QED BY <3>4, <3>5, <3>6, EvenSame
  <2> QED BY <2>1, <2>2
<1>14. InstanceOrder(new)
  <2>1. \A d \in BOOLEAN : Even(new, d)
    BY <1>12, <1>13
  <2> QED BY <2>1 DEF InstanceOrder, Even
<1>15. RootOf(i) \in PlansIn(plan)
  BY <1>1, <1>2 DEF OccurrencesFit, Plans
<1>16. Shape(plan') /\ Keeps(plan, plan') /\ SamePlaces(plan, plan')
  BY <1>1, <1>2, <1>15, DetachFits
<1>17. OwnOrder(plan') /\ UnwantedFit' /\ OrderStep /\ CriticalStep /\ Plans' = Plans
  <2>1. \A g \in Plans, c \in BOOLEAN : Dense(plan, g, c) => Dense(plan', g, c)
    BY <1>16, DetachDense
  <2> QED BY <1>1, <1>16, <2>1, KeepsFits
<1>18. OccurrencesFit'
  BY <1>1, <1>2, <1>8, <1>14, <1>17 DEF OccurrencesFit, Fit
<1>19. edits' \in 0 .. MaxEdits
  BY <1>1, EditsCounted
<1> QED BY <1>16, <1>17, <1>18, <1>19 DEF IInv

-----------------------------------------------------------------------------
(* Clones that are made.                                                   *)

\* The row of a clone: its template's, under the clone of the template's parent.
CloneLike(table, row, k) ==
    /\ row \in Record /\ row # None
    /\ row.kind = table[k[1]].kind /\ row.critical = table[k[1]].critical
    /\ row.order = table[k[1]].order /\ row.status = "LINKED"
    /\ k[1] = Root => row.parent = Shell
    /\ k[1] # Root => row.parent = <<table[k[1]].parent, k[2]>> /\ row.parent \in Clones

\* _insert_linked_clone_plan writes such a row for every plan of the template.
LEMMA CloneRow ==
    ASSUME NEW table, Shape(table), NEW x \in Template(table) \cap PlansIn(table),
           NEW i \in Occurrences
    PROVE  <<x, i>> \in Clones /\ CloneLike(table, CloneOf(table, <<x, i>>), <<x, i>>)
<1> DEFINE row == CloneOf(table, <<x, i>>)
           above == IF x = Root THEN Shell ELSE <<table[x].parent, i>>
<1>1. x \in Ids \ {Master, Shell} /\ (x # Root => table[x].parent \in Ids \ {Master, Shell})
  BY TemplateOwn
<1>2. <<x, i>> \in Clones /\ (x # Root => <<table[x].parent, i>> \in Clones)
  BY <1>1 DEF Clones
<1>3. above \in All
  BY <1>2, Names
<1>4. table[x] \in Record
  BY Rows DEF Shape
<1>5. row = [table[x] EXCEPT !.parent = above, !.status = "LINKED"]
  BY DEF CloneOf
<1> HIDE DEF row, above
<1>6. row \in Record
  BY <1>3, <1>4, <1>5 DEF Record
<1>7. /\ row.kind = table[x].kind /\ row.critical = table[x].critical
      /\ row.order = table[x].order /\ row.status = "LINKED" /\ row.parent = above
  BY <1>4, <1>5 DEF Record
<1>8. CloneLike(table, row, <<x, i>>)
  BY <1>2, <1>6, <1>7, NoneAssumption DEF CloneLike, above
<1> QED BY <1>2, <1>8 DEF row

\* The plans there are hang where they hung, and linked clones have come under the
\* repetition and under clones that are linked.
Grows(table, new, made) ==
    /\ Typed(new) /\ Placed(new)
    /\ made \subseteq Clones /\ made \cap PlansIn(table) = {}
    /\ PlansIn(new) = PlansIn(table) \cup made
    /\ \A p \in PlansIn(table) : /\ new[p].parent = table[p].parent /\ new[p].kind = table[p].kind
                                 /\ new[p].status = table[p].status
    /\ \A k \in made :
          /\ k[1] \in PlansIn(table) /\ CloneLike(table, new[k], k)
          /\ k[1] # Root => /\ new[k].parent \in PlansIn(new)
                            /\ new[new[k].parent].status = "LINKED"
    /\ \A T \in SUBSET All : PlansIn(table) \subseteq T /\ Closed(new, T) => made \subseteq T

\* A tree that grows by linked clones keeps its shape.
LEMMA GrowsShape ==
    ASSUME NEW table, Shape(table), NEW new, NEW made, Grows(table, new, made)
    PROVE  Shape(new)
<1> USE DEF Grows
<1>1. \A p \in PlansIn(table) : p \in PlansIn(new) /\ p \notin made
  OBVIOUS
<1>2. \A p \in PlansIn(new) \cap Ids : p \in PlansIn(table)
  BY Names
<1>3. Rooted(new)
  <2>1. ASSUME NEW T \in SUBSET All, Master \in T, Closed(new, T)
        PROVE  PlansIn(new) \subseteq T
    <3>1. Closed(table, T)
      BY <2>1 DEF Closed
    <3>2. PlansIn(table) \subseteq T
      BY <2>1, <3>1 DEF Shape, Rooted
    <3> QED BY <2>1, <3>2
  <2>2. Master \in PlansIn(table) /\ table[Master].parent = None /\ table[Master].kind = "GOAL"
    BY DEF Shape, Rooted
  <2> QED BY <2>1, <2>2 DEF Rooted
<1>4. Kinds(new)
  <2> SUFFICES ASSUME NEW p \in PlansIn(new)
               PROVE  new[p].kind = "REPETITION" <=> p = Shell
    BY DEF Kinds
  <2>1. CASE p \in PlansIn(table)
    BY <2>1 DEF Shape, Kinds
  <2>2. CASE p \in made
    <3>1. p[1] \in PlansIn(table) /\ p[1] # Shell /\ p # Shell
      BY <2>2, Names
    <3>2. new[p].kind = table[p[1]].kind
      BY <2>2 DEF CloneLike
    <3> QED BY <3>1, <3>2 DEF Shape, Kinds
  <2> QED BY <2>1, <2>2
<1>5. OwnFit(new)
  <2> SUFFICES ASSUME NEW p \in PlansIn(table) \cap Ids
               PROVE  /\ new[p].status \in {"NOT_CLONED", "TEMPLATE"}
                      /\ new[p].status = "TEMPLATE" => p = Root
                      /\ p = Root => new[p].parent = Shell
                      /\ p \notin {Master, Root} =>
                            new[p].parent \in PlansIn(new) /\ new[new[p].parent].kind = "GOAL"
                      /\ new[p].parent \in Clones => new[new[p].parent].status = "DETACHED"
    BY <1>2 DEF OwnFit
  <2>1. p # Master => new[p].parent \in PlansIn(table)
    BY Parents
  <2>2. p = Master => new[p].parent \notin Clones
    BY Names DEF Shape, Rooted
  <2>3. new[p].status = table[p].status /\ new[p].parent = table[p].parent
    OBVIOUS
  <2> QED BY <2>1, <2>2, <2>3 DEF Shape, OwnFit
<1>6. ClonesFit(new)
  <2> SUFFICES ASSUME NEW k \in PlansIn(new) \cap Clones
               PROVE  /\ k[1] \in PlansIn(new) /\ new[k].kind = new[k[1]].kind
                      /\ new[k].status \in {"LINKED", "DETACHED"}
                      /\ k[1] = Root => new[k].parent = Shell
                      /\ k[1] # Root =>
                            /\ new[k].parent = <<new[k[1]].parent, k[2]>>
                            /\ new[k].parent \in PlansIn(new) \cap Clones
                            /\ new[k].status = "LINKED" => new[new[k].parent].status = "LINKED"
    BY DEF ClonesFit
  <2>1. CASE k \in PlansIn(table)
    <3>1. k[1] \in PlansIn(table)
      BY <2>1 DEF Shape, ClonesFit
    <3>2. k[1] # Root => table[k].parent \in PlansIn(table)
      BY <2>1 DEF Shape, ClonesFit
    <3>3. /\ new[k].parent = table[k].parent /\ new[k].kind = table[k].kind
          /\ new[k].status = table[k].status
          /\ new[k[1]].parent = table[k[1]].parent /\ new[k[1]].kind = table[k[1]].kind
      BY <2>1, <3>1
    <3>4. k[1] # Root => new[table[k].parent].status = table[table[k].parent].status
      BY <3>2
    <3> QED BY <1>1, <2>1, <3>1, <3>2, <3>3, <3>4 DEF Shape, ClonesFit
  <2>2. CASE k \in made
    <3>1. k[1] \in PlansIn(table) /\ CloneLike(table, new[k], k)
      BY <2>2
    <3>2. new[k[1]].parent = table[k[1]].parent /\ new[k[1]].kind = table[k[1]].kind
      BY <3>1
    <3> QED BY <1>1, <2>2, <3>1, <3>2 DEF CloneLike
  <2> QED BY <2>1, <2>2
<1>7. Shell \in PlansIn(new) <=> Root \in PlansIn(new)
  BY <1>1, <1>2, Names DEF Shape
<1> QED BY <1>3, <1>4, <1>5, <1>6, <1>7 DEF Shape

\* The instances of the occurrences in D are made whole: a clone of every plan of the
\* template.
LEMMA MaterializedGrows ==
    ASSUME NEW table, Shape(table), Root \in PlansIn(table), NEW D \in SUBSET Occurrences,
           \A i \in D : RootOf(i) \notin PlansIn(table),
           NEW made, made = Template(table) \X D, NEW new, new = Materialized(table, made)
    PROVE  /\ Grows(table, new, made)
           /\ \A p \in All : p \notin made => new[p] = table[p]
<1> DEFINE X == Template(table)
<1>1. X \subseteq PlansIn(table) /\ X \subseteq Ids \ {Master, Shell} /\ Root \in X
  BY TemplateOwn
<1>2. \A k \in made : /\ k = <<k[1], k[2]>> /\ k[1] \in X /\ k[2] \in D
                      /\ k[1] \in PlansIn(table) /\ k[2] \in Occurrences
  BY <1>1
<1>3. \A k \in made : k \in Clones /\ k \in All /\ CloneLike(table, CloneOf(table, k), k)
  <2> TAKE k \in made
  <2>1. k = <<k[1], k[2]>> /\ k[1] \in X \cap PlansIn(table) /\ k[2] \in Occurrences
    BY <1>2
  <2>2. <<k[1], k[2]>> \in Clones /\ CloneLike(table, CloneOf(table, <<k[1], k[2]>>), <<k[1], k[2]>>)
    BY <2>1, CloneRow
  <2> QED BY <2>1, <2>2 DEF All
<1>4. made \cap PlansIn(table) = {}
  BY <1>2, <1>3, CloneRoots
<1>5. /\ \A k \in made : new[k] = CloneOf(table, k)
      /\ \A p \in All : p \notin made => new[p] = table[p]
  BY <1>3 DEF Materialized
<1>6. Typed(new)
  <2>1. \A p \in All : new[p] \in Record \cup {None}
    BY <1>3, <1>5 DEF Shape, Typed, CloneLike
  <2> QED BY <2>1 DEF Typed, Materialized
<1>7. PlansIn(new) = PlansIn(table) \cup made
  <2>1. \A k \in made : new[k] # None
    <3> SUFFICES ASSUME NEW k \in made PROVE new[k] # None
      OBVIOUS
    <3>1. new[k] = CloneOf(table, k) /\ CloneLike(table, CloneOf(table, k), k)
      BY <1>3, <1>5
    <3> QED BY <3>1 DEF CloneLike
  <2> QED BY <1>3, <1>5, <2>1 DEF PlansIn
<1>8. \A p \in PlansIn(table) : new[p] = table[p]
  BY <1>4, <1>5, Rows DEF Shape
<1>9. \A k \in made : k[1] # Root => /\ new[k].parent = <<table[k[1]].parent, k[2]>>
                                     /\ new[k].parent \in made
  <2> TAKE k \in made
  <2> HAVE k[1] # Root
  <2>1. table[k[1]].parent \in X
    BY <1>2, TemplateOwn
  <2>2. new[k].parent = <<table[k[1]].parent, k[2]>>
    BY <1>3, <1>5 DEF CloneLike
  <2>3. k[2] \in D
    BY <1>2
  <2>4. <<table[k[1]].parent, k[2]>> \in made
    BY <2>1, <2>3
  <2> QED BY <2>2, <2>4
<1>10. Placed(new)
  <2> SUFFICES ASSUME NEW p \in PlansIn(new) \ {Master}
               PROVE  /\ IsRoot(p) => new[p].critical = None /\ new[p].order = None
                      /\ ~IsRoot(p) => new[p].critical \in BOOLEAN /\ new[p].order \in Nat
                      /\ new[p].parent = Master => new[p].critical = FALSE
    BY DEF Placed
  <2>1. CASE p \in PlansIn(table)
    BY <1>8, <2>1 DEF Shape, Placed
  <2>2. CASE p \in made
    <3>1. p[1] \in PlansIn(table) \ {Master} /\ p[1] \in Ids /\ p \in Clones /\ p \notin Ids
      BY <1>1, <1>2, <1>3, <2>2, Names
    <3>2. IsRoot(p) <=> IsRoot(p[1])
      BY <3>1, Names DEF IsRoot
    <3>3. new[p].critical = table[p[1]].critical /\ new[p].order = table[p[1]].order
      BY <1>3, <1>5, <2>2 DEF CloneLike
    <3>4. new[p].parent # Master
      <4>1. CloneLike(table, new[p], p)
        BY <1>3, <1>5, <2>2
      <4>2. new[p].parent = Shell \/ new[p].parent \in Clones
        BY <4>1 DEF CloneLike
      <4> QED BY <4>2, Names
    <3> QED BY <3>1, <3>2, <3>3, <3>4 DEF Shape, Placed
  <2> QED BY <1>7, <2>1, <2>2
<1>11. ASSUME NEW T \in SUBSET All, PlansIn(table) \subseteq T, Closed(new, T)
       PROVE  made \subseteq T
  <2> DEFINE V == {x \in X : \A i \in D : <<x, i>> \in T}
  <2>0. \A x \in X, i \in D : <<x, i>> \in made /\ <<x, i>> \in PlansIn(new)
                              /\ <<x, i>>[1] = x /\ <<x, i>>[2] = i
    BY <1>7
  <2>1. Root \in V
    <3> SUFFICES ASSUME NEW i \in D PROVE <<Root, i>> \in T
      BY <1>1
    <3>1. new[<<Root, i>>].parent = Shell
      <4>1. <<Root, i>> \in made /\ <<Root, i>>[1] = Root
        BY <1>1, <2>0
      <4>2. CloneLike(table, new[<<Root, i>>], <<Root, i>>)
        BY <1>3, <1>5, <4>1
      <4> QED BY <4>1, <4>2 DEF CloneLike
    <3>2. Shell \in T
      BY <1>11 DEF Shape
    <3> QED BY <1>1, <1>11, <2>0, <3>1, <3>2 DEF Closed
  <2>2. Closed(table, V)
    <3> SUFFICES ASSUME NEW x \in PlansIn(table), table[x].parent \in V
                 PROVE  x \in V
      BY DEF Closed
    <3>1. x \in X
      BY TemplateOwn
    <3>2. CASE x = Root
      BY <2>1, <3>2
    <3>3. CASE x # Root
      <4>1. ASSUME NEW i \in D
            PROVE  <<x, i>> \in T
        <5>1. new[<<x, i>>].parent = <<table[x].parent, i>>
          <6>1. <<x, i>> \in made /\ <<x, i>>[1] = x /\ <<x, i>>[2] = i
            BY <2>0, <3>1
          <6> HIDE DEF X
          <6> QED BY <1>9, <3>3, <6>1
        <5>2. <<table[x].parent, i>> \in T
          OBVIOUS
        <5>3. <<x, i>> \in PlansIn(new) /\ new[<<x, i>>].parent \in T
          <6> HIDE DEF V, X
          <6> QED BY <2>0, <3>1, <5>1, <5>2
        <5>4. Closed(new, T)
          BY <1>11
        <5> QED BY ONLY <5>3, <5>4 DEF Closed
      <4> QED BY <3>1, <4>1
    <3> QED BY <3>2, <3>3
  <2>3. X \subseteq V
    <3>1. V \in SUBSET All /\ Root \in All
      BY <1>1, Names
    <3> HIDE DEF V
    <3> QED BY <2>1, <2>2, <3>1, BelowIsLeast DEF Template
  <2> QED BY <1>2, <2>3
<1>12. \A k \in made :
          /\ k[1] \in PlansIn(table) /\ CloneLike(table, new[k], k)
          /\ k[1] # Root => /\ new[k].parent \in PlansIn(new)
                            /\ new[new[k].parent].status = "LINKED"
  <2> TAKE k \in made
  <2>1. k[1] \in PlansIn(table) /\ CloneLike(table, new[k], k)
    BY <1>2, <1>3, <1>5
  <2>2. k[1] # Root => new[k].parent \in made
    BY <1>9
  <2>3. \A j \in made : new[j].status = "LINKED"
    BY <1>3, <1>5 DEF CloneLike
  <2> QED BY <1>7, <2>1, <2>2, <2>3
<1>13. Grows(table, new, made)
  <2>1. made \subseteq Clones
    BY <1>3
  <2> QED BY <1>4, <1>6, <1>7, <1>8, <1>10, <1>11, <1>12, <2>1 DEF Grows
<1> QED BY <1>5, <1>13

\* What would be above the plan if it were made.
Over(table, k) == <<table[k[1]].parent, k[2]>>

\* The missing clones are those that can be made one under the other, starting from
\* plans in the template's hands.
LEMMA MissingIs ==
    ASSUME NEW table, Shape(table), NEW insts
    PROVE  LET N == Missing(table, insts)
               wanted == (Template(table) \ {Root}) \X Existing(insts)
           IN  /\ \A k \in N : /\ k \in wanted /\ k \in Clones /\ k \notin PlansIn(table)
                               /\ Over(table, k) \in InHand(table) \cup N
               /\ \A k \in wanted : k \notin PlansIn(table) /\ Over(table, k) \in InHand(table) \cup N
                                    => k \in N
               /\ \A T : InHand(table) \subseteq T /\ (\A k \in N : Over(table, k) \in T => k \in T)
                         => N \subseteq T
<1> DEFINE wanted == (Template(table) \ {Root}) \X Existing(insts)
           absent == {k \in wanted : table[k] = None}
           more(S) == S \cup {k \in absent : Over(table, k) \in S}
           step == [S \in SUBSET All |-> more(S)]
           grown == CHOOSE g : g = [S \in SUBSET All |-> IF more(S) = S THEN S ELSE g[more(S)]]
           H == InHand(table)
           G == grown[H]
           N == Missing(table, insts)
<1>1. \A k \in wanted : k \in Clones /\ k \in All /\ (k \notin PlansIn(table) <=> table[k] = None)
  <2> TAKE k \in wanted
  <2>1. k = <<k[1], k[2]>> /\ k[1] \in Ids \ {Master, Shell} /\ k[2] \in Occurrences
    BY TemplateOwn DEF Existing
  <2>2. k \in Clones
    BY <2>1 DEF Clones
  <2> QED BY <2>2, Rows DEF Shape, All
<1>2. H \in SUBSET All
  BY Rows DEF InHand, Shape
<1>3. Growing(All, step)
  <2>1. \A S \in SUBSET All : more(S) \in SUBSET All /\ S \subseteq more(S)
    BY <1>1
  <2>2. \A S, T \in SUBSET All : S \subseteq T => more(S) \subseteq more(T)
    OBVIOUS
  <2> HIDE DEF more
  <2> QED BY <2>1, <2>2 DEF Growing
<1>4. \A g : Saturates(All, step, g)
             <=> g = [S \in SUBSET All |-> IF more(S) = S THEN S ELSE g[more(S)]]
  <2> TAKE g
  <2>1. \A S \in SUBSET All : (IF step[S] = S THEN S ELSE g[step[S]])
                                = (IF more(S) = S THEN S ELSE g[more(S)])
    OBVIOUS
  <2> HIDE DEF step, more
  <2> QED BY <2>1 DEF Saturates
<1>5. Saturates(All, step, grown)
  <2> HIDE DEF step, more
  <2>1. \E g : g = [S \in SUBSET All |-> IF more(S) = S THEN S ELSE g[more(S)]]
    BY <1>3, <1>4, ClosureExists
  <2>2. grown = [S \in SUBSET All |-> IF more(S) = S THEN S ELSE grown[more(S)]]
    BY <2>1
  <2> HIDE DEF grown
  <2> QED BY <1>4, <2>2
<1>6. LeastAround(All, step, H, G)
  <2> HIDE DEF step, grown, H
  <2> QED BY <1>2, <1>3, <1>5, AllFinite, ClosureIsLeast
<1>7. N = absent \cap G
  BY DEF Missing, Over
<1> HIDE DEF grown, N, H
<1>8. \A V \in SUBSET All : step[V] = V <=> \A k \in absent : Over(table, k) \in V => k \in V
  OBVIOUS
<1>9. /\ G \in SUBSET All /\ H \subseteq G
      /\ \A k \in absent : Over(table, k) \in G => k \in G
      /\ \A V \in SUBSET All : H \subseteq V /\ (\A k \in absent : Over(table, k) \in V => k \in V)
                               => G \subseteq V
  <2> HIDE DEF step, G, absent
  <2> QED BY <1>6, <1>8 DEF LeastAround
<1> HIDE DEF G, step, more
<1>10. G \subseteq H \cup N
  <2>1. H \cup N \in SUBSET All
    BY <1>1, <1>2, <1>7
  <2>2. \A k \in absent : Over(table, k) \in H \cup N => k \in H \cup N
    BY <1>7, <1>9
  <2> QED BY <1>9, <2>1, <2>2
<1>11. \A k \in N : Over(table, k) \in H \cup N
  <2> SUFFICES ASSUME NEW k \in N, Over(table, k) \notin H \cup N
               PROVE  FALSE
    OBVIOUS
  <2> DEFINE V == G \ {k}
  <2>1. k \in absent /\ k \notin H
    BY <1>1, <1>7 DEF H, InHand
  <2>2. Over(table, k) \notin G
    BY <1>10
  <2>3. V \in SUBSET All /\ H \subseteq V
    BY <1>9, <2>1
  <2>4. \A j \in absent : Over(table, j) \in V => j \in V
    BY <1>9, <2>2
  <2>5. G \subseteq V
    <3> HIDE DEF V
    <3> QED BY <1>9, <2>3, <2>4
  <2> QED BY <1>7, <2>5
<1>12. \A k \in N : k \in wanted /\ k \in Clones /\ k \notin PlansIn(table)
  BY <1>1, <1>7
<1>13. ASSUME NEW k \in wanted, k \notin PlansIn(table), Over(table, k) \in H \cup N
       PROVE  k \in N
  BY <1>1, <1>7, <1>9, <1>13
<1>14. ASSUME NEW T, H \subseteq T, \A k \in N : Over(table, k) \in T => k \in T
       PROVE  N \subseteq T
  <2> DEFINE V == T \cap G
  <2>1. V \in SUBSET All /\ H \subseteq V
    BY <1>9, <1>14
  <2>2. \A k \in absent : Over(table, k) \in V => k \in V
    BY <1>7, <1>9, <1>14
  <2>3. G \subseteq V
    <3> HIDE DEF V
    <3> QED BY <1>9, <2>1, <2>2
  <2> QED BY <1>7, <2>3
<1> HIDE DEF wanted
<1>15. /\ \A k \in N : /\ k \in wanted /\ k \in Clones /\ k \notin PlansIn(table)
                       /\ Over(table, k) \in H \cup N
       /\ \A k \in wanted : k \notin PlansIn(table) /\ Over(table, k) \in H \cup N => k \in N
       /\ \A T : H \subseteq T /\ (\A k \in N : Over(table, k) \in T => k \in T) => N \subseteq T
  BY <1>11, <1>12, <1>13, <1>14
<1> QED BY <1>15 DEF N, H, wanted

\* Who is in the template's hands.
LEMMA InHandIs ==
    ASSUME NEW table, Shape(table)
    PROVE  InHand(table) = {p \in PlansIn(table) : table[p].status # "DETACHED"}
BY LinkedIs DEF InHand

\* What Followed leaves and what it writes.
LEMMA FollowedGrows ==
    ASSUME NEW table, Shape(table), NEW insts,
           NEW made, made = Missing(table, insts), NEW new, new = Followed(table, insts)
    PROVE  /\ Grows(table, new, made)
           /\ \A p \in PlansIn(table) : p \in Ids \/ table[p].status = "DETACHED" => new[p] = table[p]
           /\ \A k \in PlansIn(table) \cap Clones :
                 table[k].status = "LINKED" /\ k[1] # Root /\ k[2] \in Existing(insts) =>
                    new[k].critical = table[k[1]].critical /\ new[k].order = table[k[1]].order
<1> DEFINE linked == {k \in InHand(table) \cap Clones :
                         k[2] \in Existing(insts) /\ table[k[1]].critical # None}
           wanted == (Template(table) \ {Root}) \X Existing(insts)
<1>1. /\ \A k \in made : /\ k \in wanted /\ k \in Clones /\ k \notin PlansIn(table)
                         /\ Over(table, k) \in InHand(table) \cup made
      /\ \A T : InHand(table) \subseteq T /\ (\A k \in made : Over(table, k) \in T => k \in T)
                => made \subseteq T
  BY MissingIs
<1>2. new = [p \in All |->
                IF p \in made THEN CloneOf(table, p)
                ELSE IF p \in linked THEN [table[p] EXCEPT !.critical = table[p[1]].critical,
                                                           !.order = table[p[1]].order]
                ELSE table[p]]
  BY DEF Followed
<1>3. InHand(table) = {p \in PlansIn(table) : table[p].status # "DETACHED"}
  BY InHandIs
<1>4. \A k \in made : /\ k = <<k[1], k[2]>> /\ k[1] \in Template(table) \ {Root}
                      /\ k[1] \in PlansIn(table) /\ k[2] \in Occurrences /\ k \in All
  <2> TAKE k \in made
  <2>1. k = <<k[1], k[2]>> /\ k[1] \in Template(table) \ {Root} /\ k[2] \in Existing(insts)
    BY <1>1
  <2> QED BY <1>1, <2>1, TemplateOwn DEF Existing, All
<1>5. \A k \in made : new[k] = CloneOf(table, k) /\ CloneLike(table, new[k], k)
                      /\ new[k].parent = Over(table, k) /\ new[k].status = "LINKED"
  <2> TAKE k \in made
  <2>1. new[k] = CloneOf(table, k)
    BY <1>2, <1>4
  <2>2. k = <<k[1], k[2]>> /\ k[1] \in Template(table) \cap PlansIn(table) /\ k[2] \in Occurrences
    BY <1>4
  <2>3. CloneLike(table, CloneOf(table, <<k[1], k[2]>>), <<k[1], k[2]>>)
    BY <2>2, CloneRow
  <2>4. CloneLike(table, new[k], k)
    BY <2>1, <2>2, <2>3
  <2> QED BY <1>4, <2>1, <2>4 DEF CloneLike, Over
<1>6. \A k \in linked : /\ k \in PlansIn(table) \cap Clones /\ k[1] \in PlansIn(table) \cap Ids
                        /\ k[1] # Root /\ k[1] # Master
                        /\ table[k[1]].critical \in BOOLEAN /\ table[k[1]].order \in Nat
  <2> TAKE k \in linked
  <2>1. k \in PlansIn(table) \cap Clones /\ table[k[1]].critical # None
    BY <1>3
  <2>2. k[1] \in PlansIn(table) /\ k[1] \in Ids /\ k[1] # Master
    BY <2>1, Names DEF Shape, ClonesFit
  <2>3. ~IsRoot(k[1])
    BY <2>1, <2>2 DEF Shape, Placed
  <2> QED BY <2>1, <2>2, <2>3 DEF Shape, Placed, IsRoot
<1>7. ASSUME NEW k \in linked
      PROVE  /\ new[k] \in Record /\ new[k] # None
             /\ new[k].parent = table[k].parent /\ new[k].kind = table[k].kind
             /\ new[k].status = table[k].status
             /\ new[k].critical = table[k[1]].critical /\ new[k].order = table[k[1]].order
  <2> DEFINE c == table[k[1]].critical
             n == table[k[1]].order
  <2>1. k \in All /\ k \notin made /\ table[k] \in Record /\ c \in BOOLEAN /\ n \in Nat
    BY <1>1, <1>6, Rows DEF Shape
  <2>2. new[k] = [table[k] EXCEPT !.critical = c, !.order = n]
    <3> HIDE DEF linked
    <3> QED BY <1>2, <1>7, <2>1
  <2> HIDE DEF c, n
  <2>3. new[k] \in Record
    BY <2>1, <2>2 DEF Record
  <2>4. /\ new[k].parent = table[k].parent /\ new[k].kind = table[k].kind
        /\ new[k].status = table[k].status /\ new[k].critical = c /\ new[k].order = n
    BY <2>1, <2>2 DEF Record
  <2> QED BY <2>3, <2>4, NoneAssumption DEF c, n
<1>8. \A p \in All : p \notin made /\ p \notin linked => new[p] = table[p]
  <2> HIDE DEF linked
  <2> QED BY <1>2
<1>9. \A p \in PlansIn(table) : p \in All /\ p \notin made
  BY <1>1, Rows DEF Shape
<1>10. \A p \in PlansIn(table) : /\ new[p].parent = table[p].parent /\ new[p].kind = table[p].kind
                                 /\ new[p].status = table[p].status
  <2> HIDE DEF linked
  <2> QED BY <1>7, <1>8, <1>9
<1>11. \A p \in PlansIn(table) : p \in Ids \/ table[p].status = "DETACHED" => new[p] = table[p]
  BY <1>3, <1>8, <1>9, Names
<1>12. ASSUME NEW k \in PlansIn(table) \cap Clones, table[k].status = "LINKED", k[1] # Root,
              k[2] \in Existing(insts)
       PROVE  new[k].critical = table[k[1]].critical /\ new[k].order = table[k[1]].order
  <2>1. k[1] \in PlansIn(table) \ {Master} /\ ~IsRoot(k[1])
    BY <1>12, Names DEF Shape, ClonesFit, IsRoot
  <2>2. table[k[1]].critical \in BOOLEAN
    BY <2>1 DEF Shape, Placed
  <2>3. k \in linked
    BY <1>3, <1>12, <2>2, NoneAssumption
  <2> HIDE DEF linked
  <2> QED BY <1>7, <2>3
<1>13. Typed(new)
  <2>1. \A p \in All : new[p] \in Record \cup {None}
    <3> HIDE DEF linked
    <3> QED BY <1>5, <1>7, <1>8 DEF Shape, Typed, CloneLike
  <2> HIDE DEF linked
  <2> QED BY <1>2, <2>1 DEF Typed
<1>14. PlansIn(new) = PlansIn(table) \cup made
  <2>1. \A p \in All : p \in PlansIn(new) <=> p \in PlansIn(table) \/ p \in made
    <3> TAKE p \in All
    <3>1. CASE p \in made
      BY <1>5, <3>1 DEF CloneLike, PlansIn
    <3>2. CASE p \in linked
      <4>1. p \in PlansIn(table)
        BY <1>6, <3>2
      <4> HIDE DEF linked
      <4> QED BY <1>7, <3>2, <4>1 DEF PlansIn
    <3>3. CASE p \notin made /\ p \notin linked
      <4> HIDE DEF linked
      <4> QED BY <1>8, <3>3 DEF PlansIn
    <3> HIDE DEF linked
    <3> QED BY <3>1, <3>2, <3>3
  <2>2. PlansIn(new) \subseteq All
    BY DEF PlansIn
  <2> QED BY <1>4, <1>9, <2>1, <2>2
<1> HIDE DEF linked, wanted
<1>15. Placed(new)
  <2> SUFFICES ASSUME NEW p \in PlansIn(new) \ {Master}
               PROVE  /\ IsRoot(p) => new[p].critical = None /\ new[p].order = None
                      /\ ~IsRoot(p) => new[p].critical \in BOOLEAN /\ new[p].order \in Nat
                      /\ new[p].parent = Master => new[p].critical = FALSE
    BY DEF Placed
  <2>1. CASE p \in linked
    <3>1. p \in PlansIn(table) \cap Clones /\ ~IsRoot(p)
      BY <1>6, <2>1, Names DEF IsRoot
    <3>2. new[p].parent # Master
      <4>1. table[p].parent = Shell \/ table[p].parent \in Clones
        BY <3>1 DEF Shape, ClonesFit
      <4> QED BY <1>7, <2>1, <4>1, Names
    <3> QED BY <1>6, <1>7, <2>1, <3>1, <3>2
  <2>2. CASE p \in made
    <3>1. p[1] \in PlansIn(table) \ {Master} /\ ~IsRoot(p[1]) /\ ~IsRoot(p)
      <4>1. p[1] \in Ids \ {Master, Shell, Root} /\ p[1] \in PlansIn(table) /\ p \in Clones
        BY <1>1, <1>4, <2>2, TemplateOwn
      <4> QED BY <4>1, Names DEF IsRoot
    <3>2. new[p].critical = table[p[1]].critical /\ new[p].order = table[p[1]].order
      BY <1>5, <2>2 DEF CloneLike
    <3>3. new[p].parent # Master
      <4>1. new[p].parent \in Clones
        BY <1>4, <1>5, <2>2 DEF CloneLike
      <4> QED BY <4>1, Names
    <3> QED BY <3>1, <3>2, <3>3 DEF Shape, Placed
  <2>3. CASE p \notin linked /\ p \notin made
    BY <1>8, <1>9, <1>14, <2>3 DEF Shape, Placed
  <2> QED BY <2>1, <2>2, <2>3
<1>16. \A k \in made : new[k].parent \in PlansIn(new) /\ new[new[k].parent].status = "LINKED"
  <2> TAKE k \in made
  <2>1. Over(table, k) \in InHand(table) \cup made /\ new[k].parent = Over(table, k)
    BY <1>1, <1>5
  <2>2. CASE Over(table, k) \in made
    BY <1>5, <1>14, <2>1, <2>2
  <2>3. CASE Over(table, k) \in InHand(table)
    <3>1. Over(table, k) \in PlansIn(table) \cap Clones
      BY <1>3, <1>4, <1>5, <2>1, <2>3 DEF CloneLike
    <3>2. table[Over(table, k)].status = "LINKED"
      BY <1>3, <2>3, <3>1 DEF Shape, ClonesFit
    <3> QED BY <1>10, <1>14, <2>1, <3>1, <3>2
  <2> QED BY <2>1, <2>2, <2>3
<1>17. ASSUME NEW T \in SUBSET All, PlansIn(table) \subseteq T, Closed(new, T)
       PROVE  made \subseteq T
  <2>1. InHand(table) \subseteq T
    BY <1>3, <1>17
  <2>2. \A k \in made : Over(table, k) \in T => k \in T
    BY <1>5, <1>14, <1>17 DEF Closed
  <2> QED BY <1>1, <2>1, <2>2
<1>18. Grows(table, new, made)
  <2>1. made \subseteq Clones /\ made \cap PlansIn(table) = {}
    BY <1>1
  <2> QED BY <1>4, <1>5, <1>10, <1>13, <1>14, <1>15, <1>16, <1>17, <2>1 DEF Grows
<1> QED BY <1>11, <1>12, <1>18

\* Clones that are made do not change the template.
LEMMA TemplateKept ==
    ASSUME NEW table, Shape(table), NEW new, NEW made, Grows(table, new, made)
    PROVE  Template(new) = Template(table)
<1> DEFINE X == Template(table)
           Y == Template(new)
<1>1. X \subseteq Ids \ {Master, Shell} /\ Root \in X /\ X \in SUBSET All /\ Root \in All
  BY TemplateOwn, Names
<1>2. Y \in SUBSET All /\ Root \in Y /\ Closed(new, Y)
      /\ \A T \in SUBSET All : Root \in T /\ Closed(new, T) => Y \subseteq T
  BY <1>1, BelowIsLeast DEF Template
<1>3. Closed(table, X) /\ \A T \in SUBSET All : Root \in T /\ Closed(table, T) => X \subseteq T
  BY <1>1, BelowIsLeast DEF Template
<1> HIDE DEF X, Y
<1>4. Closed(new, X)
  <2> SUFFICES ASSUME NEW q \in PlansIn(new), new[q].parent \in X
               PROVE  q \in X
    BY DEF Closed
  <2>1. CASE q \in PlansIn(table)
    BY <1>3, <2>1 DEF Grows, Closed
  <2>2. CASE q \in made
    <3>1. new[q].parent = Shell \/ new[q].parent \in Clones
      BY <2>2 DEF Grows, CloneLike
    <3> QED BY <1>1, <3>1, Names
  <2> QED BY <2>1, <2>2 DEF Grows
<1>5. Closed(table, Y)
  BY <1>2 DEF Grows, Closed
<1>6. X = Y
  BY <1>1, <1>2, <1>3, <1>4, <1>5
<1> QED BY <1>6 DEF X, Y

\* Goals that are no clones keep their children, and no clone is one of them.
LEMMA GrowsOwnOrder ==
    ASSUME NEW table, Shape(table), NEW new, NEW made, Grows(table, new, made),
           \A p \in PlansIn(table) \cap Ids : new[p] = table[p], OwnOrder(table)
    PROVE  OwnOrder(new)
<1> SUFFICES ASSUME NEW g \in PlansIn(new) \cap Ids, NEW c \in BOOLEAN, new[g].kind = "GOAL"
             PROVE  Dense(new, g, c)
  BY DEF OwnOrder
<1>1. g \in PlansIn(table) \cap Ids /\ table[g].kind = "GOAL"
  BY Names DEF Grows
<1>2. g # Shell
  BY <1>1 DEF Shape, Kinds
<1>3. \A p \in made : new[p].parent # g
  <2> TAKE p \in made
  <2>1. new[p].parent = Shell \/ new[p].parent \in Clones
    BY DEF Grows, CloneLike
  <2> QED BY <1>1, <1>2, <2>1, Names
<1>4. \A p \in PlansIn(table) : table[p].parent = g => p \in Ids
  <2> TAKE p \in PlansIn(table)
  <2>1. p \in Clones => table[p].parent = Shell \/ table[p].parent \in Clones
    BY DEF Shape, ClonesFit
  <2> QED BY <1>1, <1>2, <2>1, Names, Rows DEF Shape
<1>5. Children(new, g) = Children(table, g) /\ \A p \in Children(table, g) : new[p] = table[p]
  BY <1>3, <1>4 DEF Children, Grows
<1>6. Bucket(new, g, c) = Bucket(table, g, c)
      /\ \A p \in Bucket(table, g, c) : new[p].order = table[p].order
  BY <1>5 DEF Bucket
<1>7. Dense(table, g, c)
  BY <1>1 DEF OwnOrder
<1> QED BY <1>6, <1>7, DenseSame

\* Following the template once leaves nothing to follow.
LEMMA FollowedSettles ==
    ASSUME NEW table, Shape(table), NEW insts, NEW once, once = Followed(table, insts)
    PROVE  Followed(once, insts) = once
<1> DEFINE made == Missing(table, insts)
           again == Missing(once, insts)
           wanted == (Template(table) \ {Root}) \X Existing(insts)
<1>1. /\ Grows(table, once, made)
      /\ \A p \in PlansIn(table) : p \in Ids \/ table[p].status = "DETACHED" => once[p] = table[p]
      /\ \A k \in PlansIn(table) \cap Clones :
            table[k].status = "LINKED" /\ k[1] # Root /\ k[2] \in Existing(insts) =>
               once[k].critical = table[k[1]].critical /\ once[k].order = table[k[1]].order
  BY FollowedGrows
<1>2. \A k \in wanted : k \notin PlansIn(table) /\ Over(table, k) \in InHand(table) \cup made
                        => k \in made
  BY MissingIs
<1> HIDE DEF made
<1>3. Shape(once) /\ Template(once) = Template(table)
  BY <1>1, GrowsShape, TemplateKept
<1>4. /\ \A k \in again : k \in wanted /\ k \notin PlansIn(once)
      /\ \A T : InHand(once) \subseteq T /\ (\A k \in again : Over(once, k) \in T => k \in T)
                => again \subseteq T
  BY <1>3, MissingIs
<1> HIDE DEF again
<1>5. InHand(once) \subseteq InHand(table) \cup made /\ InHand(once) \subseteq PlansIn(once)
  BY <1>1, <1>3, InHandIs DEF Grows
<1>6. \A k \in again : Over(once, k) \in InHand(once) => k \in InHand(once)
  <2> SUFFICES ASSUME NEW k \in again, Over(once, k) \in InHand(once)
               PROVE  FALSE
    OBVIOUS
  <2>1. k \in wanted /\ k \notin PlansIn(once) /\ k \notin PlansIn(table)
    BY <1>1, <1>4 DEF Grows
  <2>2. k[1] \in PlansIn(table)
    BY <2>1, TemplateOwn
  <2>3. Over(once, k) = Over(table, k)
    BY <1>1, <2>2 DEF Over, Grows
  <2> HIDE DEF wanted
  <2>4. k \in made
    BY <1>2, <1>5, <2>1, <2>3
  <2> QED BY <1>1, <2>1, <2>4 DEF Grows
<1>7. again = {}
  BY <1>4, <1>5, <1>6
<1> DEFINE linked == {k \in InHand(once) \cap Clones :
                         k[2] \in Existing(insts) /\ once[k[1]].critical # None}
           next(p) == IF p \in again THEN CloneOf(once, p)
                      ELSE IF p \in linked THEN [once[p] EXCEPT !.critical = once[p[1]].critical,
                                                                !.order = once[p[1]].order]
                      ELSE once[p]
<1>8. Followed(once, insts) = [p \in All |-> next(p)]
  BY DEF Followed, again
<1>9. ASSUME NEW p \in linked
      PROVE  /\ once[p] \in Record /\ once[p[1]].critical = once[p].critical
             /\ once[p[1]].order = once[p].order
  <2>1. p \in PlansIn(once) \cap Clones /\ once[p].status # "DETACHED"
        /\ p[2] \in Existing(insts) /\ once[p[1]].critical # None
    BY <1>3, InHandIs
  <2>2. p[1] \in PlansIn(table) \cap Ids /\ p[1] # Master
    BY <1>1, <1>3, <2>1, Names DEF Shape, ClonesFit, Grows
  <2>3. once[p[1]] = table[p[1]]
    BY <1>1, <2>2
  <2>4. p[1] # Root
    BY <2>1, <2>2, <2>3, Names DEF Shape, Placed, IsRoot
  <2>5. CASE p \in made
    BY <1>1, <1>3, <2>1, <2>3, <2>5, Rows DEF Grows, CloneLike, Shape
  <2>6. CASE p \in PlansIn(table)
    <3>1. table[p].status = "LINKED"
      BY <1>1, <2>1, <2>6 DEF Grows, Shape, ClonesFit
    <3> QED BY <1>1, <1>3, <2>1, <2>3, <2>4, <2>6, <3>1, Rows DEF Shape
  <2> QED BY <1>1, <2>1, <2>5, <2>6 DEF Grows
<1>10. \A r \in Record : [r EXCEPT !.critical = r.critical, !.order = r.order] = r
  BY DEF Record
<1>11. \A p \in All : next(p) = once[p]
  <2> TAKE p \in All
  <2>1. CASE p \in linked
    <3> DEFINE r == once[p]
    <3>1. r \in Record /\ once[p[1]].critical = r.critical /\ once[p[1]].order = r.order
      BY <1>9, <2>1
    <3> HIDE DEF linked, r
    <3>2. [r EXCEPT !.critical = once[p[1]].critical, !.order = once[p[1]].order] = r
      BY <1>10, <3>1
    <3> QED BY <1>7, <2>1, <3>2 DEF r
  <2>2. CASE p \notin linked
    <3> HIDE DEF linked
    <3> QED BY <1>7, <2>2
  <2> QED BY <2>1, <2>2
<1>12. once = [p \in All |-> once[p]]
  BY <1>1 DEF Grows, Typed
<1> HIDE DEF next
<1> QED BY <1>8, <1>11, <1>12

-----------------------------------------------------------------------------
(* A refresh.                                                              *)

\* What is due: numbered occurrences that are neither instances nor skipped.
LEMMA DueIs ==
    ASSUME OccurrencesFit
    PROVE  /\ Due(instance) \in SUBSET Occurrences /\ Due(instance) \cap Existing(instance) = {}
           /\ Due(instance) \cap skipped = {}
           /\ \E n \in 0 .. Cardinality(Occurrences) :
                 (Existing(instance) \cup Due(instance)) \cup skipped = 0 .. n - 1
<1> DEFINE D == Due(instance)
           E == Existing(instance)
           size == Cardinality(Occurrences)
<1>1. D = (0 .. count - 1) \ (E \cup skipped)
  BY DEF Due
<1>2. size \in Nat /\ count \in 1 .. size /\ Occurrences = 0 .. size - 1
  BY BoundsAssumption, AllFinite DEF OccurrencesFit
<1>3. PICK n \in 0 .. size : E \cup skipped = 0 .. n - 1
  BY DEF OccurrencesFit
<1> HIDE DEF D, E, size
<1>4. count - 1 \in Int /\ n - 1 \in Int /\ size - 1 \in Int /\ n \in Nat /\ count \in Nat
  BY <1>2, <1>3
<1>5. 0 .. count - 1 \subseteq 0 .. size - 1
  BY <1>2, <1>4
<1>6. D \in SUBSET Occurrences /\ D \cap E = {} /\ D \cap skipped = {}
  BY <1>1, <1>2, <1>5
<1>7. (E \cup D) \cup skipped = (0 .. n - 1) \cup (0 .. count - 1)
  BY <1>1, <1>3
<1>8. \E m \in 0 .. size : (0 .. n - 1) \cup (0 .. count - 1) = 0 .. m - 1
  <2>1. CASE n <= count
    <3>1. (0 .. n - 1) \cup (0 .. count - 1) = 0 .. count - 1
      BY <1>4, <2>1
    <3>2. count \in 0 .. size
      BY <1>2
    <3> QED BY <3>1, <3>2
  <2>2. CASE ~(n <= count)
    <3>1. (0 .. n - 1) \cup (0 .. count - 1) = 0 .. n - 1
      BY <1>4, <2>2
    <3> QED BY <1>3, <3>1
  <2> QED BY <2>1, <2>2
<1> QED BY <1>6, <1>7, <1>8 DEF D, E, size

\* New instances follow the ones of their bucket.
LEMMA AppendedFits ==
    ASSUME OccurrencesFit
    PROVE  /\ Fit(Appended(instance)) /\ InstanceOrder(Appended(instance))
           /\ Existing(Appended(instance)) = Existing(instance) \cup Due(instance)
<1> DEFINE new == Appended(instance)
           D == Due(instance)
           B == OfBucket(instance, DefaultCritical)
           next == Above({instance[i].order : i \in B})
           R == {ij \in D \X D : ij[1] < ij[2]}
           before(i) == Cardinality({j \in D : j < i})
<1>1. D \in SUBSET Occurrences /\ D \cap Existing(instance) = {} /\ Fit(instance)
      /\ DefaultCritical \in BOOLEAN
  BY DueIs, BoundsAssumption DEF OccurrencesFit, Fit
<1>2. B \in SUBSET Existing(instance) /\ Existing(instance) \in SUBSET Occurrences
  BY DEF OfBucket, Existing
<1>3. /\ IsFiniteSet(D) /\ IsFiniteSet(B) /\ Cardinality(D) \in Nat /\ Cardinality(B) \in Nat
  <2>1. B \in SUBSET Occurrences
    BY <1>2
  <2> HIDE DEF B, D
  <2> QED BY <1>1, <2>1, AllFinite
<1>4. {instance[i].order : i \in B} = 0 .. Cardinality(B) - 1
  BY <1>1 DEF OccurrencesFit, InstanceOrder
<1>5. next = Cardinality(B)
  <2> HIDE DEF B
  <2> QED BY <1>3, <1>4, AboveDense
<1>6. new = [i \in Occurrences |->
                IF i \in D THEN [critical |-> DefaultCritical, order |-> next + before(i)]
                ELSE instance[i]]
  BY DEF Appended
<1>7. /\ \A i \in D : before(i) \in 0 .. Cardinality(D) - 1
      /\ \A n \in 0 .. Cardinality(D) - 1 : \E i \in D : before(i) = n
  <2>1. StrictOrder(D, R)
    <3>1. \A i \in D : i \in Int
      <4> DEFINE size == Cardinality(Occurrences)
      <4>1. Occurrences = 0 .. size - 1
        BY BoundsAssumption
      <4> HIDE DEF size, D
      <4> QED BY <1>1, <4>1
    <3> HIDE DEF D
    <3> QED BY <3>1 DEF StrictOrder
  <2>2. Rank(D, R) \in Bijection(D, 0 .. Cardinality(D) - 1)
    <3> HIDE DEF R, D
    <3> QED BY <1>3, <2>1, Ranks
  <2>3. \A i \in D : Rank(D, R)[i] = before(i)
    <3> TAKE i \in D
    <3>1. {j \in D : <<j, i>> \in R} = {j \in D : j < i}
      OBVIOUS
    <3> HIDE DEF R, D
    <3> QED BY <3>1 DEF Rank
  <2> HIDE DEF R, D, before
  <2> QED BY <2>2, <2>3 DEF Bijection, Injection, Surjection
<1> HIDE DEF new, D, next, before, R, B
<1>8. ASSUME NEW i \in D
      PROVE  /\ new[i] \in Instance /\ new[i] # None /\ new[i].critical = DefaultCritical
             /\ new[i].order = Cardinality(B) + before(i)
  <2>1. new[i] = [critical |-> DefaultCritical, order |-> next + before(i)]
    BY <1>1, <1>6
  <2>2. next + before(i) \in Nat
    BY <1>3, <1>5, <1>7
  <2>3. new[i] \in Instance
    BY <1>1, <2>1, <2>2 DEF Instance
  <2> QED BY <1>5, <2>1, <2>3, NoneAssumption
<1>9. \A i \in Occurrences : i \notin D => new[i] = instance[i]
  BY <1>6
<1>10. Fit(new)
  <2>1. \A i \in Occurrences : new[i] \in Instance \cup {None}
    BY <1>1, <1>8, <1>9 DEF Fit
  <2> QED BY <1>6, <2>1 DEF Fit
<1>11. Existing(new) = Existing(instance) \cup D
  BY <1>1, <1>2, <1>8, <1>9 DEF Existing
<1>12. \A i \in Existing(instance) : i \notin D /\ new[i] = instance[i]
  BY <1>1, <1>2, <1>9
<1>13. OfBucket(new, DefaultCritical) = B \cup D
  BY <1>8, <1>11, <1>12 DEF OfBucket, B
<1>14. \A c \in BOOLEAN \ {DefaultCritical} : OfBucket(new, c) = OfBucket(instance, c)
  BY <1>8, <1>11, <1>12 DEF OfBucket
<1>15. Even(new, DefaultCritical)
  <2> DEFINE m == Cardinality(B)
             n == Cardinality(D)
  <2>1. Cardinality(B \cup D) = m + n
    <3>1. B \cap D = {}
      BY <1>1, <1>2
    <3>2. Cardinality(B \cap D) = 0
      BY <3>1, FS_EmptySet
    <3>3. Cardinality(B \cup D) = Cardinality(B) + Cardinality(D) - Cardinality(B \cap D)
      BY <1>3, FS_Union
    <3> QED BY <1>3, <3>2, <3>3
  <2>2. m \in Nat /\ n \in Nat
    BY <1>3
  <2>3. \A i \in B : new[i].order = instance[i].order
    BY <1>2, <1>12
  <2>4. /\ \A i \in B : new[i].order \in 0 .. m - 1
        /\ \A k \in 0 .. m - 1 : \E i \in B : new[i].order = k
    BY <1>4, <2>3
  <2>5. /\ \A i \in D : before(i) \in 0 .. n - 1 /\ new[i].order = m + before(i)
        /\ \A k \in 0 .. n - 1 : \E i \in D : before(i) = k
    BY <1>7, <1>8
  <2> HIDE DEF m, n
  <2>6. \A i \in B \cup D : new[i].order \in 0 .. (m + n) - 1
    BY <2>2, <2>4, <2>5
  <2>7. \A k \in 0 .. (m + n) - 1 : \E i \in B \cup D : new[i].order = k
    <3> TAKE k \in 0 .. (m + n) - 1
    <3>1. CASE k < m
      BY <2>2, <2>4, <3>1
    <3>2. CASE ~(k < m)
      <4>1. k - m \in 0 .. n - 1 /\ m + (k - m) = k
        BY <2>2, <3>2
      <4>2. PICK i \in D : before(i) = k - m
        BY <2>5, <4>1
      <4> QED BY <2>5, <4>1, <4>2
    <3> QED BY <3>1, <3>2
  <2> QED BY <1>13, <2>1, <2>6, <2>7, EvenNumbered
<1>16. ASSUME NEW c \in BOOLEAN \ {DefaultCritical}
       PROVE  Even(new, c)
  <2>1. Even(instance, c)
    BY DEF OccurrencesFit, InstanceOrder, Even
  <2>2. \A i \in OfBucket(instance, c) : new[i].order = instance[i].order
    BY <1>12 DEF OfBucket
  <2> QED BY <1>14, <2>1, <2>2, EvenSame
<1>17. InstanceOrder(new)
  <2>1. \A c \in BOOLEAN : Even(new, c)
    BY <1>15, <1>16
  <2> QED BY <2>1 DEF InstanceOrder, Even
<1> QED BY <1>10, <1>11, <1>17 DEF new, D

\* What a refresh writes: first what is there follows the template, then the due
\* occurrences are generated.
Refreshed(mid, found, made) ==
    /\ Grows(plan, mid, found) /\ Shape(mid)
    /\ \A p \in Plans : p \in Ids \/ plan[p].status = "DETACHED" => mid[p] = plan[p]
    /\ \A k \in Plans \cap Clones :
          plan[k].status = "LINKED" /\ k[1] # Root /\ k[2] \in Existing(instance) =>
             mid[k].critical = plan[k[1]].critical /\ mid[k].order = plan[k[1]].order
    /\ Grows(mid, plan', made) /\ Shape(plan')
    /\ \A p \in All : p \notin made => plan'[p] = mid[p]
    /\ \A i \in Due(instance) : RootOf(i) \notin PlansIn(mid)
    /\ Plans' = Plans \cup found \cup made

\* The two halves of a refresh leave two trees of the right shape.
LEMMA RefreshTables ==
    ASSUME IInv, Refresh
    PROVE  Refreshed(Followed(plan, instance), Missing(plan, instance),
                     Template(plan) \X Due(instance))
<1> DEFINE mid == Followed(plan, instance)
           found == Missing(plan, instance)
           made == Template(plan) \X Due(instance)
<1>1. Shape(plan) /\ Shell \in Plans /\ Root \in PlansIn(plan) /\ OccurrencesFit
      /\ plan' = Materialized(mid, made)
  BY DEF IInv, Refresh, Shape, Plans
<1>2. /\ Grows(plan, mid, found)
      /\ \A p \in PlansIn(plan) : p \in Ids \/ plan[p].status = "DETACHED" => mid[p] = plan[p]
      /\ \A k \in PlansIn(plan) \cap Clones :
            plan[k].status = "LINKED" /\ k[1] # Root /\ k[2] \in Existing(instance) =>
               mid[k].critical = plan[k[1]].critical /\ mid[k].order = plan[k[1]].order
  BY <1>1, FollowedGrows
<1>4. \A k \in found : k[1] # Root
  BY <1>1, MissingIs
<1>6. made = Template(plan) \X Due(instance)
  OBVIOUS
<1> HIDE DEF mid, found, made
<1>3. Shape(mid) /\ Template(mid) = Template(plan)
  BY <1>1, <1>2, GrowsShape, TemplateKept
<1>5. \A i \in Due(instance) : RootOf(i) \notin PlansIn(mid)
  <2> TAKE i \in Due(instance)
  <2>1. i \in Occurrences /\ RootOf(i) \notin PlansIn(plan)
    BY <1>1, DueIs DEF OccurrencesFit, Plans
  <2>2. RootOf(i) \notin found
    BY <1>4, <2>1, Names
  <2> QED BY <1>2, <2>1, <2>2 DEF Grows
<1>7. Due(instance) \in SUBSET Occurrences /\ Root \in PlansIn(mid)
  BY <1>1, <1>2, DueIs DEF Grows
<1>8. Grows(mid, plan', made) /\ \A p \in All : p \notin made => plan'[p] = mid[p]
  <2>1. made = Template(mid) \X Due(instance)
    BY <1>3, <1>6
  <2> QED BY <1>1, <1>3, <1>5, <1>7, <2>1, MaterializedGrows
<1>9. Shape(plan')
  BY <1>3, <1>8, GrowsShape
<1>10. Plans' = Plans \cup found \cup made
  BY <1>2, <1>8 DEF Grows, Plans
<1>11. Refreshed(mid, found, made)
  BY <1>2, <1>3, <1>5, <1>8, <1>9, <1>10 DEF Refreshed, Plans
<1> QED BY <1>11 DEF mid, found, made

\* The buckets of a clone in the template's hands become those of its template; those
\* of a detached clone stay as they are.
LEMMA RefreshOrder ==
    ASSUME IInv, Refresh, NEW g \in Plans \cap Clones, NEW c \in BOOLEAN,
           plan[g].kind = "GOAL", Dense(plan, g, c),
           \A p \in Children(plan', g) : plan'[p].status # "DETACHED"
    PROVE  Dense(plan', g, c)
<1> DEFINE mid == Followed(plan, instance)
           found == Missing(plan, instance)
           made == Template(plan) \X Due(instance)
           i == g[2]
           wanted == (Template(plan) \ {Root}) \X Existing(instance)
<1>0. Refreshed(mid, found, made)
  BY RefreshTables
<1>1. /\ Grows(plan, mid, found) /\ Shape(mid)
      /\ \A p \in Plans : p \in Ids \/ plan[p].status = "DETACHED" => mid[p] = plan[p]
      /\ \A k \in Plans \cap Clones :
            plan[k].status = "LINKED" /\ k[1] # Root /\ k[2] \in Existing(instance) =>
               mid[k].critical = plan[k[1]].critical /\ mid[k].order = plan[k[1]].order
      /\ Grows(mid, plan', made) /\ Shape(plan')
      /\ \A p \in All : p \notin made => plan'[p] = mid[p]
      /\ \A j \in Due(instance) : RootOf(j) \notin PlansIn(mid)
      /\ Plans' = Plans \cup found \cup made
  <2> HIDE DEF mid, found, made
  <2> QED BY <1>0 DEF Refreshed
<1>2. Shape(plan) /\ OccurrencesFit /\ g \in PlansIn(plan)
  BY DEF IInv, Plans
<1>3. /\ \A k \in found : /\ k \in wanted /\ k \in Clones /\ k \notin PlansIn(plan)
                          /\ Over(plan, k) \in InHand(plan) \cup found
      /\ \A k \in wanted : k \notin PlansIn(plan) /\ Over(plan, k) \in InHand(plan) \cup found
                           => k \in found
  BY <1>2, MissingIs
<1> HIDE DEF mid, found
<1>4. /\ i \in Occurrences /\ RootOf(i) \in Plans /\ i \in Existing(instance)
      /\ g = <<g[1], i>> /\ g[1] \in Template(plan) /\ g[1] \in PlansIn(plan) \cap Ids
      /\ plan[g[1]].kind = "GOAL" /\ g # Shell /\ g[1] # Shell /\ g \notin Ids
  BY <1>2, CloneRoots, Names DEF OccurrencesFit, Shape, ClonesFit, Plans
<1>5. \A k \in made : plan'[k].parent # g
  <2> SUFFICES ASSUME NEW k \in made, plan'[k].parent = g
               PROVE  FALSE
    OBVIOUS
  <2>1. CloneLike(mid, plan'[k], k)
    BY <1>1 DEF Grows
  <2>2. g = <<mid[k[1]].parent, k[2]>>
    BY <1>4, <2>1 DEF CloneLike
  <2>3. i = k[2] /\ k[2] \in Due(instance)
    BY <2>2
  <2>4. RootOf(i) \in PlansIn(mid)
    BY <1>1, <1>4 DEF Grows, Plans
  <2> QED BY <1>1, <2>3, <2>4
<1>6. \A p \in PlansIn(mid) : p \in All /\ plan'[p] = mid[p]
  BY <1>1, Rows DEF Grows, Shape
<1>7. Children(plan', g) = Children(mid, g)
  BY <1>1, <1>5, <1>6 DEF Children, Grows
<1>8. \A k \in found : mid[k].parent = Over(plan, k) /\ k[1] # Root
                       /\ CloneLike(plan, mid[k], k)
                       /\ mid[mid[k].parent].status = "LINKED"
  <2> TAKE k \in found
  <2>1. k[1] # Root
    BY <1>3
  <2> QED BY <1>1, <2>1 DEF Grows, CloneLike, Over
<1>9. CASE plan[g].status = "DETACHED"
  <2>1. \A p \in found : mid[p].parent # g
    <3>1. mid[g].status = "DETACHED"
      BY <1>1, <1>2, <1>9 DEF Grows
    <3> QED BY <1>8, <3>1
  <2>2. \A p \in Plans : plan[p].parent = g => mid[p] = plan[p]
    <3> SUFFICES ASSUME NEW p \in PlansIn(plan), plan[p].parent = g
                 PROVE  p \in Ids \/ plan[p].status = "DETACHED"
      BY <1>1 DEF Plans
    <3>1. CASE p \in Ids
      BY <3>1
    <3>2. CASE p \in Clones
      <4>1. p[1] # Root
        BY <1>2, <1>4, <3>2 DEF Shape, ClonesFit
      <4> QED BY <1>2, <1>9, <3>2, <4>1 DEF Shape, ClonesFit
    <3> QED BY <1>2, <3>1, <3>2, Rows DEF Shape, All
  <2>3. Children(mid, g) = Children(plan, g) /\ \A p \in Children(plan, g) : plan'[p] = plan[p]
    <3>1. Children(mid, g) = Children(plan, g)
      BY <1>1, <2>1 DEF Children, Grows, Plans
    <3> QED BY <1>6, <2>2, <3>1 DEF Children, Plans
  <2>4. /\ Bucket(plan', g, c) = Bucket(plan, g, c)
        /\ \A p \in Bucket(plan, g, c) : plan'[p].order = plan[p].order
    BY <1>7, <2>3 DEF Bucket
  <2> QED BY <2>4, DenseSame
<1>10. CASE plan[g].status # "DETACHED"
  <2>1. g \in InHand(plan)
    BY <1>2, <1>10, InHandIs
  <2> DEFINE X == Bucket(plan, g[1], c)
             Y == Bucket(plan', g, c)
             f == [x \in X |-> <<x, i>>]
  <2>2. \A x \in Children(plan, g[1]) :
           /\ x \in PlansIn(plan) \cap Ids /\ x \in Template(plan) \ {Root}
           /\ <<x, i>> \in Children(plan', g)
           /\ plan'[<<x, i>>].critical = plan[x].critical
           /\ plan'[<<x, i>>].order = plan[x].order
    <3> TAKE x \in Children(plan, g[1])
    <3> DEFINE k == <<x, i>>
    <3>1. x \in PlansIn(plan) /\ plan[x].parent = g[1]
      BY DEF Children
    <3>2. x \in Template(plan)
      BY <1>2, <1>4, <3>1, TemplateOwn
    <3>3. x \in Ids \ {Master, Shell} /\ x # Root
      BY <1>2, <1>4, <3>1, <3>2, TemplateOwn DEF Shape, OwnFit
    <3>4. k[1] = x /\ k[2] = i /\ k \in Clones /\ k \in wanted /\ Over(plan, k) = g
      BY <1>4, <3>1, <3>2, <3>3 DEF Clones, Over
    <3> HIDE DEF k, wanted, made
    <3>5. k \in PlansIn(mid) /\ mid[k].parent = g
      <4>1. CASE k \in PlansIn(plan)
        <5>1. plan[k].parent = g
          BY <1>2, <3>3, <3>4, <4>1 DEF Shape, ClonesFit, Over
        <5> QED BY <1>1, <4>1, <5>1 DEF Grows
      <4>2. CASE k \notin PlansIn(plan)
        <5>1. k \in found
          BY <1>3, <2>1, <3>4, <4>2
        <5> QED BY <1>1, <1>8, <3>4, <5>1 DEF Grows
      <4> QED BY <4>1, <4>2
    <3>6. k \in Children(plan', g)
      BY <1>7, <3>5 DEF Children
    <3>7. mid[k].critical = plan[x].critical /\ mid[k].order = plan[x].order
      <4>1. CASE k \in PlansIn(plan)
        <5>1. plan'[k].status # "DETACHED" /\ plan'[k] = mid[k]
          BY <1>6, <3>5, <3>6
        <5>2. plan[k].status = "LINKED"
          BY <1>1, <1>2, <3>4, <4>1, <5>1 DEF Grows, Shape, ClonesFit
        <5> QED BY <1>1, <1>4, <3>3, <3>4, <4>1, <5>2 DEF Plans
      <4>2. CASE k \notin PlansIn(plan)
        <5>1. k \in found
          BY <1>3, <2>1, <3>4, <4>2
        <5> QED BY <1>8, <3>4, <5>1 DEF CloneLike
      <4> QED BY <4>1, <4>2
    <3> QED BY <1>6, <3>1, <3>2, <3>3, <3>5, <3>6, <3>7 DEF k
  <2>3. \A p \in Children(plan', g) : \E x \in Children(plan, g[1]) : p = <<x, i>>
    <3> TAKE p \in Children(plan', g)
    <3>1. p \in PlansIn(mid) /\ mid[p].parent = g
      BY <1>7 DEF Children
    <3>2. p \in Clones
      <4> SUFFICES ASSUME p \in PlansIn(plan) \cap Ids PROVE FALSE
        BY <1>1, <1>3, <3>1, Rows, Names DEF Grows, Shape
      <4>1. plan[p].parent = g
        BY <1>1, <3>1 DEF Grows
      <4> QED BY <1>2, <1>10, <4>1 DEF Shape, OwnFit
    <3>3. p[1] # Root
      BY <1>1, <1>4, <3>1, <3>2 DEF Shape, ClonesFit
    <3>4. p[1] \in PlansIn(mid) /\ g = <<mid[p[1]].parent, p[2]>>
      BY <1>1, <3>1, <3>2, <3>3 DEF Shape, ClonesFit
    <3>5. p[1] \in PlansIn(plan)
      BY <1>1, <1>3, <3>2, <3>4, Names DEF Grows
    <3>6. plan[p[1]].parent = g[1] /\ p[2] = i
      BY <1>1, <3>4, <3>5 DEF Grows
    <3>7. p = <<p[1], i>>
      BY <3>2, <3>6, Names
    <3> QED BY <3>5, <3>6, <3>7 DEF Children
  <2>4. /\ \A x \in X : <<x, i>> \in Y /\ plan'[<<x, i>>].order = plan[x].order
        /\ \A p \in Y : \E x \in X : p = <<x, i>>
    BY <2>2, <2>3 DEF Bucket
  <2>5. Cardinality(Y) = Cardinality(X)
    <3>1. f \in Injection(X, Y)
      BY <2>4 DEF Injection, IsInjective
    <3>2. f \in Surjection(X, Y)
      BY <2>4 DEF Surjection
    <3>3. IsFiniteSet(X)
      <4>1. X \in SUBSET All
        BY <1>2, Rows DEF Bucket, Children, Shape
      <4> HIDE DEF X
      <4> QED BY <4>1, AllFinite
    <3>4. ExistsBijection(X, Y)
      <4> HIDE DEF f, X, Y
      <4> QED BY <3>1, <3>2 DEF ExistsBijection, Bijection
    <3> HIDE DEF X, Y
    <3> QED BY <3>3, <3>4, FS_Bijection
  <2>6. Orders(plan', g, c) = Orders(plan, g[1], c)
    <3> DEFINE old == {plan[x].order : x \in X}
               new == {plan'[p].order : p \in Y}
    <3>1. old = new
      <4>1. ASSUME NEW x \in X PROVE plan[x].order \in new
        <5> DEFINE p == <<x, i>>
        <5>1. p \in Y /\ plan'[p].order = plan[x].order
          BY <2>4
        <5> HIDE DEF X, Y, p
        <5> QED BY <5>1
      <4>2. \A n \in new : n \in old
        <5> HIDE DEF X, Y
        <5> QED BY <2>4
      <4> QED BY <4>1, <4>2
    <3> QED BY <3>1 DEF Orders
  <2>7. Dense(plan, g[1], c)
    BY <1>4 DEF IInv, OwnOrder
  <2> QED BY <2>5, <2>6, <2>7 DEF Dense
<1> QED BY <1>9, <1>10

\* A refresh brings back no clone a user has deleted, and generates an occurrence once.
LEMMA RefreshFits ==
    ASSUME IInv, Refresh
    PROVE  IInv' /\ OrderStep /\ CriticalStep
<1> DEFINE mid == Followed(plan, instance)
           found == Missing(plan, instance)
           made == Template(plan) \X Due(instance)
           D == Due(instance)
<1>1. /\ Grows(plan, mid, found) /\ Shape(mid)
      /\ \A p \in Plans : p \in Ids \/ plan[p].status = "DETACHED" => mid[p] = plan[p]
      /\ Grows(mid, plan', made) /\ Shape(plan')
      /\ \A p \in All : p \notin made => plan'[p] = mid[p]
      /\ \A j \in D : RootOf(j) \notin PlansIn(mid)
      /\ Plans' = Plans \cup found \cup made
  <2>1. Refreshed(mid, found, made)
    BY RefreshTables
  <2> HIDE DEF mid, found, made
  <2> QED BY <2>1 DEF Refreshed
<1>2. Shape(plan) /\ OwnOrder(plan) /\ OccurrencesFit /\ UnwantedFit /\ Root \in Template(plan)
      /\ edits \in 0 .. MaxEdits
  BY TemplateOwn DEF IInv
<1>3. \A k \in found : k \in Clones /\ k[1] # Root /\ Over(plan, k) \in InHand(plan) \cup found
                       /\ k \notin PlansIn(plan)
  BY <1>2, MissingIs
<1>4. UNCHANGED <<skipped, count, edits, unwanted>> /\ instance' = Appended(instance)
  BY DEF Refresh
<1>5. \A k \in made : k \in Clones /\ k[1] \in Template(plan) /\ k[2] \in D
                      /\ k \notin PlansIn(mid)
  BY <1>1 DEF Grows
<1>6. \A j \in D : RootOf(j) \in made
  BY <1>2 DEF RootOf
<1> HIDE DEF mid, found, made, D
<1>7. PlansIn(mid) = Plans \cup found
  BY <1>1 DEF Grows, Plans
<1>8. \A p \in PlansIn(mid) : p \in All /\ p \notin made /\ plan'[p] = mid[p]
  BY <1>1, <1>5, Rows DEF Shape
<1>9. OwnOrder(plan')
  <2>1. OwnOrder(mid)
    BY <1>1, <1>2, GrowsOwnOrder DEF Plans
  <2> QED BY <1>1, <1>8, <2>1, GrowsOwnOrder
<1>10. OccurrencesFit'
  <2>1. /\ Fit(instance') /\ InstanceOrder(instance')
        /\ Existing(instance') = Existing(instance) \cup D
    BY <1>2, <1>4, AppendedFits DEF D
  <2>2. /\ D \in SUBSET Occurrences /\ D \cap skipped = {}
        /\ \E n \in 0 .. Cardinality(Occurrences) :
              (Existing(instance) \cup D) \cup skipped = 0 .. n - 1
    BY <1>2, DueIs DEF D
  <2>3. \A i \in Occurrences : RootOf(i) \in Plans' <=> RootOf(i) \in Plans \/ i \in D
    <3> TAKE i \in Occurrences
    <3>1. RootOf(i) \notin found
      BY <1>3, Names
    <3>2. RootOf(i) \in made <=> i \in D
      BY <1>5, <1>6, Names
    <3> QED BY <1>1, <3>1, <3>2
  <2>4. \A i \in Occurrences : i \in Existing(instance') <=> RootOf(i) \in Plans'
    BY <1>2, <2>1, <2>3 DEF OccurrencesFit
  <2>5. Existing(instance') \cap skipped = {}
    BY <1>2, <2>1, <2>2 DEF OccurrencesFit
  <2> QED BY <1>2, <1>4, <2>1, <2>2, <2>4, <2>5 DEF OccurrencesFit, Fit
<1>11. UnwantedFit'
  <2> SUFFICES ASSUME NEW u \in unwanted
               PROVE  /\ u \in Clones \X Clones /\ u[1] \notin Plans' /\ u[1][1] # Root
                      /\ u[1][1] \in Plans' /\ u[2] = <<plan'[u[1][1]].parent, u[1][2]>>
                      /\ u[2] \in Plans' /\ plan'[u[2]].status = "DETACHED"
    BY <1>4 DEF UnwantedFit
  <2>1. /\ u \in Clones \X Clones /\ u[1] \notin Plans /\ u[1][1] # Root
        /\ u[1][1] \in Plans /\ u[2] = <<plan[u[1][1]].parent, u[1][2]>>
        /\ u[2] \in Plans /\ plan[u[2]].status = "DETACHED"
    BY <1>2 DEF UnwantedFit
  <2>2. u[1] \in Clones /\ u[2] \in Clones /\ u[1][1] \in Ids
    BY <2>1, Names
  <2>3. u[1] \notin found
    <3>1. u[2] \notin found
      BY <1>3, <2>1 DEF Plans
    <3>2. u[2] \notin InHand(plan)
      BY <1>2, <2>1, InHandIs
    <3>3. u[2] = Over(plan, u[1])
      BY <2>1 DEF Over
    <3> QED BY <1>3, <3>1, <3>2, <3>3
  <2>4. u[1] \notin made
    <3>1. u[2][2] = u[1][2]
      BY <2>1
    <3>2. RootOf(u[1][2]) \in Plans
      BY <1>2, <2>1, <2>2, <3>1, CloneRoots DEF Plans
    <3>3. RootOf(u[1][2]) \in PlansIn(mid)
      BY <1>7, <3>2
    <3> QED BY <1>1, <1>5, <3>3
  <2>5. plan'[u[1][1]] = plan[u[1][1]] /\ plan'[u[2]] = plan[u[2]]
    BY <1>1, <1>7, <1>8, <2>1, <2>2
  <2> QED BY <1>1, <2>1, <2>3, <2>4, <2>5
<1>12. CriticalStep
  BY <1>1 DEF CriticalStep, CriticalChildren, Bucket, Children, Plans
<1>13. OrderStep
  <2> SUFFICES ASSUME NEW g \in Plans \cap Plans', NEW c \in BOOLEAN,
                      plan[g].kind = "GOAL", Dense(plan, g, c),
                      \A p \in Children(plan', g) : plan'[p].status # "DETACHED"
               PROVE  Dense(plan', g, c)
    BY <1>4 DEF OrderStep
  <2>1. CASE g \in Ids
    <3>1. plan'[g] = plan[g]
      BY <1>1, <1>7, <1>8, <2>1
    <3> QED BY <1>9, <2>1, <3>1 DEF OwnOrder, Plans
  <2>2. CASE g \in Clones
    BY <2>2, RefreshOrder
  <2> QED BY <2>1, <2>2, Rows, Names, <1>2 DEF Shape, Plans
<1> QED BY <1>1, <1>2, <1>4, <1>9, <1>10, <1>11, <1>12, <1>13 DEF IInv

-----------------------------------------------------------------------------
(* The start.                                                              *)

\* What the services have built has the shape, and no goal has gaps in its order.
LEMMA StartFits == Shape(Start) /\ OwnOrder(Start)
<1> DEFINE P == PlansIn(Start)
<1>1. /\ Start \in [All -> Record \cup {None}]
      /\ Master \in P /\ Shell \in P /\ Root \in P /\ P \subseteq Ids
      /\ Start[Master].kind = "GOAL" /\ Start[Master].parent = None
      /\ Below(Start, Master) = P
  BY StartAssumption
<1>2. ASSUME NEW p \in P
      PROVE  /\ Start[p].kind = "REPETITION" <=> p = Shell
             /\ Start[p].status = IF p = Root THEN "TEMPLATE" ELSE "NOT_CLONED"
             /\ p \in {Master, Root} => {Start[p].critical, Start[p].order} = {None}
             /\ p = Root => Start[p].parent = Shell
             /\ p \notin {Master, Root} =>
                   /\ Start[p].parent \in P /\ Start[Start[p].parent].kind = "GOAL"
                   /\ None \notin {Start[p].critical, Start[p].order}
                   /\ Start[p].parent = Master => ~Start[p].critical
             /\ \A c \in BOOLEAN : Start[p].kind = "GOAL" => Dense(Start, p, c)
  BY StartAssumption
<1>3. \A p \in P : Start[p] \in Record /\ p \notin Clones
  BY <1>1, Rows, Names DEF Typed
<1>4. \A p \in P : p \notin {Master, Root} =>
         Start[p].critical \in BOOLEAN /\ Start[p].order \in Nat
  <2> TAKE p \in P
  <2> HAVE p \notin {Master, Root}
  <2>1. Start[p].critical \in BOOLEAN \cup {None} /\ Start[p].order \in Nat \cup {None}
    BY <1>3 DEF Record
  <2> QED BY <1>2, <2>1
<1>5. Rooted(Start)
  BY <1>1, Names, BelowIsLeast DEF Rooted
<1>6. OwnFit(Start)
  <2> SUFFICES ASSUME NEW p \in P
               PROVE  /\ Start[p].status \in {"NOT_CLONED", "TEMPLATE"}
                      /\ Start[p].status = "TEMPLATE" => p = Root
                      /\ p = Root => Start[p].parent = Shell
                      /\ p \notin {Master, Root} =>
                            Start[p].parent \in P /\ Start[Start[p].parent].kind = "GOAL"
                      /\ Start[p].parent \notin Clones
    BY DEF OwnFit
  <2>1. Start[p].parent \notin Clones
    BY <1>1, <1>2, <1>3, Names
  <2> QED BY <1>2, <2>1
<1>7. Placed(Start)
  <2> SUFFICES ASSUME NEW p \in P \ {Master}
               PROVE  /\ IsRoot(p) => Start[p].critical = None /\ Start[p].order = None
                      /\ ~IsRoot(p) => Start[p].critical \in BOOLEAN /\ Start[p].order \in Nat
                      /\ Start[p].parent = Master => Start[p].critical = FALSE
    BY DEF Placed
  <2>1. CASE p = Root
    <3>1. {Start[p].critical, Start[p].order} = {None} /\ Start[p].parent = Shell
      BY <1>2, <2>1
    <3>2. Start[p].critical = None /\ Start[p].order = None
      BY ONLY <3>1
    <3> QED BY <2>1, <3>1, <3>2, Names DEF IsRoot
  <2>2. CASE p # Root
    BY <1>2, <1>3, <1>4, <2>2 DEF IsRoot
  <2> QED BY <2>1, <2>2
<1>8. Kinds(Start) /\ ClonesFit(Start) /\ OwnOrder(Start)
  BY <1>2, <1>3 DEF Kinds, ClonesFit, OwnOrder
<1> QED BY <1>1, <1>5, <1>6, <1>7, <1>8 DEF Shape, Typed

\* The first occurrence is generated on top of it.
LEMMA InitFits == Init => IInv
<1> SUFFICES ASSUME Init PROVE IInv
  OBVIOUS
<1> DEFINE made == Template(Start) \X {0}
           first == [critical |-> DefaultCritical, order |-> 0]
<1>1. /\ plan = Materialized(Start, made)
      /\ instance = [i \in Occurrences |-> IF i = 0 THEN first ELSE None]
      /\ skipped = {} /\ count = 1 /\ edits = 0 /\ unwanted = {}
  BY DEF Init
<1>2. Shape(Start) /\ OwnOrder(Start) /\ PlansIn(Start) \cap Clones = {} /\ Root \in PlansIn(Start)
  BY StartFits, StartAssumption, Names
<1>3. 0 \in Occurrences /\ 1 \in 1 .. Cardinality(Occurrences) /\ Occurrences \subseteq Nat
  <2> DEFINE n == Cardinality(Occurrences)
  <2>1. n \in Nat /\ Occurrences = 0 .. n - 1 /\ Occurrences # {}
    BY BoundsAssumption, AllFinite
  <2> HIDE DEF n
  <2>2. 0 \in Occurrences /\ 1 \in 1 .. n /\ Occurrences \subseteq Nat
    BY ONLY <2>1
  <2> QED BY <2>2 DEF n
<1>4. \A k \in made : k[1] \in Template(Start) /\ k[2] = 0
  OBVIOUS
<1>5. RootOf(0) \in made
  BY <1>2, TemplateOwn DEF RootOf
<1>6. Grows(Start, plan, made) /\ \A p \in All : p \notin made => plan[p] = Start[p]
  <2> DEFINE D == {0}
  <2>1. D \in SUBSET Occurrences /\ \A i \in D : RootOf(i) \notin PlansIn(Start)
    BY <1>2, <1>3, Names
  <2>2. made = Template(Start) \X D
    OBVIOUS
  <2>3. plan = Materialized(Start, made) /\ Shape(Start) /\ Root \in PlansIn(Start)
    BY <1>1, <1>2
  <2> HIDE DEF made, D
  <2> QED BY ONLY <2>1, <2>2, <2>3, MaterializedGrows
<1> HIDE DEF made
<1>7. Shape(plan)
  BY <1>2, <1>6, GrowsShape
<1>8. OwnOrder(plan)
  <2>1. \A p \in PlansIn(Start) \cap Ids : plan[p] = Start[p]
    BY <1>6, Names DEF Grows
  <2> QED BY <1>2, <1>6, <2>1, GrowsOwnOrder
<1>9. first \in Instance /\ first # None /\ first.critical = DefaultCritical /\ first.order = 0
  <2>1. first \in Instance
    BY BoundsAssumption DEF Instance
  <2> QED BY <2>1, NoneAssumption
<1> HIDE DEF first
<1>10. Existing(instance) = {0} /\ Fit(instance) /\ instance[0] = first
  BY <1>1, <1>3, <1>9 DEF Existing, Fit
<1>11. InstanceOrder(instance)
  <2>1. ASSUME NEW c \in BOOLEAN
        PROVE  Even(instance, c)
    <3>1. CASE c = DefaultCritical
      <4>1. OfBucket(instance, c) = {0}
        BY <1>9, <1>10, <3>1 DEF OfBucket
      <4>2. Cardinality({0}) = 1
        BY FS_Singleton
      <4>3. {instance[i].order : i \in {0}} = {0} /\ 0 .. 1 - 1 = {0}
        BY <1>9, <1>10
      <4> QED BY <4>1, <4>2, <4>3 DEF Even
    <3>2. CASE c # DefaultCritical
      <4>1. OfBucket(instance, c) = {}
        BY <1>9, <1>10, <3>2 DEF OfBucket
      <4>2. Cardinality(OfBucket(instance, c)) = 0
        BY <4>1, FS_EmptySet
      <4>3. {instance[i].order : i \in OfBucket(instance, c)} = {} /\ 0 .. 0 - 1 = {}
        BY <4>1
      <4> QED BY <4>2, <4>3 DEF Even
    <3> QED BY <3>1, <3>2
  <2> QED BY <2>1 DEF InstanceOrder, Even
<1>12. OccurrencesFit
  <2>1. \A i \in Occurrences : i \in Existing(instance) <=> RootOf(i) \in Plans
    <3> TAKE i \in Occurrences
    <3>1. RootOf(i) \in Plans <=> RootOf(i) \in made
      BY <1>2, <1>6, Names DEF Grows, Plans
    <3>2. RootOf(i) \in made <=> i = 0
      BY <1>4, <1>5, Names
    <3> QED BY <1>10, <3>1, <3>2
  <2>2. Existing(instance) \cup skipped = 0 .. 1 - 1
    BY <1>1, <1>10
  <2>3. 1 \in 0 .. Cardinality(Occurrences)
    BY <1>3
  <2> QED BY <1>1, <1>3, <1>10, <1>11, <2>1, <2>2, <2>3 DEF OccurrencesFit, Fit
<1>13. UnwantedFit /\ edits \in 0 .. MaxEdits
  BY <1>1, BoundsAssumption DEF UnwantedFit
<1> QED BY <1>7, <1>8, <1>12, <1>13 DEF IInv

-----------------------------------------------------------------------------
(* Deletion.                                                               *)

\* The rule only adds plans, and adds no fewer to more.
Rule(With(_)) ==
    /\ \A S \in SUBSET All : With(S) \in SUBSET All /\ S \subseteq With(S)
    /\ \A S, T \in SUBSET All : S \subseteq T => With(S) \subseteq With(T)

\* Each of the four rules of a deletion does.
LEMMA Rules ==
    ASSUME Shape(plan)
    PROVE  Rule(WithSiblings) /\ Rule(WithChildren) /\ Rule(WithEmptied) /\ Rule(WithShell)
<1>1. \A g : CriticalChildren(g) \in SUBSET All /\ Children(plan, g) \in SUBSET All
  BY DEF CriticalChildren, Bucket, Children, PlansIn
<1>2. Rule(WithSiblings)
  <2> HIDE DEF CriticalChildren
  <2> QED BY <1>1 DEF Rule, WithSiblings
<1>3. Rule(WithChildren)
  <2> HIDE DEF Children
  <2> QED BY <1>1 DEF Rule, WithChildren
<1>4. Rule(WithEmptied)
  <2>1. Plans \in SUBSET All
    BY DEF Plans, PlansIn
  <2> QED BY <2>1 DEF Rule, WithEmptied
<1>5. Rule(WithShell)
  BY Names DEF Rule, WithShell
<1> QED BY <1>2, <1>3, <1>4, <1>5

\* What a deletion takes along: children, critical siblings, goals whose critical
\* children all go, and the repetition with its template.
Impacted(p, A) ==
    /\ A \subseteq Plans /\ p \in A
    /\ Closed(plan, A)
    /\ \A q \in A : plan[q].critical = TRUE => CriticalChildren(plan[q].parent) \subseteq A
    /\ \A g \in Plans : CriticalChildren(g) # {} /\ CriticalChildren(g) \subseteq A => g \in A
    /\ Root \in A => Shell \in A

\* The rounds of compute_deletion_impact end in the least such set: a deletion takes
\* no plan that the four rules do not demand.
THEOREM ImpactIsLeast ==
    ASSUME Shape(plan), NEW p \in Plans
    PROVE  Impacted(p, Impact(p)) /\ \A A : Impacted(p, A) => Impact(p) \subseteq A
<1> DEFINE more(S) == WithShell(WithEmptied(WithChildren(WithSiblings(S))))
           step == [S \in SUBSET All |-> more(S)]
           round == CHOOSE g : g = [S \in SUBSET All |-> IF more(S) = S THEN S ELSE g[more(S)]]
           A == Impact(p)
<1>0. p \in All /\ Plans \in SUBSET All
  BY DEF Plans, PlansIn
<1>1. \A S \in SUBSET All : /\ WithSiblings(S) \in SUBSET All /\ S \subseteq WithSiblings(S)
                            /\ WithChildren(S) \in SUBSET All /\ S \subseteq WithChildren(S)
                            /\ WithEmptied(S) \in SUBSET All /\ S \subseteq WithEmptied(S)
                            /\ WithShell(S) \in SUBSET All /\ S \subseteq WithShell(S)
  BY Rules DEF Rule
<1>2. \A S, T \in SUBSET All : S \subseteq T => /\ WithSiblings(S) \subseteq WithSiblings(T)
                                                /\ WithChildren(S) \subseteq WithChildren(T)
                                                /\ WithEmptied(S) \subseteq WithEmptied(T)
                                                /\ WithShell(S) \subseteq WithShell(T)
  BY Rules DEF Rule
<1>3. Growing(All, step)
  <2>1. \A S \in SUBSET All : more(S) \in SUBSET All /\ S \subseteq more(S)
    <3> TAKE S \in SUBSET All
    <3> DEFINE S1 == WithSiblings(S)
               S2 == WithChildren(S1)
               S3 == WithEmptied(S2)
    <3>1. S1 \in SUBSET All /\ S \subseteq S1
      BY <1>1
    <3> HIDE DEF S1
    <3>2. S2 \in SUBSET All /\ S1 \subseteq S2
      BY <1>1, <3>1
    <3> HIDE DEF S2
    <3>3. S3 \in SUBSET All /\ S2 \subseteq S3
      BY <1>1, <3>2
    <3> HIDE DEF S3
    <3>4. WithShell(S3) \in SUBSET All /\ S3 \subseteq WithShell(S3)
      BY <1>1, <3>3
    <3>5. WithShell(S3) = more(S)
      BY DEF S1, S2, S3
    <3> HIDE DEF more
    <3> QED BY <3>1, <3>2, <3>3, <3>4, <3>5
  <2>2. ASSUME NEW S \in SUBSET All, NEW T \in SUBSET All, S \subseteq T
        PROVE  more(S) \subseteq more(T)
    <3> DEFINE S1 == WithSiblings(S)
               S2 == WithChildren(S1)
               S3 == WithEmptied(S2)
               T1 == WithSiblings(T)
               T2 == WithChildren(T1)
               T3 == WithEmptied(T2)
    <3>1. S1 \in SUBSET All /\ T1 \in SUBSET All /\ S1 \subseteq T1
      BY <1>1, <1>2, <2>2
    <3> HIDE DEF S1, T1
    <3>2. S2 \in SUBSET All /\ T2 \in SUBSET All /\ S2 \subseteq T2
      BY <1>1, <1>2, <3>1
    <3> HIDE DEF S2, T2
    <3>3. S3 \in SUBSET All /\ T3 \in SUBSET All /\ S3 \subseteq T3
      BY <1>1, <1>2, <3>2
    <3> HIDE DEF S3, T3
    <3>4. WithShell(S3) \subseteq WithShell(T3)
      BY <1>2, <3>3
    <3>5. WithShell(S3) = more(S) /\ WithShell(T3) = more(T)
      BY DEF S1, S2, S3, T1, T2, T3
    <3> HIDE DEF more
    <3> QED BY <3>4, <3>5
  <2> HIDE DEF more
  <2> QED BY <2>1, <2>2 DEF Growing
<1>4. \A g : Saturates(All, step, g)
             <=> g = [S \in SUBSET All |-> IF more(S) = S THEN S ELSE g[more(S)]]
  <2> TAKE g
  <2>1. \A S \in SUBSET All : (IF step[S] = S THEN S ELSE g[step[S]])
                                = (IF more(S) = S THEN S ELSE g[more(S)])
    OBVIOUS
  <2> HIDE DEF step, more
  <2> QED BY <2>1 DEF Saturates
<1>5. Saturates(All, step, round)
  <2> HIDE DEF step, more
  <2>1. \E g : g = [S \in SUBSET All |-> IF more(S) = S THEN S ELSE g[more(S)]]
    BY <1>3, <1>4, ClosureExists
  <2>2. round = [S \in SUBSET All |-> IF more(S) = S THEN S ELSE round[more(S)]]
    BY <2>1
  <2> HIDE DEF round
  <2> QED BY <1>4, <2>2
<1>6. \A S \in SUBSET All : LeastAround(All, step, S, round[S])
  <2> HIDE DEF step, round
  <2> QED BY <1>3, <1>5, AllFinite, ClosureIsLeast
<1>7. A = round[{p}]
  BY DEF Impact
<1>8. /\ A \in SUBSET All /\ p \in A /\ more(A) = A
      /\ \A V \in SUBSET All : p \in V /\ more(V) = V => A \subseteq V
  <2> HIDE DEF round, A, more
  <2>1. LeastAround(All, step, {p}, A)
    <3> HIDE DEF step
    <3> QED BY <1>0, <1>6, <1>7
  <2> QED BY <2>1 DEF LeastAround
<1> HIDE DEF round, step, A
<1>9. ASSUME NEW S \in SUBSET All, more(S) = S
      PROVE  WithSiblings(S) = S /\ WithChildren(S) = S /\ WithEmptied(S) = S /\ WithShell(S) = S
  <2> DEFINE S1 == WithSiblings(S)
             S2 == WithChildren(S1)
             S3 == WithEmptied(S2)
  <2>1. S1 \in SUBSET All /\ S \subseteq S1
    BY <1>1
  <2>2. S2 \in SUBSET All /\ S1 \subseteq S2
    <3> HIDE DEF S1
    <3> QED BY <1>1, <2>1
  <2>3. S3 \in SUBSET All /\ S2 \subseteq S3
    <3> HIDE DEF S2
    <3> QED BY <1>1, <2>2
  <2>4. S3 \subseteq WithShell(S3) /\ WithShell(S3) = S
    <3>1. WithShell(S3) = S
      BY <1>9
    <3> HIDE DEF S3
    <3> QED BY <1>1, <2>3, <3>1
  <2>5. S1 = S /\ S2 = S /\ S3 = S
    <3> HIDE DEF S1, S2, S3
    <3> QED BY <2>1, <2>2, <2>3, <2>4
  <2> QED BY <2>4, <2>5
<1>10. WithSiblings(A) = A /\ WithChildren(A) = A /\ WithEmptied(A) = A /\ WithShell(A) = A
  <2> HIDE DEF more
  <2> QED BY <1>8, <1>9
<1>11. A \subseteq Plans
  <2>1. WithSiblings(Plans) = Plans
    BY DEF WithSiblings, CriticalChildren, Bucket, Children, Plans
  <2>2. WithChildren(Plans) = Plans
    BY DEF WithChildren, Children, Plans
  <2>3. WithEmptied(Plans) = Plans
    BY DEF WithEmptied
  <2>4. WithShell(Plans) = Plans
    BY DEF WithShell, Shape, Plans
  <2> QED BY <1>0, <1>8, <2>1, <2>2, <2>3, <2>4
<1>12. Closed(plan, A)
  BY <1>10 DEF WithChildren, Children, Closed
<1>13. \A q \in A : plan[q].critical = TRUE => CriticalChildren(plan[q].parent) \subseteq A
  BY <1>10 DEF WithSiblings
<1>14. \A g \in Plans : CriticalChildren(g) # {} /\ CriticalChildren(g) \subseteq A => g \in A
  BY <1>10 DEF WithEmptied
<1>15. Root \in A => Shell \in A
  BY <1>10 DEF WithShell
<1>16. Impacted(p, A)
  BY <1>8, <1>11, <1>12, <1>13, <1>14, <1>15 DEF Impacted
<1>17. ASSUME NEW V, Impacted(p, V)
       PROVE  A \subseteq V
  <2> USE DEF Impacted
  <2>1. V \in SUBSET All /\ p \in V
    BY <1>0, <1>17
  <2>2. WithSiblings(V) = V
    BY <1>17 DEF WithSiblings
  <2>3. WithChildren(V) = V
    BY <1>17 DEF WithChildren, Children, Closed
  <2>4. WithEmptied(V) = V
    BY <1>17 DEF WithEmptied
  <2>5. WithShell(V) = V
    BY <1>17 DEF WithShell
  <2> QED BY <1>8, <2>1, <2>2, <2>3, <2>4, <2>5
<1> QED BY <1>16, <1>17 DEF A

\* The plans of A can go: what hangs below them goes as well, the repetition goes with
\* the root of its template, and no clone that stays refers to one of them.
CanGo(table, A) ==
    /\ A \subseteq PlansIn(table) /\ Closed(table, A) /\ Master \notin A
    /\ Root \in A => Shell \in A
    /\ \A k \in (PlansIn(table) \ A) \cap Clones : k[1] \notin A

\* Nothing but the numbers of plans that stay is changed.
Thins(table, new, A) ==
    /\ Typed(new) /\ Placed(new) /\ PlansIn(new) = PlansIn(table) \ A
    /\ \A p \in PlansIn(new) :
          /\ new[p].parent = table[p].parent /\ new[p].kind = table[p].kind
          /\ new[p].status = table[p].status /\ new[p].critical = table[p].critical

\* What is left is a tree of the right shape.
LEMMA ThinsShape ==
    ASSUME NEW table, Shape(table), NEW A, CanGo(table, A), NEW new, Thins(table, new, A)
    PROVE  Shape(new)
<1> USE DEF CanGo, Thins
<1>1. \A p \in PlansIn(new) : p \in PlansIn(table) /\ p \notin A
  OBVIOUS
<1>2. \A p \in PlansIn(new) \ {Master} : table[p].parent \in PlansIn(new)
  BY Parents DEF Closed
<1>3. Rooted(new)
  <2>1. ASSUME NEW T \in SUBSET All, Master \in T, Closed(new, T)
        PROVE  PlansIn(new) \subseteq T
    <3> DEFINE V == T \cup A
    <3>1. V \in SUBSET All /\ Master \in V
      BY <2>1, Rows DEF Shape
    <3>2. Closed(table, V)
      BY <2>1 DEF Closed
    <3>3. PlansIn(table) \subseteq V
      <4> HIDE DEF V
      <4> QED BY <3>1, <3>2 DEF Shape, Rooted
    <3> QED BY <3>3
  <2>2. Master \in PlansIn(table) /\ table[Master].parent = None /\ table[Master].kind = "GOAL"
    BY DEF Shape, Rooted
  <2> QED BY <2>1, <2>2 DEF Rooted
<1>4. Kinds(new)
  BY DEF Shape, Kinds
<1>5. OwnFit(new)
  <2> SUFFICES ASSUME NEW p \in PlansIn(new) \cap Ids
               PROVE  /\ new[p].status \in {"NOT_CLONED", "TEMPLATE"}
                      /\ new[p].status = "TEMPLATE" => p = Root
                      /\ p = Root => new[p].parent = Shell
                      /\ p \notin {Master, Root} =>
                            new[p].parent \in PlansIn(new) /\ new[new[p].parent].kind = "GOAL"
                      /\ new[p].parent \in Clones => new[new[p].parent].status = "DETACHED"
    BY DEF OwnFit
  <2>1. p # Master => new[p].parent \in PlansIn(new)
    BY <1>2
  <2>2. p = Master => new[p].parent \notin Clones
    BY Names DEF Shape, Rooted
  <2> QED BY <2>1, <2>2 DEF Shape, OwnFit
<1>6. ClonesFit(new)
  <2> SUFFICES ASSUME NEW k \in PlansIn(new) \cap Clones
               PROVE  /\ k[1] \in PlansIn(new) /\ new[k].kind = new[k[1]].kind
                      /\ new[k].status \in {"LINKED", "DETACHED"}
                      /\ k[1] = Root => new[k].parent = Shell
                      /\ k[1] # Root =>
                            /\ new[k].parent = <<new[k[1]].parent, k[2]>>
                            /\ new[k].parent \in PlansIn(new) \cap Clones
                            /\ new[k].status = "LINKED" => new[new[k].parent].status = "LINKED"
    BY DEF ClonesFit
  <2>1. k \in PlansIn(table) \cap Clones /\ k[1] \in PlansIn(new)
    BY DEF Shape, ClonesFit
  <2>2. k # Master
    BY Names
  <2>3. new[k].parent \in PlansIn(new) /\ new[k].parent = table[k].parent
    BY <1>2, <2>2
  <2>4. new[new[k].parent].status = table[table[k].parent].status
    BY <2>3
  <2>5. new[k[1]].parent = table[k[1]].parent /\ new[k[1]].kind = table[k[1]].kind
    BY <2>1
  <2> QED BY <2>1, <2>3, <2>4, <2>5 DEF Shape, ClonesFit
<1>7. Shell \in PlansIn(new) <=> Root \in PlansIn(new)
  <2>1. Root \in PlansIn(table) => table[Root].parent = Shell
    BY Names DEF Shape, OwnFit
  <2> QED BY <2>1 DEF Shape, Closed
<1> QED BY <1>3, <1>4, <1>5, <1>6, <1>7 DEF Shape

\* The plans go, and the buckets they leave close up.
LEMMA RenumberedFits ==
    ASSUME NEW table, Shape(table), NEW A, CanGo(table, A),
           \A p \in A : plan[p].parent = table[p].parent
    PROVE  /\ Thins(table, Renumbered(table, A), A)
           /\ \A g \in PlansIn(table) \ A, c \in BOOLEAN :
                 table[g].kind = "GOAL" /\ Dense(table, g, c) => Dense(Renumbered(table, A), g, c)
<1> DEFINE kept == [p \in All |-> IF p \in A THEN None ELSE table[p]]
           parents == {plan[p].parent : p \in A} \ A
           place(p) == Cardinality({q \in Bucket(kept, kept[p].parent, kept[p].critical) :
                                        Before(kept, q, p)})
           new == Renumbered(table, A)
           P == PlansIn(table) \ A
<1>1. new = [p \in All |-> IF kept[p] # None /\ kept[p].parent \in parents /\ kept[p].critical # None
                           THEN [kept[p] EXCEPT !.order = place(p)] ELSE kept[p]]
  BY DEF Renumbered
<1>2. \A p \in P : p \in All /\ kept[p] = table[p] /\ table[p] \in Record /\ table[p] # None
  BY Rows, NoneAssumption DEF Shape
<1>3. \A p \in All : p \notin P => kept[p] = None
  BY Rows DEF Shape
<1>4. PlansIn(kept) = P
  BY <1>2, <1>3 DEF PlansIn
<1> HIDE DEF kept
<1>5. \A p \in All : place(p) \in Nat
  <2> TAKE p \in All
  <2>1. {q \in Bucket(kept, kept[p].parent, kept[p].critical) : Before(kept, q, p)} \in SUBSET All
    BY DEF Bucket, Children, PlansIn
  <2> QED BY <2>1, AllFinite
<1> HIDE DEF place, new, parents, P
<1>6. ASSUME NEW p \in P
      PROVE  /\ new[p] \in Record /\ new[p] # None
             /\ new[p].parent = table[p].parent /\ new[p].kind = table[p].kind
             /\ new[p].status = table[p].status /\ new[p].critical = table[p].critical
             /\ new[p].order = IF table[p].parent \in parents /\ table[p].critical # None
                               THEN place(p) ELSE table[p].order
  <2>1. CASE table[p].parent \in parents /\ table[p].critical # None
    <3>1. new[p] = [table[p] EXCEPT !.order = place(p)]
      BY <1>1, <1>2, <2>1
    <3>2. new[p] \in Record
      BY <1>2, <1>5, <3>1 DEF Record
    <3>3. /\ new[p].parent = table[p].parent /\ new[p].kind = table[p].kind
          /\ new[p].status = table[p].status /\ new[p].critical = table[p].critical
          /\ new[p].order = place(p)
      BY <1>2, <3>1 DEF Record
    <3> QED BY <2>1, <3>2, <3>3, NoneAssumption
  <2>2. CASE ~(table[p].parent \in parents /\ table[p].critical # None)
    <3>1. new[p] = table[p]
      BY <1>1, <1>2, <2>2
    <3> QED BY <1>2, <2>2, <3>1
  <2> QED BY <2>1, <2>2
<1>7. \A p \in All : p \notin P => new[p] = None
  BY <1>1, <1>3
<1>8. Typed(new) /\ PlansIn(new) = P
  <2>1. \A p \in All : new[p] \in Record \cup {None}
    BY <1>6, <1>7
  <2>2. Typed(new)
    BY <1>1, <2>1 DEF Typed
  <2>3. PlansIn(new) = P
    BY <1>2, <1>6, <1>7 DEF PlansIn
  <2> QED BY <2>2, <2>3
<1>9. Placed(new)
  <2> SUFFICES ASSUME NEW p \in P \ {Master}
               PROVE  /\ IsRoot(p) => new[p].critical = None /\ new[p].order = None
                      /\ ~IsRoot(p) => new[p].critical \in BOOLEAN /\ new[p].order \in Nat
                      /\ new[p].parent = Master => new[p].critical = FALSE
    BY <1>8 DEF Placed
  <2>1. /\ IsRoot(p) => table[p].critical = None /\ table[p].order = None
        /\ ~IsRoot(p) => table[p].critical \in BOOLEAN /\ table[p].order \in Nat
        /\ table[p].parent = Master => table[p].critical = FALSE
    BY DEF Shape, Placed, P
  <2> QED BY <1>2, <1>5, <1>6, <2>1
<1>10. Thins(table, new, A)
  BY <1>6, <1>8, <1>9 DEF Thins, P
<1>11. ASSUME NEW g \in P, NEW c \in BOOLEAN, table[g].kind = "GOAL", Dense(table, g, c)
       PROVE  Dense(new, g, c)
  <2> DEFINE B == Bucket(kept, g, c)
  <2>1. B = Bucket(table, g, c) \ A /\ Bucket(new, g, c) = B
    BY <1>2, <1>4, <1>6, <1>8 DEF Bucket, Children, P
  <2>2. \A p \in B : /\ p \in P /\ table[p].parent = g /\ table[p].critical = c
                     /\ kept[p] = table[p] /\ table[p].order \in Nat
    <3>1. \A p \in Children(table, g) : table[p].order \in Nat
      BY <1>11, GoalChildren DEF P
    <3> QED BY <1>2, <1>4, <2>1, <3>1 DEF Bucket, Children, P
  <2>3. CASE g \notin parents
    <3>1. B = Bucket(table, g, c)
      BY <1>11, <2>1, <2>3 DEF Bucket, Children, parents, P
    <3>2. \A p \in B : new[p].order = table[p].order
      BY <1>6, <2>2, <2>3
    <3> HIDE DEF B
    <3> QED BY <1>11, <2>1, <3>1, <3>2, DenseSame
  <2>4. CASE g \in parents
    <3> DEFINE R == Earlier(kept, B)
    <3>1. B \in SUBSET All /\ \A p \in B : kept[p].order \in Nat
      BY <1>2, <2>2
    <3>2. IsFiniteSet(B)
      BY <3>1, AllFinite
    <3> HIDE DEF B
    <3>3. StrictOrder(B, R) /\ \A p, q \in B : <<p, q>> \in R <=> Before(kept, p, q)
      BY <3>1, SiblingOrder
    <3> HIDE DEF R
    <3>4. Rank(B, R) \in Bijection(B, 0 .. Cardinality(B) - 1)
      BY <3>2, <3>3, Ranks
    <3>5. \A p \in B : new[p].order = Rank(B, R)[p]
      <4> TAKE p \in B
      <4>1. c # None
        BY NoneAssumption
      <4>2. new[p].order = place(p)
        BY <1>6, <2>2, <2>4, <4>1
      <4>3. Bucket(kept, kept[p].parent, kept[p].critical) = B
        BY <2>2 DEF B
      <4>4. place(p) = Cardinality({q \in B : Before(kept, q, p)})
        BY <4>3 DEF place
      <4>5. {q \in B : <<q, p>> \in R} = {q \in B : Before(kept, q, p)}
        BY <3>3
      <4> QED BY <4>2, <4>4, <4>5 DEF Rank
    <3>6. /\ \A p \in B : new[p].order \in 0 .. Cardinality(B) - 1
          /\ \A n \in 0 .. Cardinality(B) - 1 : \E p \in B : new[p].order = n
      BY <3>4, <3>5 DEF Bijection, Injection, Surjection
    <3> QED BY <2>1, <3>6, DenseNumbered
  <2> QED BY <2>3, <2>4
<1> QED BY <1>10, <1>11 DEF new, P

\* Taking the goal above the deleted clone out of the template's hands.
LEMMA CutFits ==
    ASSUME Shape(plan), NEW p \in Plans, NEW A
    PROVE  /\ Shape(Cut(p, A)) /\ Keeps(plan, Cut(p, A)) /\ SamePlaces(plan, Cut(p, A))
           /\ plan[p].status = "LINKED" /\ p[1] # Root /\ plan[p].parent \notin A =>
                 Cut(p, A)[plan[p].parent].status # "LINKED"
<1> DEFINE above == plan[p].parent
           cuts == plan[p].status = "LINKED" /\ p[1] # Root /\ above \notin A
<1>1. CASE cuts
  <2>1. Cut(p, A) = Detach(plan, above)
    BY <1>1 DEF Cut
  <2>2. p \in PlansIn(plan) \cap Clones
    BY <1>1, Rows, Names DEF Shape, OwnFit, Plans
  <2>3. above \in PlansIn(plan)
    BY <1>1, <2>2 DEF Shape, ClonesFit
  <2>4. /\ Shape(Cut(p, A)) /\ Keeps(plan, Cut(p, A)) /\ SamePlaces(plan, Cut(p, A))
        /\ Cut(p, A)[above].status # "LINKED"
    <3> HIDE DEF above
    <3> QED BY <2>1, <2>3, DetachFits
  <2> QED BY <2>4
<1>2. CASE ~cuts
  <2>1. Cut(p, A) = plan
    BY <1>2 DEF Cut
  <2> QED BY <1>2, <2>1 DEF Keeps, SamePlaces, Shape
<1> QED BY <1>1, <1>2

\* A bucket of instances numbered anew in its own order; the other stays.
LEMMA ClosesUp ==
    ASSUME NEW insts, Fit(insts), NEW c \in BOOLEAN, NEW new,
           new = NumberedInstances(insts, InstancesInOrder(insts, OfBucket(insts, c)), c)
    PROVE  /\ Fit(new) /\ Existing(new) = Existing(insts) /\ Even(new, c)
           /\ \A d \in BOOLEAN \ {c} : Even(insts, d) => Even(new, d)
<1> DEFINE S == OfBucket(insts, c)
<1>1. S \in SUBSET Existing(insts) /\ \A i \in OfBucket(insts, c) : i \in S
  BY DEF OfBucket
<1>2. \A d \in BOOLEAN \ {c} : OfBucket(insts, d) \ S = OfBucket(insts, d)
  BY DEF OfBucket
<1>3. new = NumberedInstances(insts, InstancesInOrder(insts, S), c)
  OBVIOUS
<1> HIDE DEF S
<1>4. Lists(InstancesInOrder(insts, S), S)
  BY <1>1, InstancesInOrderLists
<1>5. InstancesAs(insts, new, S, c)
  BY <1>1, <1>3, <1>4, NumberedInstancesFit
<1>6. /\ Even(new, c)
      /\ \A d \in BOOLEAN \ {c} : /\ OfBucket(new, d) = OfBucket(insts, d) \ S
                                  /\ \A i \in OfBucket(new, d) : new[i] = insts[i]
  BY <1>1, <1>5, BucketNumbered
<1>7. ASSUME NEW d \in BOOLEAN \ {c}, Even(insts, d)
      PROVE  Even(new, d)
  <2>1. OfBucket(new, d) = OfBucket(insts, d)
    BY <1>2, <1>6
  <2>2. \A i \in OfBucket(insts, d) : new[i].order = insts[i].order
    BY <1>6, <2>1
  <2> QED BY <1>7, <2>1, <2>2, EvenSame
<1> QED BY <1>5, <1>6, <1>7 DEF InstancesAs

\* The instances that stay keep an even order.
LEMMA RemainingFit ==
    ASSUME OccurrencesFit, NEW gone \in SUBSET Existing(instance)
    PROVE  /\ Fit(RemainingInstances(gone)) /\ InstanceOrder(RemainingInstances(gone))
           /\ Existing(RemainingInstances(gone)) = Existing(instance) \ gone
<1> DEFINE kept == [i \in Occurrences |-> IF i \in gone THEN None ELSE instance[i]]
           closed(insts, c) ==
               NumberedInstances(insts, InstancesInOrder(insts, OfBucket(insts, c)), c)
           once == closed(kept, FALSE)
           twice == closed(once, TRUE)
           new == RemainingInstances(gone)
<1>1. Fit(kept) /\ Existing(kept) = Existing(instance) \ gone
  BY DEF OccurrencesFit, Fit, Existing
<1>2. new = IF gone = {} THEN kept ELSE twice
  BY DEF RemainingInstances
<1>3. CASE gone = {}
  <2>1. new = instance
    BY <1>2, <1>3 DEF OccurrencesFit
  <2> HIDE DEF new
  <2>2. Fit(new) /\ InstanceOrder(new) /\ Existing(new) = Existing(instance) \ gone
    BY <1>3, <2>1 DEF OccurrencesFit, Fit
  <2> QED BY <2>2 DEF new
<1>4. CASE gone # {}
  <2>1. new = twice
    BY <1>2, <1>4
  <2> HIDE DEF kept, new
  <2>2. Fit(once) /\ Existing(once) = Existing(kept) /\ Even(once, FALSE)
    <3> HIDE DEF once
    <3>1. FALSE \in BOOLEAN /\ once = closed(kept, FALSE)
      BY DEF once
    <3> QED BY <1>1, <3>1, ClosesUp
  <2> HIDE DEF once
  <2>3. Fit(twice) /\ Existing(twice) = Existing(once) /\ Even(twice, TRUE)
        /\ (Even(once, FALSE) => Even(twice, FALSE))
    <3> HIDE DEF twice
    <3>1. /\ TRUE \in BOOLEAN /\ FALSE \in BOOLEAN \ {TRUE}
          /\ twice = NumberedInstances(once, InstancesInOrder(once, OfBucket(once, TRUE)), TRUE)
      BY DEF twice
    <3> HIDE DEF kept, closed, new
    <3>2. Fit(twice) /\ Existing(twice) = Existing(once) /\ Even(twice, TRUE)
      BY ONLY <2>2, <3>1, ClosesUp
    <3>3. ASSUME Even(once, FALSE) PROVE Even(twice, FALSE)
      BY ONLY <2>2, <3>1, <3>3, ClosesUp
    <3> QED BY <3>1, <3>2, <3>3
  <2>4. \A c \in BOOLEAN : Even(twice, c)
    BY <2>2, <2>3
  <2> HIDE DEF twice
  <2>5. InstanceOrder(twice)
    BY <2>4 DEF InstanceOrder, Even
  <2>6. Fit(new) /\ InstanceOrder(new) /\ Existing(new) = Existing(instance) \ gone
    BY <1>1, <2>1, <2>2, <2>3, <2>5
  <2> QED BY <2>6 DEF new
<1> QED BY <1>3, <1>4

\* delete_plan: what a deletion takes, what it leaves, and what it remembers.
LEMMA DeleteFits ==
    ASSUME IInv, NEW p \in Plans, Delete(p)
    PROVE  IInv' /\ OrderStep /\ CriticalStep
<1> DEFINE A == Impact(p)
           gone == {i \in Existing(instance) : RootOf(i) \in A}
           cut == Cut(p, A)
<1>1. /\ Edit /\ Deletable(A) /\ UNCHANGED count
      /\ plan' = Renumbered(cut, A)
      /\ instance' = RemainingInstances(gone)
      /\ skipped' = IF Shell \in A THEN {} ELSE skipped \cup gone
      /\ unwanted' = {u \in unwanted \cup {<<p, plan[p].parent>>} :
                         /\ u \in unwanted \/ plan[p].status = "LINKED"
                         /\ {u[1][1], u[2]} \cap (A \cup {Shell}) = {}}
  BY DEF Delete, Omitted
<1>2. Shape(plan) /\ OwnOrder(plan) /\ OccurrencesFit /\ UnwantedFit
  BY DEF IInv
<1>3. Impacted(p, A)
  BY <1>2, ImpactIsLeast
<1>4. /\ Shape(cut) /\ Keeps(plan, cut) /\ SamePlaces(plan, cut)
      /\ plan[p].status = "LINKED" /\ p[1] # Root /\ plan[p].parent \notin A =>
            cut[plan[p].parent].status # "LINKED"
  <2> HIDE DEF A
  <2> QED BY <1>2, CutFits
<1>5. gone \in SUBSET Existing(instance)
      /\ \A i \in Existing(instance) : i \in gone <=> RootOf(i) \in A
  OBVIOUS
<1> HIDE DEF A, gone, cut
<1>6. PlansIn(cut) = Plans /\ A \subseteq Plans /\ p \in A
      /\ \A q \in Plans : cut[q].parent = plan[q].parent /\ cut[q].kind = plan[q].kind
  BY <1>3, <1>4 DEF Keeps, Plans, Impacted
<1>7. CanGo(cut, A)
  <2>1. Closed(cut, A)
    BY <1>3, <1>6 DEF Impacted, Closed, Plans
  <2> QED BY <1>1, <1>3, <1>6, <2>1 DEF CanGo, Deletable, Impacted
<1>8. /\ Thins(cut, plan', A)
      /\ \A g \in PlansIn(cut) \ A, c \in BOOLEAN :
            cut[g].kind = "GOAL" /\ Dense(cut, g, c) => Dense(plan', g, c)
  <2>1. \A q \in A : plan[q].parent = cut[q].parent
    BY <1>6
  <2> QED BY <1>1, <1>4, <1>7, <2>1, RenumberedFits
<1>9. Shape(plan')
  BY <1>4, <1>7, <1>8, ThinsShape
<1>10. /\ Plans' = Plans \ A
       /\ \A q \in Plans' : /\ plan'[q].parent = plan[q].parent /\ plan'[q].kind = plan[q].kind
                            /\ plan'[q].status = cut[q].status
  BY <1>6, <1>8 DEF Thins, Plans
<1>11. \A g \in Plans', c \in BOOLEAN :
          plan[g].kind = "GOAL" /\ Dense(plan, g, c) => Dense(plan', g, c)
  BY <1>4, <1>6, <1>8, <1>10, DetachDense
<1>12. OwnOrder(plan')
  BY <1>2, <1>10, <1>11 DEF OwnOrder, Plans
<1>13. OrderStep
  BY <1>11 DEF OrderStep
<1>14. CriticalStep
  <2> SUFFICES ASSUME NEW g \in Plans \cap Plans', NEW q \in CriticalChildren(g), q \notin Plans'
               PROVE  FALSE
    BY DEF CriticalStep
  <2>1. q \in Plans /\ plan[q].parent = g /\ plan[q].critical = TRUE
    BY DEF CriticalChildren, Bucket, Children, Plans
  <2>2. q \in A
    BY <1>10, <2>1
  <2>3. CriticalChildren(g) \subseteq A
    BY <1>3, <2>1, <2>2 DEF Impacted
  <2> QED BY <1>3, <1>10, <2>3 DEF Impacted
<1>15. OccurrencesFit'
  <2>1. /\ Fit(instance') /\ InstanceOrder(instance')
        /\ Existing(instance') = Existing(instance) \ gone
    BY <1>1, <1>2, <1>5, RemainingFit
  <2>2. \A i \in Occurrences : i \in Existing(instance') <=> RootOf(i) \in Plans'
    BY <1>2, <1>5, <1>10, <2>1 DEF OccurrencesFit
  <2>3. CASE Shell \in A
    <3>1. Existing(instance') = {}
      <4> SUFFICES ASSUME NEW i \in Existing(instance) PROVE i \in gone
        BY <2>1
      <4>1. i \in Occurrences /\ RootOf(i) \in PlansIn(plan)
        BY <1>2 DEF OccurrencesFit, Existing, Plans
      <4>2. plan[RootOf(i)].parent = Shell
        BY <1>2, <4>1, Names DEF Shape, ClonesFit
      <4> QED BY <1>3, <1>5, <2>3, <4>1, <4>2 DEF Impacted, Closed
    <3>2. skipped' = {}
      BY <1>1, <2>3
    <3>3. 0 \in 0 .. Cardinality(Occurrences) /\ 0 .. 0 - 1 = {}
      <4>1. Cardinality(Occurrences) \in Nat
        BY AllFinite
      <4> QED BY <4>1
    <3>4. Existing(instance') \cup skipped' = 0 .. 0 - 1
      BY <3>1, <3>2, <3>3
    <3> QED BY <1>1, <1>2, <2>1, <2>2, <3>1, <3>2, <3>3, <3>4 DEF OccurrencesFit, Fit
  <2>4. CASE Shell \notin A
    <3>1. skipped' = skipped \cup gone /\ skipped' \subseteq Occurrences
      BY <1>1, <1>2, <1>5, <2>4 DEF OccurrencesFit, Existing
    <3>2. Existing(instance') \cup skipped' = Existing(instance) \cup skipped
      BY <1>5, <2>1, <3>1
    <3>3. Existing(instance') \cap skipped' = {}
      BY <1>2, <2>1, <3>1 DEF OccurrencesFit
    <3>4. \E n \in 0 .. Cardinality(Occurrences) : Existing(instance') \cup skipped' = 0 .. n - 1
      BY <1>2, <3>2 DEF OccurrencesFit
    <3> QED BY <1>1, <1>2, <2>1, <2>2, <3>1, <3>3, <3>4 DEF OccurrencesFit, Fit
  <2> QED BY <2>3, <2>4
<1>16. UnwantedFit'
  <2> SUFFICES ASSUME NEW u \in unwanted'
               PROVE  /\ u \in Clones \X Clones /\ u[1] \notin Plans' /\ u[1][1] # Root
                      /\ u[1][1] \in Plans' /\ u[2] = <<plan'[u[1][1]].parent, u[1][2]>>
                      /\ u[2] \in Plans' /\ plan'[u[2]].status = "DETACHED"
    BY DEF UnwantedFit
  <2>1. /\ u \in unwanted \/ (u = <<p, plan[p].parent>> /\ plan[p].status = "LINKED")
        /\ u[1][1] \notin A /\ u[2] \notin A /\ u[2] # Shell
    BY <1>1
  <2>2. CASE u \in unwanted
    <3>1. /\ u \in Clones \X Clones /\ u[1] \notin Plans /\ u[1][1] # Root
          /\ u[1][1] \in Plans /\ u[2] = <<plan[u[1][1]].parent, u[1][2]>>
          /\ u[2] \in Plans /\ plan[u[2]].status = "DETACHED"
      BY <1>2, <2>2 DEF UnwantedFit
    <3>2. cut[u[2]].status = "DETACHED"
      BY <1>4, <3>1 DEF Keeps, Plans
    <3> QED BY <1>10, <2>1, <3>1, <3>2
  <2>3. CASE u = <<p, plan[p].parent>> /\ plan[p].status = "LINKED"
    <3> DEFINE above == plan[p].parent
    <3>1. p \in PlansIn(plan) \cap Clones /\ u[1] = p /\ u[2] = above
      BY <1>2, <2>3, Rows, Names DEF Shape, OwnFit, Plans
    <3>2. p[1] # Root
      BY <1>2, <2>1, <3>1 DEF Shape, ClonesFit
    <3>3. p[1] \in Plans /\ above = <<plan[p[1]].parent, p[2]>> /\ above \in Plans \cap Clones
      BY <1>2, <3>1, <3>2 DEF Shape, ClonesFit, Plans
    <3>4. cut[above].status = "DETACHED"
      BY <1>4, <1>6, <2>1, <2>3, <3>1, <3>2, <3>3 DEF Shape, ClonesFit
    <3>5. p \notin Plans' /\ p[1] \in Plans' /\ above \in Plans'
      BY <1>6, <1>10, <2>1, <3>1, <3>3
    <3> QED BY <1>10, <2>3, <3>1, <3>2, <3>3, <3>4, <3>5
  <2> QED BY <2>1, <2>2, <2>3
<1>17. edits' \in 0 .. MaxEdits
  BY <1>1, EditsCounted
<1> QED BY <1>9, <1>12, <1>13, <1>14, <1>15, <1>16, <1>17 DEF IInv

-----------------------------------------------------------------------------
(* The theorems.                                                           *)

\* Every step keeps the inductive invariant, the order of siblings and critical siblings
\* together.
LEMMA StepFits ==
    ASSUME IInv, [Next]_vars
    PROVE  IInv' /\ OrderStep /\ CriticalStep
<1>1. ASSUME NEW g \in Plans, NEW id \in New, NEW kind \in {"GOAL", "TASK"}, NEW c \in BOOLEAN,
             Create(g, id, kind, c)
      PROVE  IInv' /\ OrderStep /\ CriticalStep
  BY <1>1, CreateFits
<1>2. ASSUME NEW g \in Plans, NEW C \in SUBSET Children(plan, g),
             NEW critical \in SetToSeqs(C), NEW others \in SetToSeqs(Children(plan, g) \ C),
             OrderChildren(g, critical, others)
      PROVE  IInv' /\ OrderStep /\ CriticalStep
  BY <1>2, OrderChildrenFits
<1>3. ASSUME NEW p \in Plans, NEW c \in BOOLEAN,
             NEW place \in 0 .. Cardinality(Children(plan, plan[p].parent)), Move(p, c, place)
      PROVE  IInv' /\ OrderStep /\ CriticalStep
  BY <1>3, MoveFits
<1>4. ASSUME NEW i \in Occurrences, NEW c \in BOOLEAN, NEW place \in Occurrences,
             MoveInstance(i, c, place)
      PROVE  IInv' /\ OrderStep /\ CriticalStep
  BY <1>4, MoveInstanceFits
<1>5. ASSUME NEW p \in Plans, Change(p)
      PROVE  IInv' /\ OrderStep /\ CriticalStep
  BY <1>5, ChangeFits
<1>6. ASSUME NEW p \in Plans, Delete(p)
      PROVE  IInv' /\ OrderStep /\ CriticalStep
  BY <1>6, DeleteFits
<1>7. CASE Grow
  BY <1>7, GrowFits
<1>8. CASE Refresh
  BY <1>8, RefreshFits
<1>9. CASE UNCHANGED vars
  <2>1. plan' = plan /\ instance' = instance /\ skipped' = skipped /\ count' = count
        /\ edits' = edits /\ unwanted' = unwanted
    BY <1>9 DEF vars
  <2>2. Shape(plan') /\ OwnOrder(plan') /\ UnwantedFit' /\ OrderStep /\ CriticalStep /\ Plans' = Plans
    BY <2>1, SamePlans
  <2>3. OccurrencesFit'
    BY <2>1, <2>2, OccurrencesKept DEF IInv, OccurrencesFit
  <2> QED BY <2>1, <2>2, <2>3 DEF IInv
<1> QED BY <1>1, <1>2, <1>3, <1>4, <1>5, <1>6, <1>7, <1>8, <1>9 DEF Next

\* No edit, deletion or refresh leads out of the inductive invariant.
THEOREM Inv == Spec => []IInv
<1>1. IInv /\ [Next]_vars => IInv'
  BY StepFits
<1> QED BY InitFits, <1>1, PTL DEF Spec

\* Every stored row is well formed, and exactly the children of goals have a place.
THEOREM TypeCorrect == Spec => []TypeOK
<1>1. IInv => TypeOK
  <2> SUFFICES ASSUME IInv PROVE TypeOK
    OBVIOUS
  <2>1. Shape(plan) /\ OccurrencesFit /\ UnwantedFit /\ edits \in 0 .. MaxEdits
    BY DEF IInv
  <2>2. ASSUME NEW p \in Plans \ {Master}
        PROVE  IF IsGoal(plan[p].parent) THEN None \notin {plan[p].critical, plan[p].order}
                                         ELSE {plan[p].critical, plan[p].order} = {None}
    <3>1. /\ IsRoot(p) => plan[p].critical = None /\ plan[p].order = None
          /\ ~IsRoot(p) => plan[p].critical \in BOOLEAN /\ plan[p].order \in Nat
      BY <2>1 DEF Shape, Placed, Plans
    <3>2. CASE IsRoot(p)
      <4>1. plan[p].parent = Shell
        BY <2>1, <3>2, Names DEF IsRoot, Shape, OwnFit, ClonesFit, Plans
      <4>2. ~IsGoal(Shell)
        BY <2>1 DEF IsGoal, Shape, Kinds, Plans
      <4>3. ~IsGoal(plan[p].parent)
        BY <4>1, <4>2
      <4> QED BY <3>1, <3>2, <4>3
    <3>3. CASE ~IsRoot(p)
      <4>1. IsGoal(plan[p].parent)
        <5>1. p \in Ids \/ p \in Clones
          BY <2>1, Rows, Names DEF Shape, Plans
        <5>2. CASE p \in Ids
          BY <2>1, <3>3, <5>2 DEF IsRoot, IsGoal, Shape, OwnFit, Plans
        <5>3. CASE p \in Clones
          <6>1. p[1] # Root /\ p \in PlansIn(plan) \cap Clones
            BY <3>3, <5>3 DEF IsRoot, Plans
          <6>2. /\ p[1] \in PlansIn(plan) /\ plan[p].parent = <<plan[p[1]].parent, p[2]>>
                /\ plan[p].parent \in PlansIn(plan) \cap Clones
            BY <2>1, <6>1 DEF Shape, ClonesFit
          <6>3. plan[plan[p].parent].kind = plan[plan[p].parent[1]].kind
            BY <2>1, <6>2 DEF Shape, ClonesFit
          <6>4. plan[p].parent[1] = plan[p[1]].parent
            BY <6>2
          <6>5. p[1] \in Ids \ {Master, Root}
            BY <6>1, Names
          <6>6. plan[plan[p[1]].parent].kind = "GOAL"
            BY <2>1, <6>2, <6>5 DEF Shape, OwnFit
          <6> QED BY <6>2, <6>3, <6>4, <6>6 DEF IsGoal, Plans
        <5> QED BY <5>1, <5>2, <5>3
      <4> QED BY <3>1, <3>3, <4>1, NoneAssumption
    <3> QED BY <3>2, <3>3
  <2>3. unwanted \subseteq Clones \X Clones
    BY <2>1 DEF UnwantedFit
  <2> QED BY <2>1, <2>2, <2>3 DEF TypeOK, Shape, Typed, OccurrencesFit
<1> QED BY Inv, <1>1, PTL

\* The validation of the tree finds nothing but gaps in the order of a goal's children.
THEOREM TreeStaysValid == Spec => []TreeValid
<1>1. IInv => TreeValid
  <2> SUFFICES ASSUME IInv PROVE TreeValid
    OBVIOUS
  <2>1. Shape(plan) /\ OccurrencesFit
    BY DEF IInv
  <2>2. MasterGoalValid
    BY <2>1 DEF MasterGoalValid, Shape, Rooted, Plans
  <2>3. Reachable
    <3> DEFINE B == Below(plan, Master)
    <3>1. Master \in All /\ Plans \in SUBSET All /\ Master \in Plans
      BY <2>1, Names DEF Shape, Rooted, Plans, PlansIn
    <3>2. B \in SUBSET All /\ Master \in B /\ Closed(plan, B)
          /\ \A T \in SUBSET All : Master \in T /\ Closed(plan, T) => B \subseteq T
      BY <3>1, BelowIsLeast
    <3> HIDE DEF B
    <3>3. Plans \subseteq B
      BY <2>1, <3>2 DEF Shape, Rooted, Plans
    <3>4. Closed(plan, Plans)
      BY DEF Closed, Plans
    <3> QED BY <3>1, <3>2, <3>3, <3>4 DEF Reachable, B
  <2>4. MasterChildrenValid
    <3>1. \A p \in Children(plan, Master) : p # Master
      BY <2>1, Names DEF Children, Shape, Rooted
    <3> QED BY <2>1, <3>1 DEF MasterChildrenValid, Children, Shape, Placed
  <2>5. RepetitionValid
    <3>1. Root \in PlansIn(plan) => /\ plan[Root].parent = Shell
                                    /\ plan[Root].critical = None /\ plan[Root].order = None
      BY <2>1, Names DEF Shape, OwnFit, Placed, IsRoot
    <3> QED BY <2>1, <3>1 DEF RepetitionValid, Children, Shape, Plans
  <2>6. TemplateStatusValid
    BY <2>1, Rows, Names DEF TemplateStatusValid, Shape, OwnFit, ClonesFit, Plans
  <2>7. InstancesValid
    <3>1. \A i \in Existing(instance) : RootOf(i) \in Children(plan, Shell)
      BY <2>1, Names DEF OccurrencesFit, Existing, Children, Shape, ClonesFit, Plans
    <3> QED BY <2>1, <3>1 DEF InstancesValid, OccurrencesFit, InstanceOrder
  <2> QED BY <2>2, <2>3, <2>4, <2>5, <2>6, <2>7 DEF TreeValid
<1> QED BY Inv, <1>1, PTL

\* No occurrence is generated a second time, and no clone outlives its instance.
THEOREM GeneratedOnce == Spec => []OccurrencesOnce
<1>1. IInv => OccurrencesOnce
  <2> SUFFICES ASSUME IInv PROVE OccurrencesOnce
    OBVIOUS
  <2>1. Shape(plan) /\ OccurrencesFit
    BY DEF IInv
  <2>2. \A k \in Clones \cap Plans : k[2] \in Occurrences /\ RootOf(k[2]) \in Plans
    BY <2>1, CloneRoots, Names DEF Plans
  <2> QED BY <2>1, <2>2 DEF OccurrencesOnce, OccurrencesFit
<1> QED BY Inv, <1>1, PTL

\* A deleted clone is not brought back below the goal it was deleted from.
THEOREM StaysDeleted == Spec => []DeletedStaysDeleted
<1>1. IInv => DeletedStaysDeleted
  BY DEF IInv, UnwantedFit, DeletedStaysDeleted
<1> QED BY Inv, <1>1, PTL

\* A second refresh finds nothing left to follow.
THEOREM Settles == Spec => []RefreshSettles
<1>1. IInv => RefreshSettles
  BY FollowedSettles DEF IInv, RefreshSettles
<1> QED BY Inv, <1>1, PTL

\* Edits keep every goal's order dense, and so does a refresh below goals whose children
\* are all in the template's hands.
THEOREM OrderIsKept == Spec => OrderKept
<1>1. IInv /\ [Next]_vars => [OrderStep]_vars
  BY StepFits
<1> QED BY Inv, <1>1, PTL DEF Spec, OrderKept, OrderStep

\* A goal's critical children go together, and with the goal.
THEOREM CriticalStayTogether == Spec => CriticalTogether
<1>1. IInv /\ [Next]_vars => [CriticalStep]_vars
  BY StepFits
<1> QED BY Inv, <1>1, PTL DEF Spec, CriticalTogether, CriticalStep
=============================================================================
