----------------------- MODULE AssignmentSolver_proofs -----------------------
(***************************************************************************)
(* What holds of a refresh's placements for every set of plans, windows    *)
(* and edges.                                                              *)
(***************************************************************************)
EXTENDS AssignmentSolver, TLAPS

-----------------------------------------------------------------------------
(* The inductive invariant.                                                *)

\* The windows of this phase, and those the sweep has seen.
PhaseIntervals ==
    {i \in Interval : i.leaf \in InPhase /\ i.window \in windows[i.leaf]}

Swept == PhaseIntervals \ intervals

\* What is empty when.
ShapeInv ==
    /\ pc # "join" => edges = {} /\ intervals = {}
    /\ pc \notin {"greedy", "failed"} => greedy = {}
    /\ phase = "blocks" => \A t \in Tasks : Unplaced(t)
    /\ pc \in {"resolve", "join"} => \A l \in InPhase : Unplaced(l)
    /\ status = "INFEASIBLE" => pc = "failed"

\* furthest is the swept window that reaches furthest, no window left starts earlier
\* than one swept.
FurthestInv ==
    /\ furthest = None => Swept = {}
    /\ furthest # None =>
          /\ furthest \in Swept
          /\ \A i \in Swept : i.window.end <= furthest.window.end
    /\ \A i \in Swept, j \in intervals : i.window.start <= j.window.start

\* A swept window is in the component of the furthest one, or no window left reaches it.
\* So a window that overlaps any swept one belongs to the furthest one's component.
IslandInv ==
    \A i \in Swept :
        \/ group[i.leaf] = group[furthest.leaf]
        \/ \A j \in intervals : i.window.end <= j.window.start

\* What has been seen is joined.
JoinedInv ==
    /\ \A e \in PhaseEdges \ edges : group[e[1]] = group[e[2]]
    /\ \A i, j \in Swept :
          Overlaps(i.window, j.window) => group[i.leaf] = group[j.leaf]

\* Nothing is joined without need.
FinestInv ==
    \A ls \in SUBSET InPhase : Closed(ls) =>
        \A l, m \in InPhase : group[l] = group[m] => (l \in ls <=> m \in ls)

DecompositionInv ==
    pc \in {"join", "solve", "greedy"} =>
        FurthestInv /\ IslandInv /\ JoinedInv /\ FinestInv

\* Plans placed so far are placed well by themselves and within their component.
PlacedInv ==
    pc \in {"solve", "greedy"} =>
        /\ \A l \in InPhase : ~Unplaced(l) => placed[l] \in Placements(l)
        /\ \A l, m \in InPhase :
              l # m /\ group[l] = group[m] => Apart(placed[l], placed[m])
        /\ \A e \in PhaseEdges : Before(placed[e[1]], placed[e[2]])

\* The heuristic works on one component.
GreedyInv ==
    pc = "greedy" =>
        \A l \in greedy, m \in InPhase : m \in greedy <=> group[m] = group[l]

IInv ==
    /\ TypeOK /\ ShapeInv /\ DecompositionInv /\ PlacedInv /\ GreedyInv
    /\ InfeasibleProven

-----------------------------------------------------------------------------
(* Operators.                                                              *)

\* A window of either phase's plans is a window.
LEMMA EffectiveWindowsType ==
    ASSUME TypeOK, NEW l \in Leaves
    PROVE  EffectiveWindows(l) \subseteq Window
<1>1. CASE l \in Tasks
    BY <1>1 DEF EffectiveWindows, MergedWindows
<1>2. CASE l \notin Tasks
    BY <1>2 DEF EffectiveWindows, TypeOK, Input
<1> QED BY <1>1, <1>2

LEMMA PlacementsType ==
    ASSUME NEW l, NEW vs \in Placements(l)
    PROVE  vs \subseteq Window
BY DEF Placements, Candidates

\* What is known of a solution.
LEMMA SolutionParts ==
    ASSUME NEW ls, NEW assignment \in Solutions(ls)
    PROVE  /\ \A l \in ls : assignment[l] \in Placements(l)
           /\ Compatible(ls, assignment)
<1>1. Compatible(ls, assignment)
    BY DEF Solutions
<1>2. ASSUME NEW l \in ls
      PROVE  assignment[l] \in Placements(l)
    <2>1. <<l, assignment[l]>> \in UNION {{m} \X Placements(m) : m \in ls}
        BY DEF Solutions
    <2>2. PICK m \in ls : <<l, assignment[l]>> \in {m} \X Placements(m)
        BY <2>1
    <2> QED BY <2>2
<1> QED BY <1>1, <1>2

\* And what is enough to be one.
LEMMA IsSolution ==
    ASSUME NEW ls, NEW assignment,
           assignment = [l \in ls |-> assignment[l]],
           \A l \in ls : assignment[l] \in Placements(l),
           Compatible(ls, assignment)
    PROVE  assignment \in Solutions(ls)
<1> DEFINE options == UNION {{l} \X Placements(l) : l \in ls}
<1>1. \A l \in ls : <<l, assignment[l]>> \in options
    OBVIOUS
<1>2. \A l \in ls : assignment[l] \in {o[2] : o \in options}
    <2> TAKE l \in ls
    <2>1. <<l, assignment[l]>>[2] = assignment[l]
        OBVIOUS
    <2> QED BY <1>1, <2>1
<1>3. assignment \in [ls -> {o[2] : o \in options}]
    BY <1>2
<1> QED BY <1>1, <1>3 DEF Solutions

\* Part of a solution is a solution of the part.
LEMMA SolutionOfPart ==
    ASSUME NEW ls, NEW ms \in SUBSET ls, Solutions(ms) = {}
    PROVE  Solutions(ls) = {}
<1> SUFFICES ASSUME NEW assignment \in Solutions(ls)
             PROVE  FALSE
    OBVIOUS
<1> DEFINE part == [m \in ms |-> assignment[m]]
<1>1. /\ \A l \in ls : assignment[l] \in Placements(l)
      /\ Compatible(ls, assignment)
    BY SolutionParts
<1>2. \A m \in ms : part[m] = assignment[m]
    OBVIOUS
<1>3. part = [m \in ms |-> part[m]]
    OBVIOUS
<1> HIDE DEF part
<1>4. \A m \in ms : part[m] \in Placements(m)
    BY <1>1, <1>2
<1>5. Compatible(ms, part)
    BY <1>1, <1>2 DEF Compatible
<1>6. part \in Solutions(ms)
    BY <1>3, <1>4, <1>5, IsSolution
<1> QED BY <1>6

-----------------------------------------------------------------------------
(* Type correctness.                                                       *)

\* Where a component's plans are placed, windows are placed.
LEMMA SolveType ==
    ASSUME TypeOK, NEW l \in Leaves, SolveExact(l)
    PROVE  placed' \in [Leaves -> SUBSET Window]
<1>1. PICK assignment \in ExactSolutions(Component(l)) :
          placed' = [m \in Leaves |->
                        IF m \in Component(l) THEN assignment[m] ELSE placed[m]]
    BY DEF SolveExact
<1>2. assignment \in Solutions(Component(l))
    BY DEF ExactSolutions
<1>3. \A m \in Component(l) : assignment[m] \subseteq Window
    BY <1>2, SolutionParts, PlacementsType
<1> QED BY <1>1, <1>3 DEF TypeOK

LEMMA TypeStep ==
    ASSUME TypeOK, ShapeInv, [Next]_vars
    PROVE  TypeOK'
<1> USE DEF InPhase, PhaseEdges, Leaves
<1>1. CASE Resolve
    <2>1. CASE pc' = "failed"
        BY <1>1, <2>1 DEF Resolve, Fail, TypeOK, decomposition
    <2>2. CASE pc' # "failed"
        <3>1. /\ pc' = "join"
              /\ windows' = [l \in Leaves |->
                                IF l \in InPhase THEN EffectiveWindows(l) ELSE {}]
              /\ edges' = PhaseEdges
              /\ intervals' = {i \in Interval : i.window \in windows'[i.leaf]}
              /\ furthest' = None
              /\ group' = [l \in Leaves |-> l]
              /\ UNCHANGED <<status, input, phase, greedy, placed>>
            BY <1>1, <2>2 DEF Resolve, Fail
        <3>2. windows' \in [Leaves -> SUBSET Window]
            BY <3>1, EffectiveWindowsType
        <3>3. \A i \in intervals' : i.leaf \in InPhase /\ i.leaf \in Leaves
            BY <3>1 DEF Interval
        <3>4. intervals' \subseteq
                  {i \in Interval : i.leaf \in InPhase' /\ i.window \in windows'[i.leaf]}
            BY <3>1, <3>3
        <3> QED BY <3>1, <3>2, <3>4 DEF TypeOK
    <2> QED BY <2>1, <2>2
<1>2. ASSUME NEW e \in edges, JoinEdge(e)
      PROVE  TypeOK'
    BY <1>2 DEF JoinEdge, Union, TypeOK
<1>3. ASSUME NEW i \in intervals, SweepInterval(i)
      PROVE  TypeOK'
    <2>1. furthest' \in Interval \cup {None}
        BY <1>3 DEF SweepInterval, Further, TypeOK
    <2>2. group' \in [Leaves -> Leaves]
        <3>1. i \in Interval /\ i.leaf \in Leaves
            BY <1>3 DEF TypeOK, Interval
        <3> QED BY <1>3, <3>1 DEF SweepInterval, Union, TypeOK
    <2> QED BY <1>3, <2>1, <2>2 DEF SweepInterval, TypeOK
<1>4. CASE EndDecomposition
    BY <1>4 DEF EndDecomposition, TypeOK, decomposition
<1>5. ASSUME NEW l \in Leaves, SolveExact(l)
      PROVE  TypeOK'
    <2>1. placed' \in [Leaves -> SUBSET Window]
        BY <1>5, SolveType
    <2> QED BY <1>5, <2>1 DEF SolveExact, TypeOK, decomposition
<1>6. ASSUME NEW l \in Leaves, ProveInfeasible(l)
      PROVE  TypeOK'
    BY <1>6 DEF ProveInfeasible, Fail, TypeOK, decomposition
<1>7. ASSUME NEW l \in Leaves, GiveUpExact(l)
      PROVE  TypeOK'
    BY <1>7 DEF GiveUpExact, Component, Fail, TypeOK, decomposition
<1>8. ASSUME NEW l \in greedy, PlaceGreedily(l)
      PROVE  TypeOK'
    <2>1. placed' \in [Leaves -> SUBSET Window]
        BY <1>8, PlacementsType DEF PlaceGreedily, GreedyPlacements, TypeOK
    <2> QED BY <1>8, <2>1 DEF PlaceGreedily, Fail, TypeOK, decomposition
<1>9. CASE EndGreedy
    BY <1>9 DEF EndGreedy, TypeOK, decomposition
<1>10. CASE Validate
    BY <1>10 DEF Validate, ShapeInv, Fail, TypeOK, decomposition
<1>11. CASE UNCHANGED vars
    BY <1>11 DEF vars, decomposition, TypeOK
<1> QED BY <1>1, <1>2, <1>3, <1>4, <1>5, <1>6, <1>7, <1>8, <1>9, <1>10, <1>11 DEF Next

LEMMA ShapeStep ==
    ASSUME TypeOK, ShapeInv, MergedValid, [Next]_vars
    PROVE  ShapeInv'
<1> USE DEF InPhase, Leaves, Unplaced
<1>1. CASE Resolve
    BY <1>1 DEF Resolve, Fail, ShapeInv, decomposition
<1>2. ASSUME NEW e \in edges, JoinEdge(e)
      PROVE  ShapeInv'
    BY <1>2 DEF JoinEdge, ShapeInv
<1>3. ASSUME NEW i \in intervals, SweepInterval(i)
      PROVE  ShapeInv'
    BY <1>3 DEF SweepInterval, ShapeInv
<1>4. CASE EndDecomposition
    BY <1>4 DEF EndDecomposition, ShapeInv, decomposition
<1>5. ASSUME NEW l \in Leaves, SolveExact(l)
      PROVE  ShapeInv'
    <2>1. \A m \in Leaves : m \notin InPhase => placed'[m] = placed[m]
        BY <1>5 DEF SolveExact, Component
    <2> QED BY <1>5, <2>1, LeafAssumption DEF SolveExact, Unsolved, ShapeInv, decomposition
<1>6. ASSUME NEW l \in Leaves, ProveInfeasible(l)
      PROVE  ShapeInv'
    BY <1>6 DEF ProveInfeasible, Unsolved, Fail, ShapeInv, decomposition
<1>7. ASSUME NEW l \in Leaves, GiveUpExact(l)
      PROVE  ShapeInv'
    BY <1>7 DEF GiveUpExact, Unsolved, Fail, ShapeInv, decomposition
<1>8. ASSUME NEW l \in greedy, PlaceGreedily(l)
      PROVE  ShapeInv'
    <2>1. \A m \in Leaves : m \notin InPhase => placed'[m] = placed[m]
        BY <1>8 DEF PlaceGreedily, TypeOK
    <2> QED BY <1>8, <2>1, LeafAssumption
            DEF PlaceGreedily, Fail, ShapeInv, decomposition
<1>9. CASE EndGreedy
    BY <1>9 DEF EndGreedy, ShapeInv, decomposition
<1>10. CASE Validate
    <2>1. Valid(InPhase, placed)
        BY <1>10 DEF Validate, MergedValid
    <2> QED BY <1>10, <2>1 DEF Validate, ShapeInv, decomposition
<1>11. CASE UNCHANGED vars
    BY <1>11 DEF vars, decomposition, ShapeInv
<1> QED BY <1>1, <1>2, <1>3, <1>4, <1>5, <1>6, <1>7, <1>8, <1>9, <1>10, <1>11 DEF Next

-----------------------------------------------------------------------------
(* Decomposition.                                                          *)

LEMMA CoupledSymmetric ==
    ASSUME NEW l, NEW m, Coupled(l, m)
    PROVE  Coupled(m, l)
BY DEF Coupled, Overlaps

\* Joining two plans that have to be together keeps the partition finest.
LEMMA UnionFinest ==
    ASSUME TypeOK, FinestInv, NEW a \in InPhase, NEW b \in InPhase, Coupled(a, b),
           group' = Union(a, b), UNCHANGED <<input, phase, windows>>
    PROVE  FinestInv'
<1>1. InPhase' = InPhase /\ InPhase \subseteq Leaves
    BY DEF InPhase, Leaves
<1>2. \A ls : Closed(ls)' <=> Closed(ls)
    BY <1>1 DEF Closed, Coupled, PhaseEdges
<1>3. ASSUME NEW ls \in SUBSET InPhase, Closed(ls)
      PROVE  a \in ls <=> b \in ls
    BY <1>3, CoupledSymmetric DEF Closed
<1>4. ASSUME NEW ls \in SUBSET InPhase, Closed(ls),
             NEW l \in InPhase, NEW m \in InPhase, group'[l] = group'[m]
      PROVE  l \in ls <=> m \in ls
    <2>1. \A n \in InPhase :
              group'[n] = IF group[n] = group[b] THEN group[a] ELSE group[n]
        BY <1>1 DEF Union
    <2>2. \A n, o \in InPhase : group[n] = group[o] => (n \in ls <=> o \in ls)
        BY <1>4 DEF FinestInv
    <2> QED BY <1>3, <1>4, <2>1, <2>2
<1> QED BY <1>1, <1>2, <1>4 DEF FinestInv

\* What was in one component stays in one.
LEMMA UnionJoins ==
    ASSUME TypeOK, NEW a \in Leaves, NEW b \in Leaves, group' = Union(a, b)
    PROVE  /\ group'[a] = group'[b]
           /\ \A l, m \in Leaves : group[l] = group[m] => group'[l] = group'[m]
BY DEF Union, TypeOK

\* Steps that touch no part of the decomposition keep it.
LEMMA DecompositionKept ==
    ASSUME DecompositionInv, UNCHANGED <<input, phase, windows, decomposition>>,
           pc' \in {"join", "solve", "greedy"} => pc \in {"join", "solve", "greedy"}
    PROVE  DecompositionInv'
BY DEF DecompositionInv, FurthestInv, IslandInv, JoinedInv, FinestInv, Swept,
       PhaseIntervals, PhaseEdges, Closed, Coupled, InPhase, decomposition

LEMMA ResolveDecomposes ==
    ASSUME TypeOK, Resolve
    PROVE  DecompositionInv'
<1> SUFFICES ASSUME pc' \in {"join", "solve", "greedy"}
             PROVE  (FurthestInv /\ IslandInv /\ JoinedInv /\ FinestInv)'
    BY DEF DecompositionInv
<1>1. /\ UNCHANGED <<input, phase>>
      /\ edges' = PhaseEdges
      /\ intervals' = {i \in Interval : i.window \in windows'[i.leaf]}
      /\ furthest' = None
      /\ group' = [l \in Leaves |-> l]
    BY DEF Resolve, Fail
<1>2. Swept' = {}
    BY <1>1 DEF Swept, PhaseIntervals
<1>3. PhaseEdges' = PhaseEdges /\ InPhase' = InPhase /\ InPhase \subseteq Leaves
    BY <1>1 DEF PhaseEdges, InPhase, Leaves
<1>4. FurthestInv' /\ IslandInv'
    BY <1>1, <1>2 DEF FurthestInv, IslandInv
<1>5. JoinedInv'
    BY <1>1, <1>2, <1>3 DEF JoinedInv
<1>6. FinestInv'
    <2>1. \A l \in InPhase' : group'[l] = l
        BY <1>1, <1>3
    <2> QED BY <2>1 DEF FinestInv
<1> QED BY <1>4, <1>5, <1>6

LEMMA JoinEdgeDecomposes ==
    ASSUME TypeOK, DecompositionInv, NEW e \in edges, JoinEdge(e)
    PROVE  DecompositionInv'
<1>1. /\ pc = "join" /\ pc' = "join"
      /\ FurthestInv /\ IslandInv /\ JoinedInv /\ FinestInv
    BY DEF JoinEdge, DecompositionInv
<1>2. /\ UNCHANGED <<input, phase, windows, intervals, furthest>>
      /\ edges' = edges \ {e} /\ group' = Union(e[1], e[2])
    BY DEF JoinEdge
<1>3. PhaseEdges' = PhaseEdges /\ Swept' = Swept
    BY <1>2 DEF PhaseEdges, InPhase, Swept, PhaseIntervals
<1>4. /\ e \in PhaseEdges /\ e[1] \in InPhase /\ e[2] \in InPhase
      /\ InPhase \subseteq Leaves /\ e = <<e[1], e[2]>>
    <2>1. e \in PhaseEdges /\ InPhase \subseteq Leaves
        BY DEF TypeOK, InPhase, Leaves
    <2>2. e \in Leaves \X Leaves
        BY <2>1 DEF PhaseEdges, TypeOK, Input
    <2> QED BY <2>1, <2>2 DEF PhaseEdges
<1>5. /\ group'[e[1]] = group'[e[2]]
      /\ \A l, m \in Leaves : group[l] = group[m] => group'[l] = group'[m]
    BY <1>2, <1>4, UnionJoins
<1>6. \A i \in Swept : i.leaf \in Leaves
    BY DEF Swept, PhaseIntervals, Interval
<1>7. \A f \in PhaseEdges : f[1] \in Leaves /\ f[2] \in Leaves
    BY <1>4 DEF PhaseEdges
<1>8. FurthestInv'
    BY <1>1, <1>2, <1>3 DEF FurthestInv
<1>9. IslandInv'
    <2>1. CASE Swept = {}
        BY <2>1, <1>3 DEF IslandInv
    <2>2. CASE Swept # {}
        <3>1. furthest.leaf \in Leaves
            BY <2>2, <1>1, <1>6 DEF FurthestInv
        <3> QED BY <3>1, <1>1, <1>2, <1>3, <1>5, <1>6 DEF IslandInv
    <2> QED BY <2>1, <2>2
<1>10. JoinedInv'
    BY <1>1, <1>2, <1>3, <1>5, <1>6, <1>7 DEF JoinedInv
<1>11. FinestInv'
    <2>1. Coupled(e[1], e[2])
        BY <1>4 DEF Coupled
    <2> QED BY <1>1, <1>2, <1>4, <2>1, UnionFinest
<1> QED BY <1>1, <1>8, <1>9, <1>10, <1>11 DEF DecompositionInv

\* The step with content: the window swept is compared with the furthest one only.
LEMMA SweepDecomposes ==
    ASSUME TypeOK, DecompositionInv, NEW i \in intervals, SweepInterval(i)
    PROVE  DecompositionInv'
<1> DEFINE meets == furthest # None /\ i.window.start < furthest.window.end
<1>1. /\ pc = "join" /\ pc' = "join" /\ edges = {}
      /\ FurthestInv /\ IslandInv /\ JoinedInv /\ FinestInv
    BY DEF SweepInterval, DecompositionInv
<1>2. /\ UNCHANGED <<input, phase, windows, edges>>
      /\ \A j \in intervals : i.window.start <= j.window.start
      /\ meets => group' = Union(i.leaf, furthest.leaf)
      /\ ~meets => group' = group
      /\ furthest' = Further(i)
      /\ intervals' = intervals \ {i}
    BY DEF SweepInterval
<1>3. i \in PhaseIntervals /\ intervals \subseteq PhaseIntervals
    BY DEF TypeOK, PhaseIntervals
<1>4. /\ PhaseIntervals' = PhaseIntervals
      /\ Swept' = Swept \cup {i}
      /\ i \notin Swept
    <2>1. PhaseIntervals' = PhaseIntervals
        BY <1>2 DEF PhaseIntervals, InPhase
    <2> QED BY <2>1, <1>2, <1>3 DEF Swept
<1>5. \A j \in PhaseIntervals :
          /\ j.leaf \in InPhase /\ j.leaf \in Leaves
          /\ j.window.start \in Nat /\ j.window.end \in Nat
          /\ j.window.start < j.window.end
    <2> TAKE j \in PhaseIntervals
    <2>1. j.leaf \in Leaves /\ j.window \in Window
        BY DEF PhaseIntervals, Interval
    <2>2. /\ j.window.start \in Nat /\ j.window.end \in Nat
          /\ j.window.start < j.window.end
        BY <2>1, DurationAssumption DEF Window
    <2> QED BY <2>1, <2>2 DEF PhaseIntervals
<1>6. i.window.start <= i.window.end /\ i.leaf \in Leaves /\ i.leaf \in InPhase
    BY <1>3, <1>5
<1>7. InPhase' = InPhase /\ InPhase \subseteq Leaves /\ Swept \subseteq PhaseIntervals
    BY <1>2 DEF InPhase, Leaves, Swept
<1>8. furthest # None => furthest \in Swept /\ furthest \in PhaseIntervals
    BY <1>1, <1>7 DEF FurthestInv
<1>9. CASE ~meets
    <2>1. group' = group /\ furthest' = i
        BY <1>2, <1>3, <1>5, <1>8, <1>9 DEF Further
    <2>2. \A j \in Swept : j.window.end <= i.window.start
        <3> TAKE j \in Swept
        <3>1. furthest # None /\ j.window.end <= furthest.window.end
            BY <1>1 DEF FurthestInv
        <3>2. furthest.window.end <= i.window.start
            BY <3>1, <1>3, <1>5, <1>8, <1>9
        <3> QED BY <3>1, <3>2, <1>3, <1>5, <1>7, <1>8
    <2>3. FurthestInv'
        <3>1. \A j \in Swept' : j.window.end <= furthest'.window.end
            <4> TAKE j \in Swept'
            <4>1. CASE j = i
                BY <4>1, <2>1, <1>3, <1>5
            <4>2. CASE j \in Swept
                BY <4>2, <2>1, <2>2, <1>3, <1>5, <1>7
            <4> QED BY <4>1, <4>2, <1>4
        <3>2. furthest' # None
            BY <2>1, <1>3, NoneAssumption DEF PhaseIntervals, Interval
        <3>3. \A j \in Swept', k \in intervals' : j.window.start <= k.window.start
            BY <1>1, <1>2, <1>4 DEF FurthestInv
        <3> QED BY <2>1, <3>1, <3>2, <3>3, <1>4 DEF FurthestInv
    <2>4. IslandInv'
        <3> SUFFICES ASSUME NEW j \in Swept', group'[j.leaf] # group'[furthest'.leaf],
                            NEW k \in intervals'
                     PROVE  j.window.end <= k.window.start
            BY DEF IslandInv
        <3>1. j \in Swept
            BY <2>1, <1>4
        <3>2. j.window.end <= i.window.start /\ i.window.start <= k.window.start
            BY <3>1, <2>2, <1>2
        <3> QED BY <3>1, <3>2, <1>2, <1>3, <1>5, <1>7
    <2>5. JoinedInv'
        <3>1. \A e \in (PhaseEdges \ edges)' : group'[e[1]] = group'[e[2]]
            BY <1>1, <1>2, <1>7, <2>1 DEF JoinedInv, PhaseEdges
        <3>2. ASSUME NEW j \in Swept', NEW k \in Swept', Overlaps(j.window, k.window)
              PROVE  group'[j.leaf] = group'[k.leaf]
            <4>1. CASE j \in Swept /\ k \in Swept
                BY <4>1, <3>2, <2>1, <1>1 DEF JoinedInv
            <4>2. CASE j = i /\ k \in Swept
                <5>1. k.window.end <= i.window.start
                    BY <4>2, <2>2
                <5> QED BY <4>2, <5>1, <3>2, <1>3, <1>5, <1>7 DEF Overlaps
            <4>3. CASE j \in Swept /\ k = i
                <5>1. j.window.end <= i.window.start
                    BY <4>3, <2>2
                <5> QED BY <4>3, <5>1, <3>2, <1>3, <1>5, <1>7 DEF Overlaps
            <4> QED BY <4>1, <4>2, <4>3, <1>4
        <3> QED BY <3>1, <3>2 DEF JoinedInv
    <2>6. FinestInv'
        BY <1>1, <1>2, <1>7, <2>1 DEF FinestInv, Closed, Coupled, PhaseEdges
    <2> QED BY <1>1, <2>3, <2>4, <2>5, <2>6 DEF DecompositionInv
<1>10. CASE meets
    <2>1. /\ furthest \in Swept /\ furthest \in PhaseIntervals
          /\ i.window.start < furthest.window.end
          /\ furthest.window.start <= i.window.start
        BY <1>8, <1>10, <1>1 DEF FurthestInv
    <2>2. /\ group'[i.leaf] = group'[furthest.leaf]
          /\ \A l, m \in Leaves : group[l] = group[m] => group'[l] = group'[m]
        BY <1>2, <1>5, <1>6, <1>10, <2>1, UnionJoins
    <2>3. furthest' \in {i, furthest} /\ group'[furthest'.leaf] = group'[i.leaf]
        BY <1>2, <2>2 DEF Further
    <2>4. FurthestInv'
        <3>1. \A j \in Swept' : j.window.end <= furthest'.window.end
            <4> TAKE j \in Swept'
            <4>1. /\ i.window.end <= furthest'.window.end
                  /\ furthest.window.end <= furthest'.window.end
                <5>1. /\ furthest # None
                      /\ furthest.window.end \in Nat /\ i.window.end \in Nat
                    BY <1>3, <1>5, <1>10, <2>1
                <5>2. furthest' = IF furthest.window.end >= i.window.end
                                     THEN furthest ELSE i
                    BY <5>1, <1>2 DEF Further
                <5> QED BY <5>1, <5>2
            <4>2. CASE j = i
                BY <4>1, <4>2
            <4>3. CASE j \in Swept
                <5>1. j.window.end <= furthest.window.end
                    BY <4>3, <1>1, <1>10 DEF FurthestInv
                <5> QED BY <4>1, <4>3, <5>1, <1>3, <1>5, <1>7, <2>1, <2>3
            <4> QED BY <4>2, <4>3, <1>4
        <3>2. furthest' # None /\ furthest' \in Swept'
            BY <2>1, <2>3, <1>3, <1>4, NoneAssumption DEF PhaseIntervals, Interval
        <3>3. \A j \in Swept', k \in intervals' : j.window.start <= k.window.start
            BY <1>1, <1>2, <1>4 DEF FurthestInv
        <3> QED BY <3>1, <3>2, <3>3 DEF FurthestInv
    <2>5. IslandInv'
        <3> SUFFICES ASSUME NEW j \in Swept', group'[j.leaf] # group'[furthest'.leaf],
                            NEW k \in intervals'
                     PROVE  j.window.end <= k.window.start
            BY DEF IslandInv
        <3>1. j \in Swept /\ j.leaf \in Leaves /\ furthest.leaf \in Leaves
            BY <2>1, <2>3, <1>4, <1>5, <1>7
        <3>2. group[j.leaf] # group[furthest.leaf]
            BY <2>2, <2>3, <3>1
        <3> QED BY <3>1, <3>2, <1>1, <1>2 DEF IslandInv
    <2>6. JoinedInv'
        <3>1. \A e \in (PhaseEdges \ edges)' : group'[e[1]] = group'[e[2]]
            <4>1. (PhaseEdges \ edges)' = PhaseEdges \ edges
                BY <1>2, <1>7 DEF PhaseEdges
            <4>2. \A e \in PhaseEdges : e[1] \in Leaves /\ e[2] \in Leaves
                BY <1>7 DEF PhaseEdges
            <4> QED BY <4>1, <4>2, <1>1, <2>2 DEF JoinedInv
        <3>2. ASSUME NEW k \in Swept, Overlaps(i.window, k.window)
              PROVE  group'[i.leaf] = group'[k.leaf]
            <4>1. ~(k.window.end <= i.window.start)
                BY <3>2, <1>3, <1>5, <1>7 DEF Overlaps
            <4>2. group[k.leaf] = group[furthest.leaf]
                BY <4>1, <1>1 DEF IslandInv
            <4> QED BY <4>2, <2>1, <2>2, <1>5, <1>7
        <3>3. ASSUME NEW j \in Swept', NEW k \in Swept', Overlaps(j.window, k.window)
              PROVE  group'[j.leaf] = group'[k.leaf]
            <4>1. CASE j \in Swept /\ k \in Swept
                <5>1. group[j.leaf] = group[k.leaf]
                    BY <4>1, <3>3, <1>1 DEF JoinedInv
                <5> QED BY <4>1, <5>1, <2>2, <1>5, <1>7
            <4>2. CASE j = i
                BY <4>2, <3>2, <3>3, <1>4
            <4>3. CASE j \in Swept /\ k = i
                <5>1. Overlaps(i.window, j.window)
                    BY <4>3, <3>3 DEF Overlaps
                <5> QED BY <4>3, <5>1, <3>2
            <4> QED BY <4>1, <4>2, <4>3, <1>4
        <3> QED BY <3>1, <3>3 DEF JoinedInv
    <2>7. FinestInv'
        <3>1. Overlaps(i.window, furthest.window)
            BY <2>1, <1>3, <1>5 DEF Overlaps
        <3>2. i.window \in windows[i.leaf] /\ furthest.window \in windows[furthest.leaf]
            BY <1>3, <2>1 DEF PhaseIntervals
        <3>3. Coupled(i.leaf, furthest.leaf)
            BY <3>1, <3>2 DEF Coupled
        <3>4. i.leaf \in InPhase /\ furthest.leaf \in InPhase
            BY <1>3, <1>5, <2>1
        <3> QED BY <3>3, <3>4, <1>1, <1>2, <1>10, UnionFinest
    <2> QED BY <1>1, <2>4, <2>5, <2>6, <2>7 DEF DecompositionInv
<1> QED BY <1>9, <1>10

LEMMA DecompositionStep ==
    ASSUME TypeOK, DecompositionInv, [Next]_vars
    PROVE  DecompositionInv'
<1>1. CASE Resolve
    BY <1>1, ResolveDecomposes
<1>2. ASSUME NEW e \in edges, JoinEdge(e)
      PROVE  DecompositionInv'
    BY <1>2, JoinEdgeDecomposes
<1>3. ASSUME NEW i \in intervals, SweepInterval(i)
      PROVE  DecompositionInv'
    BY <1>3, SweepDecomposes
<1>4. CASE EndDecomposition
    BY <1>4, DecompositionKept DEF EndDecomposition
<1>5. ASSUME NEW l \in Leaves, SolveExact(l)
      PROVE  DecompositionInv'
    BY <1>5, DecompositionKept DEF SolveExact
<1>6. ASSUME NEW l \in Leaves, ProveInfeasible(l)
      PROVE  DecompositionInv'
    BY <1>6, DecompositionKept DEF ProveInfeasible, Fail
<1>7. ASSUME NEW l \in Leaves, GiveUpExact(l)
      PROVE  DecompositionInv'
    BY <1>7, DecompositionKept DEF GiveUpExact, Unsolved, Fail
<1>8. ASSUME NEW l \in greedy, PlaceGreedily(l)
      PROVE  DecompositionInv'
    BY <1>8, DecompositionKept DEF PlaceGreedily, Fail
<1>9. CASE EndGreedy
    BY <1>9, DecompositionKept DEF EndGreedy
<1>10. CASE Validate
    BY <1>10 DEF Validate, Fail, DecompositionInv
<1>11. CASE UNCHANGED vars
    BY <1>11, DecompositionKept DEF vars
<1> QED BY <1>1, <1>2, <1>3, <1>4, <1>5, <1>6, <1>7, <1>8, <1>9, <1>10, <1>11 DEF Next

\* Plans that have to be together are in one component.
LEMMA CoupledTogether ==
    ASSUME TypeOK, ShapeInv, DecompositionInv, pc \in {"solve", "greedy"},
           NEW l \in InPhase, NEW m \in InPhase, Coupled(l, m)
    PROVE  group[l] = group[m]
<1>1. JoinedInv /\ edges = {} /\ Swept = PhaseIntervals
    BY DEF DecompositionInv, ShapeInv, Swept
<1>2. CASE <<l, m>> \in PhaseEdges
    <2>1. group[<<l, m>>[1]] = group[<<l, m>>[2]]
        BY <1>1, <1>2 DEF JoinedInv
    <2> QED BY <2>1
<1>3. CASE <<m, l>> \in PhaseEdges
    <2>1. group[<<m, l>>[1]] = group[<<m, l>>[2]]
        BY <1>1, <1>3 DEF JoinedInv
    <2> QED BY <2>1
<1>4. ASSUME NEW v \in windows[l], NEW w \in windows[m], Overlaps(v, w)
      PROVE  group[l] = group[m]
    <2> DEFINE i == [leaf |-> l, window |-> v]
               j == [leaf |-> m, window |-> w]
    <2>1. l \in Leaves /\ m \in Leaves
        BY DEF InPhase, Leaves
    <2>2. v \in Window /\ w \in Window
        BY <1>4, <2>1 DEF TypeOK
    <2>3. i \in PhaseIntervals /\ j \in PhaseIntervals
        BY <2>1, <2>2 DEF PhaseIntervals, Interval
    <2>4. group[i.leaf] = group[j.leaf]
        BY <1>1, <1>4, <2>3 DEF JoinedInv
    <2> QED BY <2>4
<1> QED BY <1>2, <1>3, <1>4 DEF Coupled

LEMMA ComponentsExactFromInv ==
    ASSUME TypeOK, ShapeInv, DecompositionInv
    PROVE  ComponentsExact
<1> SUFFICES ASSUME pc \in {"solve", "greedy"}, NEW l \in InPhase
             PROVE  /\ Closed(Component(l))
                    /\ \A ls \in SUBSET InPhase :
                          l \in ls /\ Closed(ls) => Component(l) \subseteq ls
    BY DEF ComponentsExact
<1>1. Closed(Component(l))
    BY CoupledTogether DEF Closed, Component
<1>2. ASSUME NEW ls \in SUBSET InPhase, l \in ls, Closed(ls)
      PROVE  Component(l) \subseteq ls
    <2>1. FinestInv
        BY DEF DecompositionInv
    <2> QED BY <1>2, <2>1 DEF FinestInv, Component
<1> QED BY <1>1, <1>2

-----------------------------------------------------------------------------
(* Placements.                                                             *)

\* What a placement must satisfy does not change while a phase places its plans.
LEMMA RulesKept ==
    ASSUME UNCHANGED <<input, phase, windows>>,
           phase # "blocks" => \A b \in Blocks : placed'[b] = placed[b]
    PROVE  /\ Occupied' = Occupied
           /\ PhaseEdges' = PhaseEdges
           /\ InPhase' = InPhase
           /\ \A l : Placements(l)' = Placements(l)
           /\ \A ls : Solutions(ls)' = Solutions(ls)
<1>1. Occupied' = Occupied
    <2> DEFINE rows == {"new"} \X Blocks \X Window
    <2>1. CASE phase = "blocks"
        BY <2>1 DEF Occupied
    <2>2. CASE phase # "blocks"
        <3>1. \A r \in rows : r[2] \in Blocks
            OBVIOUS
        <3>2. {r \in rows : r[3] \in placed'[r[2]]} = {r \in rows : r[3] \in placed[r[2]]}
            BY <2>2, <3>1
        <3> QED BY <2>2, <3>2 DEF Occupied
    <2> QED BY <2>1, <2>2
<1>2. PhaseEdges' = PhaseEdges /\ InPhase' = InPhase
    BY DEF PhaseEdges, InPhase
<1>3. \A l : Candidates(l)' = Candidates(l)
    BY <1>1 DEF Candidates
<1>4. \A l : Placements(l)' = Placements(l)
    BY <1>3 DEF Placements
<1>5. \A ls : Solutions(ls)' = Solutions(ls)
    BY <1>2, <1>4 DEF Solutions, Compatible
<1> QED BY <1>1, <1>2, <1>4, <1>5

\* Placed plans of two components are apart: their windows are.
LEMMA ComponentsApart ==
    ASSUME TypeOK, ShapeInv, DecompositionInv, pc \in {"solve", "greedy"},
           NEW l \in InPhase, NEW m \in InPhase, group[l] # group[m],
           NEW vs \in Placements(l), NEW ws \in Placements(m)
    PROVE  Apart(vs, ws)
<1> SUFFICES ASSUME NEW v \in vs, NEW w \in ws, Overlaps(v, w)
             PROVE  FALSE
    BY DEF Apart
<1>1. v \in Candidates(l) /\ w \in Candidates(m)
    BY DEF Placements
<1>2. PICK x \in windows[l] : Inside(v, x)
    BY <1>1 DEF Candidates
<1>3. PICK y \in windows[m] : Inside(w, y)
    BY <1>1 DEF Candidates
<1>4. v \in Window /\ w \in Window
    BY <1>1 DEF Candidates
<1>5. x \in Window /\ y \in Window
    BY <1>2, <1>3 DEF TypeOK, InPhase, Leaves
<1>6. Overlaps(x, y)
    BY <1>2, <1>3, <1>4, <1>5, DurationAssumption DEF Inside, Overlaps, Window
<1>7. Coupled(l, m)
    BY <1>2, <1>3, <1>6 DEF Coupled
<1> QED BY <1>7, CoupledTogether

LEMMA ApartSymmetric ==
    ASSUME NEW vs, NEW ws, Apart(vs, ws)
    PROVE  Apart(ws, vs)
BY DEF Apart, Overlaps

\* Steps that place nothing and stay in the phase keep what is placed.
LEMMA PlacedKept ==
    ASSUME PlacedInv, UNCHANGED <<input, phase, windows, group, placed>>,
           pc' \in {"solve", "greedy"} => pc \in {"solve", "greedy"}
    PROVE  PlacedInv'
<1> SUFFICES ASSUME pc' \in {"solve", "greedy"}
             PROVE  PlacedInv'
    BY DEF PlacedInv
<1>1. /\ PhaseEdges' = PhaseEdges /\ InPhase' = InPhase
      /\ \A l : Placements(l)' = Placements(l)
    BY RulesKept
<1>2. /\ \A l \in InPhase : ~Unplaced(l) => placed[l] \in Placements(l)
      /\ \A l, m \in InPhase :
            l # m /\ group[l] = group[m] => Apart(placed[l], placed[m])
      /\ \A e \in PhaseEdges : Before(placed[e[1]], placed[e[2]])
    BY DEF PlacedInv
<1>3. \A l \in InPhase' : ~Unplaced(l)' => placed'[l] \in Placements(l)'
    BY <1>1, <1>2 DEF Unplaced
<1>4. /\ \A l, m \in InPhase' :
            l # m /\ group'[l] = group'[m] => Apart(placed'[l], placed'[m])
      /\ \A e \in PhaseEdges' : Before(placed'[e[1]], placed'[e[2]])
    BY <1>1, <1>2
<1> QED BY <1>3, <1>4 DEF PlacedInv

\* Both ends of an edge are in one component.
LEMMA EdgesTogether ==
    ASSUME TypeOK, ShapeInv, DecompositionInv, pc \in {"solve", "greedy"},
           NEW e \in PhaseEdges
    PROVE  /\ e[1] \in InPhase /\ e[2] \in InPhase /\ e[1] # e[2]
           /\ group[e[1]] = group[e[2]]
<1>1. JoinedInv /\ edges = {}
    BY DEF DecompositionInv, ShapeInv
<1> QED BY <1>1 DEF JoinedInv, PhaseEdges, TypeOK, Input

LEMMA ExactPlaces ==
    ASSUME TypeOK, ShapeInv, DecompositionInv, PlacedInv,
           NEW l \in Leaves, SolveExact(l)
    PROVE  PlacedInv'
<1>1. PICK assignment \in ExactSolutions(Component(l)) :
          placed' = [m \in Leaves |->
                        IF m \in Component(l) THEN assignment[m] ELSE placed[m]]
    BY DEF SolveExact
<1>2. /\ \A m \in Component(l) : assignment[m] \in Placements(m)
      /\ Compatible(Component(l), assignment)
    BY SolutionParts DEF ExactSolutions
<1>3. /\ pc = "solve" /\ UNCHANGED <<input, phase, pc, windows, group>>
      /\ Component(l) \subseteq InPhase /\ InPhase \subseteq Leaves
    BY DEF SolveExact, Unsolved, Component, decomposition, InPhase, Leaves
<1>4. /\ PhaseEdges' = PhaseEdges /\ InPhase' = InPhase
      /\ \A m : Placements(m)' = Placements(m)
    <2>1. phase # "blocks" => \A b \in Blocks : b \notin InPhase /\ b \in Leaves
        BY LeafAssumption DEF InPhase, Leaves
    <2>2. phase # "blocks" => \A b \in Blocks : placed'[b] = placed[b]
        BY <2>1, <1>1, <1>3
    <2> QED BY <2>2, <1>3, RulesKept
<1>5. /\ \A m \in Component(l) : placed'[m] = assignment[m]
      /\ \A m \in InPhase : m \notin Component(l) => placed'[m] = placed[m]
    BY <1>1, <1>3
<1>6. /\ \A m \in InPhase : ~Unplaced(m) => placed[m] \in Placements(m)
      /\ \A m, n \in InPhase :
            m # n /\ group[m] = group[n] => Apart(placed[m], placed[n])
      /\ \A e \in PhaseEdges : Before(placed[e[1]], placed[e[2]])
    BY <1>3 DEF PlacedInv
<1>7. \A m \in InPhase : ~Unplaced(m)' => placed'[m] \in Placements(m)
    BY <1>2, <1>5, <1>6 DEF Unplaced
<1>8. \A m, n \in InPhase : group[m] = group[n] =>
          (m \in Component(l) <=> n \in Component(l))
    BY DEF Component
<1>9. \A m, n \in InPhase :
          m # n /\ group[m] = group[n] => Apart(placed'[m], placed'[n])
    BY <1>2, <1>5, <1>6, <1>8 DEF Compatible
<1>10. \A e \in PhaseEdges : Before(placed'[e[1]], placed'[e[2]])
    <2> TAKE e \in PhaseEdges
    <2>1. /\ e[1] \in InPhase /\ e[2] \in InPhase
          /\ e[1] \in Component(l) <=> e[2] \in Component(l)
        BY <1>3, <1>8, EdgesTogether
    <2> QED BY <2>1, <1>2, <1>5, <1>6 DEF Compatible
<1> QED BY <1>3, <1>4, <1>7, <1>9, <1>10 DEF PlacedInv

LEMMA GreedyPlaces ==
    ASSUME TypeOK, ShapeInv, DecompositionInv, PlacedInv, GreedyInv,
           NEW l \in greedy, PlaceGreedily(l)
    PROVE  PlacedInv'
<1> SUFFICES ASSUME pc' \in {"solve", "greedy"}
             PROVE  PlacedInv'
    BY DEF PlacedInv
<1>1. PICK vs \in GreedyPlacements(l) : placed' = [placed EXCEPT ![l] = vs]
    BY DEF PlaceGreedily, Fail
<1>2. /\ pc = "greedy" /\ UNCHANGED <<input, phase, windows, group>>
      /\ l \in InPhase /\ InPhase \subseteq Leaves
    BY DEF PlaceGreedily, decomposition, TypeOK, InPhase, Leaves
<1>3. /\ placed'[l] = vs
      /\ \A m \in Leaves : m # l => placed'[m] = placed[m]
    BY <1>1, <1>2 DEF TypeOK
<1>4. /\ PhaseEdges' = PhaseEdges /\ InPhase' = InPhase
      /\ \A m : Placements(m)' = Placements(m)
    <2>1. phase # "blocks" => \A b \in Blocks : b # l /\ b \in Leaves
        BY <1>2, LeafAssumption DEF InPhase, Leaves
    <2> QED BY <2>1, <1>2, <1>3, RulesKept
<1>5. /\ \A m \in InPhase : ~Unplaced(m) => placed[m] \in Placements(m)
      /\ \A m, n \in InPhase :
            m # n /\ group[m] = group[n] => Apart(placed[m], placed[n])
      /\ \A e \in PhaseEdges : Before(placed[e[1]], placed[e[2]])
    BY <1>2 DEF PlacedInv
<1>6. \A m \in InPhase : ~Unplaced(m)' => placed'[m] \in Placements(m)
    BY <1>2, <1>3, <1>5 DEF Unplaced, GreedyPlacements
<1>7. \A m \in InPhase : m # l /\ group[m] = group[l] =>
          Apart(vs, placed[m]) /\ Apart(placed[m], vs)
    BY <1>2, ApartSymmetric DEF GreedyInv, GreedyPlacements
<1>8. \A m, n \in InPhase :
          m # n /\ group[m] = group[n] => Apart(placed'[m], placed'[n])
    <2> SUFFICES ASSUME NEW m \in InPhase, NEW n \in InPhase,
                        m # n, group[m] = group[n]
                 PROVE  Apart(placed'[m], placed'[n])
        OBVIOUS
    <2>1. CASE m = l
        BY <2>1, <1>2, <1>3, <1>7
    <2>2. CASE n = l
        BY <2>2, <1>2, <1>3, <1>7
    <2>3. CASE m # l /\ n # l
        BY <2>3, <1>2, <1>3, <1>5
    <2> QED BY <2>1, <2>2, <2>3
<1>9. \A e \in PhaseEdges : Before(placed'[e[1]], placed'[e[2]])
    <2> TAKE e \in PhaseEdges
    <2>1. e[1] \in Leaves /\ e[2] \in Leaves /\ e[1] # e[2]
        BY <1>2, EdgesTogether
    <2>2. /\ e[2] = l => Before(placed[e[1]], vs)
          /\ e[1] = l => Before(vs, placed[e[2]])
        BY DEF GreedyPlacements, WithinBounds
    <2> QED BY <2>1, <2>2, <1>3, <1>5
<1> QED BY <1>4, <1>6, <1>8, <1>9, <1>2 DEF PlacedInv

LEMMA PlacedStep ==
    ASSUME TypeOK, ShapeInv, DecompositionInv, PlacedInv, GreedyInv, [Next]_vars
    PROVE  PlacedInv'
<1>1. CASE Resolve
    BY <1>1 DEF Resolve, Fail, PlacedInv
<1>2. ASSUME NEW e \in edges, JoinEdge(e)
      PROVE  PlacedInv'
    BY <1>2 DEF JoinEdge, PlacedInv
<1>3. ASSUME NEW i \in intervals, SweepInterval(i)
      PROVE  PlacedInv'
    BY <1>3 DEF SweepInterval, PlacedInv
<1>4. CASE EndDecomposition
    <2>1. InPhase' = InPhase /\ PhaseEdges' = PhaseEdges
        BY <1>4 DEF EndDecomposition, InPhase, PhaseEdges
    <2>2. \A l \in InPhase' : placed'[l] = {}
        BY <1>4, <2>1 DEF EndDecomposition, ShapeInv, Unplaced
    <2>3. \A e \in PhaseEdges' : e[1] \in InPhase'
        BY <2>1 DEF PhaseEdges
    <2> QED BY <2>2, <2>3 DEF PlacedInv, Unplaced, Apart, Before
<1>5. ASSUME NEW l \in Leaves, SolveExact(l)
      PROVE  PlacedInv'
    BY <1>5, ExactPlaces
<1>6. ASSUME NEW l \in Leaves, ProveInfeasible(l)
      PROVE  PlacedInv'
    BY <1>6 DEF ProveInfeasible, Fail, PlacedInv
<1>7. ASSUME NEW l \in Leaves, GiveUpExact(l)
      PROVE  PlacedInv'
    BY <1>7, PlacedKept DEF GiveUpExact, Unsolved, decomposition
<1>8. ASSUME NEW l \in greedy, PlaceGreedily(l)
      PROVE  PlacedInv'
    BY <1>8, GreedyPlaces
<1>9. CASE EndGreedy
    BY <1>9, PlacedKept DEF EndGreedy, decomposition
<1>10. CASE Validate
    BY <1>10 DEF Validate, Fail, PlacedInv
<1>11. CASE UNCHANGED vars
    BY <1>11, PlacedKept DEF vars, decomposition
<1> QED BY <1>1, <1>2, <1>3, <1>4, <1>5, <1>6, <1>7, <1>8, <1>9, <1>10, <1>11 DEF Next

LEMMA MergedValidFromInv ==
    ASSUME TypeOK, ShapeInv, DecompositionInv, PlacedInv
    PROVE  MergedValid
<1> SUFFICES ASSUME pc = "solve", \A l \in InPhase : ~Unplaced(l)
             PROVE  Valid(InPhase, placed)
    BY DEF MergedValid
<1>1. /\ \A l \in InPhase : placed[l] \in Placements(l)
      /\ \A l, m \in InPhase :
            l # m /\ group[l] = group[m] => Apart(placed[l], placed[m])
      /\ \A e \in PhaseEdges : Before(placed[e[1]], placed[e[2]])
    BY DEF PlacedInv
<1>2. \A l, m \in InPhase : l # m => Apart(placed[l], placed[m])
    BY <1>1, ComponentsApart
<1> QED BY <1>1, <1>2 DEF Valid, Compatible

LEMMA GreedyValidFromInv ==
    ASSUME TypeOK, ShapeInv, DecompositionInv, PlacedInv, GreedyInv
    PROVE  GreedyValid
<1> SUFFICES ASSUME pc = "greedy", \A l \in greedy : ~Unplaced(l)
             PROVE  Valid(greedy, placed)
    BY DEF GreedyValid
<1>1. greedy \subseteq InPhase
    BY DEF TypeOK
<1>2. /\ \A l \in greedy : placed[l] \in Placements(l)
      /\ \A l, m \in InPhase :
            l # m /\ group[l] = group[m] => Apart(placed[l], placed[m])
      /\ \A e \in PhaseEdges : Before(placed[e[1]], placed[e[2]])
    BY <1>1 DEF PlacedInv
<1>3. \A l, m \in greedy : group[l] = group[m]
    BY <1>1 DEF GreedyInv
<1> QED BY <1>1, <1>2, <1>3 DEF Valid, Compatible

LEMMA GreedyStep ==
    ASSUME TypeOK, GreedyInv, [Next]_vars
    PROVE  GreedyInv'
<1> SUFFICES ASSUME pc' = "greedy"
             PROVE  GreedyInv'
    BY DEF GreedyInv
<1>1. CASE Resolve
    BY <1>1 DEF Resolve, Fail
<1>2. ASSUME NEW e \in edges, JoinEdge(e)
      PROVE  GreedyInv'
    BY <1>2 DEF JoinEdge
<1>3. ASSUME NEW i \in intervals, SweepInterval(i)
      PROVE  GreedyInv'
    BY <1>3 DEF SweepInterval
<1>4. CASE EndDecomposition
    BY <1>4 DEF EndDecomposition
<1>5. ASSUME NEW l \in Leaves, SolveExact(l)
      PROVE  GreedyInv'
    BY <1>5 DEF SolveExact, Unsolved
<1>6. ASSUME NEW l \in Leaves, ProveInfeasible(l)
      PROVE  GreedyInv'
    BY <1>6 DEF ProveInfeasible, Fail
<1>7. ASSUME NEW l \in Leaves, GiveUpExact(l)
      PROVE  GreedyInv'
    BY <1>7 DEF GiveUpExact, Component, Fail, GreedyInv, InPhase, decomposition
<1>8. ASSUME NEW l \in greedy, PlaceGreedily(l)
      PROVE  GreedyInv'
    BY <1>8 DEF PlaceGreedily, GreedyInv, InPhase, decomposition
<1>9. CASE EndGreedy
    BY <1>9 DEF EndGreedy
<1>10. CASE Validate
    BY <1>10 DEF Validate, Fail
<1>11. CASE UNCHANGED vars
    BY <1>11 DEF vars, decomposition, GreedyInv, InPhase
<1> QED BY <1>1, <1>2, <1>3, <1>4, <1>5, <1>6, <1>7, <1>8, <1>9, <1>10, <1>11 DEF Next

\* One infeasible component leaves the phase without a solution.
LEMMA InfeasibleStep ==
    ASSUME TypeOK, ShapeInv, MergedValid, InfeasibleProven, [Next]_vars
    PROVE  InfeasibleProven'
<1> SUFFICES ASSUME status' = "INFEASIBLE", OccupiedApart'
             PROVE  Solutions(InPhase)' = {}
    BY DEF InfeasibleProven
<1>1. CASE status = "INFEASIBLE"
    <2>1. pc = "failed"
        BY <1>1 DEF ShapeInv
    <2>2. UNCHANGED <<input, phase, windows, placed>>
        BY <2>1 DEF Next, vars, Resolve, JoinEdge, SweepInterval, EndDecomposition,
                    SolveExact, ProveInfeasible, GiveUpExact, Unsolved, PlaceGreedily,
                    EndGreedy, Validate
    <2>3. Occupied' = Occupied /\ InPhase' = InPhase
          /\ \A ls : Solutions(ls)' = Solutions(ls)
        BY <2>2, RulesKept
    <2>4. OccupiedApart
        BY <2>3 DEF OccupiedApart
    <2>5. Solutions(InPhase) = {}
        BY <1>1, <2>4 DEF InfeasibleProven
    <2> QED BY <2>3, <2>5
<1>2. ASSUME NEW l \in Leaves, ProveInfeasible(l)
      PROVE  Solutions(InPhase)' = {}
    <2>1. UNCHANGED <<input, phase, windows, placed>>
        BY <1>2 DEF ProveInfeasible
    <2>2. Occupied' = Occupied /\ InPhase' = InPhase
          /\ \A ls : Solutions(ls)' = Solutions(ls)
        BY <2>1, RulesKept
    <2>3. OccupiedApart
        BY <2>2 DEF OccupiedApart
    <2>4. Solutions(Component(l)) = {}
        BY <1>2, <2>3 DEF ProveInfeasible, ExactSolutions
    <2>5. Component(l) \subseteq InPhase
        BY DEF Component
    <2>6. Solutions(InPhase) = {}
        BY <2>4, <2>5, SolutionOfPart
    <2> QED BY <2>2, <2>6
<1>3. CASE Validate
    BY <1>1, <1>3 DEF Validate, MergedValid
<1>4. CASE UNCHANGED vars
    BY <1>1, <1>4 DEF vars
<1>5. CASE Resolve
    BY <1>1, <1>5 DEF Resolve, Fail
<1>6. ASSUME NEW l \in Leaves, GiveUpExact(l)
      PROVE  Solutions(InPhase)' = {}
    BY <1>1, <1>6 DEF GiveUpExact, Fail
<1>7. ASSUME NEW l \in greedy, PlaceGreedily(l)
      PROVE  Solutions(InPhase)' = {}
    BY <1>1, <1>7 DEF PlaceGreedily, Fail
<1>8. CASE \/ \E e \in edges : JoinEdge(e)
           \/ \E i \in intervals : SweepInterval(i)
           \/ EndDecomposition \/ EndGreedy
           \/ \E l \in Leaves : SolveExact(l)
    <2>1. status' = status
        BY <1>8 DEF JoinEdge, SweepInterval, EndDecomposition, EndGreedy, SolveExact
    <2> QED BY <1>1, <2>1
<1> QED BY <1>2, <1>3, <1>4, <1>5, <1>6, <1>7, <1>8 DEF Next

-----------------------------------------------------------------------------
(* Theorems.                                                               *)

LEMMA InitInv == Init => IInv
<1> SUFFICES ASSUME Init
             PROVE  IInv
    OBVIOUS
<1>1. TypeOK
    BY InputAssumption DEF Init, TypeOK
<1> QED BY <1>1 DEF Init, IInv, ShapeInv, Unplaced, InPhase, Leaves, DecompositionInv,
                    PlacedInv, GreedyInv, InfeasibleProven

LEMMA StepInv == IInv /\ [Next]_vars => IInv'
<1> SUFFICES ASSUME IInv, [Next]_vars
             PROVE  IInv'
    OBVIOUS
<1>1. MergedValid
    BY MergedValidFromInv DEF IInv
<1> QED BY <1>1, TypeStep, ShapeStep, DecompositionStep, PlacedStep, GreedyStep,
           InfeasibleStep
        DEF IInv

LEMMA Invariance == Spec => []IInv
BY InitInv, StepInv, PTL DEF Spec

\* However components come out and whatever the solvers answer, variables keep their
\* types and everything about a phase is about its plans.
THEOREM TypeCorrect == Spec => []TypeOK
<1>1. IInv => TypeOK
    BY DEF IInv
<1> QED BY <1>1, Invariance, PTL

\* For any windows and edges, _connected_components finds the connected components.
THEOREM DecompositionCorrect == Spec => []ComponentsExact
<1>1. IInv => ComponentsExact
    BY ComponentsExactFromInv DEF IInv
<1> QED BY <1>1, Invariance, PTL

\* The assertion at the end of HeuristicAssignmentSolver.solve holds whatever the order.
THEOREM GreedyCorrect == Spec => []GreedyValid
<1>1. IInv => GreedyValid
    BY GreedyValidFromInv DEF IInv
<1> QED BY <1>1, Invariance, PTL

\* The last validation of _solve_assignment does not fail.
THEOREM MergeCorrect == Spec => []MergedValid
<1>1. IInv => MergedValid
    BY MergedValidFromInv DEF IInv
<1> QED BY <1>1, Invariance, PTL

\* An infeasible component is proof, as long as occupied intervals are apart.
THEOREM InfeasibleCorrect == Spec => []InfeasibleProven
<1>1. IInv => InfeasibleProven
    BY DEF IInv
<1> QED BY <1>1, Invariance, PTL
=============================================================================
