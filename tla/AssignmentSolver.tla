--------------------------- MODULE AssignmentSolver ---------------------------
(***************************************************************************)
(* How one refresh places its plans: first the blocks, then the tasks      *)
(* (services/block_assignment.py, services/task_assignment.py and          *)
(* scheduling/).  A phase splits its plans into components that can be     *)
(* solved by themselves, solves each with CP-SAT or, when that gives up,   *)
(* greedily, and validates everything together.                            *)
(*                                                                         *)
(* Minutes count from run_started_at.  CP-SAT finds any solution of its    *)
(* hard constraints, proves that there is none, or runs out of time; the   *)
(* objectives are left out.  Plan ids are random and priorities a user's   *)
(* choice: orders they decide are any order.                               *)
(***************************************************************************)
EXTENDS Naturals, FiniteSets

CONSTANTS
    Blocks,      \* incomplete BLOCK plans
    Tasks,       \* incomplete TASK plans
    Duration,    \* duration_minutes of each
    Chunk,       \* minimum_chunk_size_minutes; the duration of an indivisible plan
    Family,      \* block_family of each block
    Allowed,     \* effective allowed_block_families of each task
    MaxMinute,   \* the end of the master horizon
    Inputs,      \* what else a refresh may start from
    None         \* Python's None

Leaves == Blocks \cup Tasks

\* Half-open, as all times here.
Window == {w \in [start : 0 .. MaxMinute, end : 0 .. MaxMinute] : w.start < w.end}

\* base: effective windows before family narrowing.  past: rows that started before
\* the run, as far as they reach into it.  edges: predecessor and successor of each
\* resolved precedence constraint.
Input == [base : [Leaves -> SUBSET Window],
          past : [Leaves -> SUBSET Window],
          edges : SUBSET {e \in Leaves \X Leaves : e[1] # e[2]},
          heuristicEnabled : BOOLEAN]

ASSUME LeafAssumption == Blocks \cap Tasks = {}
ASSUME DurationAssumption ==
    /\ MaxMinute \in Nat
    /\ Duration \in [Leaves -> Nat \ {0}] /\ Chunk \in [Leaves -> Nat \ {0}]
ASSUME InputAssumption == Inputs \subseteq Input
ASSUME NoneAssumption == None \notin [leaf : Leaves, window : Window]

VARIABLES
    input,       \* one of Inputs, never changed
    phase,       \* whose turn it is: blocks or tasks
    pc,          \* where the phase is
    windows,     \* effective_time_windows of the plans of this phase
    edges,       \* precedence edges still to be joined
    intervals,   \* windows still to be swept
    furthest,    \* the swept window that reaches furthest
    group,       \* find(plan): the root of its component
    greedy,      \* the component the heuristic is at
    placed,      \* segments of each plan, none before it is placed
    status       \* optimization_status

decomposition == <<edges, intervals, furthest, group>>
vars == <<input, phase, pc, windows, decomposition, greedy, placed, status>>

InPhase == IF phase = "blocks" THEN Blocks ELSE Tasks

\* A window of a plan.
Interval == [leaf : Leaves, window : Window]

Init ==
    /\ input \in Inputs
    /\ phase = "blocks" /\ pc = "resolve"
    /\ windows = [l \in Leaves |-> {}]
    /\ edges = {} /\ intervals = {} /\ furthest = None
    /\ group = [l \in Leaves |-> l]
    /\ greedy = {}
    /\ placed = [l \in Leaves |-> {}]
    /\ status = "UNKNOWN"

-----------------------------------------------------------------------------
(* Time.                                                                   *)

Overlaps(v, w) == v.start < w.end /\ w.start < v.end

Inside(v, w) == w.start <= v.start /\ v.end <= w.end

Before(vs, ws) == \A v \in vs, w \in ws : v.end <= w.start

Apart(vs, ws) == \A v \in vs, w \in ws : ~Overlaps(v, w)

Minutes(ws) == UNION {w.start .. (w.end - 1) : w \in ws}

\* The windows that cover these minutes, touching ones merged.
MergedWindows(minutes) ==
    {w \in Window :
        /\ w.start .. (w.end - 1) \subseteq minutes
        /\ w.end \notin minutes
        /\ w.start > 0 => w.start - 1 \notin minutes}

-----------------------------------------------------------------------------
(* Resolution and the input of a phase.                                    *)

BlockRows(b) == input.past[b] \cup placed[b]

OfFamilies(families) == {b \in Blocks : Family[b] \in families}

\* Default time is what no block of another family covers; the time of another
\* family is what its blocks cover.
FamilyMinutes(t) ==
    LET time(bs) == UNION {Minutes(BlockRows(b)) : b \in bs}
        default == IF "default" \in Allowed[t]
                     THEN 0 .. MaxMinute \ time({b \in Blocks : Family[b] # "default"})
                     ELSE {}
    IN default \cup time(OfFamilies(Allowed[t] \ {"default"}))

EffectiveWindows(l) ==
    IF l \in Tasks
      THEN MergedWindows(Minutes(input.base[l]) \cap FamilyMinutes(l))
      ELSE input.base[l]

\* A task whose families leave it no window is invalid and refuses the whole phase.
Refused(t) ==
    /\ Allowed[t] # {"default"} \/ \E b \in Blocks : BlockRows(b) # {}
    /\ EffectiveWindows(t) = {}

PhaseEdges == {e \in input.edges : e[1] \in InPhase /\ e[2] \in InPhase}

Fail(reason) ==
    /\ pc' = "failed"
    /\ status' = reason

Resolve ==
    /\ pc = "resolve"
    /\ IF phase = "tasks" /\ \E t \in Tasks : Refused(t)
         THEN /\ Fail("REFUSED")
              /\ UNCHANGED <<windows, decomposition>>
         ELSE /\ pc' = "join"
              /\ windows' = [l \in Leaves |->
                                IF l \in InPhase THEN EffectiveWindows(l) ELSE {}]
              /\ edges' = PhaseEdges
              /\ intervals' = {i \in Interval : i.window \in windows'[i.leaf]}
              /\ furthest' = None
              /\ group' = [l \in Leaves |-> l]
              /\ UNCHANGED status
    /\ UNCHANGED <<input, phase, greedy, placed>>

-----------------------------------------------------------------------------
(* Decomposition: union-find over edges, then over overlapping windows.    *)

\* Mutant of Union: the plan changes its root, the rest of its component does not.
UnionOne(a, b) == [group EXCEPT ![b] = group[a]]

\* The root of a becomes the root of both.
Union(a, b) == [l \in Leaves |-> IF group[l] = group[b] THEN group[a] ELSE group[l]]

JoinEdge(e) ==
    /\ pc = "join" /\ e \in edges
    /\ group' = Union(e[1], e[2])
    /\ edges' = edges \ {e}
    /\ UNCHANGED <<input, phase, pc, windows, intervals, furthest, greedy, placed, status>>

\* Mutant of Further: the last window swept, however short it is.
Latest(i) == i

Further(i) ==
    IF furthest # None /\ furthest.window.end >= i.window.end THEN furthest ELSE i

\* Windows in the order of their start times.
SweepInterval(i) ==
    /\ pc = "join" /\ edges = {} /\ i \in intervals
    /\ \A j \in intervals : i.window.start <= j.window.start
    /\ IF furthest # None /\ i.window.start < furthest.window.end
         THEN group' = Union(i.leaf, furthest.leaf)
         ELSE UNCHANGED group
    /\ furthest' = Further(i)
    /\ intervals' = intervals \ {i}
    /\ UNCHANGED <<input, phase, pc, windows, edges, greedy, placed, status>>

EndDecomposition ==
    /\ pc = "join" /\ edges = {} /\ intervals = {}
    /\ pc' = "solve"
    /\ UNCHANGED <<input, phase, windows, decomposition, greedy, placed, status>>

Component(l) == {m \in InPhase : group[m] = group[l]}

-----------------------------------------------------------------------------
(* What an assignment must satisfy.                                        *)

\* Block rows are occupied time for tasks, and nothing else is for blocks but tasks
\* of earlier runs.  Rows keep their origin: two may cover the same minutes.
Occupied ==
    LET past(ls) == {r \in {"past"} \X ls \X Window : r[3] \in input.past[r[2]]}
        new(ls) == {r \in {"new"} \X ls \X Window : r[3] \in placed[r[2]]}
    IN IF phase = "blocks" THEN past(Tasks) ELSE past(Leaves) \cup new(Blocks)

\* Where a segment of a plan may be.
Candidates(l) ==
    {v \in Window :
        /\ v.end - v.start \in Chunk[l] .. Duration[l]
        /\ \E w \in windows[l] : Inside(v, w)
        /\ \A r \in Occupied : ~Overlaps(v, r[3])}

\* validate_task_assignment, without the other plans.
Placements(l) ==
    {vs \in SUBSET Candidates(l) :
        /\ \A v, w \in vs : v # w => ~Overlaps(v, w)
        /\ Cardinality(Minutes(vs)) = Duration[l]}

Compatible(ls, assignment) ==
    /\ \A l, m \in ls : l # m => Apart(assignment[l], assignment[m])
    /\ \A e \in PhaseEdges :
          e[1] \in ls /\ e[2] \in ls => Before(assignment[e[1]], assignment[e[2]])

\* validate_full_assignment.
Valid(ls, assignment) ==
    /\ \A l \in ls : assignment[l] \in Placements(l)
    /\ Compatible(ls, assignment)

Solutions(ls) ==
    LET options == UNION {{l} \X Placements(l) : l \in ls} IN
    {assignment \in [ls -> {o[2] : o \in options}] :
        (\A l \in ls : <<l, assignment[l]>> \in options) /\ Compatible(ls, assignment)}

OccupiedApart == \A q, r \in Occupied : q # r => ~Overlaps(q[3], r[3])

\* Mutant of ExactSolutions: a successor may not start when its predecessor ends.
WithGaps(ls) ==
    IF OccupiedApart
      THEN {assignment \in Solutions(ls) :
               \A e \in PhaseEdges : e[1] \in ls /\ e[2] \in ls =>
                  \A v \in assignment[e[1]], w \in assignment[e[2]] : v.end < w.start}
      ELSE {}

\* The NoOverlap constraint is over the occupied intervals as well as the segments.
ExactSolutions(ls) == IF OccupiedApart THEN Solutions(ls) ELSE {}

-----------------------------------------------------------------------------
(* Solving.                                                                *)

Unplaced(l) == placed[l] = {}

\* A component still to be solved, known by its root.
Unsolved(l) == pc = "solve" /\ l \in InPhase /\ group[l] = l /\ Unplaced(l)

\* _solve_assignment takes the components one by one; none sees another's segments.
SolveExact(l) ==
    /\ Unsolved(l)
    /\ \E assignment \in ExactSolutions(Component(l)) :
          placed' = [m \in Leaves |->
                        IF m \in Component(l) THEN assignment[m] ELSE placed[m]]
    /\ UNCHANGED <<input, phase, pc, windows, decomposition, greedy, status>>

ProveInfeasible(l) ==
    /\ Unsolved(l)
    /\ ExactSolutions(Component(l)) = {}
    /\ Fail("INFEASIBLE")
    /\ UNCHANGED <<input, phase, windows, decomposition, greedy, placed>>

\* The time limit or the model size guard; a plan without windows is reported before.
GiveUpExact(l) ==
    /\ Unsolved(l)
    /\ \A m \in Component(l) : windows[m] # {}
    /\ IF input.heuristicEnabled
         THEN /\ pc' = "greedy" /\ greedy' = Component(l)
              /\ UNCHANGED status
         ELSE /\ Fail("UNKNOWN")
              /\ UNCHANGED greedy
    /\ UNCHANGED <<input, phase, windows, decomposition, placed>>

\* Mutant of WithinBounds: only predecessors bound a plan.
AfterPredecessors(l, vs) ==
    \A e \in PhaseEdges : e[2] = l => Before(placed[e[1]], vs)

\* Plans already placed bound a plan on both sides.
WithinBounds(l, vs) ==
    \A e \in PhaseEdges :
        /\ e[2] = l => Before(placed[e[1]], vs)
        /\ e[1] = l => Before(vs, placed[e[2]])

GreedyPlacements(l) ==
    {vs \in Placements(l) :
        /\ \A m \in greedy \ {l} : Apart(vs, placed[m])
        /\ WithinBounds(l, vs)}

\* The earliest placement; any one stands for it.
PlaceGreedily(l) ==
    /\ pc = "greedy" /\ l \in greedy /\ Unplaced(l)
    /\ IF GreedyPlacements(l) = {}
         THEN /\ Fail("UNKNOWN")
              /\ UNCHANGED placed
         ELSE /\ \E vs \in GreedyPlacements(l) : placed' = [placed EXCEPT ![l] = vs]
              /\ UNCHANGED <<pc, status>>
    /\ UNCHANGED <<input, phase, windows, decomposition, greedy>>

EndGreedy ==
    /\ pc = "greedy" /\ \A l \in greedy : ~Unplaced(l)
    /\ pc' = "solve" /\ greedy' = {}
    /\ UNCHANGED <<input, phase, windows, decomposition, placed, status>>

\* The merged assignment is validated once more; then it is the tasks' turn.
Validate ==
    /\ pc = "solve" /\ \A l \in InPhase : ~Unplaced(l)
    /\ IF ~Valid(InPhase, placed)
         THEN Fail("INFEASIBLE") /\ UNCHANGED phase
         ELSE /\ IF phase = "blocks" THEN phase' = "tasks" /\ pc' = "resolve"
                                     ELSE pc' = "done" /\ UNCHANGED phase
              /\ status' = "SOLVED"
    /\ UNCHANGED <<input, windows, decomposition, greedy, placed>>

-----------------------------------------------------------------------------

Next ==
    \/ Resolve
    \/ \E e \in edges : JoinEdge(e)
    \/ \E i \in intervals : SweepInterval(i)
    \/ EndDecomposition
    \/ \E l \in Leaves : SolveExact(l) \/ ProveInfeasible(l) \/ GiveUpExact(l)
    \/ \E l \in greedy : PlaceGreedily(l)
    \/ EndGreedy
    \/ Validate

Spec == Init /\ [][Next]_vars

-----------------------------------------------------------------------------
(* Properties.                                                             *)

\* What each variable holds; everything about a phase is about plans of that phase.
TypeOK ==
    /\ input \in Input
    /\ phase \in {"blocks", "tasks"}
    /\ pc \in {"resolve", "join", "solve", "greedy", "done", "failed"}
    /\ windows \in [Leaves -> SUBSET Window]
    /\ edges \subseteq PhaseEdges
    /\ intervals \subseteq {i \in Interval : i.leaf \in InPhase /\ i.window \in windows[i.leaf]}
    /\ furthest \in Interval \cup {None}
    /\ group \in [Leaves -> Leaves]
    /\ greedy \subseteq InPhase
    /\ placed \in [Leaves -> SUBSET Window]
    /\ status \in {"UNKNOWN", "SOLVED", "INFEASIBLE", "REFUSED"}

\* Two plans that an edge joins, or that could want the same minute.
Coupled(l, m) ==
    \/ <<l, m>> \in PhaseEdges \/ <<m, l>> \in PhaseEdges
    \/ \E v \in windows[l], w \in windows[m] : Overlaps(v, w)

Closed(ls) == \A l \in ls, m \in InPhase : Coupled(l, m) => m \in ls

\* The components are the connected components of Coupled: the sweep, which compares a
\* window with one other only, loses no pair and joins none that could stay apart.
ComponentsExact ==
    pc \in {"solve", "greedy"} =>
        \A l \in InPhase :
            /\ Closed(Component(l))
            /\ \A ls \in SUBSET InPhase : l \in ls /\ Closed(ls) => Component(l) \subseteq ls

\* The assertion at the end of the greedy search: whatever the order, what it has
\* placed one by one is an assignment of the component.
GreedyValid ==
    pc = "greedy" /\ (\A l \in greedy : ~Unplaced(l)) => Valid(greedy, placed)

\* Solutions of components that never saw one another are together a solution: the
\* last validation, whose failure would be reported as INFEASIBLE, does not fail.
MergedValid ==
    pc = "solve" /\ (\A l \in InPhase : ~Unplaced(l)) => Valid(InPhase, placed)

\* While occupied intervals do not overlap one another, a component called infeasible
\* leaves the phase without an assignment, by itself or with the others.
InfeasibleProven ==
    status = "INFEASIBLE" /\ OccupiedApart => Solutions(InPhase) = {}

\* "Exact solver proved that no assignment satisfies all task constraints."
InfeasibleIsProof == status = "INFEASIBLE" => Solutions(InPhase) = {}
=============================================================================
