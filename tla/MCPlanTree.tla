------------------------------ MODULE MCPlanTree ------------------------------
(* A template goal with a nested goal over one critical task, and a plain task. *)
EXTENDS PlanTree, TLC

CONSTANTS root, t1, t2, t3, n1

MCIds == {Master, Shell, root, t1, t2, t3, n1}

Stored(kind, parent, critical, order, status) ==
    [kind |-> kind, parent |-> parent, critical |-> critical, order |-> order, status |-> status]

MCStart ==
    (Master :> Stored("GOAL", None, None, None, "NOT_CLONED"))
    @@ (Shell :> Stored("REPETITION", Master, FALSE, 0, "NOT_CLONED"))
    @@ (root :> Stored("GOAL", Shell, None, None, "TEMPLATE"))
    @@ (t1 :> Stored("GOAL", root, FALSE, 0, "NOT_CLONED"))
    @@ (t2 :> Stored("TASK", t1, TRUE, 0, "NOT_CLONED"))
    @@ (t3 :> Stored("TASK", root, FALSE, 1, "NOT_CLONED"))
    @@ [p \in {n1} \cup Clones |-> None]

IdSerial ==
    (Master :> 0) @@ (Shell :> 1) @@ (root :> 2) @@ (t1 :> 3) @@ (t2 :> 4) @@ (t3 :> 5) @@ (n1 :> 6)

MCSerial ==
    [p \in All |-> IF p \in Ids THEN IdSerial[p] ELSE IdSerial[p[1]] + 7 * (p[2] + 1)]
=============================================================================
