-------------------------- MODULE MCPlanResolution --------------------------
(* A goal g, a task x, a block y and a repetition r2 of tasks stand below the  *)
(* master plan, in each other, in the template t of the repetition r or in its *)
(* instance i.                                                                 *)
EXTENDS PlanResolution

MCPlans == {"m", "g", "r", "t", "i", "x", "y", "r2", "t2", "i2", "j2"}

MCTemplateRoot == [r \in {"r", "r2"} |-> IF r = "r" THEN "t" ELSE "t2"]

Tree(g, r, x, y, r2) ==
    [p \in MCPlans |->
        CASE p = "m" -> "none"
          [] p = "g" -> g
          [] p = "r" -> r
          [] p = "x" -> x
          [] p = "y" -> y
          [] p = "r2" -> r2
          [] p \in {"t", "i"} -> "r"
          [] OTHER -> "r2"]

MCTrees ==
    {Tree("m", "g", "g", "m", "t"), Tree("m", "g", "i", "i", "m"),
     Tree("i", "m", "g", "m", "g"), Tree("m", "m", "g", "i", "i"),
     Tree("m", "g", "t", "m", "m")}

Place ==
    "m" :> 1 @@ "g" :> 2 @@ "r" :> 3 @@ "t" :> 4 @@ "i" :> 5 @@ "x" :> 6
        @@ "y" :> 7 @@ "r2" :> 8 @@ "t2" :> 9 @@ "i2" :> 10 @@ "j2" :> 11

MCOrders ==
    {[critical |-> {"x", "j2"}, sort |-> Place],
     [critical |-> {"g", "r2", "i"}, sort |-> [p \in MCPlans |-> 12 - Place[p]]]}
=============================================================================
