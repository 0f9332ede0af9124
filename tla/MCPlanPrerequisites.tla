------------------------ MODULE MCPlanPrerequisites ------------------------
(* A repetition under the master plan.  Its template is a goal in a goal, and  *)
(* a task that is created later; the task's clone has two ids to choose from.  *)
EXTENDS PlanPrerequisites

MCPlans == {"master", "shell", "t", "tg", "tt", "c", "cg", "ct", "ct2"}

MCParent ==
    [p \in MCPlans |->
        CASE p = "master" -> "none"
          [] p = "shell" -> "master"
          [] p \in {"t", "c"} -> "shell"
          [] p = "tg" -> "t"
          [] p = "tt" -> "tg"
          [] p = "cg" -> "c"
          [] OTHER -> "cg"]

MCClones == {"c", "cg", "ct", "ct2"}

MCCloneOf ==
    [k \in MCClones |-> CASE k = "c" -> "t" [] k = "cg" -> "tg" [] OTHER -> "tt"]
=============================================================================
