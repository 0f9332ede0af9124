----------------------- MODULE MCTimerNotifications -----------------------
(* TimerNotifications on a small instance. *)
EXTENDS TimerNotifications, TLC

CONSTANTS c1, c2, e1, e2, e3, p1, p2

\* A task, a block and a free-time entry.
MCKindOf == (e1 :> "TASK") @@ (e2 :> "BLOCK") @@ (e3 :> "FREE_TIME")

MCPlanOf == (e1 :> p1) @@ (e2 :> p2) @@ (e3 :> None)
=============================================================================
