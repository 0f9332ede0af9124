------------------------- MODULE MCScheduleRefresh -------------------------
(* ScheduleRefresh on a small instance. *)
EXTENDS ScheduleRefresh, TLC

CONSTANTS r1, r2, i1, i2, b1, t1, f1

MCDuration == (b1 :> 2) @@ (t1 :> 2)

\* Requests and run ids are only compared, and no property is a liveness one.
MCSymmetry == Permutations(Requests) \cup Permutations(RunIds)
=============================================================================
