------------------------ MODULE MCFreeTimeActivities ------------------------
(* Two activities; a goal over a critical block and a critical repetition with *)
(* one critical instance.                                                      *)
EXTENDS FreeTimeActivities, TLC

CONSTANTS walk, read, goal1, rep1, inst1, block1, transit

MCWeekAnchors == {-2, 3}
MCFamilies == {FreeTime, Default, transit}
MCFamilyLists == {{}, {FreeTime}, {transit}}
MCIds == {walk, read}
MCPlans == {goal1, rep1, inst1, block1}
MCKind == (goal1 :> "GOAL") @@ (rep1 :> "REPETITION") @@ (inst1 :> "TASK") @@ (block1 :> "BLOCK")
MCParent == (goal1 :> None) @@ (rep1 :> goal1) @@ (inst1 :> rep1) @@ (block1 :> goal1)

TaskRow(s, e) == [start |-> s, end |-> e]
BlockRow(f, s, e) == [family |-> f, start |-> s, end |-> e]

\* A default block in progress, a free-time and a transit block over it, and a task.
MCCalendars ==
    { [tasks |-> {TaskRow(6, 7)},
       blocks |-> {BlockRow(Default, -1, 5), BlockRow(FreeTime, 0, 1), BlockRow(transit, 4, 6)}] }

Create(id, enabled, share, minimum) ==
    [op |-> "create", id |-> id, enabled |-> enabled, share |-> share, minimum |-> minimum]
Update(id, share, minimum) == [op |-> "update", id |-> id, share |-> share, minimum |-> minimum]
Enable(id, enabled) == [op |-> "enable", id |-> id, enabled |-> enabled]
Require(id, p) == [op |-> "require", id |-> id, plan |-> p]
Release(id, p) == [op |-> "release", id |-> id, plan |-> p]
InFamilies(id, fs) == [op |-> "families", id |-> id, families |-> fs]
Delete(id, seen) == [op |-> "delete", id |-> id, seen |-> seen]

MCSent ==
    { Create(walk, TRUE, 3, 1), Create(read, FALSE, 0, 2), Enable(read, TRUE),
      Require(read, goal1), InFamilies(read, {transit}), Delete(walk, {}), Delete(read, {inst1}) }

MCDrafts ==
    { <<Update(walk, 2, None), Create(read, TRUE, 1, 1), Require(read, inst1)>>,
      <<Delete(read, MCPlans), Update(walk, 3, None)>>,
      <<Enable(read, FALSE), Release(read, inst1), Update(walk, 3, 2), Forget>> }
=============================================================================
