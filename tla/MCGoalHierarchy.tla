-------------------------- MODULE MCGoalHierarchy --------------------------
(***************************************************************************)
(* Model values for GoalHierarchy.  Goals differ only in their name, so    *)
(* they may be permuted.                                                   *)
(***************************************************************************)
EXTENDS GoalHierarchy, TLC

GoalSymmetry == Permutations(Goals)
=============================================================================
