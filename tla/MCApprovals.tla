---------------------------- MODULE MCApprovals ----------------------------
(***************************************************************************)
(* One dispatch of a product whose contract changes between two gated      *)
(* versions, two approvals of it, and two concurrent calls to spend them.  *)
(***************************************************************************)
EXTENDS Approvals, TLC

CONSTANTS a1, a2, t1, t2   \* model values

MCSymmetry == Permutations(Approvals) \cup Permutations(Tasks)
=============================================================================
