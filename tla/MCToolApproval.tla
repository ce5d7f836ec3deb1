---------------------------- MODULE MCToolApproval ----------------------------
(* Model checking of ToolApproval: the calls are interchangeable.             *)
EXTENDS ToolApproval, TLC

CallSymmetry == Permutations(Calls)
=============================================================================
