---------------------------- MODULE MCTurnLifecycle ----------------------------
(* Model checking of TurnLifecycle: the slots for runs are interchangeable.   *)
EXTENDS TurnLifecycle, TLC

RunSymmetry == Permutations(Runs)
=============================================================================
