------------------------------- MODULE MCHandoff -------------------------------
(* Model checking of Handoff: its constants are numbers and switches.         *)
EXTENDS Handoff
=============================================================================
