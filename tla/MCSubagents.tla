------------------------------- MODULE MCSubagents -------------------------------
(* Subagents on small instances: two subagents, two runs in all. *)
EXTENDS Subagents, TLC
=============================================================================
