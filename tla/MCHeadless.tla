------------------------------ MODULE MCHeadless ------------------------------
(* Constant values for model-checking Headless: the calls of MCAgentLoop. *)
EXTENDS Headless, MCAgentLoop

=============================================================================
