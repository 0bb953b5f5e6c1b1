-------------------------------- MODULE MCTui --------------------------------
(* Constant values for model-checking Tui. *)
EXTENDS Tui

CONSTANT
    j1          \* a task besides the runs: an undo, a handoff, an answer

=============================================================================
