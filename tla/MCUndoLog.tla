------------------------------ MODULE MCUndoLog ------------------------------
(* Constant values for model-checking UndoLog: the workspace is seen up to *)
(* a renaming of its files and of what the tools write into them.          *)
EXTENDS UndoLog, TLC

MCSymmetry == Permutations(Files) \cup Permutations(Contents)

=============================================================================
