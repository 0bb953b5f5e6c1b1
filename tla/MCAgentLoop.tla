----------------------------- MODULE MCAgentLoop -----------------------------
(* Constant values for model-checking AgentLoop. *)
EXTENDS AgentLoop, TLC

CONSTANTS
    readFile,   \* read_file
    writeA,     \* write_file on one file
    writeB,     \* write_file on another
    runTests,   \* shell: a command classified as a test
    runBuild    \* shell: a command classified as a build

MCToolOf ==
    (readFile :> "read_file") @@ (writeA :> "write_file") @@ (writeB :> "write_file")
        @@ (runTests :> "shell") @@ (runBuild :> "shell")

MCKinds ==
    (readFile :> "read") @@ (writeA :> "write") @@ (writeB :> "write")
        @@ (runTests :> "exec") @@ (runBuild :> "exec")

MCKindOf == [c \in Calls |-> MCKinds[c]]

MCCheckOf ==
    [c \in Calls |-> CASE c = runTests -> "test" [] c = runBuild -> "build" [] OTHER -> "other"]

=============================================================================
