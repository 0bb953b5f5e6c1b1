----------------------------- MODULE MCToolCalls -----------------------------
(* Constant values for model-checking ToolCalls. *)
EXTENDS ToolCalls, TLC

CONSTANTS
    src,        \* a file of the project
    gen,        \* a file that one of the rules leaves out
    a, b,       \* lines; b is the one that a rule forbids
    test,       \* a command that is a check
    quoting,    \* a check whose text has a line "exit code: 0"
    erase       \* a command that shell.rs refuses

MCRules ==
    LET none == [added |-> Unset, files |-> Unset, command |-> Unset, scope |-> Unset,
                 except |-> Unset]
    IN {[none EXCEPT !.added = {b}, !.scope = Files, !.except = {gen}],
        [none EXCEPT !.files = {gen}, !.scope = {src}],
        [none EXCEPT !.command = {test}]}

MCHooks ==
    <<[event |-> "pre-tool", tools |-> {"patch", "shell"}],
      [event |-> "pre-tool", tools |-> {"patch"}],
      [event |-> "post-tool", tools |-> WriteTools],
      [event |-> "stop", tools |-> {"shell"}]>>

MCRequests ==
    {Read(src),
     WriteFile(src, <<b, a>>),
     WriteFile(gen, <<>>),
     WriteFile(gen, <<b>>),
     Patch(src, <<a>>, <<b>>, FALSE),
     Patch(src, <<b>>, <<>>, TRUE),
     Patch(gen, <<a, a>>, <<b>>, FALSE),
     Shell(test),
     Shell(erase),
     Unknown}

QuotingRequests == {Shell(test), Shell(quoting)}

MCTexts == {<<a, b>>, <<b, b>>, <<a, a, a>>, Absent}

MCCheckOf == (test :> "test") @@ (quoting :> "test") @@ (erase :> "other")
MCExitLines == (test :> <<>>) @@ (quoting :> <<0>>) @@ (erase :> <<>>)

MCInitialDisks ==
    {(src :> s) @@ (gen :> g) : s \in {<<a, b>>, <<a, a>>}, g \in {<<a, a, a>>, Absent, Binary}}

=============================================================================
