----------------------------- MODULE MCFileTools -----------------------------
(* Constant values for model-checking FileTools. *)
EXTENDS FileTools, TLC

Base ==
    (<<>> :> Dir) @@ (<<"work">> :> Dir) @@ (<<"other">> :> Dir)
        @@ (<<"other", "f">> :> File(<<"secret">>))

(* A directory with two files, one of them ignored, and three files beside *)
(* it; a link out of the workspace, one inside of it and one to nowhere,   *)
(* and links to a file of the workspace and to one outside of it.          *)
Plain ==
    (<<"work", "d">> :> Dir) @@ (<<"work", "d", "f">> :> File(<<"hit", "miss", "hit">>))
        @@ (<<"work", "d", "tmp">> :> File(<<"hit">>))
        @@ (<<"work", "f">> :> File(<<"miss", "hit">>))
        @@ (<<"work", "g">> :> File(<<"hit", "miss", "miss", "miss", "miss">>))
        @@ (<<"work", "x">> :> Unreadable)

Linked ==
    (<<"work", "d">> :> Dir) @@ (<<"work", "d", "f">> :> File(<<"hit">>))
        @@ (<<"work", "out">> :> Link(<<"other">>))
        @@ (<<"work", "d", "in">> :> Link(<<"work", "d">>))
        @@ (<<"work", "gone">> :> Link(<<"other", "n", "f">>))
        @@ (<<"work", "lost">> :> Link(<<"other", "f", "f">>))
        @@ (<<"work", "to">> :> Link(<<"other", "f">>))
        @@ (<<"work", "d", "to">> :> Link(<<"work", "d", "f">>))

MCRoot == <<"work">>
MCInitialTrees == {Plain @@ Base, Linked @@ Base}

Relative(parts) == [absolute |-> FALSE, parts |-> parts, slash |-> FALSE]
Absolute(parts) == [absolute |-> TRUE, parts |-> parts, slash |-> FALSE]
Slashed(path) == [path EXCEPT !.slash = TRUE]

MCPaths ==
    {Relative(p) : p \in {<<>>, <<"f">>, <<"f", "..">>, <<"g">>, <<"x">>, <<"d">>, <<"d", "f">>,
        <<"..", "other", "f">>, <<"d", "..", "f">>, <<"new", "..", "f">>,
        <<"new", "..", "..", "other", "f">>, <<"out", "f">>, <<"out", "..", "work", "f">>,
        <<"d", "in", "f">>, <<"gone">>, <<"gone", "f">>, <<"lost">>, <<"to">>,
        <<"a", "f">>, <<"a", "..", "d", "f">>, <<"f", "new">>, <<"a", "n", "f">>}}
    \cup {Slashed(Relative(p)) : p \in {<<>>, <<"d">>, <<"f">>, <<"gone">>, <<"to">>,
        <<"d", "to">>, <<"out">>, <<"d", "..", "f">>, <<"..", "other", "f">>}}
    \cup {Absolute(p) : p \in {<<"work", "f">>, <<"other", "f">>, <<"work", "..", "other", "n">>}}

MCRanges == {[from |-> Open, to |-> Open], [from |-> 2, to |-> 3], [from |-> 3, to |-> 1],
             [from |-> 9, to |-> Open]}

MCNewText == <<"hit">>
MCTargets == {<<"other">>, <<"work", "d">>}

=============================================================================
