------------------------------- MODULE Commands -------------------------------
(***************************************************************************)
(* Reusable prompts of a project (crates/tc-agent/src/commands.rs).  A     *)
(* text is a sequence of pieces: `$`; Mark(n), the digit n of 1..9, or for *)
(* n = 10 the letters ARGUMENTS; Gap, which is white space; and Text(s),   *)
(* anything else.  A placeholder is `$` and the mark that follows it.      *)
(***************************************************************************)
EXTENDS Integers, Sequences, SequencesExt, FiniteSets

Text(s) == <<0, s>>
Mark(n) == <<n, "">>
Dollar == <<11, "">>
Gap == <<12, "">>

Piece == ({0} \X STRING) \cup {Mark(n) : n \in 1..10} \cup {Dollar, Gap}

Placeholder(n) == <<Dollar, Mark(n)>>
Arguments == Placeholder(10)

(* A placeholder of one of these numbers begins there. *)
Opens(text, k, numbers) ==
    text[k] = Dollar /\ k < Len(text) /\ text[k + 1] \in {Mark(n) : n \in numbers}

IsWord(typed, i, j) ==
    /\ i <= j /\ \A k \in i..j : typed[k] # Gap
    /\ i = 1 \/ typed[i - 1] = Gap
    /\ j = Len(typed) \/ typed[j + 1] = Gap

(* The n-th word typed, as split_whitespace counts them; empty if there is *)
(* none.                                                                   *)
Word(typed, n) ==
    LET Begins(i) == typed[i] # Gap /\ (i = 1 \/ typed[i - 1] = Gap)
        its == {at \in (1..Len(typed)) \X (1..Len(typed)) :
                    /\ IsWord(typed, at[1], at[2])
                    /\ Cardinality({k \in 1..at[1] : Begins(k)}) = n}
        words == {SubSeq(typed, at[1], at[2]) : at \in its}
    IN  IF words = {} THEN <<>> ELSE CHOOSE word \in words : TRUE

(* What a placeholder of that number stands for. *)
Value(typed, n) == IF n = 10 THEN typed ELSE Word(typed, n)

(* The text with the values of its placeholders of these numbers in their  *)
(* places; what is put in is not looked at.                                *)
Substitute(text, numbers, typed) ==
    LET Put(k) ==
            IF Opens(text, k, numbers) THEN <<>>
            ELSE IF k > 1 /\ Opens(text, k - 1, numbers) THEN Value(typed, text[k][1])
            ELSE <<text[k]>>
        upTo[k \in 0..Len(text)] == IF k = 0 THEN <<>> ELSE upTo[k - 1] \o Put(k)
    IN  upTo[Len(text)]

UsesPlaceholder(body) == \E k \in DOMAIN body : Opens(body, k, 1..10)

(* Mutant: a placeholder without its word stays as it is. *)
FilledWhereGiven(body, typed) ==
    LET upTo[n \in 0..9] ==
            IF n = 0 THEN Substitute(body, {10}, typed)
            ELSE IF Word(typed, n) = <<>> THEN upTo[n - 1]
            ELSE Substitute(upTo[n - 1], {n}, typed)
    IN upTo[9]

(* One str::replace after the other, in what the ones before have left.    *)
Filled(body, typed) ==
    LET upTo[n \in 0..9] ==
            IF n = 0 THEN Substitute(body, {10}, typed)
            ELSE Substitute(upTo[n - 1], {n}, typed)
    IN upTo[9]

(* Mutant: what a body has no place for is dropped. *)
ExpandInPlacesOnly(body, typed) == Filled(body, typed)

Expand(body, typed) ==
    Filled(body, typed)
    \o (IF UsesPlaceholder(body) \/ typed = <<>> THEN <<>> ELSE <<Gap>> \o typed)

(* A command file: its stem and extension, whether the stem can be typed,  *)
(* its frontmatter - "none", "closed" or "open" - and what follows it.  An *)
(* unterminated frontmatter is text like any other.                        *)
Body(file) == IF file.header = "open" THEN <<Text("---")>> \o file.text ELSE file.text

Usable(file) == file.md /\ file.typable

Load(files) == {[name |-> file.name, body |-> Body(file)] : file \in {f \in files : Usable(f)}}

(* What the prompt line answers itself before it looks at the project's    *)
(* commands.                                                               *)
IsBuiltIn(word, typed) ==
    word = "model" \/ (word \in {"undo", "handoff", "help"} /\ typed = <<>>)

=============================================================================
