-------------------------------- MODULE Edits --------------------------------
(***************************************************************************)
(* What the file tools compute: the diff of crates/tc-tools/src/diff.rs    *)
(* and the replacement of crates/tc-tools/src/edit.rs (Patch::compute).    *)
(*                                                                         *)
(* A text is a sequence of lines, and a snippet is a sequence of whole     *)
(* lines: what happens inside of one line, line endings and trailing       *)
(* blanks are left out.                                                    *)
(***************************************************************************)
EXTENDS Integers, Sequences, FiniteSets, SequencesExt, FiniteSetsExt

(* The numbers in I, in ascending order. *)
Ascending(I) ==
    CHOOSE at \in [1..Cardinality(I) -> I] :
        \A j, k \in 1..Cardinality(I) : j < k => at[j] < at[k]

(* The lines of s at the positions in I, in order. *)
Picked(s, I) == LET at == Ascending(I) IN [k \in 1..Cardinality(I) |-> s[at[k]]]

-----------------------------------------------------------------------------
(* TextDiff::from_lines keeps a longest common subsequence; which one, when *)
(* there are several, is the library's business.                           *)

Subsequences(s) == {Picked(s, I) : I \in SUBSET DOMAIN s}

Kept(before, after) ==
    LET common == Subsequences(before) \cap Subsequences(after)
    IN {c \in common : \A d \in common : Len(d) <= Len(c)}

(* FileDiff: the lines added, in order, and how many are removed. *)
Diffs(before, after) ==
    LET kept == Kept(before, after)
    IN {[added |-> Picked(after, DOMAIN after \ J), removed |-> Len(before) - Cardinality(J)] :
            J \in {I \in SUBSET DOMAIN after : Picked(after, I) \in kept}}

IsEmptyDiff(d) == d.added = <<>> /\ d.removed = 0

-----------------------------------------------------------------------------
(* str::matches, str::replace and str::replacen: from the left, without    *)
(* overlaps.                                                               *)

Starts(s, old) ==
    {i \in DOMAIN s : i + Len(old) - 1 <= Len(s) /\ SubSeq(s, i, i + Len(old) - 1) = old}

(* An occurrence counts unless it begins inside of one that counts. *)
Matches(s, old) ==
    LET starts == Starts(s, old)
        inside(i, M) == \E k \in M : k < i /\ i < k + Len(old)
    IN CHOOSE M \in SUBSET starts : \A i \in starts : i \in M <=> ~inside(i, M)

(* The new snippet in the place of each match that starts in `at`. *)
ReplacedAt(s, old, new, at) ==
    LET covered == UNION {k..(k + Len(old) - 1) : k \in at}
        piece(i) == IF i \in at THEN new ELSE IF i \in covered THEN <<>> ELSE <<s[i]>>
    IN FlattenSeq([i \in DOMAIN s |-> piece(i)])

FirstOf(S) == {i \in S : \A j \in S : i <= j}

(* Patch::compute refuses an empty snippet, one that does not appear, and  *)
(* one that appears more than once unless replace_all is set.              *)
Computable(s, old, all) ==
    /\ old # <<>>
    /\ Matches(s, old) # {}
    /\ all \/ Cardinality(Matches(s, old)) = 1

Patched(s, old, new, all) ==
    ReplacedAt(s, old, new, IF all THEN Matches(s, old) ELSE FirstOf(Matches(s, old)))

=============================================================================
