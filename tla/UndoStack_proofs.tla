--------------------------- MODULE UndoStack_proofs ---------------------------
(* Proofs about UndoStack, for every set of files and contents. *)
EXTENDS UndoStack, TLAPS

(* A step of the stack keeps its types. *)
LEMMA StackTypePreserved == StackTypeOK /\ [StackNext]_stackVars => StackTypeOK'
<1> SUFFICES ASSUME StackTypeOK, [StackNext]_stackVars PROVE StackTypeOK'
    OBVIOUS
<1> USE DEF StackTypeOK
<1>1. CASE Begin
    BY <1>1 DEF Begin
<1>2. ASSUME NEW e \in Entries, Save(e)
      PROVE  StackTypeOK'
    BY <1>2 DEF Save
<1>3. ASSUME NEW e \in entries, Drop(e)
      PROVE  StackTypeOK'
    BY <1>3 DEF Drop
<1>4. ASSUME NEW e \in entries, NEW v \in Values, Touch(e, v)
      PROVE  StackTypeOK'
    BY <1>4 DEF Touch, Entries
<1>5. ASSUME NEW e \in Entries, Recall(e)
      PROVE  StackTypeOK'
    BY <1>5 DEF Recall
<1>6. CASE UNCHANGED stackVars
    BY <1>6 DEF stackVars
<1> QED
    BY <1>1, <1>2, <1>3, <1>4, <1>5, <1>6 DEF StackNext

(* The abstract stack always has its types. *)
THEOREM StackTypeCorrect == StackSpec => []StackTypeOK
<1>1. StackInit => StackTypeOK
    BY DEF StackInit, StackTypeOK
<1> QED
    BY <1>1, StackTypePreserved, PTL DEF StackSpec

(* No two entries have the same number. *)
Numbered == \A x, y \in entries : x.n = y.n => x = y

(* A step of the stack keeps the numbers of its entries distinct. *)
LEMMA NumberedPreserved == StackTypeOK /\ Numbered /\ [StackNext]_stackVars => Numbered'
<1> SUFFICES ASSUME StackTypeOK, Numbered, [StackNext]_stackVars PROVE Numbered'
    OBVIOUS
<1> USE DEF Numbered
<1>1. ASSUME NEW e \in Entries, Save(e)
      PROVE  Numbered'
    BY <1>1 DEF Save, StackTypeOK, Entries
<1>2. ASSUME NEW e \in Entries, Recall(e)
      PROVE  Numbered'
    BY <1>2 DEF Recall, StackTypeOK, Entries
<1>3. CASE \/ Begin
           \/ \E e \in entries : Drop(e) \/ \E v \in Values : Touch(e, v)
           \/ UNCHANGED stackVars
    BY <1>3 DEF Begin, Drop, Touch, stackVars
<1> QED
    BY <1>1, <1>2, <1>3 DEF StackNext

(* The entry that a file goes back to in the end, or the file itself. *)
Untouched(f) == (\A e \in entries : e.file # f) /\ files[f] = origin[f]

FirstEntry(f, e) ==
    /\ e \in entries
    /\ e.file = f
    /\ e.before = origin[f]
    /\ \A x \in entries : x.file = f => e.n <= x.n

(* A step of the stack keeps a way back to the starting point. *)
LEMMA LeadsBackPreserved ==
    StackTypeOK /\ Numbered /\ LeadsBack /\ [StackNext]_stackVars => LeadsBack'
<1> SUFFICES ASSUME StackTypeOK, Numbered, LeadsBack, [StackNext]_stackVars, NEW f \in Files
             PROVE  Untouched(f)' \/ \E e \in entries' : FirstEntry(f, e)'
    BY DEF LeadsBack, Untouched, FirstEntry
<1>1. Untouched(f) \/ \E e \in entries : FirstEntry(f, e)
    BY DEF LeadsBack, Untouched, FirstEntry
<1>2. entries \subseteq Entries /\ files \in [Files -> Values]
    BY DEF StackTypeOK
<1>3. CASE Begin
    BY <1>3 DEF Begin, Untouched
<1>4. ASSUME NEW e \in Entries, Save(e)
      PROVE  Untouched(f)' \/ \E x \in entries' : FirstEntry(f, x)'
    <2>1. /\ entries' = entries \cup {e}
          /\ files' = files /\ origin' = origin
          /\ e.before = files[e.file]
          /\ \A x \in entries : x.n < e.n
        BY <1>4 DEF Save
    <2>2. e.n \in Nat /\ \A x \in entries : x.n \in Nat
        BY <1>2 DEF Entries
    <2>3. CASE Untouched(f) /\ e.file # f
        BY <2>1, <2>3 DEF Untouched
    <2>4. CASE Untouched(f) /\ e.file = f
        <3>1. FirstEntry(f, e)'
            BY <2>1, <2>2, <2>4 DEF Untouched, FirstEntry
        <3> QED
            BY <2>1, <3>1
    <2>5. ASSUME NEW x \in entries, FirstEntry(f, x)
          PROVE  FirstEntry(f, x)'
        BY <2>1, <2>2, <2>5 DEF FirstEntry
    <2> QED
        BY <1>1, <2>1, <2>3, <2>4, <2>5
<1>5. ASSUME NEW e \in entries, NEW v \in Values, Touch(e, v)
      PROVE  Untouched(f)' \/ \E x \in entries' : FirstEntry(f, x)'
    <2>1. /\ files' = [files EXCEPT ![e.file] = v]
          /\ entries' = entries /\ origin' = origin
        BY <1>5 DEF Touch
    <2>2. Untouched(f) => Untouched(f)'
        BY <1>2, <2>1 DEF Untouched
    <2>3. ASSUME NEW x \in entries, FirstEntry(f, x)
          PROVE  FirstEntry(f, x)'
        BY <2>1, <2>3 DEF FirstEntry
    <2> QED
        BY <1>1, <2>1, <2>2, <2>3
<1>6. ASSUME NEW e \in entries, Drop(e)
      PROVE  Untouched(f)' \/ \E x \in entries' : FirstEntry(f, x)'
    <2>1. /\ \A x \in entries : x.n <= e.n
          /\ files[e.file] = e.before
          /\ entries' = entries \ {e}
          /\ files' = files /\ origin' = origin
        BY <1>6 DEF Drop, Newest
    <2>2. \A x \in entries : x.n \in Nat
        BY <1>2 DEF Entries
    <2>3. CASE Untouched(f)
        BY <2>1, <2>3 DEF Untouched
    <2>4. ASSUME NEW x \in entries, FirstEntry(f, x), x # e
          PROVE  FirstEntry(f, x)'
        BY <2>1, <2>4 DEF FirstEntry
    <2>5. ASSUME FirstEntry(f, e), \A x \in entries' : x.file # f
          PROVE  Untouched(f)'
        BY <2>1, <2>5 DEF FirstEntry, Untouched
    <2>6. ASSUME FirstEntry(f, e), NEW x \in entries', x.file = f
          PROVE  FALSE
        BY <2>1, <2>2, <2>6 DEF FirstEntry, Numbered
    <2> QED
        BY <1>1, <2>1, <2>3, <2>4, <2>5, <2>6
<1>7. ASSUME NEW e \in Entries, Recall(e)
      PROVE  Untouched(f)' \/ \E x \in entries' : FirstEntry(f, x)'
    <2>1. /\ entries' = entries \cup {e}
          /\ files' = files /\ origin' = origin
          /\ \/ \E x \in entries : x.file = e.file /\ x.n < e.n
             \/ (\A x \in entries : x.file # e.file) /\ e.before = files[e.file]
        BY <1>7 DEF Recall
    <2>2. e.n \in Nat /\ \A x \in entries : x.n \in Nat
        BY <1>2 DEF Entries
    <2>3. CASE e.file # f
        BY <1>1, <2>1, <2>3 DEF Untouched, FirstEntry
    <2>4. CASE e.file = f /\ Untouched(f)
        <3>1. FirstEntry(f, e)'
            BY <2>1, <2>2, <2>4 DEF Untouched, FirstEntry
        <3> QED
            BY <2>1, <3>1
    <2>5. ASSUME e.file = f, NEW x \in entries, FirstEntry(f, x)
          PROVE  FirstEntry(f, x)'
        <3>1. PICK y \in entries : y.file = f /\ y.n < e.n
            BY <2>1, <2>5 DEF FirstEntry
        <3>2. x.n <= y.n
            BY <2>5, <3>1 DEF FirstEntry
        <3>3. x.n <= e.n
            BY <2>2, <3>1, <3>2
        <3> QED
            BY <2>1, <2>5, <3>3 DEF FirstEntry
    <2> QED
        BY <1>1, <2>1, <2>3, <2>4, <2>5
<1>8. CASE UNCHANGED stackVars
    BY <1>1, <1>8 DEF stackVars, Untouched, FirstEntry
<1> QED
    BY <1>3, <1>4, <1>5, <1>6, <1>7, <1>8 DEF StackNext

(* Whatever is changed and undone in whatever order the stack allows, the  *)
(* remaining entries lead back to the files the session started from.      *)
THEOREM StackLeadsBack == StackSpec => []LeadsBack
<1>1. StackInit => Numbered /\ LeadsBack
    BY DEF StackInit, Numbered, LeadsBack
<1> QED
    BY <1>1, StackTypeCorrect, NumberedPreserved, LeadsBackPreserved, PTL DEF StackSpec

=============================================================================
