---------------------------- MODULE Learning_proofs ----------------------------
(* Proofs about Learning, for any sessions, concepts and answers.            *)
EXTENDS Learning, SequenceTheorems, FiniteSetTheorems, TLAPS

-----------------------------------------------------------------------------
(* The invariants. *)

(* The answers of a sequence that are in a set. *)
Number(answers, kind) == Cardinality({i \in DOMAIN answers : answers[i] \in kind})

About(c, right) == {a \in Answers : Concept[a.concept] = c /\ a.right = right}

Waiting(s, c, right) == Number(tasks[s], About(c, right))

(* The right and the wrong answers that a session has in hand. *)
RightInHand(s, c) == Waiting(s, c, TRUE)
WrongInHand(s, c) == Waiting(s, c, FALSE)

(* What a record counts, and so many right and wrong answers that are still *)
(* to be recorded in it, was answered.  A record whose right answers lost a *)
(* digit counts as many answers as before, and no more right ones.          *)
Earned(r, c, right, wrong) ==
    /\ r.correct + right <= given[c].right
    /\ r.correct <= r.seen
    /\ r.seen + right + wrong <= given[c].right + given[c].wrong
    /\ ~cutShort => r.seen + wrong <= r.correct + given[c].wrong

(* A session can still record the answers it has in hand.                   *)
EarnedRecords ==
    \A c \in Concepts :
        /\ Earned(RecordOf(file.concepts, c), c, 0, 0)
        /\ \A s \in Sessions :
              Earned(RecordOf(profile[s], c), c, RightInHand(s, c), WrongInHand(s, c))

EarnedInv == ~mixed => EarnedRecords

(* Every answer given is in the record or still to be recorded in it. *)
Whole(r, c, right, wrong) ==
    /\ r.correct + right = given[c].right
    /\ r.seen + right + wrong = given[c].right + given[c].wrong

(* Without a disturbance one session is open at most; it knows everything,  *)
(* and so does the file, but for the moment in which it is written.         *)
Remembered ==
    /\ \A s, t \in Sessions : phase[s] # "off" /\ phase[t] # "off" => s = t
    /\ (\A s \in Sessions : phase[s] = "off") =>
          \A c \in Concepts : Whole(RecordOf(file.concepts, c), c, 0, 0)
    /\ \A s \in Sessions : phase[s] # "off" =>
          \A c \in Concepts :
              Whole(RecordOf(profile[s], c), c, RightInHand(s, c), WrongInHand(s, c))
    /\ \A s \in Sessions : phase[s] = "on" => file.concepts = profile[s]
    /\ \A s \in Sessions : phase[s] = "saving" => file = Toml(NoConcepts)

KeptInv == ~disturbed => Remembered

-----------------------------------------------------------------------------
(* Answers in hand. *)

(* The answers in hand can be counted. *)
LEMMA NumberType ==
    ASSUME NEW S, NEW s \in Seq(S), NEW kind
    PROVE  Number(s, kind) \in Nat
<1> DEFINE found == {i \in DOMAIN s : s[i] \in kind}
<1>1. DOMAIN s = 1..Len(s) /\ Len(s) \in Nat
    BY LenProperties
<1>2. IsFiniteSet(1..Len(s)) /\ found \subseteq 1..Len(s)
    BY <1>1, FS_Interval
<1> QED
    BY <1>2, FS_Subset, FS_CardinalityType DEF Number

(* An answer that is appended is counted where it belongs. *)
LEMMA NumberGrows ==
    ASSUME NEW S, NEW s \in Seq(S), NEW x \in S, NEW kind
    PROVE  /\ Append(s, x) \in Seq(S)
           /\ Number(s, kind) \in Nat
           /\ Number(Append(s, x), kind) = IF x \in kind THEN Number(s, kind) + 1 ELSE Number(s, kind)
<1> DEFINE At(u) == {i \in DOMAIN u : u[i] \in kind}
           u == Append(s, x)
<1>1. /\ u \in Seq(S) /\ Len(u) = Len(s) + 1
      /\ \A i \in 1..Len(s) : u[i] = s[i]
      /\ u[Len(s) + 1] = x
    BY AppendProperties
<1>2. /\ DOMAIN s = 1..Len(s) /\ Len(s) \in Nat
      /\ DOMAIN u = 1..(Len(s) + 1)
    BY <1>1, LenProperties
<1> HIDE DEF u
<1>3. IsFiniteSet(At(s)) /\ Cardinality(At(s)) \in Nat
    <2>1. IsFiniteSet(1..Len(s)) /\ At(s) \subseteq 1..Len(s)
        BY <1>2, FS_Interval
    <2> QED
        BY <2>1, FS_Subset, FS_CardinalityType
<1>4. At(u) = IF x \in kind THEN At(s) \cup {Len(s) + 1} ELSE At(s)
    BY <1>1, <1>2
<1>5. Len(s) + 1 \notin At(s)
    BY <1>2
<1>6. Cardinality(At(u)) = IF x \in kind THEN Cardinality(At(s)) + 1 ELSE Cardinality(At(s))
    <2> HIDE DEF At
    <2> QED
        BY <1>3, <1>4, <1>5, FS_AddElement
<1> QED
    BY <1>1, <1>3, <1>6 DEF Number, u

(* The first answer is the one that the rest has not. *)
LEMMA NumberShrinks ==
    ASSUME NEW S, NEW s \in Seq(S), s # <<>>, NEW kind
    PROVE  /\ Head(s) \in S /\ Tail(s) \in Seq(S)
           /\ Number(Tail(s), kind) \in Nat
           /\ Number(s, kind) =
                IF Head(s) \in kind THEN Number(Tail(s), kind) + 1 ELSE Number(Tail(s), kind)
<1> DEFINE At(u) == {i \in DOMAIN u : u[i] \in kind}
           u == Tail(s)
           Rest == At(s) \ {1}
           f == [i \in At(u) |-> i + 1]
<1>1. /\ Head(s) \in S /\ u \in Seq(S) /\ Len(u) = Len(s) - 1 /\ Head(s) = s[1]
      /\ \A i \in 1..Len(u) : u[i] = s[i + 1]
    BY HeadTailProperties
<1>2. /\ DOMAIN s = 1..Len(s) /\ Len(s) \in Nat /\ Len(s) >= 1
      /\ DOMAIN u = 1..(Len(s) - 1)
    BY <1>1, LenProperties, EmptySeq
<1> HIDE DEF u
<1>3. IsFiniteSet(At(u)) /\ Cardinality(At(u)) \in Nat
    <2>1. IsFiniteSet(1..(Len(s) - 1)) /\ At(u) \subseteq 1..(Len(s) - 1)
        BY <1>2, FS_Interval
    <2> QED
        BY <2>1, FS_Subset, FS_CardinalityType
<1>4. f \in Bijection(At(u), Rest)
    <2>1. f \in [At(u) -> Rest]
        BY <1>1, <1>2
    <2>2. \A i, j \in At(u) : f[i] = f[j] => i = j
        BY <1>2
    <2>3. ASSUME NEW j \in Rest PROVE \E i \in At(u) : f[i] = j
        <3>1. j - 1 \in At(u) /\ (j - 1) + 1 = j
            BY <1>1, <1>2
        <3> QED
            BY <3>1
    <2> HIDE DEF f, At, Rest
    <2> QED
        BY <2>1, <2>2, <2>3 DEF Bijection, Injection, IsInjective, Surjection
<1>5. IsFiniteSet(Rest) /\ Cardinality(Rest) = Cardinality(At(u))
    <2> HIDE DEF f, At, Rest
    <2> QED
        BY <1>3, <1>4, FS_Bijection DEF ExistsBijection
<1>6. At(s) = IF Head(s) \in kind THEN Rest \cup {1} ELSE Rest
    BY <1>1, <1>2
<1>7. Cardinality(At(s)) = IF Head(s) \in kind THEN Cardinality(At(u)) + 1 ELSE Cardinality(At(u))
    <2>1. 1 \notin Rest
        OBVIOUS
    <2> HIDE DEF At, Rest
    <2> QED
        BY <1>3, <1>5, <1>6, <2>1, FS_AddElement
<1> QED
    BY <1>1, <1>3, <1>7 DEF Number, u

(* A session whose tasks have all had the agent has nothing in hand. *)
LEMMA NothingWaits ==
    ASSUME NEW s, NEW c, tasks[s] = <<>>
    PROVE  RightInHand(s, c) = 0 /\ WrongInHand(s, c) = 0
<1>1. \A right : {i \in DOMAIN tasks[s] : tasks[s][i] \in About(c, right)} = {}
    OBVIOUS
<1> QED
    BY <1>1, FS_EmptySet DEF RightInHand, WrongInHand, Waiting, Number

(* A key adds one answer to what its session has in hand. *)
LEMMA WaitingGrows ==
    ASSUME NEW s \in Sessions, NEW a \in Answers, NEW c \in Concepts, NEW t \in Sessions,
           tasks[t] \in Seq(Answers),
           tasks'[t] = IF t = s THEN Append(tasks[t], a) ELSE tasks[t]
    PROVE  /\ RightInHand(t, c)' =
                 IF t = s /\ Concept[a.concept] = c /\ a.right = TRUE
                 THEN RightInHand(t, c) + 1 ELSE RightInHand(t, c)
           /\ WrongInHand(t, c)' =
                 IF t = s /\ Concept[a.concept] = c /\ a.right = FALSE
                 THEN WrongInHand(t, c) + 1 ELSE WrongInHand(t, c)
<1>1. ASSUME NEW right \in BOOLEAN
      PROVE  Waiting(t, c, right)' =
                  IF t = s /\ Concept[a.concept] = c /\ a.right = right
                  THEN Waiting(t, c, right) + 1 ELSE Waiting(t, c, right)
    <2>1. a \in About(c, right) <=> Concept[a.concept] = c /\ a.right = right
        BY DEF About
    <2>2. /\ Number(tasks[t], About(c, right)) \in Nat
          /\ Number(Append(tasks[t], a), About(c, right)) =
                IF a \in About(c, right) THEN Number(tasks[t], About(c, right)) + 1
                ELSE Number(tasks[t], About(c, right))
        BY NumberGrows
    <2>3. Waiting(t, c, right)' = Number(tasks'[t], About(c, right))
        BY DEF Waiting
    <2> QED
        BY <2>1, <2>2, <2>3 DEF Waiting
<1> QED
    BY <1>1 DEF RightInHand, WrongInHand

(* The agent takes one answer out of what its session has in hand. *)
LEMMA WaitingShrinks ==
    ASSUME NEW s \in Sessions, tasks[s] # <<>>,
           tasks \in [Sessions -> Seq(Answers)], tasks' = [tasks EXCEPT ![s] = Tail(@)]
    PROVE  /\ tasks' \in [Sessions -> Seq(Answers)]
           /\ Head(tasks[s]) \in Answers
           /\ \A t \in Sessions, c \in Concepts :
                /\ RightInHand(t, c) =
                     IF t = s /\ Concept[Head(tasks[s]).concept] = c /\ Head(tasks[s]).right = TRUE
                     THEN RightInHand(t, c)' + 1 ELSE RightInHand(t, c)'
                /\ WrongInHand(t, c) =
                     IF t = s /\ Concept[Head(tasks[s]).concept] = c /\ Head(tasks[s]).right = FALSE
                     THEN WrongInHand(t, c)' + 1 ELSE WrongInHand(t, c)'
<1> DEFINE a == Head(tasks[s])
<1>1. tasks' \in [Sessions -> Seq(Answers)] /\ a \in Answers
    BY NumberShrinks
<1>2. ASSUME NEW t \in Sessions, NEW c \in Concepts, NEW right \in BOOLEAN
      PROVE  Waiting(t, c, right) =
                  IF t = s /\ Concept[a.concept] = c /\ a.right = right
                  THEN Waiting(t, c, right)' + 1 ELSE Waiting(t, c, right)'
    <2>1. a \in About(c, right) <=> Concept[a.concept] = c /\ a.right = right
        BY <1>1 DEF About
    <2>2. /\ Number(Tail(tasks[s]), About(c, right)) \in Nat
          /\ Number(tasks[s], About(c, right)) =
                IF a \in About(c, right) THEN Number(Tail(tasks[s]), About(c, right)) + 1
                ELSE Number(Tail(tasks[s]), About(c, right))
        BY NumberShrinks
    <2>3. tasks'[t] = IF t = s THEN Tail(tasks[t]) ELSE tasks[t]
        OBVIOUS
    <2>4. Number(tasks[t], About(c, right)) \in Nat
        <3>1. tasks[t] \in Seq(Answers)
            OBVIOUS
        <3> QED
            BY <1>1, <3>1, NumberGrows
    <2>5. Waiting(t, c, right)' = Number(tasks'[t], About(c, right))
        BY DEF Waiting
    <2> HIDE DEF a
    <2> QED
        BY <2>1, <2>2, <2>3, <2>4, <2>5 DEF Waiting
<1> QED
    BY <1>1, <1>2 DEF RightInHand, WrongInHand

-----------------------------------------------------------------------------
(* Tables. *)

NoRecord == [seen |-> 0, correct |-> 0]

(* The record of a concept in a table has the types of its fields. *)
LEMMA RecordType ==
    ASSUME NEW p, IsTable(p), NEW c
    PROVE  RecordOf(p, c) \in [seen : Nat, correct : Nat]
BY DEF IsTable, RecordOf

(* A table without concepts says nothing of any. *)
LEMMA EmptyTable ==
    /\ IsTable(NoConcepts)
    /\ \A c : RecordOf(NoConcepts, c) = NoRecord
BY DEF IsTable, NoConcepts, RecordOf, NoRecord

(* Profile::record counts one more answer about one concept. *)
LEMMA RecordedOnce ==
    ASSUME NEW p, IsTable(p), NEW name \in Names, NEW right \in BOOLEAN
    PROVE  /\ IsTable(Recorded(p, name, right))
           /\ \A c : c # Concept[name] => RecordOf(Recorded(p, name, right), c) = RecordOf(p, c)
           /\ RecordOf(Recorded(p, name, right), Concept[name]) =
                [seen |-> RecordOf(p, Concept[name]).seen + 1,
                 correct |-> RecordOf(p, Concept[name]).correct + (IF right THEN 1 ELSE 0)]
<1> DEFINE k == Concept[name]
           r == RecordOf(p, k)
           new == [seen |-> r.seen + 1, correct |-> r.correct + (IF right THEN 1 ELSE 0)]
           q == [c \in DOMAIN p \cup {k} |-> IF c # k THEN p[c] ELSE new]
<1>1. Recorded(p, name, right) = q
    BY DEF Recorded
<1>2. k \in Concepts
    BY LearningAssumption
<1>3. r \in [seen : Nat, correct : Nat]
    BY RecordType
<1>4. new \in [seen : Nat, correct : Nat]
    <2>1. (IF right THEN 1 ELSE 0) \in Nat
        OBVIOUS
    <2> QED
        BY <1>3, <2>1
<1> HIDE DEF new, r, k
<1>5. DOMAIN q = DOMAIN p \cup {k} /\ \A c \in DOMAIN q : q[c] = IF c # k THEN p[c] ELSE new
    OBVIOUS
<1>6. q \in [DOMAIN p \cup {k} -> [seen : Nat, correct : Nat]]
    BY <1>4 DEF IsTable
<1> HIDE DEF q
<1>7. IsTable(q)
    BY <1>2, <1>5, <1>6 DEF IsTable
<1>8. /\ \A c : c # k => RecordOf(q, c) = RecordOf(p, c)
      /\ RecordOf(q, k) = new
    BY <1>5 DEF RecordOf
<1> QED
    BY <1>1, <1>7, <1>8 DEF new, r, k

(* A record read back: as it was, or, of a cut text, with fewer right ones. *)
Within(r, whole) == r.seen = whole.seen /\ r.correct <= whole.correct

(* Every record of the table q is one of p or one of old, or there is none; *)
(* with exact, none of them is short of a digit.                            *)
PartOf(q, p, old, exact) ==
    /\ IsTable(q)
    /\ \A c : \E whole \in {NoRecord, RecordOf(p, c), RecordOf(old, c)} :
          Within(RecordOf(q, c), whole) /\ (exact => RecordOf(q, c) = whole)

(* A table whose records are all of p or of old is part of them. *)
LEMMA PartsOfTables ==
    ASSUME NEW p, IsTable(p), NEW old, IsTable(old), NEW q, IsTable(q),
           \A c : RecordOf(q, c) \in {NoRecord, RecordOf(p, c), RecordOf(old, c)}
    PROVE  \A exact \in BOOLEAN : PartOf(q, p, old, exact)
<1>1. \A c : RecordOf(q, c) \in [seen : Nat, correct : Nat]
    BY RecordType
<1>2. \A c : Within(RecordOf(q, c), RecordOf(q, c))
    BY <1>1 DEF Within
<1> QED
    BY <1>2 DEF PartOf

(* Some of the records of a table, beside some of those of another. *)
LEMMA MergedTables ==
    ASSUME NEW p, IsTable(p), NEW old, IsTable(old)
    PROVE  /\ \A exact \in BOOLEAN :
                /\ PartOf(p, p, old, exact)
                /\ PartOf(old, p, old, exact)
                /\ PartOf(NoConcepts, p, old, exact)
                /\ \A cs \in SUBSET DOMAIN p : PartOf(Restrict(p, cs), p, old, exact)
                /\ \A ds \in SUBSET DOMAIN old : PartOf(Joined(p, Restrict(old, ds)), p, old, exact)
           /\ \A cs \in SUBSET DOMAIN p : IsTable(Restrict(p, cs))
<1>1. ASSUME NEW cs \in SUBSET DOMAIN p
      PROVE  /\ IsTable(Restrict(p, cs))
             /\ \A exact \in BOOLEAN : PartOf(Restrict(p, cs), p, old, exact)
    <2> DEFINE kept == [c \in cs |-> p[c]]
    <2>1. Restrict(p, cs) = kept
        BY DEF Restrict
    <2>2. IsTable(kept) /\ \A c : RecordOf(kept, c) \in {NoRecord, RecordOf(p, c)}
        BY DEF IsTable, RecordOf, NoRecord
    <2> HIDE DEF kept
    <2> QED
        BY <2>1, <2>2, PartsOfTables
<1>2. ASSUME NEW ds \in SUBSET DOMAIN old
      PROVE  \A exact \in BOOLEAN : PartOf(Joined(p, Restrict(old, ds)), p, old, exact)
    <2> DEFINE left == [c \in ds |-> old[c]]
               both == [c \in DOMAIN p \cup ds |-> IF c \in DOMAIN p THEN p[c] ELSE left[c]]
    <2>1. Restrict(old, ds) = left
        BY DEF Restrict
    <2>2. Joined(p, left) = both
        BY DEF Joined
    <2>3. IsTable(both) /\ \A c : RecordOf(both, c) \in {NoRecord, RecordOf(p, c), RecordOf(old, c)}
        BY DEF IsTable, RecordOf, NoRecord
    <2> HIDE DEF left, both
    <2> QED
        BY <2>1, <2>2, <2>3, PartsOfTables
<1>3. \A exact \in BOOLEAN : /\ PartOf(p, p, old, exact)
                             /\ PartOf(old, p, old, exact)
                             /\ PartOf(NoConcepts, p, old, exact)
    BY EmptyTable, PartsOfTables
<1> QED
    BY <1>1, <1>2, <1>3

Kinds == {"missing", "garbled", "unreadable", "toml"}

(* What is left of a file that was cut off is part of what was written,     *)
(* with a number that is not greater.                                       *)
LEMMA CutType ==
    ASSUME NEW p, IsTable(p), NEW old, IsTable(old), NEW f \in Cut(p)
    PROVE  f.kind \in Kinds /\ PartOf(f.concepts, p, old, FALSE)
<1>1. CASE f \in {Toml(Kept(p, n)) : n \in 0..Len(Order)}
    <2>1. PICK n \in 0..Len(Order) : f = Toml(Kept(p, n))
        BY <1>1
    <2> DEFINE cs == {Order[i] : i \in 1..n} \cap DOMAIN p
    <2>2. cs \in SUBSET DOMAIN p /\ f = Toml(Restrict(p, cs))
        BY <2>1 DEF Kept
    <2> HIDE DEF cs
    <2>3. f.kind \in Kinds /\ f.concepts = Restrict(p, cs)
        BY <2>2 DEF Toml, Kinds
    <2> QED
        BY <2>2, <2>3, MergedTables
<1>2. CASE f \in CutNumbers(p)
    <2>1. PICK n \in {i \in DOMAIN Order : Order[i] \in DOMAIN p} :
              f \in {Toml(Shortened(p, n, count)) : count \in Leading(p[Order[n]].correct)}
        BY <1>2 DEF CutNumbers
    <2>2. PICK count \in Leading(p[Order[n]].correct) : f = Toml(Shortened(p, n, count))
        BY <2>1
    <2> DEFINE cs == {Order[i] : i \in 1..n} \cap DOMAIN p
               k == Order[n]
               q == Restrict(p, cs)
               s == [q EXCEPT ![k].correct = count]
    <2>3. k \in DOMAIN p /\ p[k] \in [seen : Nat, correct : Nat]
        BY <2>1 DEF IsTable
    <2>4. count \in Nat /\ count <= p[k].correct
        BY <2>2, <2>3 DEF Leading
    <2>5. f.kind \in Kinds /\ f.concepts = s
        BY <2>2 DEF Toml, Kinds, Shortened, Kept
    <2> HIDE DEF cs, k
    <2>6. cs \in SUBSET DOMAIN p
        BY DEF cs
    <2>7. IsTable(q) /\ DOMAIN q = cs /\ \A c \in cs : q[c] = p[c]
        BY <2>6, MergedTables DEF Restrict
    <2> HIDE DEF q
    <2>8. /\ DOMAIN s = cs
          /\ \A c \in cs : s[c] = IF c = k THEN [p[c] EXCEPT !.correct = count] ELSE p[c]
        BY <2>7 DEF IsTable
    <2> HIDE DEF s
    <2>9. \A c \in cs : /\ s[c] \in [seen : Nat, correct : Nat]
                        /\ s[c].seen = p[c].seen /\ s[c].correct <= p[c].correct
        BY <2>3, <2>4, <2>6, <2>8 DEF IsTable
    <2>10. IsTable(s)
        <3>1. s = [c \in cs |-> s[c]]
            BY <2>7, <2>8 DEF s, IsTable
        <3> QED
            BY <2>6, <2>8, <2>9, <3>1 DEF IsTable
    <2>11. ASSUME NEW c
           PROVE  \E whole \in {NoRecord, RecordOf(p, c), RecordOf(old, c)} : Within(RecordOf(s, c), whole)
        <3>1. CASE c \in cs
            <4>1. RecordOf(s, c) = s[c] /\ RecordOf(p, c) = p[c]
                BY <2>6, <2>8, <3>1 DEF RecordOf
            <4> QED
                BY <2>9, <3>1, <4>1 DEF Within
        <3>2. CASE c \notin cs
            <4>1. RecordOf(s, c) = NoRecord
                BY <2>8, <3>2 DEF RecordOf, NoRecord
            <4>2. Within(NoRecord, NoRecord)
                BY DEF Within, NoRecord
            <4> QED
                BY <4>1, <4>2
        <3> QED
            BY <3>1, <3>2
    <2> QED
        BY <2>5, <2>10, <2>11 DEF PartOf
<1>3. CASE f \in {Garbled, Unreadable}
    <2>1. f.kind \in Kinds /\ f.concepts = NoConcepts
        BY <1>3 DEF Garbled, Unreadable, Kinds
    <2> QED
        BY <2>1, EmptyTable, MergedTables
<1>4. \A x \in SplitIn(DOMAIN p) : x = Unreadable
    BY DEF SplitIn
<1> DEFINE tables == {Toml(Kept(p, n)) : n \in 0..Len(Order)}
<1>5. Cut(p) = tables \cup CutNumbers(p) \cup {Garbled} \cup SplitIn(DOMAIN p)
    BY DEF Cut
<1>6. f \in tables \/ f \in CutNumbers(p) \/ f \in {Garbled, Unreadable}
    <2> HIDE DEF tables
    <2> QED
        BY <1>4, <1>5
<1> QED
    BY <1>1, <1>2, <1>3, <1>6

(* A profile written over a profile: every record is one of theirs.  What   *)
(* it is written over is no profile: any table can be the result.           *)
LEMMA OverType ==
    ASSUME NEW old, IsTable(old.concepts), NEW p, IsTable(p), NEW f \in Over(old, p)
    PROVE  /\ f.kind \in Kinds /\ IsTable(f.concepts)
           /\ old.kind = "toml" => PartOf(f.concepts, p, old.concepts, TRUE)
<1>1. CASE f = Toml(p)
    <2>1. f.kind \in Kinds /\ f.concepts = p
        BY <1>1 DEF Toml, Kinds
    <2> QED
        BY <2>1, MergedTables
<1>2. CASE f \in {Garbled, Unreadable}
    <2>1. f.kind \in Kinds /\ f.concepts = NoConcepts
        BY <1>2 DEF Garbled, Unreadable, Kinds
    <2> QED
        BY <2>1, EmptyTable, MergedTables
<1>3. CASE f \in {Toml(Joined(p, Restrict(old.concepts, ds))) : ds \in SUBSET DOMAIN old.concepts}
    <2>1. PICK ds \in SUBSET DOMAIN old.concepts : f = Toml(Joined(p, Restrict(old.concepts, ds)))
        BY <1>3
    <2>2. f.kind \in Kinds /\ f.concepts = Joined(p, Restrict(old.concepts, ds))
        BY <2>1 DEF Toml, Kinds
    <2>3. PartOf(f.concepts, p, old.concepts, TRUE)
        BY <2>2, MergedTables
    <2> QED
        BY <2>2, <2>3 DEF PartOf
<1>4. CASE old.kind # "toml" /\ f \in {Toml(m) : m \in Mixes}
    <2>1. PICK m \in Mixes : f = Toml(m)
        BY <1>4
    <2>2. f.kind \in Kinds /\ f.concepts = m
        BY <2>1 DEF Toml, Kinds
    <2> QED
        BY <1>4, <2>2, MixesAssumption
<1> QED
    BY <1>1, <1>2, <1>3, <1>4 DEF Over, SplitIn

(* The same for what is left of a profile that was cut off. *)
LEMMA CutOverType ==
    ASSUME NEW old, IsTable(old.concepts), old.kind \in Kinds, NEW p, IsTable(p),
           NEW f \in CutOver(old, p)
    PROVE  /\ f.kind \in Kinds /\ IsTable(f.concepts)
           /\ old = Toml(NoConcepts) => PartOf(f.concepts, p, old.concepts, FALSE)
<1>1. CASE f \in Cut(p)
    <2>1. f.kind \in Kinds /\ PartOf(f.concepts, p, old.concepts, FALSE)
        BY <1>1, CutType
    <2> QED
        BY <2>1 DEF PartOf
<1>2. CASE old # Toml(NoConcepts) /\ f \in {Garbled, Unreadable}
    <2>1. f.kind \in Kinds /\ f.concepts = NoConcepts
        BY <1>2 DEF Garbled, Unreadable, Kinds
    <2> QED
        BY <1>2, <2>1, EmptyTable
<1>3. CASE old # Toml(NoConcepts) /\ f = old
    BY <1>3
<1>4. CASE old # Toml(NoConcepts) /\ f \in {Toml(m) : m \in Mixes}
    <2>1. PICK m \in Mixes : f = Toml(m)
        BY <1>4
    <2>2. f.kind \in Kinds /\ f.concepts = m
        BY <2>1 DEF Toml, Kinds
    <2> QED
        BY <1>4, <2>2, MixesAssumption
<1> QED
    BY <1>1, <1>2, <1>3, <1>4 DEF CutOver, SplitIn

-----------------------------------------------------------------------------
(* What the steps do. *)

(* An answer given with a key is one of the answers, and counted as given.  *)
LEMMA PressGives ==
    ASSUME TypeOK, NEW s \in Sessions, NEW digit \in 1..9, Press(s, digit)
    PROVE  \E a \in Answers :
             /\ tasks' = [tasks EXCEPT ![s] = Append(@, a)]
             /\ given' \in [Concepts -> [right : Nat, wrong : Nat]]
             /\ \A c \in Concepts :
                  /\ given'[c].right =
                        IF c = Concept[a.concept] /\ a.right = TRUE
                        THEN given[c].right + 1 ELSE given[c].right
                  /\ given'[c].wrong =
                        IF c = Concept[a.concept] /\ a.right = FALSE
                        THEN given[c].wrong + 1 ELSE given[c].wrong
<1> DEFINE q == question[s]
           a == [concept |-> q.concept, right |-> IsCorrect(q, digit - 1)]
           k == Concept[q.concept]
<1>1. q.concept \in Names
    BY DEF TypeOK, Press, Questions
<1>2. k \in Concepts
    BY <1>1, LearningAssumption
<1>3. IsCorrect(q, digit - 1) \in BOOLEAN
    BY DEF IsCorrect
<1>4. a \in Answers /\ Concept[a.concept] = k /\ a.right = IsCorrect(q, digit - 1)
    BY <1>1, <1>3 DEF Answers
<1>5. tasks' = [tasks EXCEPT ![s] = Append(@, a)]
    BY DEF Press
<1>6. given \in [Concepts -> [right : Nat, wrong : Nat]]
    BY DEF TypeOK
<1>7. given' = IF IsCorrect(q, digit - 1) THEN [given EXCEPT ![k].right = @ + 1]
               ELSE [given EXCEPT ![k].wrong = @ + 1]
    BY DEF Press
<1> HIDE DEF a, k, q
<1>8. CASE IsCorrect(q, digit - 1)
    <2>1. given' = [given EXCEPT ![k].right = @ + 1] /\ a.right = TRUE
        BY <1>4, <1>7, <1>8
    <2>2. /\ given' \in [Concepts -> [right : Nat, wrong : Nat]]
          /\ \A c \in Concepts :
               /\ given'[c].right = IF c = k THEN given[c].right + 1 ELSE given[c].right
               /\ given'[c].wrong = given[c].wrong
        BY <1>2, <1>6, <2>1
    <2> QED
        BY <1>4, <1>5, <2>1, <2>2
<1>9. CASE ~IsCorrect(q, digit - 1)
    <2>1. given' = [given EXCEPT ![k].wrong = @ + 1] /\ a.right = FALSE
        BY <1>3, <1>4, <1>7, <1>9
    <2>2. /\ given' \in [Concepts -> [right : Nat, wrong : Nat]]
          /\ \A c \in Concepts :
               /\ given'[c].wrong = IF c = k THEN given[c].wrong + 1 ELSE given[c].wrong
               /\ given'[c].right = given[c].right
        BY <1>2, <1>6, <2>1
    <2> QED
        BY <1>4, <1>5, <2>1, <2>2
<1> QED
    BY <1>8, <1>9

(* The profile of one session is replaced by another table. *)
LEMMA ProfileChanges ==
    ASSUME TypeOK, NEW s \in Sessions, NEW p, IsTable(p), profile' = [profile EXCEPT ![s] = p]
    PROVE  /\ profile' = [t \in Sessions |-> profile'[t]] /\ \A t \in Sessions : IsTable(profile'[t])
           /\ \A t \in Sessions : profile'[t] = IF t = s THEN p ELSE profile[t]
<1>1. profile = [t \in Sessions |-> profile[t]] /\ \A t \in Sessions : IsTable(profile[t])
    BY DEF TypeOK
<1>2. \A t \in Sessions : profile'[t] = IF t = s THEN p ELSE profile[t]
    BY <1>1
<1> QED
    BY <1>1, <1>2

(* What Save writes, and what Leave may leave of it, was in the profile     *)
(* that was being written or in the file, unless two texts were mixed.      *)
LEMMA SaveWrites ==
    ASSUME TypeOK, NEW s \in Sessions, Save(s) \/ (Leave(s) /\ phase[s] = "saving")
    PROVE  /\ file'.kind \in Kinds /\ IsTable(file'.concepts)
           /\ cutShort => cutShort'
           /\ mixed => mixed'
           /\ ~mixed' => PartOf(file'.concepts, profile[s], file.concepts, ~cutShort')
<1>1. IsTable(profile[s]) /\ IsTable(file.concepts) /\ file.kind \in Kinds
    BY DEF TypeOK, Kinds
<1>2. CASE /\ file' \in Over(file, profile[s])
           /\ mixed' = (mixed \/ file.kind # "toml") /\ cutShort' = cutShort
    <2>1. /\ file'.kind \in Kinds /\ IsTable(file'.concepts)
          /\ file.kind = "toml" => PartOf(file'.concepts, profile[s], file.concepts, TRUE)
        BY <1>1, <1>2, OverType
    <2> QED
        BY <1>2, <2>1 DEF PartOf
<1>3. CASE /\ file' \in CutOver(file, profile[s])
           /\ mixed' = (mixed \/ file # Toml(NoConcepts)) /\ cutShort' = TRUE
    <2>1. /\ file'.kind \in Kinds /\ IsTable(file'.concepts)
          /\ file = Toml(NoConcepts) => PartOf(file'.concepts, profile[s], file.concepts, FALSE)
        BY <1>1, <1>3, CutOverType
    <2> QED
        BY <1>3, <2>1
<1> QED
    BY <1>2, <1>3 DEF Save, Leave

-----------------------------------------------------------------------------
(* Types. *)

(* The first state has the types. *)
LEMMA InitType == Init => TypeOK
<1> SUFFICES ASSUME Init PROVE TypeOK
    OBVIOUS
<1>1. <<>> \in Seq(Answers)
    BY EmptySeq
<1> QED
    BY <1>1, EmptyTable DEF Init, TypeOK, Missing

(* Each step keeps the types. *)
LEMMA TypePreserved == TypeOK /\ [Next]_vars => TypeOK'
<1> SUFFICES ASSUME TypeOK, [Next]_vars PROVE TypeOK'
    OBVIOUS
<1>0. starts \in Nat /\ asked \in Nat
    BY DEF TypeOK
<1>1. ASSUME NEW s \in Sessions, Start(s) PROVE TypeOK'
    <2>1. IsTable(file.concepts)
        BY DEF TypeOK
    <2>2. profile' = [t \in Sessions |-> profile'[t]] /\ \A t \in Sessions : IsTable(profile'[t])
        BY <1>1, <2>1, ProfileChanges DEF Start
    <2> QED
        BY <1>1, <2>2 DEF Start, TypeOK
<1>2. ASSUME NEW s \in Sessions, RefuseToStart(s) \/ Skip(s) PROVE TypeOK'
    <2>1. CASE RefuseToStart(s)
        BY <2>1 DEF RefuseToStart, TypeOK
    <2>2. CASE Skip(s)
        <3>1. question' \in [Sessions -> Questions \cup {NoQuestion}]
            BY <2>2 DEF Skip, TypeOK
        <3> QED
            BY <2>2, <3>1 DEF Skip, TypeOK
    <2> QED
        BY <1>2, <2>1, <2>2
<1>3. ASSUME NEW s \in Sessions, NEW raw \in RawQuestions, Ask(s, raw) PROVE TypeOK'
    <2>1. Asked(raw) \in Questions
        BY RawAssumption DEF Asked, Questions
    <2> QED
        BY <1>3, <2>1 DEF Ask, TypeOK
<1>4. ASSUME NEW s \in Sessions, NEW digit \in 1..9, Press(s, digit) PROVE TypeOK'
    <2>1. PICK a \in Answers :
             /\ tasks' = [tasks EXCEPT ![s] = Append(@, a)]
             /\ given' \in [Concepts -> [right : Nat, wrong : Nat]]
        BY <1>4, PressGives
    <2>2. tasks \in [Sessions -> Seq(Answers)]
        BY DEF TypeOK
    <2>3. tasks' \in [Sessions -> Seq(Answers)]
        BY <2>1, <2>2, NumberGrows
    <2> QED
        BY <1>4, <2>1, <2>3 DEF Press, TypeOK
<1>5. ASSUME NEW s \in Sessions, Answer(s) PROVE TypeOK'
    <2>1. tasks \in [Sessions -> Seq(Answers)] /\ tasks[s] # <<>> /\ tasks' = [tasks EXCEPT ![s] = Tail(@)]
        BY <1>5 DEF TypeOK, Answer
    <2>2. tasks' \in [Sessions -> Seq(Answers)] /\ Head(tasks[s]) \in Answers
        BY <2>1, WaitingShrinks
    <2> DEFINE p == Recorded(profile[s], Head(tasks[s]).concept, Head(tasks[s]).right)
    <2>3. IsTable(p)
        <3>1. IsTable(profile[s]) /\ Head(tasks[s]).concept \in Names /\ Head(tasks[s]).right \in BOOLEAN
            BY <2>2 DEF TypeOK, Answers
        <3> QED
            BY <3>1, RecordedOnce
    <2>4. profile' = [profile EXCEPT ![s] = p]
        BY <1>5 DEF Answer
    <2>5. profile' = [t \in Sessions |-> profile'[t]] /\ \A t \in Sessions : IsTable(profile'[t])
        BY <2>3, <2>4, ProfileChanges
    <2>6. file'.kind \in Kinds /\ IsTable(file'.concepts)
        BY <1>5, EmptyTable DEF Answer, Toml, TypeOK, Kinds
    <2> QED
        BY <1>5, <2>1, <2>2, <2>5, <2>6 DEF Answer, TypeOK, Kinds
<1>6. ASSUME NEW s \in Sessions, Save(s) PROVE TypeOK'
    <2>1. file'.kind \in Kinds /\ IsTable(file'.concepts)
        BY <1>6, SaveWrites
    <2> QED
        BY <1>6, <2>1 DEF Save, TypeOK, Kinds
<1>7. ASSUME NEW s \in Sessions, Leave(s) PROVE TypeOK'
    <2>1. file'.kind \in Kinds /\ IsTable(file'.concepts)
        <3>1. CASE phase[s] = "saving"
            BY <1>7, <3>1, SaveWrites
        <3>2. CASE phase[s] # "saving"
            BY <1>7, <3>2 DEF Leave, TypeOK, Kinds
        <3> QED
            BY <3>1, <3>2
    <2>2. profile' = [t \in Sessions |-> profile'[t]] /\ \A t \in Sessions : IsTable(profile'[t])
        BY <1>7, EmptyTable, ProfileChanges DEF Leave
    <2>3. tasks' \in [Sessions -> Seq(Answers)]
        BY <1>7, EmptySeq DEF Leave, TypeOK
    <2>4. \A t \in Sessions : phase'[t] = "off" => tasks'[t] = <<>>
        BY <1>7 DEF Leave, TypeOK
    <2>5. phase' \in [Sessions -> {"off", "on", "saving"}] /\ {disturbed', cutShort', mixed'} \subseteq BOOLEAN
        BY <1>7 DEF Leave, TypeOK
    <2>6. question' \in [Sessions -> Questions \cup {NoQuestion}]
        BY <1>7 DEF Leave, TypeOK
    <2>7. UNCHANGED <<starts, asked, given>>
        BY <1>7 DEF Leave
    <2> QED
        BY <2>1, <2>2, <2>3, <2>4, <2>5, <2>6, <2>7 DEF TypeOK, Kinds
<1>8. CASE UNCHANGED vars
    BY <1>8 DEF vars, TypeOK
<1> QED
    BY <1>1, <1>2, <1>3, <1>4, <1>5, <1>6, <1>7, <1>8 DEF Next

-----------------------------------------------------------------------------
(* Counts are earned. *)

(* A record that promises less is earned as well; so is no record at all.   *)
LEMMA EarnedAtRest ==
    ASSUME given \in [Concepts -> [right : Nat, wrong : Nat]], NEW c \in Concepts
    PROVE  /\ Earned(NoRecord, c, 0, 0)
           /\ \A r \in [seen : Nat, correct : Nat], right, wrong \in Nat :
                 Earned(r, c, right, wrong) => Earned(r, c, 0, 0)
BY DEF Earned, NoRecord

(* The books stay balanced when an answer is given, and when it is recorded. *)
LEMMA Accounting ==
    \A correct, seen, right, wrong, rights, wrongs \in Nat :
        /\ correct + right <= rights
        /\ correct <= seen
        /\ seen + right + wrong <= rights + wrongs
        =>
        /\ \A n \in {right, right + 1} :
              /\ correct + n <= rights + 1
              /\ seen + n + wrong <= (rights + 1) + wrongs
        /\ \A n \in {wrong, wrong + 1} :
              /\ seen + right + n <= rights + (wrongs + 1)
              /\ seen + wrong <= correct + wrongs => seen + n <= correct + (wrongs + 1)
        /\ \A n \in Nat : right = n + 1 =>
              /\ (correct + 1) + n <= rights
              /\ correct + 1 <= seen + 1
              /\ (seen + 1) + n + wrong <= rights + wrongs
              /\ seen + wrong <= correct + wrongs => (seen + 1) + wrong <= (correct + 1) + wrongs
        /\ \A n \in Nat : wrong = n + 1 =>
              /\ (correct + 0) + right <= rights
              /\ correct + 0 <= seen + 1
              /\ (seen + 1) + right + n <= rights + wrongs
              /\ seen + wrong <= correct + wrongs => (seen + 1) + n <= (correct + 0) + wrongs
OBVIOUS

(* At first nobody has answered anything, and nothing is recorded.         *)
LEMMA EarnedInit == Init => EarnedInv
<1> SUFFICES ASSUME Init, NEW c \in Concepts
             PROVE  /\ Earned(RecordOf(file.concepts, c), c, 0, 0)
                    /\ \A s \in Sessions :
                          Earned(RecordOf(profile[s], c), c, RightInHand(s, c), WrongInHand(s, c))
    BY DEF EarnedInv, EarnedRecords
<1>1. given \in [Concepts -> [right : Nat, wrong : Nat]]
    BY DEF Init
<1>2. RecordOf(file.concepts, c) = NoRecord /\ \A s \in Sessions : RecordOf(profile[s], c) = NoRecord
    BY EmptyTable DEF Init, Missing
<1>3. \A s \in Sessions : RightInHand(s, c) = 0 /\ WrongInHand(s, c) = 0
    BY NothingWaits DEF Init
<1> QED
    BY <1>1, <1>2, <1>3, EarnedAtRest

(* Each step keeps every profile within what was answered. *)
LEMMA EarnedPreserved ==
    ASSUME TypeOK, EarnedInv, [Next]_vars, TypeOK'
    PROVE  EarnedInv'
<1>0. /\ given \in [Concepts -> [right : Nat, wrong : Nat]]
      /\ tasks \in [Sessions -> Seq(Answers)]
      /\ IsTable(file.concepts) /\ \A s \in Sessions : IsTable(profile[s])
    BY DEF TypeOK
<1> SUFFICES ASSUME ~mixed', NEW c \in Concepts
             PROVE  /\ Earned(RecordOf(file.concepts, c), c, 0, 0)'
                    /\ \A t \in Sessions :
                          Earned(RecordOf(profile[t], c), c, RightInHand(t, c), WrongInHand(t, c))'
    BY DEF EarnedInv, EarnedRecords
<1>a. (cutShort => cutShort') /\ (mixed => mixed')
    <2>1. ASSUME NEW s \in Sessions, Save(s) \/ (Leave(s) /\ phase[s] = "saving")
          PROVE  (cutShort => cutShort') /\ (mixed => mixed')
        BY <2>1, SaveWrites
    <2> QED
        <3>1. CASE \E s \in Sessions : Save(s) \/ (Leave(s) /\ phase[s] = "saving")
            BY <2>1, <3>1
        <3>2. CASE ~\E s \in Sessions : Save(s) \/ (Leave(s) /\ phase[s] = "saving")
            <4>1. \A s : Leave(s) /\ phase[s] # "saving" => UNCHANGED <<cutShort, mixed>>
                BY DEF Leave
            <4>2. \A s : Start(s) \/ RefuseToStart(s) \/ Skip(s) \/ Answer(s) => UNCHANGED <<cutShort, mixed>>
                BY DEF Start, RefuseToStart, Skip, Answer
            <4>3. \A s, raw, digit : Ask(s, raw) \/ Press(s, digit) => UNCHANGED <<cutShort, mixed>>
                BY DEF Ask, Press
            <4>4. UNCHANGED vars => UNCHANGED <<cutShort, mixed>>
                BY DEF vars
            <4> QED
                BY <3>2, <4>1, <4>2, <4>3, <4>4 DEF Next
        <3> QED
            BY <3>1, <3>2
<1>1. /\ Earned(RecordOf(file.concepts, c), c, 0, 0)
      /\ \A t \in Sessions :
            Earned(RecordOf(profile[t], c), c, RightInHand(t, c), WrongInHand(t, c))
    BY <1>a DEF EarnedInv, EarnedRecords
<1>2. \A t \in Sessions :
        /\ RightInHand(t, c) \in Nat /\ WrongInHand(t, c) \in Nat
        /\ RightInHand(t, c)' \in Nat /\ WrongInHand(t, c)' \in Nat
    <2>1. \A t \in Sessions : tasks[t] \in Seq(Answers) /\ tasks'[t] \in Seq(Answers)
        BY DEF TypeOK
    <2> QED
        BY <2>1, NumberType DEF Waiting, RightInHand, WrongInHand
<1>3. /\ RecordOf(file.concepts, c) \in [seen : Nat, correct : Nat]
      /\ \A t \in Sessions : RecordOf(profile[t], c) \in [seen : Nat, correct : Nat]
    BY <1>0, RecordType
<1>4. ASSUME UNCHANGED <<file, profile, tasks, given>>
      PROVE  /\ Earned(RecordOf(file.concepts, c), c, 0, 0)'
             /\ \A t \in Sessions :
                   Earned(RecordOf(profile[t], c), c, RightInHand(t, c), WrongInHand(t, c))'
    BY <1>a, <1>1, <1>4 DEF Earned, RecordOf, Waiting, RightInHand, WrongInHand
<1>5. /\ Earned(NoRecord, c, 0, 0)
      /\ \A t \in Sessions : Earned(RecordOf(profile[t], c), c, 0, 0)
    BY <1>0, <1>1, <1>2, <1>3, EarnedAtRest
<1>6. ASSUME NEW s \in Sessions, Start(s)
      PROVE  /\ Earned(RecordOf(file.concepts, c), c, 0, 0)'
             /\ \A t \in Sessions :
                   Earned(RecordOf(profile[t], c), c, RightInHand(t, c), WrongInHand(t, c))'
    <2>1. /\ UNCHANGED <<file, tasks, given>> /\ phase[s] = "off" /\ tasks[s] = <<>>
          /\ profile' = [profile EXCEPT ![s] = file.concepts]
        BY <1>6 DEF Start, TypeOK
    <2>2. \A t \in Sessions : profile'[t] = IF t = s THEN file.concepts ELSE profile[t]
        BY <1>0, <2>1, ProfileChanges
    <2>3. RightInHand(s, c) = 0 /\ WrongInHand(s, c) = 0
        BY <2>1, NothingWaits
    <2>4. \A t \in Sessions : RightInHand(t, c)' = RightInHand(t, c) /\ WrongInHand(t, c)' = WrongInHand(t, c)
        BY <2>1 DEF Waiting, RightInHand, WrongInHand
    <2> QED
        BY <1>a, <1>1, <2>1, <2>2, <2>3, <2>4 DEF Earned, RecordOf
<1>7. ASSUME NEW s \in Sessions, NEW digit \in 1..9, Press(s, digit)
      PROVE  /\ Earned(RecordOf(file.concepts, c), c, 0, 0)'
             /\ \A t \in Sessions :
                   Earned(RecordOf(profile[t], c), c, RightInHand(t, c), WrongInHand(t, c))'
    <2>1. PICK a \in Answers :
             /\ tasks' = [tasks EXCEPT ![s] = Append(@, a)]
             /\ given'[c].right =
                   IF c = Concept[a.concept] /\ a.right = TRUE
                   THEN given[c].right + 1 ELSE given[c].right
             /\ given'[c].wrong =
                   IF c = Concept[a.concept] /\ a.right = FALSE
                   THEN given[c].wrong + 1 ELSE given[c].wrong
        BY <1>7, PressGives
    <2>2. /\ RecordOf(file.concepts, c)' = RecordOf(file.concepts, c)
          /\ \A t \in Sessions : RecordOf(profile[t], c)' = RecordOf(profile[t], c)
        BY <1>7 DEF Press, RecordOf
    <2>3. \A t \in Sessions :
            /\ RightInHand(t, c)' =
                 IF t = s /\ Concept[a.concept] = c /\ a.right = TRUE
                 THEN RightInHand(t, c) + 1 ELSE RightInHand(t, c)
            /\ WrongInHand(t, c)' =
                 IF t = s /\ Concept[a.concept] = c /\ a.right = FALSE
                 THEN WrongInHand(t, c) + 1 ELSE WrongInHand(t, c)
        <3>1. \A t \in Sessions :
                /\ tasks[t] \in Seq(Answers)
                /\ tasks'[t] = IF t = s THEN Append(tasks[t], a) ELSE tasks[t]
            BY <1>0, <2>1
        <3> QED
            BY <3>1, WaitingGrows
    <2>4. given[c].right \in Nat /\ given[c].wrong \in Nat
        BY <1>0
    <2>5. Earned(RecordOf(file.concepts, c), c, 0, 0)'
        <3> DEFINE r == RecordOf(file.concepts, c)
        <3>1. /\ r.seen \in Nat /\ r.correct \in Nat /\ RecordOf(file.concepts, c)' = r
              /\ Earned(r, c, 0, 0)
            BY <1>1, <1>3, <2>2
        <3>2. /\ given'[c].right \in {given[c].right, given[c].right + 1}
              /\ given'[c].wrong \in {given[c].wrong, given[c].wrong + 1}
            BY <2>1
        <3> HIDE DEF r
        <3> QED
            BY <1>a, <2>4, <3>1, <3>2 DEF Earned
    <2>6. ASSUME NEW t \in Sessions
          PROVE  Earned(RecordOf(profile[t], c), c, RightInHand(t, c), WrongInHand(t, c))'
        <3>1. /\ RightInHand(t, c)' =
                    IF t = s /\ Concept[a.concept] = c /\ a.right = TRUE
                    THEN RightInHand(t, c) + 1 ELSE RightInHand(t, c)
              /\ WrongInHand(t, c)' =
                    IF t = s /\ Concept[a.concept] = c /\ a.right = FALSE
                    THEN WrongInHand(t, c) + 1 ELSE WrongInHand(t, c)
            BY <2>3
        <3> DEFINE r == RecordOf(profile[t], c)
        <3>2. /\ r.seen \in Nat /\ r.correct \in Nat /\ RecordOf(profile[t], c)' = r
              /\ Earned(r, c, RightInHand(t, c), WrongInHand(t, c))
            BY <1>1, <1>3, <2>2
        <3> HIDE DEF r
        <3>3. CASE c # Concept[a.concept]
            <4>1. /\ given'[c].right = given[c].right /\ given'[c].wrong = given[c].wrong
                  /\ RightInHand(t, c)' = RightInHand(t, c)
                  /\ WrongInHand(t, c)' = WrongInHand(t, c)
                BY <2>1, <3>1, <3>3
            <4> QED
                BY <1>a, <3>2, <4>1 DEF Earned
        <3>4. CASE c = Concept[a.concept] /\ a.right = TRUE
            <4>1. /\ given'[c].right = given[c].right + 1 /\ given'[c].wrong = given[c].wrong
                  /\ RightInHand(t, c)' \in {RightInHand(t, c), RightInHand(t, c) + 1}
                  /\ WrongInHand(t, c)' = WrongInHand(t, c)
                BY <2>1, <3>1, <3>4
            <4>2. /\ RightInHand(t, c) \in Nat /\ WrongInHand(t, c) \in Nat
                  /\ RightInHand(t, c)' \in Nat /\ WrongInHand(t, c)' \in Nat
                  /\ r.correct + RightInHand(t, c) <= given[c].right
                  /\ r.correct <= r.seen
                  /\ r.seen + RightInHand(t, c) + WrongInHand(t, c) <= given[c].right + given[c].wrong
                  /\ ~cutShort => r.seen + WrongInHand(t, c) <= r.correct + given[c].wrong
                BY <1>a, <1>2, <3>2 DEF Earned
            <4>3. /\ r.correct + RightInHand(t, c)' <= given[c].right + 1
                  /\ r.seen + RightInHand(t, c)' + WrongInHand(t, c) <= (given[c].right + 1) + given[c].wrong
                BY <2>4, <3>2, <4>1, <4>2, Accounting
            <4> QED
                BY <1>a, <3>2, <4>1, <4>2, <4>3 DEF Earned
        <3>5. CASE c = Concept[a.concept] /\ a.right = FALSE
            <4>1. /\ given'[c].right = given[c].right /\ given'[c].wrong = given[c].wrong + 1
                  /\ RightInHand(t, c)' = RightInHand(t, c)
                  /\ WrongInHand(t, c)' \in {WrongInHand(t, c), WrongInHand(t, c) + 1}
                BY <2>1, <3>1, <3>5
            <4>2. /\ RightInHand(t, c) \in Nat /\ WrongInHand(t, c) \in Nat
                  /\ RightInHand(t, c)' \in Nat /\ WrongInHand(t, c)' \in Nat
                  /\ r.correct + RightInHand(t, c) <= given[c].right
                  /\ r.correct <= r.seen
                  /\ r.seen + RightInHand(t, c) + WrongInHand(t, c) <= given[c].right + given[c].wrong
                  /\ ~cutShort => r.seen + WrongInHand(t, c) <= r.correct + given[c].wrong
                BY <1>a, <1>2, <3>2 DEF Earned
            <4>3. /\ r.seen + RightInHand(t, c) + WrongInHand(t, c)' <= given[c].right + (given[c].wrong + 1)
                  /\ ~cutShort => r.seen + WrongInHand(t, c)' <= r.correct + (given[c].wrong + 1)
                BY <2>4, <3>2, <4>1, <4>2, Accounting
            <4> QED
                BY <1>a, <3>2, <4>1, <4>2, <4>3 DEF Earned
        <3>6. a.right \in BOOLEAN
            BY DEF Answers
        <3> QED
            BY <3>3, <3>4, <3>5, <3>6
    <2> QED
        BY <2>5, <2>6
<1>8. ASSUME NEW s \in Sessions, Answer(s)
      PROVE  /\ Earned(RecordOf(file.concepts, c), c, 0, 0)'
             /\ \A t \in Sessions :
                   Earned(RecordOf(profile[t], c), c, RightInHand(t, c), WrongInHand(t, c))'
    <2> DEFINE a == Head(tasks[s])
               p == Recorded(profile[s], a.concept, a.right)
    <2>1. /\ tasks[s] # <<>> /\ tasks' = [tasks EXCEPT ![s] = Tail(@)]
          /\ profile' = [profile EXCEPT ![s] = p] /\ UNCHANGED given
          /\ file' = Toml(NoConcepts) \/ UNCHANGED file
        BY <1>8 DEF Answer
    <2>2. /\ a \in Answers
          /\ \A t \in Sessions :
               /\ RightInHand(t, c) =
                    IF t = s /\ Concept[a.concept] = c /\ a.right = TRUE
                    THEN RightInHand(t, c)' + 1 ELSE RightInHand(t, c)'
               /\ WrongInHand(t, c) =
                    IF t = s /\ Concept[a.concept] = c /\ a.right = FALSE
                    THEN WrongInHand(t, c)' + 1 ELSE WrongInHand(t, c)'
        BY <1>0, <2>1, WaitingShrinks
    <2>3. a.concept \in Names /\ a.right \in BOOLEAN
        BY <2>2 DEF Answers
    <2>4. /\ IsTable(p)
          /\ c # Concept[a.concept] => RecordOf(p, c) = RecordOf(profile[s], c)
          /\ c = Concept[a.concept] =>
                RecordOf(p, c) = [seen |-> RecordOf(profile[s], c).seen + 1,
                                  correct |-> RecordOf(profile[s], c).correct + (IF a.right THEN 1 ELSE 0)]
        BY <1>0, <2>3, RecordedOnce
    <2> HIDE DEF a, p
    <2>5. \A t \in Sessions : profile'[t] = IF t = s THEN p ELSE profile[t]
        BY <2>1, <2>4, ProfileChanges
    <2>6. RecordOf(file.concepts, c)' \in {NoRecord, RecordOf(file.concepts, c)}
        BY <2>1, EmptyTable DEF Toml, RecordOf
    <2>7. Earned(RecordOf(file.concepts, c), c, 0, 0)'
        BY <1>a, <1>1, <1>5, <2>1, <2>6 DEF Earned
    <2>8. ASSUME NEW t \in Sessions
          PROVE  Earned(RecordOf(profile[t], c), c, RightInHand(t, c), WrongInHand(t, c))'
        <3>1. /\ RightInHand(t, c) =
                    IF t = s /\ Concept[a.concept] = c /\ a.right = TRUE
                    THEN RightInHand(t, c)' + 1 ELSE RightInHand(t, c)'
              /\ WrongInHand(t, c) =
                    IF t = s /\ Concept[a.concept] = c /\ a.right = FALSE
                    THEN WrongInHand(t, c)' + 1 ELSE WrongInHand(t, c)'
            BY <2>2
        <3>2. RecordOf(profile[t], c)' = RecordOf(profile'[t], c)
            BY DEF RecordOf
        <3>3. given[c].right \in Nat /\ given[c].wrong \in Nat
            BY <1>0
        <3>4. CASE t # s \/ c # Concept[a.concept]
            <4>1. /\ RecordOf(profile'[t], c) = RecordOf(profile[t], c)
                  /\ RightInHand(t, c)' = RightInHand(t, c)
                  /\ WrongInHand(t, c)' = WrongInHand(t, c)
                BY <2>4, <2>5, <3>1, <3>4
            <4> QED
                BY <1>a, <1>1, <2>1, <3>2, <4>1 DEF Earned
        <3>5. CASE t = s /\ c = Concept[a.concept] /\ a.right = TRUE
            <4> DEFINE r == RecordOf(profile[s], c)
            <4>1. RecordOf(profile'[t], c) = [seen |-> r.seen + 1, correct |-> r.correct + 1]
                BY <2>4, <2>5, <3>5
            <4>2. /\ r.seen \in Nat /\ r.correct \in Nat
                  /\ Earned(r, c, RightInHand(t, c), WrongInHand(t, c))
                BY <1>1, <1>3, <3>5
            <4> HIDE DEF r
            <4>3. /\ RecordOf(profile'[t], c).seen = r.seen + 1
                  /\ RecordOf(profile'[t], c).correct = r.correct + 1
                BY <4>1
            <4>4. /\ RightInHand(t, c) = RightInHand(t, c)' + 1
                  /\ WrongInHand(t, c)' = WrongInHand(t, c)
                BY <3>1, <3>5
            <4>5. /\ RightInHand(t, c) \in Nat /\ WrongInHand(t, c) \in Nat
                  /\ RightInHand(t, c)' \in Nat /\ WrongInHand(t, c)' \in Nat
                  /\ r.correct + RightInHand(t, c) <= given[c].right
                  /\ r.correct <= r.seen
                  /\ r.seen + RightInHand(t, c) + WrongInHand(t, c) <= given[c].right + given[c].wrong
                  /\ ~cutShort => r.seen + WrongInHand(t, c) <= r.correct + given[c].wrong
                BY <1>a, <1>2, <4>2 DEF Earned
            <4>6. /\ (r.correct + 1) + RightInHand(t, c)' <= given[c].right
                  /\ r.correct + 1 <= r.seen + 1
                  /\ (r.seen + 1) + RightInHand(t, c)' + WrongInHand(t, c)' <= given[c].right + given[c].wrong
                  /\ ~cutShort => (r.seen + 1) + WrongInHand(t, c)' <= (r.correct + 1) + given[c].wrong
                BY <3>3, <4>2, <4>4, <4>5, Accounting
            <4> QED
                BY <1>a, <2>1, <3>2, <4>3, <4>6 DEF Earned
        <3>6. CASE t = s /\ c = Concept[a.concept] /\ a.right = FALSE
            <4> DEFINE r == RecordOf(profile[s], c)
            <4>1. RecordOf(profile'[t], c) = [seen |-> r.seen + 1, correct |-> r.correct + 0]
                BY <2>4, <2>5, <3>6
            <4>2. /\ r.seen \in Nat /\ r.correct \in Nat
                  /\ Earned(r, c, RightInHand(t, c), WrongInHand(t, c))
                BY <1>1, <1>3, <3>6
            <4> HIDE DEF r
            <4>3. /\ RecordOf(profile'[t], c).seen = r.seen + 1
                  /\ RecordOf(profile'[t], c).correct = r.correct + 0
                BY <4>1
            <4>4. /\ WrongInHand(t, c) = WrongInHand(t, c)' + 1
                  /\ RightInHand(t, c)' = RightInHand(t, c)
                BY <3>1, <3>6
            <4>5. /\ RightInHand(t, c) \in Nat /\ WrongInHand(t, c) \in Nat
                  /\ RightInHand(t, c)' \in Nat /\ WrongInHand(t, c)' \in Nat
                  /\ r.correct + RightInHand(t, c) <= given[c].right
                  /\ r.correct <= r.seen
                  /\ r.seen + RightInHand(t, c) + WrongInHand(t, c) <= given[c].right + given[c].wrong
                  /\ ~cutShort => r.seen + WrongInHand(t, c) <= r.correct + given[c].wrong
                BY <1>a, <1>2, <4>2 DEF Earned
            <4>6. /\ (r.correct + 0) + RightInHand(t, c)' <= given[c].right
                  /\ r.correct + 0 <= r.seen + 1
                  /\ (r.seen + 1) + RightInHand(t, c)' + WrongInHand(t, c)' <= given[c].right + given[c].wrong
                  /\ ~cutShort => (r.seen + 1) + WrongInHand(t, c)' <= (r.correct + 0) + given[c].wrong
                BY <3>3, <4>2, <4>4, <4>5, Accounting
            <4> QED
                BY <1>a, <2>1, <3>2, <4>3, <4>6 DEF Earned
        <3> QED
            BY <2>3, <3>4, <3>5, <3>6
    <2> QED
        BY <2>7, <2>8
<1>9. ASSUME NEW s \in Sessions, UNCHANGED given,
             PartOf(file'.concepts, profile[s], file.concepts, ~cutShort')
      PROVE  Earned(RecordOf(file.concepts, c), c, 0, 0)'
    <2> DEFINE r == RecordOf(file'.concepts, c)
    <2>1. PICK whole \in {NoRecord, RecordOf(profile[s], c), RecordOf(file.concepts, c)} :
              Within(r, whole) /\ (~cutShort' => r = whole)
        BY <1>9 DEF PartOf
    <2>2. Earned(whole, c, 0, 0) /\ whole \in [seen : Nat, correct : Nat]
        BY <1>1, <1>3, <1>5 DEF NoRecord
    <2>3. r \in [seen : Nat, correct : Nat] /\ RecordOf(file.concepts, c)' = r
        BY <1>9, RecordType DEF PartOf, RecordOf
    <2>4. given[c].right \in Nat /\ given[c].wrong \in Nat
        BY <1>0
    <2> HIDE DEF r
    <2>5. /\ r.seen = whole.seen /\ r.correct <= whole.correct
          /\ whole.correct <= given[c].right /\ whole.correct <= whole.seen
          /\ whole.seen <= given[c].right + given[c].wrong
          /\ ~cutShort => whole.seen <= whole.correct + given[c].wrong
        BY <2>1, <2>2, <2>4 DEF Within, Earned
    <2>6. /\ r.correct + 0 <= given[c].right /\ r.correct <= r.seen
          /\ r.seen + 0 + 0 <= given[c].right + given[c].wrong
        BY <2>2, <2>3, <2>4, <2>5
    <2>7. ~cutShort' => r.seen + 0 <= r.correct + given[c].wrong
        BY <1>a, <2>1, <2>2, <2>3, <2>4, <2>5
    <2> QED
        BY <1>9, <2>3, <2>6, <2>7 DEF Earned
<1>10. ASSUME NEW s \in Sessions, Save(s)
      PROVE  /\ Earned(RecordOf(file.concepts, c), c, 0, 0)'
             /\ \A t \in Sessions :
                   Earned(RecordOf(profile[t], c), c, RightInHand(t, c), WrongInHand(t, c))'
    <2>1. UNCHANGED <<profile, tasks, given>>
        BY <1>10 DEF Save
    <2>2. Earned(RecordOf(file.concepts, c), c, 0, 0)'
        BY <1>9, <1>10, <2>1, SaveWrites
    <2> QED
        BY <1>a, <1>1, <2>1, <2>2 DEF Earned, RecordOf, Waiting, RightInHand, WrongInHand
<1>11. ASSUME NEW s \in Sessions, Leave(s)
      PROVE  /\ Earned(RecordOf(file.concepts, c), c, 0, 0)'
             /\ \A t \in Sessions :
                   Earned(RecordOf(profile[t], c), c, RightInHand(t, c), WrongInHand(t, c))'
    <2>1. /\ UNCHANGED given /\ tasks' = [tasks EXCEPT ![s] = <<>>]
          /\ profile' = [profile EXCEPT ![s] = NoConcepts]
        BY <1>11 DEF Leave
    <2>2. Earned(RecordOf(file.concepts, c), c, 0, 0)'
        <3>1. CASE phase[s] = "saving"
            BY <1>9, <1>11, <2>1, <3>1, SaveWrites
        <3>2. CASE phase[s] # "saving"
            BY <1>a, <1>1, <1>11, <2>1, <3>2 DEF Leave, Earned, RecordOf
        <3> QED
            BY <3>1, <3>2
    <2>3. \A t \in Sessions : profile'[t] = IF t = s THEN NoConcepts ELSE profile[t]
        BY <2>1, EmptyTable, ProfileChanges
    <2>4. ASSUME NEW t \in Sessions
          PROVE  Earned(RecordOf(profile[t], c), c, RightInHand(t, c), WrongInHand(t, c))'
        <3>1. RecordOf(profile[t], c)' = RecordOf(profile'[t], c)
            BY DEF RecordOf
        <3>2. CASE t = s
            <4>1. tasks'[t] = <<>>
                BY <1>0, <2>1, <3>2
            <4>2. RightInHand(t, c)' = 0 /\ WrongInHand(t, c)' = 0
                <5>1. {i \in DOMAIN tasks'[t] : tasks'[t][i] \in About(c, TRUE)} = {}
                      /\ {i \in DOMAIN tasks'[t] : tasks'[t][i] \in About(c, FALSE)} = {}
                    BY <4>1
                <5> QED
                    BY <5>1, FS_EmptySet DEF Waiting, Number, RightInHand, WrongInHand
            <4>3. RecordOf(profile'[t], c) = NoRecord
                BY <2>3, <3>2, EmptyTable
            <4> QED
                BY <1>a, <1>5, <2>1, <3>1, <4>2, <4>3 DEF Earned
        <3>3. CASE t # s
            <4>1. tasks'[t] = tasks[t] /\ profile'[t] = profile[t]
                BY <1>0, <2>1, <2>3, <3>3
            <4>2. RightInHand(t, c)' = RightInHand(t, c) /\ WrongInHand(t, c)' = WrongInHand(t, c)
                BY <4>1 DEF Waiting, RightInHand, WrongInHand
            <4> QED
                BY <1>a, <1>1, <2>1, <3>1, <4>1, <4>2 DEF Earned
        <3> QED
            BY <3>2, <3>3
    <2> QED
        BY <2>2, <2>4
<1>12. ASSUME NEW s \in Sessions, RefuseToStart(s) \/ Skip(s) \/ \E raw \in RawQuestions : Ask(s, raw)
       PROVE  UNCHANGED <<file, profile, tasks, given>>
    BY <1>12 DEF RefuseToStart, Skip, Ask
<1>13. CASE UNCHANGED vars
    BY <1>4, <1>13 DEF vars
<1> QED
    BY <1>4, <1>6, <1>7, <1>8, <1>10, <1>11, <1>12, <1>13 DEF Next

-----------------------------------------------------------------------------
(* Nothing is forgotten. *)

(* At first there is nothing to be forgotten. *)
LEMMA KeptInit == Init => KeptInv
<1> SUFFICES ASSUME Init PROVE Remembered
    BY DEF KeptInv
<1>1. \A s \in Sessions : phase[s] = "off"
    BY DEF Init
<1>2. \A c \in Concepts : RecordOf(file.concepts, c) = NoRecord
    BY EmptyTable DEF Init, Missing
<1>3. \A c \in Concepts : given[c].right = 0 /\ given[c].wrong = 0
    BY DEF Init
<1>4. \A c \in Concepts : Whole(RecordOf(file.concepts, c), c, 0, 0)
    BY <1>2, <1>3 DEF Whole, NoRecord
<1> QED
    BY <1>1, <1>4 DEF Remembered

(* While no session is disturbed, the open session or else the file has     *)
(* every answer.                                                            *)
LEMMA KeptPreserved ==
    ASSUME TypeOK, KeptInv, [Next]_vars, TypeOK'
    PROVE  KeptInv'
<1> SUFFICES ASSUME ~disturbed' PROVE Remembered'
    BY DEF KeptInv
<1>0. /\ phase \in [Sessions -> {"off", "on", "saving"}]
      /\ given \in [Concepts -> [right : Nat, wrong : Nat]]
      /\ tasks \in [Sessions -> Seq(Answers)]
      /\ \A s \in Sessions : IsTable(profile[s])
      /\ disturbed \in BOOLEAN
    BY DEF TypeOK
<1>1. disturbed => disturbed'
    BY <1>0 DEF Next, vars, Start, RefuseToStart, Ask, Skip, Press, Answer, Save, Leave
<1>2. Remembered
    BY <1>1 DEF KeptInv
<1>3. /\ \A s, t \in Sessions : phase[s] # "off" /\ phase[t] # "off" => s = t
      /\ (\A s \in Sessions : phase[s] = "off") =>
            \A c \in Concepts : Whole(RecordOf(file.concepts, c), c, 0, 0)
      /\ \A s \in Sessions : phase[s] # "off" =>
            \A c \in Concepts :
                Whole(RecordOf(profile[s], c), c, RightInHand(s, c), WrongInHand(s, c))
      /\ \A s \in Sessions : phase[s] = "on" => file.concepts = profile[s]
      /\ \A s \in Sessions : phase[s] = "saving" => file = Toml(NoConcepts)
    BY <1>2 DEF Remembered
<1>4. \A s \in Sessions, c \in Concepts :
        RightInHand(s, c) \in Nat /\ WrongInHand(s, c) \in Nat
    BY <1>0, NumberType DEF RightInHand, WrongInHand, Waiting
<1>5. ASSUME UNCHANGED <<file, phase, profile, tasks, given>> PROVE Remembered'
    <2>1. \A s, c : /\ RightInHand(s, c)' = RightInHand(s, c) /\ WrongInHand(s, c)' = WrongInHand(s, c)
                   /\ RecordOf(profile[s], c)' = RecordOf(profile[s], c)
                   /\ RecordOf(file.concepts, c)' = RecordOf(file.concepts, c)
        BY <1>5 DEF RightInHand, WrongInHand, Waiting, RecordOf
    <2> QED
        BY <1>3, <1>5, <2>1 DEF Remembered, Whole
<1>6. ASSUME NEW s \in Sessions, Start(s) PROVE Remembered'
    <2>1. /\ UNCHANGED <<file, tasks, given>>
          /\ phase' = [phase EXCEPT ![s] = "on"] /\ profile' = [profile EXCEPT ![s] = file.concepts]
          /\ \A t \in Sessions : phase[t] = "off"
        BY <1>0, <1>6 DEF Start
    <2>2. IsTable(file.concepts) /\ tasks[s] = <<>>
        BY <2>1 DEF TypeOK
    <2>3. profile'[s] = file.concepts
        BY <2>1, <2>2, ProfileChanges
    <2>4. \A t \in Sessions : phase'[t] = IF t = s THEN "on" ELSE "off"
        BY <1>0, <2>1
    <2>5. \A c \in Concepts : RightInHand(s, c)' = 0 /\ WrongInHand(s, c)' = 0
        <3>1. \A c : RightInHand(s, c) = 0 /\ WrongInHand(s, c) = 0
            BY <2>2, NothingWaits
        <3> QED
            BY <2>1, <3>1 DEF RightInHand, WrongInHand, Waiting
    <2>6. \A c \in Concepts : Whole(RecordOf(profile[s], c), c, RightInHand(s, c), WrongInHand(s, c))'
        <3>1. \A c \in Concepts : RecordOf(profile[s], c)' = RecordOf(file.concepts, c)
            BY <2>3 DEF RecordOf
        <3> QED
            BY <1>3, <2>1, <2>5, <3>1 DEF Whole
    <2> QED
        BY <2>1, <2>3, <2>4, <2>6 DEF Remembered
<1>7. ASSUME NEW s \in Sessions, NEW digit \in 1..9, Press(s, digit) PROVE Remembered'
    <2>1. phase[s] # "off" /\ UNCHANGED <<file, phase, profile>>
        BY <1>7 DEF Press
    <2>2. PICK a \in Answers :
             /\ tasks' = [tasks EXCEPT ![s] = Append(@, a)]
             /\ \A c \in Concepts :
                  /\ given'[c].right =
                        IF c = Concept[a.concept] /\ a.right = TRUE
                        THEN given[c].right + 1 ELSE given[c].right
                  /\ given'[c].wrong =
                        IF c = Concept[a.concept] /\ a.right = FALSE
                        THEN given[c].wrong + 1 ELSE given[c].wrong
        BY <1>7, PressGives
    <2>3. ASSUME NEW c \in Concepts
          PROVE  Whole(RecordOf(profile[s], c), c, RightInHand(s, c), WrongInHand(s, c))'
        <3> DEFINE r == RecordOf(profile[s], c)
        <3>1. /\ RightInHand(s, c)' =
                    IF Concept[a.concept] = c /\ a.right = TRUE
                    THEN RightInHand(s, c) + 1 ELSE RightInHand(s, c)
              /\ WrongInHand(s, c)' =
                    IF Concept[a.concept] = c /\ a.right = FALSE
                    THEN WrongInHand(s, c) + 1 ELSE WrongInHand(s, c)
            <4>1. tasks[s] \in Seq(Answers) /\ tasks'[s] = Append(tasks[s], a)
                BY <1>0, <2>2
            <4> QED
                BY <4>1, WaitingGrows
        <3>2. /\ r.seen \in Nat /\ r.correct \in Nat
              /\ Whole(r, c, RightInHand(s, c), WrongInHand(s, c))
              /\ RecordOf(profile[s], c)' = r
            BY <1>0, <1>3, <2>1, RecordType DEF RecordOf
        <3>3. given[c].right \in Nat /\ given[c].wrong \in Nat
            BY <1>0
        <3>4. RightInHand(s, c) \in Nat /\ WrongInHand(s, c) \in Nat
            BY <1>4
        <3> HIDE DEF r
        <3>5. CASE c # Concept[a.concept]
            BY <2>2, <3>1, <3>2, <3>5 DEF Whole
        <3>6. CASE c = Concept[a.concept] /\ a.right = TRUE
            <4>1. /\ given'[c].right = given[c].right + 1 /\ given'[c].wrong = given[c].wrong
                  /\ RightInHand(s, c)' = RightInHand(s, c) + 1 /\ WrongInHand(s, c)' = WrongInHand(s, c)
                BY <2>2, <3>1, <3>6
            <4> QED
                BY <3>2, <3>3, <3>4, <4>1 DEF Whole
        <3>7. CASE c = Concept[a.concept] /\ a.right = FALSE
            <4>1. /\ given'[c].right = given[c].right /\ given'[c].wrong = given[c].wrong + 1
                  /\ RightInHand(s, c)' = RightInHand(s, c) /\ WrongInHand(s, c)' = WrongInHand(s, c) + 1
                BY <2>2, <3>1, <3>7
            <4> QED
                BY <3>2, <3>3, <3>4, <4>1 DEF Whole
        <3>8. a.right \in BOOLEAN
            BY DEF Answers
        <3> QED
            BY <3>5, <3>6, <3>7, <3>8
    <2>4. \A t \in Sessions : phase[t] # "off" => t = s
        BY <1>3, <2>1
    <2> QED
        BY <1>3, <2>1, <2>3, <2>4 DEF Remembered
<1>8. ASSUME NEW s \in Sessions, Answer(s) PROVE Remembered'
    <2> DEFINE a == Head(tasks[s])
               p == Recorded(profile[s], a.concept, a.right)
    <2>1. /\ phase[s] = "on" /\ tasks[s] # <<>> /\ tasks' = [tasks EXCEPT ![s] = Tail(@)]
          /\ profile' = [profile EXCEPT ![s] = p] /\ UNCHANGED given
          /\ file' = Toml(NoConcepts) /\ phase' = [phase EXCEPT ![s] = "saving"]
        BY <1>8 DEF Answer
    <2>3. /\ a \in Answers
          /\ \A c \in Concepts :
               /\ RightInHand(s, c) =
                    IF Concept[a.concept] = c /\ a.right = TRUE
                    THEN RightInHand(s, c)' + 1 ELSE RightInHand(s, c)'
               /\ WrongInHand(s, c) =
                    IF Concept[a.concept] = c /\ a.right = FALSE
                    THEN WrongInHand(s, c)' + 1 ELSE WrongInHand(s, c)'
        BY <1>0, <2>1, WaitingShrinks
    <2>4. a.concept \in Names /\ a.right \in BOOLEAN
        BY <2>3 DEF Answers
    <2>5. /\ IsTable(p)
          /\ \A c : c # Concept[a.concept] => RecordOf(p, c) = RecordOf(profile[s], c)
          /\ RecordOf(p, Concept[a.concept]) =
                [seen |-> RecordOf(profile[s], Concept[a.concept]).seen + 1,
                 correct |-> RecordOf(profile[s], Concept[a.concept]).correct + (IF a.right THEN 1 ELSE 0)]
        BY <1>0, <2>4, RecordedOnce
    <2>6. profile'[s] = p
        BY <2>1, <2>5, ProfileChanges
    <2>7. \A c \in Concepts : RightInHand(s, c)' \in Nat /\ WrongInHand(s, c)' \in Nat
        <3>1. tasks'[s] \in Seq(Answers)
            BY DEF TypeOK
        <3> QED
            BY <3>1, NumberType DEF RightInHand, WrongInHand, Waiting
    <2> HIDE DEF a, p
    <2>8. ASSUME NEW c \in Concepts
          PROVE  Whole(RecordOf(profile[s], c), c, RightInHand(s, c), WrongInHand(s, c))'
        <3> DEFINE r == RecordOf(profile[s], c)
        <3>1. RecordOf(profile[s], c)' = RecordOf(p, c)
            BY <2>6 DEF RecordOf
        <3>2. /\ r.seen \in Nat /\ r.correct \in Nat
              /\ r.correct + RightInHand(s, c) = given[c].right
              /\ r.seen + RightInHand(s, c) + WrongInHand(s, c) = given[c].right + given[c].wrong
            BY <1>0, <1>3, <2>1, RecordType DEF Whole
        <3>3. /\ RightInHand(s, c) \in Nat /\ WrongInHand(s, c) \in Nat
              /\ RightInHand(s, c)' \in Nat /\ WrongInHand(s, c)' \in Nat
            BY <1>4, <2>7
        <3>4. CASE c # Concept[a.concept]
            <4>1. RightInHand(s, c)' = RightInHand(s, c) /\ WrongInHand(s, c)' = WrongInHand(s, c)
                BY <2>3, <3>4
            <4>2. RecordOf(p, c) = r
                BY <2>5, <3>4
            <4> QED
                BY <2>1, <3>1, <3>2, <4>1, <4>2 DEF Whole
        <3>5. CASE c = Concept[a.concept] /\ a.right = TRUE
            <4>1. RightInHand(s, c) = RightInHand(s, c)' + 1 /\ WrongInHand(s, c)' = WrongInHand(s, c)
                BY <2>3, <3>5
            <4>2. RecordOf(p, c) = [seen |-> r.seen + 1, correct |-> r.correct + 1]
                BY <2>5, <3>5
            <4> HIDE DEF r
            <4>3. RecordOf(p, c).seen = r.seen + 1 /\ RecordOf(p, c).correct = r.correct + 1
                BY <4>2
            <4>4. /\ (r.correct + 1) + RightInHand(s, c)' = given[c].right
                  /\ (r.seen + 1) + RightInHand(s, c)' + WrongInHand(s, c)' = given[c].right + given[c].wrong
                BY <3>2, <3>3, <4>1
            <4> QED
                BY <2>1, <3>1, <4>3, <4>4 DEF Whole
        <3>6. CASE c = Concept[a.concept] /\ a.right = FALSE
            <4>1. RightInHand(s, c)' = RightInHand(s, c) /\ WrongInHand(s, c) = WrongInHand(s, c)' + 1
                BY <2>3, <3>6
            <4>2. RecordOf(p, c) = [seen |-> r.seen + 1, correct |-> r.correct + 0]
                BY <2>5, <3>6
            <4> HIDE DEF r
            <4>3. RecordOf(p, c).seen = r.seen + 1 /\ RecordOf(p, c).correct = r.correct + 0
                BY <4>2
            <4>4. /\ (r.correct + 0) + RightInHand(s, c)' = given[c].right
                  /\ (r.seen + 1) + RightInHand(s, c)' + WrongInHand(s, c)' = given[c].right + given[c].wrong
                BY <3>2, <3>3, <4>1
            <4> QED
                BY <2>1, <3>1, <4>3, <4>4 DEF Whole
        <3> QED
            BY <2>4, <3>4, <3>5, <3>6
    <2>9. \A t \in Sessions : phase'[t] = IF t = s THEN "saving" ELSE "off"
        <3>1. \A t \in Sessions : phase[t] # "off" => t = s
            BY <1>3, <2>1
        <3> QED
            BY <1>0, <2>1, <3>1
    <2> QED
        BY <2>1, <2>8, <2>9 DEF Remembered
<1>9. ASSUME NEW s \in Sessions, Save(s) PROVE Remembered'
    <2>1. /\ phase[s] = "saving" /\ phase' = [phase EXCEPT ![s] = "on"]
          /\ file' \in Over(file, profile[s])
          /\ UNCHANGED <<profile, tasks, given>>
        BY <1>9 DEF Save
    <2>2. file' = Toml(profile[s])
        BY <1>3, <2>1 DEF Over
    <2>3. file'.concepts = profile'[s]
        BY <2>1, <2>2 DEF Toml
    <2>4. \A t \in Sessions : phase'[t] = IF t = s THEN "on" ELSE "off"
        <3>1. \A t \in Sessions : phase[t] # "off" => t = s
            BY <1>3, <2>1
        <3> QED
            BY <1>0, <2>1, <3>1
    <2>5. \A c \in Concepts : Whole(RecordOf(profile[s], c), c, RightInHand(s, c), WrongInHand(s, c))'
        <3>1. \A c : /\ RightInHand(s, c)' = RightInHand(s, c) /\ WrongInHand(s, c)' = WrongInHand(s, c)
                    /\ RecordOf(profile[s], c)' = RecordOf(profile[s], c)
            BY <2>1 DEF RightInHand, WrongInHand, Waiting, RecordOf
        <3> QED
            BY <1>3, <2>1, <3>1 DEF Whole
    <2> QED
        BY <2>3, <2>4, <2>5 DEF Remembered
<1>10. ASSUME NEW s \in Sessions, Leave(s) PROVE Remembered'
    <2>1. /\ phase[s] = "on" /\ tasks[s] = <<>> /\ file' = file /\ UNCHANGED given
          /\ phase' = [phase EXCEPT ![s] = "off"]
        BY <1>0, <1>10 DEF Leave
    <2>2. \A t \in Sessions : phase'[t] = "off"
        <3>1. \A t \in Sessions : phase[t] # "off" => t = s
            BY <1>3, <2>1
        <3> QED
            BY <1>0, <2>1, <3>1
    <2>3. \A c \in Concepts : Whole(RecordOf(file.concepts, c), c, 0, 0)'
        <3>1. \A c \in Concepts : RightInHand(s, c) = 0 /\ WrongInHand(s, c) = 0
            BY <2>1, NothingWaits
        <3>2. \A c \in Concepts : Whole(RecordOf(file.concepts, c), c, 0, 0)
            BY <1>3, <2>1, <3>1
        <3> QED
            BY <2>1, <3>2 DEF Whole, RecordOf
    <2> QED
        BY <2>2, <2>3 DEF Remembered
<1>11. ASSUME NEW s \in Sessions, RefuseToStart(s) \/ Skip(s) \/ \E raw \in RawQuestions : Ask(s, raw)
       PROVE  UNCHANGED <<file, phase, profile, tasks, given>>
    BY <1>11 DEF RefuseToStart, Skip, Ask
<1>12. CASE UNCHANGED vars
    BY <1>5, <1>12 DEF vars
<1> QED
    BY <1>5, <1>6, <1>7, <1>8, <1>9, <1>10, <1>11, <1>12 DEF Next

-----------------------------------------------------------------------------
(* The theorems. *)

(* The inductive invariant holds in every state. *)
LEMMA InvAlways == Spec => [](TypeOK /\ EarnedInv /\ KeptInv)
<1>1. Init => TypeOK /\ EarnedInv /\ KeptInv
    BY InitType, EarnedInit, KeptInit
<1>2. TypeOK /\ EarnedInv /\ KeptInv /\ [Next]_vars => (TypeOK /\ EarnedInv /\ KeptInv)'
    BY TypePreserved, EarnedPreserved, KeptPreserved
<1> QED
    BY <1>1, <1>2, PTL DEF Spec

(* Every variable has its type: the profiles are tables of counts however   *)
(* the file was cut off or written over, and a session that has been left   *)
(* has no answer in hand.                                                   *)
THEOREM TypeCorrect == Spec => []TypeOK
    BY InvAlways, PTL

(* No profile counts an answer nobody gave, or one answer twice, and, while *)
(* no save is cut off, no miss that was none, nor does a prompt name a      *)
(* concept that nobody ever got wrong (learn.rs: "counting it as one would  *)
(* make the profile lie").                                                  *)
THEOREM CountsHold == Spec => []CountsAreEarned
<1>1. TypeOK /\ EarnedInv => CountsAreEarned
    <2> SUFFICES ASSUME TypeOK, EarnedRecords
                 PROVE  /\ \A p \in Profiles : \A c \in DOMAIN p :
                            /\ p[c].correct <= given[c].right
                            /\ p[c].seen <= given[c].right + given[c].wrong
                            /\ ~cutShort => p[c].seen - p[c].correct <= given[c].wrong
                        /\ ~cutShort => \A s \in Sessions : \A c \in Prompted(profile[s]) :
                                            given[c].wrong > 0
        BY DEF EarnedInv, CountsAreEarned
    <2>1. /\ given \in [Concepts -> [right : Nat, wrong : Nat]]
          /\ tasks \in [Sessions -> Seq(Answers)]
          /\ IsTable(file.concepts) /\ \A s \in Sessions : IsTable(profile[s])
        BY DEF TypeOK
    <2>2. \A s \in Sessions, c \in Concepts : RightInHand(s, c) \in Nat /\ WrongInHand(s, c) \in Nat
        BY <2>1, NumberType DEF RightInHand, WrongInHand, Waiting
    <2>3. ASSUME NEW p \in Profiles
          PROVE  IsTable(p) /\ \A c \in Concepts : Earned(RecordOf(p, c), c, 0, 0)
        <3>1. CASE p = file.concepts
            BY <2>1, <3>1 DEF EarnedRecords
        <3>2. CASE \E s \in Sessions : p = profile[s]
            <4>1. PICK s \in Sessions : p = profile[s]
                BY <3>2
            <4>2. \A c \in Concepts : Earned(RecordOf(p, c), c, RightInHand(s, c), WrongInHand(s, c))
                BY <4>1 DEF EarnedRecords
            <4>3. IsTable(p) /\ \A c \in Concepts : RecordOf(p, c) \in [seen : Nat, correct : Nat]
                BY <2>1, <4>1, RecordType
            <4> QED
                BY <2>1, <2>2, <4>2, <4>3, EarnedAtRest
        <3> QED
            BY <3>1, <3>2 DEF Profiles
    <2>4. ASSUME NEW p \in Profiles, NEW c \in DOMAIN p
          PROVE  /\ c \in Concepts /\ p[c] \in [seen : Nat, correct : Nat]
                 /\ p[c].correct <= given[c].right
                 /\ p[c].seen <= given[c].right + given[c].wrong
                 /\ ~cutShort => p[c].seen - p[c].correct <= given[c].wrong
        <3>1. c \in Concepts /\ p[c] \in [seen : Nat, correct : Nat] /\ RecordOf(p, c) = p[c]
            BY <2>3 DEF IsTable, RecordOf
        <3>2. given[c].right \in Nat /\ given[c].wrong \in Nat
            BY <2>1, <3>1
        <3>3. Earned(p[c], c, 0, 0)
            BY <2>3, <3>1
        <3> QED
            BY <3>1, <3>2, <3>3 DEF Earned
    <2>5. ASSUME ~cutShort, NEW s \in Sessions, NEW c \in Prompted(profile[s])
          PROVE  given[c].wrong > 0
        <3> DEFINE p == profile[s]
        <3>1. p \in Profiles /\ c \in DOMAIN p /\ p[c].seen > 0 /\ p[c].correct * 2 <= p[c].seen
            BY DEF Profiles, Prompted, WeakSpots, LooksWeak
        <3>2. /\ c \in Concepts /\ p[c] \in [seen : Nat, correct : Nat]
              /\ p[c].seen - p[c].correct <= given[c].wrong
            BY <2>4, <2>5, <3>1
        <3>3. given[c].wrong \in Nat
            BY <2>1, <3>2
        <3> HIDE DEF p
        <3> QED
            BY <3>1, <3>2, <3>3
    <2> QED
        BY <2>4, <2>5
<1> QED
    BY <1>1, InvAlways, PTL

(* With one session after the other, none of them dying with an answer in   *)
(* hand and every save a success, the file has every answer ever given:     *)
(* Agent::answer saves the whole profile after every answer.                *)
THEOREM NothingLost == Spec => []NothingIsForgotten
<1>1. TypeOK /\ KeptInv => NothingIsForgotten
    <2> SUFFICES ASSUME TypeOK, KeptInv, ~disturbed, AtRest, NEW c \in Concepts
                 PROVE  RecordOf(file.concepts, c) =
                          [seen |-> given[c].right + given[c].wrong, correct |-> given[c].right]
        BY DEF NothingIsForgotten
    <2>1. Remembered
        BY DEF KeptInv
    <2>2. Whole(RecordOf(file.concepts, c), c, 0, 0)
        <3>1. CASE \A s \in Sessions : phase[s] = "off"
            BY <2>1, <3>1 DEF Remembered
        <3>2. CASE \E s \in Sessions : phase[s] # "off"
            <4>1. PICK s \in Sessions : phase[s] # "off"
                BY <3>2
            <4>2. phase[s] = "on" /\ tasks[s] = <<>>
                BY <4>1 DEF AtRest, TypeOK
            <4>3. RightInHand(s, c) = 0 /\ WrongInHand(s, c) = 0
                BY <4>2, NothingWaits
            <4>4. /\ Whole(RecordOf(profile[s], c), c, RightInHand(s, c), WrongInHand(s, c))
                  /\ file.concepts = profile[s]
                BY <2>1, <4>2 DEF Remembered
            <4> QED
                BY <4>3, <4>4
        <3> QED
            BY <3>1, <3>2
    <2>3. /\ RecordOf(file.concepts, c) \in [seen : Nat, correct : Nat]
          /\ given[c].right \in Nat /\ given[c].wrong \in Nat
        <3>1. given \in [Concepts -> [right : Nat, wrong : Nat]] /\ IsTable(file.concepts)
            BY DEF TypeOK
        <3> QED
            BY <3>1, RecordType
    <2>4. /\ RecordOf(file.concepts, c).seen = given[c].right + given[c].wrong
          /\ RecordOf(file.concepts, c).correct = given[c].right
        BY <2>2, <2>3 DEF Whole
    <2> QED
        BY <2>3, <2>4
<1> QED
    BY <1>1, InvAlways, PTL

=============================================================================
