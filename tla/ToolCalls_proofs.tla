--------------------------- MODULE ToolCalls_proofs ---------------------------
(* Proofs about ToolCalls, for every set of requests, hooks and rules and    *)
(* every content of the files, and about FileTools, for every file system   *)
(* and every path.                                                          *)
EXTENDS ToolCalls, FileTools, FiniteSetTheorems, SequenceTheorems, WellFoundedInduction, TLAPS

-----------------------------------------------------------------------------
(* Induction over the numbers: a set of them has a least one. *)

(* A set of natural numbers that is not empty has a least element. *)
LEMMA LeastNumber ==
    ASSUME NEW T \in SUBSET Nat, T # {}
    PROVE  \E m \in T : \A k \in T : m <= k
<1>1. PICK m \in T : \A k \in T : ~(<<k, m>> \in OpToRel(<, Nat))
    BY NatLessThanWellFounded, WFMin
<1>2. \A k \in T : ~(k < m)
    BY <1>1 DEF OpToRel
<1> QED
    BY <1>2

(* A set of natural numbers that has 0 and, with every number, the one      *)
(* after it up to a bound, has every number up to that bound.               *)
LEMMA UpTo ==
    ASSUME NEW n \in Nat, NEW T \in SUBSET Nat, 0 \in T,
           \A k \in 0..(n - 1) : k \in T => k + 1 \in T
    PROVE  0..n \subseteq T
<1> DEFINE Missing == {k \in 0..n : k \notin T}
<1> SUFFICES ASSUME Missing # {} PROVE FALSE
    BY DEF Missing
<1>1. PICK m \in Missing : \A k \in Missing : m <= k
    <2>1. Missing \in SUBSET Nat
        BY DEF Missing
    <2> QED
        BY <2>1, LeastNumber
<1>2. m \in 1..n /\ m - 1 \in 0..(n - 1)
    BY <1>1 DEF Missing
<1>3. m - 1 \in T
    BY <1>1, <1>2 DEF Missing
<1>4. (m - 1) + 1 = m
    BY <1>2
<1> QED
    BY <1>1, <1>2, <1>3, <1>4 DEF Missing

-----------------------------------------------------------------------------
(* The replacement of a snippet. *)

(* A text that is built from pieces is built piece by piece. *)
LEMMA FlattenSteps ==
    ASSUME NEW S, NEW ss \in Seq(Seq(S)), Len(ss) # 0
    PROVE  \E g : /\ FlattenSeq(ss) = g[Len(ss)]
                  /\ g[1] = ss[1]
                  /\ \A i \in 2..Len(ss) : g[i] = g[i - 1] \o ss[i]
<1> DEFINE n == Len(ss)
           IsFlat(m, g) ==
               g = [i \in 1..m |-> IF i = 1 THEN ss[i] ELSE g[i - 1] \o ss[i]]
           T == {m \in Nat : m >= 1 => \E g : IsFlat(m, g)}
<1>0. n \in Nat /\ n >= 1
    BY LenProperties
<1>1. 0 \in T
    OBVIOUS
<1>2. ASSUME NEW m \in 0..(n - 1), m \in T PROVE m + 1 \in T
    <2>0. m \in Nat /\ m + 1 \in Nat
        BY <1>0
    <2>1. CASE m = 0
        <3> DEFINE h == [i \in 1..1 |-> ss[1]]
        <3>1. IsFlat(1, h)
            OBVIOUS
        <3> HIDE DEF IsFlat
        <3> QED
            BY <2>1, <3>1
    <2>2. CASE m >= 1
        <3>1. PICK g : IsFlat(m, g)
            BY <1>2, <2>2
        <3> DEFINE h == [i \in 1..(m + 1) |-> IF i = m + 1 THEN g[m] \o ss[m + 1] ELSE g[i]]
        <3>2. ASSUME NEW i \in 1..(m + 1)
              PROVE  h[i] = IF i = 1 THEN ss[i] ELSE h[i - 1] \o ss[i]
            <4>1. CASE i = m + 1
                <5>1. i # 1 /\ i - 1 = m /\ m \in 1..(m + 1) /\ m # m + 1
                    BY <4>1, <2>2, <2>0
                <5>2. h[i] = g[m] \o ss[m + 1] /\ h[m] = g[m]
                    BY <4>1, <5>1
                <5> QED
                    BY <4>1, <5>1, <5>2
            <4>2. CASE i # m + 1
                <5>1. i \in 1..m /\ h[i] = g[i]
                    BY <4>2, <2>0
                <5>2. g[i] = IF i = 1 THEN ss[i] ELSE g[i - 1] \o ss[i]
                    BY <3>1, <5>1
                <5>3. i # 1 => i - 1 \in 1..(m + 1) /\ i - 1 # m + 1
                    BY <5>1, <2>0
                <5>4. i # 1 => h[i - 1] = g[i - 1]
                    BY <5>3
                <5> QED
                    BY <5>1, <5>2, <5>4
            <4> QED
                BY <4>1, <4>2
        <3>3. IsFlat(m + 1, h)
            <4>1. h = [i \in 1..(m + 1) |-> h[i]]
                OBVIOUS
            <4> HIDE DEF h
            <4> QED
                BY <4>1, <3>2
        <3> HIDE DEF IsFlat
        <3> QED
            BY <2>0, <3>3
    <2> HIDE DEF T
    <2> QED
        BY <2>0, <2>1, <2>2
<1>3. n \in T
    <2> HIDE DEF T
    <2>1. T \in SUBSET Nat
        BY DEF T
    <2>2. 0..n \subseteq T
        BY <1>0, <1>1, <1>2, <2>1, UpTo
    <2> QED
        BY <1>0, <2>2
<1> DEFINE f == CHOOSE g : IsFlat(n, g)
<1>4. IsFlat(n, f)
    <2>1. \E g : IsFlat(n, g)
        BY <1>0, <1>3
    <2> QED
        BY <2>1
<1>5. FlattenSeq(ss) = f[n]
    BY <1>0 DEF FlattenSeq
<1> HIDE DEF f
<1>6. f[1] = ss[1]
    BY <1>0, <1>4
<1>7. ASSUME NEW i \in 2..n PROVE f[i] = f[i - 1] \o ss[i]
    <2>1. i \in 1..n /\ i # 1
        BY <1>0
    <2> QED
        BY <2>1, <1>4
<1> QED
    BY <1>5, <1>6, <1>7

(* A text that is built from pieces has their lines. *)
LEMMA FlattenType ==
    ASSUME NEW S, NEW ss \in Seq(Seq(S))
    PROVE  FlattenSeq(ss) \in Seq(S)
<1>1. CASE Len(ss) = 0
    <2>1. FlattenSeq(ss) = ss /\ ss = <<>>
        BY <1>1, LenProperties, EmptySeq DEF FlattenSeq
    <2> QED
        BY <2>1, EmptySeq
<1>2. CASE Len(ss) # 0
    <2> DEFINE n == Len(ss)
    <2>0. n \in Nat /\ n >= 1 /\ DOMAIN ss = 1..n
        BY <1>2, LenProperties
    <2>1. PICK g : /\ FlattenSeq(ss) = g[n]
                   /\ g[1] = ss[1]
                   /\ \A i \in 2..n : g[i] = g[i - 1] \o ss[i]
        BY <1>2, FlattenSteps
    <2> DEFINE T == {m \in Nat : m >= 1 => g[m] \in Seq(S)}
    <2> HIDE DEF n
    <2>2. ASSUME NEW m \in 0..(n - 1), m \in T PROVE m + 1 \in T
        <3>1. m + 1 \in Nat /\ m + 1 \in 1..n /\ ss[m + 1] \in Seq(S)
            BY <2>0, ElementOfSeq DEF n
        <3>2. CASE m = 0
            BY <3>1, <3>2, <2>1
        <3>3. CASE m # 0
            <4>1. m + 1 \in 2..n /\ (m + 1) - 1 = m /\ g[m] \in Seq(S)
                BY <2>0, <2>2, <3>3
            <4>2. g[m + 1] = g[m] \o ss[m + 1]
                BY <2>1, <4>1
            <4> QED
                BY <3>1, <4>1, <4>2, ConcatProperties
        <3> QED
            BY <3>2, <3>3
    <2>3. 0 \in T /\ T \in SUBSET Nat
        OBVIOUS
    <2>4. n \in T
        <3> HIDE DEF T
        <3>1. 0..n \subseteq T
            BY <2>0, <2>2, <2>3, UpTo
        <3> QED
            BY <2>0, <3>1
    <2> QED
        BY <2>0, <2>1, <2>4
<1> QED
    BY <1>1, <1>2

(* The matches of a snippet begin where the snippet occurs. *)
LEMMA MatchesStart ==
    ASSUME NEW S, NEW s \in Seq(S), NEW old
    PROVE  Matches(s, old) \subseteq Starts(s, old)
<1> DEFINE starts == Starts(s, old)
           inside(i, M) == \E k \in M : k < i /\ i < k + Len(old)
           Upto(m, M) == /\ M \subseteq {i \in starts : i <= m}
                         /\ \A i \in starts : i <= m => (i \in M <=> ~inside(i, M))
           T == {m \in Nat : \E M : Upto(m, M)}
<1>0. Len(s) \in Nat /\ starts \subseteq 1..Len(s)
    BY LenProperties DEF Starts
<1> HIDE DEF starts
<1>1. 0 \in T
    <2>1. Upto(0, {})
        BY <1>0
    <2> HIDE DEF Upto
    <2> QED
        BY <2>1
<1>2. ASSUME NEW m \in 0..(Len(s) - 1), m \in T PROVE m + 1 \in T
    <2>0. m \in Nat /\ m + 1 \in Nat
        BY <1>0
    <2>1. PICK M : Upto(m, M)
        BY <1>2
    <2> DEFINE N == IF m + 1 \in starts /\ ~inside(m + 1, M) THEN M \cup {m + 1} ELSE M
    <2>2. \A k \in M : k \in Nat /\ k <= m
        BY <1>0, <2>1
    <2>3. ASSUME NEW i \in starts, i <= m + 1 PROVE inside(i, N) <=> inside(i, M)
        <3>1. i \in Nat /\ ~(m + 1 < i)
            BY <1>0, <2>0, <2>3
        <3> QED
            BY <3>1
    <2>4. ASSUME NEW i \in starts, i <= m + 1 PROVE i \in N <=> ~inside(i, N)
        <3>1. CASE i = m + 1
            <4>1. i \notin M
                BY <2>0, <2>2, <3>1
            <4> QED
                BY <2>3, <2>4, <3>1, <4>1
        <3>2. CASE i # m + 1
            <4>1. i <= m
                BY <1>0, <2>0, <2>4, <3>2
            <4>2. i \in N <=> i \in M
                BY <3>2
            <4> QED
                BY <2>1, <2>3, <2>4, <4>1, <4>2
        <3> QED
            BY <3>1, <3>2
    <2>5. N \subseteq {i \in starts : i <= m + 1}
        <3>1. M \subseteq {i \in starts : i <= m + 1}
            BY <1>0, <2>0, <2>1
        <3> QED
            BY <2>0, <3>1
    <2>6. Upto(m + 1, N)
        <3> HIDE DEF N
        <3> QED
            BY <2>4, <2>5
    <2> HIDE DEF N, Upto
    <2> QED
        BY <2>0, <2>6
<1>3. Len(s) \in T
    <2> HIDE DEF T
    <2>1. T \in SUBSET Nat
        BY DEF T
    <2>2. 0..Len(s) \subseteq T
        BY <1>0, <1>1, <1>2, <2>1, UpTo
    <2> QED
        BY <1>0, <2>2
<1>4. \E M \in SUBSET starts : \A i \in starts : i \in M <=> ~inside(i, M)
    <2>1. PICK M : Upto(Len(s), M)
        BY <1>3
    <2>2. \A i \in starts : i <= Len(s)
        BY <1>0
    <2> QED
        BY <2>1, <2>2
<1>5. Matches(s, old) = CHOOSE M \in SUBSET starts : \A i \in starts : i \in M <=> ~inside(i, M)
    BY DEF Matches, starts
<1> QED
    BY <1>4, <1>5 DEF starts

(* A line occurs a natural number of times in a text. *)
LEMMA OccursNat ==
    ASSUME NEW S, NEW t \in Seq(S), NEW l
    PROVE  /\ IsFiniteSet({i \in DOMAIN t : t[i] = l})
           /\ Occurs(l, t) \in Nat
<1>1. DOMAIN t = 1..Len(t) /\ Len(t) \in Nat
    BY LenProperties
<1>2. IsFiniteSet(DOMAIN t)
    BY <1>1, FS_Interval
<1>3. IsFiniteSet({i \in DOMAIN t : t[i] = l})
    BY <1>2, FS_Subset
<1> QED
    BY <1>3, FS_CardinalityType DEF Occurs

(* What follows a text takes away no occurrence of a line, and the line     *)
(* itself adds one.                                                         *)
LEMMA OccursConcat ==
    ASSUME NEW S, NEW t \in Seq(S), NEW p \in Seq(S), NEW l \in S
    PROVE  /\ Occurs(l, t) <= Occurs(l, t \o p)
           /\ p = <<l>> => Occurs(l, t) + 1 <= Occurs(l, t \o p)
<1> DEFINE u == t \o p
           At(x) == {i \in DOMAIN x : x[i] = l}
<1>1. /\ u \in Seq(S) /\ Len(u) = Len(t) + Len(p)
      /\ \A i \in 1..Len(t) : u[i] = t[i]
      /\ \A i \in 1..Len(p) : u[Len(t) + i] = p[i]
    BY ConcatProperties
<1>2. /\ DOMAIN t = 1..Len(t) /\ Len(t) \in Nat
      /\ DOMAIN u = 1..Len(u) /\ Len(u) \in Nat
      /\ Len(p) \in Nat
    BY <1>1, LenProperties
<1> HIDE DEF u
<1>3. At(t) \subseteq At(u)
    BY <1>1, <1>2
<1>4. IsFiniteSet(At(t)) /\ IsFiniteSet(At(u))
    BY <1>1, OccursNat
<1>5. Cardinality(At(t)) <= Cardinality(At(u))
    BY <1>3, <1>4, FS_Subset
<1>6. ASSUME p = <<l>> PROVE Cardinality(At(t)) + 1 <= Cardinality(At(u))
    <2>1. Len(p) = 1 /\ p[1] = l
        BY <1>6
    <2>2. Len(t) + 1 \in At(u)
        BY <1>1, <1>2, <2>1
    <2>3. Len(t) + 1 \notin At(t)
        BY <1>2
    <2>4. IsFiniteSet(At(t) \cup {Len(t) + 1})
          /\ Cardinality(At(t) \cup {Len(t) + 1}) = Cardinality(At(t)) + 1
        BY <1>4, <2>3, FS_AddElement
    <2>5. At(t) \cup {Len(t) + 1} \subseteq At(u)
        BY <1>3, <2>2
    <2> HIDE DEF At
    <2> QED
        BY <1>4, <2>4, <2>5, FS_Subset
<1> QED
    BY <1>5, <1>6 DEF Occurs, u

(* The pieces of a replacement keep a line that the snippet does not have,  *)
(* wherever the replaced matches begin.                                     *)
LEMMA ReplacedKeeps ==
    ASSUME NEW S, NEW s \in Seq(S), NEW old \in Seq(S), NEW new \in Seq(S),
           old # <<>>, NEW at \in SUBSET Starts(s, old)
    PROVE  /\ ReplacedAt(s, old, new, at) \in Seq(S)
           /\ \A l \in S : l \notin ToSet(old) =>
                Occurs(l, s) <= Occurs(l, ReplacedAt(s, old, new, at))
<1> DEFINE covered == UNION {k..(k + Len(old) - 1) : k \in at}
           piece(i) == IF i \in at THEN new ELSE IF i \in covered THEN <<>> ELSE <<s[i]>>
           ss == [i \in DOMAIN s |-> piece(i)]
           n == Len(s)
<1>0. n \in Nat /\ DOMAIN s = 1..n /\ s \in [1..n -> S]
    BY LenProperties
<1>1. \A i \in 1..n : piece(i) \in Seq(S)
    BY <1>0
<1>2. ss \in Seq(Seq(S)) /\ Len(ss) = n
    <2>1. ss \in [1..n -> Seq(S)]
        BY <1>0, <1>1
    <2> QED
        BY <1>0, <2>1, IsASeq
<1>3. ReplacedAt(s, old, new, at) = FlattenSeq(ss)
    BY DEF ReplacedAt
<1>4. FlattenSeq(ss) \in Seq(S)
    BY <1>2, FlattenType
<1>5. ASSUME NEW l \in S, l \notin ToSet(old), NEW i \in 1..n, s[i] = l
      PROVE  ss[i] = <<l>>
    <2>0. Len(old) \in Nat /\ DOMAIN old = 1..Len(old)
        BY LenProperties
    <2>1. ASSUME NEW k \in at, i \in k..(k + Len(old) - 1) PROVE FALSE
        <3>1. /\ k \in 1..n /\ k + Len(old) - 1 <= n
              /\ SubSeq(s, k, k + Len(old) - 1) = old
            BY <1>0 DEF Starts
        <3>2. k \in Nat /\ k >= 1 /\ i \in Nat /\ i >= k /\ i <= k + Len(old) - 1
            BY <2>0, <2>1, <3>1
        <3>3. i - k + 1 \in 1..Len(old) /\ k + (i - k + 1) - 1 = i
            BY <2>0, <3>2
        <3>4. old[i - k + 1] = s[i]
            <4>1. k \in 1..(n + 1) /\ k + Len(old) - 1 \in (k - 1)..n
                BY <1>0, <2>0, <3>1, <3>2
            <4>2. (k + Len(old) - 1) - k + 1 = Len(old)
                BY <2>0, <3>2
            <4>3. \A j \in 1..Len(old) : SubSeq(s, k, k + Len(old) - 1)[j] = s[k + j - 1]
                BY <4>1, <4>2, SubSeqProperties
            <4> QED
                BY <3>1, <3>3, <4>3
        <3> QED
            BY <1>5, <2>0, <3>3, <3>4 DEF ToSet
    <2>2. i \notin covered
        BY <2>1
    <2>3. i \notin at
        <3>1. Len(old) >= 1
            BY <2>0, EmptySeq, LenProperties
        <3>2. i \in at => i \in i..(i + Len(old) - 1)
            BY <1>0, <2>0, <3>1
        <3> QED
            BY <2>1, <3>2
    <2> QED
        BY <1>0, <1>5, <2>2, <2>3
<1>6. ASSUME NEW l \in S, l \notin ToSet(old)
      PROVE  Occurs(l, s) <= Occurs(l, FlattenSeq(ss))
    <2> DEFINE A(m) == {j \in 1..m : s[j] = l}
    <2>1. ASSUME NEW m \in Nat PROVE IsFiniteSet(A(m)) /\ Cardinality(A(m)) \in Nat
        <3>1. IsFiniteSet(1..m) /\ A(m) \subseteq 1..m
            BY FS_Interval
        <3>2. IsFiniteSet(A(m))
            BY <3>1, FS_Subset
        <3> QED
            BY <3>2, FS_CardinalityType
    <2>2. Occurs(l, s) = Cardinality(A(n))
        BY <1>0 DEF Occurs
    <2>3. CASE n = 0
        <3>1. A(n) = {}
            BY <2>3
        <3>2. Occurs(l, FlattenSeq(ss)) \in Nat
            BY <1>4, OccursNat
        <3>3. Cardinality(A(n)) = 0
            BY <3>1, FS_EmptySet
        <3> QED
            BY <2>2, <3>2, <3>3
    <2>4. CASE n # 0
        <3> HIDE DEF ss
        <3>1. PICK g : /\ FlattenSeq(ss) = g[n]
                       /\ g[1] = ss[1]
                       /\ \A i \in 2..n : g[i] = g[i - 1] \o ss[i]
            <4> HIDE DEF n
            <4> QED
                BY <1>2, <2>4, FlattenSteps
        <3> DEFINE T == {m \in Nat : m >= 1 => /\ g[m] \in Seq(S)
                                                /\ Cardinality(A(m)) <= Occurs(l, g[m])}
        <3> HIDE DEF n
        <3>2. ASSUME NEW m \in 0..(n - 1), m \in T PROVE m + 1 \in T
            <4>0. m \in Nat /\ m + 1 \in Nat /\ m + 1 \in 1..n /\ m + 1 \notin A(m)
                BY <1>0
            <4>1. ss[m + 1] \in Seq(S)
                BY <1>2, <4>0, ElementOfSeq
            <4>2. A(m + 1) = IF s[m + 1] = l THEN A(m) \cup {m + 1} ELSE A(m)
                BY <4>0
            <4>3. Cardinality(A(m + 1)) =
                    IF s[m + 1] = l THEN Cardinality(A(m)) + 1 ELSE Cardinality(A(m))
                BY <2>1, <4>0, <4>2, FS_AddElement
            <4>4. s[m + 1] = l => ss[m + 1] = <<l>>
                BY <1>5, <1>6, <4>0
            <4> HIDE DEF A
            <4>5. CASE m = 0
                <5>1. g[m + 1] = ss[m + 1] /\ g[m + 1] \in Seq(S)
                    BY <3>1, <4>1, <4>5
                <5>2. Cardinality(A(m)) = 0
                    <6>1. A(0) = {}
                        BY DEF A
                    <6> QED
                        BY <4>5, <6>1, FS_EmptySet
                <5>3. Occurs(l, ss[m + 1]) \in Nat
                    BY <4>1, OccursNat
                <5>4. <<l>> = <<>> \o <<l>> /\ <<>> \in Seq(S) /\ <<l>> \in Seq(S)
                    BY EmptySeq, ConcatEmptySeq
                <5>5. Occurs(l, <<>>) + 1 <= Occurs(l, <<l>>) /\ Occurs(l, <<>>) \in Nat
                      /\ Occurs(l, <<l>>) \in Nat
                    BY <5>4, OccursConcat, OccursNat
                <5>6. Cardinality(A(m + 1)) <= Occurs(l, ss[m + 1])
                    <6>1. CASE s[m + 1] = l
                        <7>1. ss[m + 1] = <<l>>
                            BY <4>4, <6>1
                        <7>2. Cardinality(A(m + 1)) = 0 + 1
                            BY <4>3, <5>2, <6>1
                        <7>3. 1 <= Occurs(l, <<l>>)
                            BY <5>5
                        <7> QED
                            BY <7>1, <7>2, <7>3
                    <6>2. CASE s[m + 1] # l
                        BY <4>3, <5>2, <5>3, <6>2
                    <6> QED
                        BY <6>1, <6>2
                <5> QED
                    BY <4>0, <5>1, <5>6
            <4>6. CASE m # 0
                <5>1. m + 1 \in 2..n /\ (m + 1) - 1 = m
                    BY <4>0, <4>6
                <5>2. g[m + 1] = g[m] \o ss[m + 1] /\ g[m] \in Seq(S)
                    <6>1. g[m + 1] = g[(m + 1) - 1] \o ss[m + 1]
                        BY <3>1, <5>1
                    <6>2. m >= 1
                        BY <4>0, <4>6
                    <6>3. g[m] \in Seq(S)
                        BY <3>2, <6>2
                    <6> QED
                        BY <5>1, <6>1, <6>3
                <5>3. g[m + 1] \in Seq(S)
                    BY <4>1, <5>2, ConcatProperties
                <5>4. /\ Occurs(l, g[m]) <= Occurs(l, g[m + 1])
                      /\ ss[m + 1] = <<l>> => Occurs(l, g[m]) + 1 <= Occurs(l, g[m + 1])
                    BY <4>1, <5>2, OccursConcat
                <5>5. Cardinality(A(m)) <= Occurs(l, g[m])
                    BY <3>2, <4>0, <4>6
                <5>6. Occurs(l, g[m]) \in Nat /\ Occurs(l, g[m + 1]) \in Nat
                    BY <5>2, <5>3, OccursNat
                <5>7. Cardinality(A(m + 1)) <= Occurs(l, g[m + 1])
                    <6>0. Cardinality(A(m)) \in Nat
                        BY <2>1, <4>0
                    <6>1. CASE s[m + 1] = l
                        BY <4>3, <4>4, <5>4, <5>5, <5>6, <6>0, <6>1
                    <6>2. CASE s[m + 1] # l
                        BY <4>3, <5>4, <5>5, <5>6, <6>0, <6>2
                    <6> QED
                        BY <6>1, <6>2
                <5> QED
                    BY <4>0, <5>3, <5>7
            <4> HIDE DEF T
            <4> QED
                BY <4>5, <4>6
        <3>3. 0 \in T /\ T \in SUBSET Nat
            BY DEF T
        <3>4. n \in T
            <4> HIDE DEF T
            <4>1. 0..n \subseteq T
                BY <1>0, <3>2, <3>3, UpTo
            <4> QED
                BY <1>0, <4>1
        <3> QED
            BY <1>0, <2>2, <2>4, <3>1, <3>4
    <2> QED
        BY <2>3, <2>4
<1> QED
    BY <1>3, <1>4, <1>6

(* A patch that can be computed makes a text out of a text, and every line  *)
(* that its snippet does not have occurs at least as often as before.       *)
LEMMA PatchedKeeps ==
    ASSUME NEW S, NEW s \in Seq(S), NEW old \in Seq(S), NEW new \in Seq(S),
           NEW all \in BOOLEAN, Computable(s, old, all)
    PROVE  /\ Patched(s, old, new, all) \in Seq(S)
           /\ \A l \in S : l \notin ToSet(old) => Occurs(l, s) <= Occurs(l, Patched(s, old, new, all))
<1> DEFINE at == IF all THEN Matches(s, old) ELSE FirstOf(Matches(s, old))
<1>1. at \in SUBSET Starts(s, old)
    BY MatchesStart DEF FirstOf
<1>2. old # <<>>
    BY DEF Computable
<1>3. Patched(s, old, new, all) = ReplacedAt(s, old, new, at)
    BY DEF Patched
<1> HIDE DEF at
<1> QED
    BY <1>1, <1>2, <1>3, ReplacedKeeps

-----------------------------------------------------------------------------
(* The lines at some positions of a text, in order. *)

(* The numbers of a finite set can be listed in ascending order, each once. *)
LEMMA AscendingList ==
    ASSUME NEW n \in Nat, NEW I \in SUBSET (1..n)
    PROVE  /\ IsFiniteSet(I) /\ Cardinality(I) \in Nat
           /\ Ascending(I) \in [1..Cardinality(I) -> I]
           /\ \A j, k \in 1..Cardinality(I) : j < k => Ascending(I)[j] < Ascending(I)[k]
<1> DEFINE Lists(J, at) == /\ at \in [1..Cardinality(J) -> J]
                           /\ \A j, k \in 1..Cardinality(J) : j < k => at[j] < at[k]
           T == {m \in Nat : \A J \in SUBSET (1..m) : \E at : Lists(J, at)}
<1>0. ASSUME NEW m \in Nat, NEW J \in SUBSET (1..m)
      PROVE  IsFiniteSet(J) /\ Cardinality(J) \in Nat
    <2>1. IsFiniteSet(1..m)
        BY FS_Interval
    <2>2. IsFiniteSet(J)
        BY <2>1, FS_Subset
    <2> QED
        BY <2>2, FS_CardinalityType
<1>1. 0 \in T
    <2>1. ASSUME NEW J \in SUBSET (1..0) PROVE \E at : Lists(J, at)
        <3>1. J = {} /\ 1..0 = {}
            OBVIOUS
        <3>2. Cardinality(J) = 0
            BY <3>1, FS_EmptySet
        <3>3. Lists(J, [i \in {} |-> 0])
            BY <3>1, <3>2
        <3> HIDE DEF Lists
        <3> QED
            BY <3>3
    <2> QED
        BY <2>1
<1>2. ASSUME NEW m \in 0..(n - 1), m \in T PROVE m + 1 \in T
    <2>0. m \in Nat /\ m + 1 \in Nat
        OBVIOUS
    <2>1. ASSUME NEW J \in SUBSET (1..(m + 1)) PROVE \E at : Lists(J, at)
        <3> DEFINE K == J \ {m + 1}
                   c == Cardinality(K)
        <3>1. K \in SUBSET (1..m)
            BY <2>0
        <3>2. PICK at : Lists(K, at)
            <4> HIDE DEF K, Lists
            <4> QED
                BY <1>2, <3>1
        <3>3. IsFiniteSet(K) /\ c \in Nat
            BY <1>0, <2>0, <3>1
        <3>4. CASE m + 1 \in J
            <4>1. J = K \cup {m + 1} /\ m + 1 \notin K
                BY <3>4
            <4>2. Cardinality(J) = c + 1
                <5> HIDE DEF K
                <5> QED
                    BY <3>3, <4>1, FS_AddElement
            <4> HIDE DEF c, K
            <4>3. at \in [1..c -> K] /\ \A j, k \in 1..c : j < k => at[j] < at[k]
                BY <3>2 DEF c
            <4> DEFINE bt == [i \in 1..(c + 1) |-> IF i = c + 1 THEN m + 1 ELSE at[i]]
            <4>4. ASSUME NEW i \in 1..(c + 1), i # c + 1
                  PROVE  i \in 1..c /\ bt[i] = at[i] /\ bt[i] \in K /\ bt[i] < m + 1
                <5>1. i \in 1..c
                    BY <3>3, <4>4
                <5>2. bt[i] = at[i] /\ at[i] \in K
                    BY <4>3, <4>4, <5>1
                <5>3. at[i] \in 1..m
                    BY <3>1, <5>2
                <5> QED
                    BY <2>0, <5>1, <5>2, <5>3
            <4>5. bt[c + 1] = m + 1
                BY <3>3
            <4>6. bt \in [1..(c + 1) -> J]
                <5>1. ASSUME NEW i \in 1..(c + 1) PROVE bt[i] \in J
                    BY <4>1, <4>4, <4>5
                <5> QED
                    BY <5>1
            <4>7. ASSUME NEW j \in 1..(c + 1), NEW k \in 1..(c + 1), j < k PROVE bt[j] < bt[k]
                <5>1. j # c + 1
                    BY <3>3, <4>7
                <5>2. CASE k = c + 1
                    BY <4>4, <4>5, <5>1, <5>2
                <5>3. CASE k # c + 1
                    <6>1. j \in 1..c /\ k \in 1..c /\ bt[j] = at[j] /\ bt[k] = at[k]
                        BY <4>4, <5>1, <5>3
                    <6> HIDE DEF bt
                    <6> QED
                        BY <4>3, <4>7, <6>1
                <5> QED
                    BY <5>2, <5>3
            <4> HIDE DEF bt
            <4>8. Lists(J, bt)
                BY <4>2, <4>6, <4>7
            <4> HIDE DEF Lists
            <4> QED
                BY <4>8
        <3>5. CASE m + 1 \notin J
            <4>1. K = J
                BY <3>5
            <4> HIDE DEF K, Lists
            <4> QED
                BY <3>2, <4>1
        <3> QED
            BY <3>4, <3>5
    <2> HIDE DEF Lists
    <2> QED
        BY <2>0, <2>1
<1>3. n \in T
    <2> HIDE DEF T
    <2>1. T \in SUBSET Nat
        BY DEF T
    <2>2. 0..n \subseteq T
        BY <1>1, <1>2, <2>1, UpTo
    <2> QED
        BY <2>2
<1>4. \E at \in [1..Cardinality(I) -> I] :
        \A j, k \in 1..Cardinality(I) : j < k => at[j] < at[k]
    BY <1>3
<1> QED
    BY <1>0, <1>4 DEF Ascending

(* The list has every number of the set. *)
LEMMA AscendingAll ==
    ASSUME NEW n \in Nat, NEW I \in SUBSET (1..n)
    PROVE  /\ \A j, k \in 1..Cardinality(I) : Ascending(I)[j] = Ascending(I)[k] => j = k
           /\ \A i \in I : \E k \in 1..Cardinality(I) : Ascending(I)[k] = i
<1> DEFINE at == Ascending(I)
           c == Cardinality(I)
<1>1. /\ IsFiniteSet(I) /\ c \in Nat
      /\ at \in [1..c -> I]
      /\ \A j, k \in 1..c : j < k => at[j] < at[k]
    BY AscendingList
<1> HIDE DEF at, c
<1>2. ASSUME NEW j \in 1..c, NEW k \in 1..c, at[j] = at[k] PROVE j = k
    <2>1. at[j] \in Nat
        <3>1. at[j] \in I
            BY <1>1
        <3>2. \A i \in I : i \in Nat
            OBVIOUS
        <3> QED
            BY <3>1, <3>2
    <2>2. ~(j < k) /\ ~(k < j)
        BY <1>1, <1>2, <2>1
    <2> QED
        BY <1>1, <2>2
<1>3. at \in Injection(1..c, I)
    BY <1>1, <1>2 DEF Injection, IsInjective
<1>4. Cardinality(1..c) = Cardinality(I)
    BY <1>1, FS_Interval DEF c
<1>5. at \in Surjection(1..c, I)
    BY <1>1, <1>3, <1>4, FS_Injection
<1> QED
    BY <1>2, <1>5 DEF at, c, Surjection

(* The lines at some positions of a text are a text of that many lines.     *)
LEMMA PickedType ==
    ASSUME NEW S, NEW s \in Seq(S), NEW I \in SUBSET DOMAIN s
    PROVE  /\ IsFiniteSet(I) /\ Cardinality(I) \in Nat
           /\ Picked(s, I) \in Seq(S)
           /\ Len(Picked(s, I)) = Cardinality(I)
           /\ DOMAIN Picked(s, I) = 1..Cardinality(I)
           /\ \A k \in 1..Cardinality(I) :
                Ascending(I)[k] \in I /\ Picked(s, I)[k] = s[Ascending(I)[k]]
<1> DEFINE c == Cardinality(I)
<1>1. DOMAIN s = 1..Len(s) /\ Len(s) \in Nat /\ s \in [1..Len(s) -> S]
    BY LenProperties
<1>2. IsFiniteSet(I) /\ c \in Nat /\ Ascending(I) \in [1..c -> I]
    BY <1>1, AscendingList
<1> HIDE DEF c
<1>3. \A k \in 1..c : Ascending(I)[k] \in I /\ s[Ascending(I)[k]] \in S
    BY <1>1, <1>2
<1>4. Picked(s, I) = [k \in 1..c |-> s[Ascending(I)[k]]]
    BY DEF Picked, c
<1>5. Picked(s, I) \in [1..c -> S]
    BY <1>3, <1>4
<1>6. Picked(s, I) \in Seq(S) /\ Len(Picked(s, I)) = c
    BY <1>2, <1>5, IsASeq
<1> QED
    BY <1>2, <1>3, <1>4, <1>6 DEF c

(* A line occurs among the lines at some positions as often as at them. *)
LEMMA PickedOccurs ==
    ASSUME NEW S, NEW s \in Seq(S), NEW I \in SUBSET DOMAIN s, NEW l
    PROVE  Occurs(l, Picked(s, I)) = Cardinality({i \in I : s[i] = l})
<1> DEFINE at == Ascending(I)
           c == Cardinality(I)
           From == {k \in 1..c : s[at[k]] = l}
           To == {i \in I : s[i] = l}
           f == [k \in From |-> at[k]]
<1>1. DOMAIN s = 1..Len(s) /\ Len(s) \in Nat
    BY LenProperties
<1>2. c \in Nat /\ \A k \in 1..c : at[k] \in I
    BY PickedType
<1>3. /\ \A j, k \in 1..c : at[j] = at[k] => j = k
      /\ \A i \in I : \E k \in 1..c : at[k] = i
    BY <1>1, AscendingAll
<1>4. {k \in DOMAIN Picked(s, I) : Picked(s, I)[k] = l} = From
    BY PickedType
<1> HIDE DEF at, c
<1>5. f \in Bijection(From, To)
    <2>1. f \in [From -> To]
        BY <1>2
    <2>2. \A j, k \in From : f[j] = f[k] => j = k
        BY <1>3
    <2>3. \A i \in To : \E k \in From : f[k] = i
        BY <1>3
    <2> HIDE DEF f, From, To
    <2> QED
        BY <2>1, <2>2, <2>3 DEF Bijection, Injection, IsInjective, Surjection
<1>6. IsFiniteSet(From)
    <2>1. IsFiniteSet(1..c) /\ From \subseteq 1..c
        BY <1>2, FS_Interval
    <2> QED
        BY <2>1, FS_Subset
<1>7. Cardinality(To) = Cardinality(From)
    <2> HIDE DEF f, From, To
    <2> QED
        BY <1>5, <1>6, FS_Bijection DEF ExistsBijection
<1> QED
    BY <1>4, <1>7 DEF Occurs

(* A line that a diff does not add occurs no more often after than before. *)
LEMMA DiffNamesWhatIsAdded ==
    ASSUME NEW S, NEW before \in Seq(S), NEW after \in Seq(S),
           NEW d \in Diffs(before, after), NEW l, l \notin ToSet(d.added)
    PROVE  Occurs(l, after) <= Occurs(l, before)
<1>1. PICK J \in SUBSET DOMAIN after :
          /\ Picked(after, J) \in Kept(before, after)
          /\ d.added = Picked(after, DOMAIN after \ J)
    <2>1. PICK J \in SUBSET DOMAIN after :
              /\ Picked(after, J) \in Kept(before, after)
              /\ d = [added |-> Picked(after, DOMAIN after \ J),
                      removed |-> Len(before) - Cardinality(J)]
        BY DEF Diffs
    <2> QED
        BY <2>1
<1>2. PICK I \in SUBSET DOMAIN before : Picked(before, I) = Picked(after, J)
    BY <1>1 DEF Kept, Subsequences
<1>3. {i \in DOMAIN after : after[i] = l} \subseteq {i \in J : after[i] = l}
    <2> SUFFICES ASSUME NEW i \in DOMAIN after \ J PROVE after[i] # l
        BY <1>1
    <2> DEFINE Rest == DOMAIN after \ J
    <2>1. Rest \in SUBSET DOMAIN after /\ i \in Rest
        OBVIOUS
    <2>2. DOMAIN after = 1..Len(after) /\ Len(after) \in Nat
        BY LenProperties
    <2> HIDE DEF Rest
    <2>3. PICK k \in 1..Cardinality(Rest) : Ascending(Rest)[k] = i
        BY <2>1, <2>2, AscendingAll
    <2>4. k \in DOMAIN Picked(after, Rest) /\ Picked(after, Rest)[k] = after[i]
        BY <2>1, <2>3, PickedType
    <2>5. after[i] \in ToSet(d.added)
        BY <1>1, <2>4 DEF ToSet, Rest
    <2> QED
        BY <2>5
<1>4. /\ IsFiniteSet({i \in J : after[i] = l})
      /\ IsFiniteSet({i \in DOMAIN before : before[i] = l})
    BY OccursNat, FS_Subset, PickedType
<1>5. Occurs(l, after) <= Cardinality({i \in J : after[i] = l})
    BY <1>3, <1>4, FS_Subset DEF Occurs
<1>6. Cardinality({i \in J : after[i] = l}) = Cardinality({i \in I : before[i] = l})
    <2>1. Occurs(l, Picked(after, J)) = Cardinality({i \in J : after[i] = l})
        BY PickedOccurs
    <2>2. Occurs(l, Picked(before, I)) = Cardinality({i \in I : before[i] = l})
        BY PickedOccurs
    <2> QED
        BY <1>2, <2>1, <2>2
<1>7. Cardinality({i \in I : before[i] = l}) <= Occurs(l, before)
    <2>1. {i \in I : before[i] = l} \subseteq {i \in DOMAIN before : before[i] = l}
        OBVIOUS
    <2> QED
        BY <1>4, <2>1, FS_Subset DEF Occurs
<1>8. /\ Occurs(l, after) \in Nat /\ Occurs(l, before) \in Nat
      /\ Cardinality({i \in J : after[i] = l}) \in Nat
    BY <1>4, OccursNat, FS_CardinalityType
<1> QED
    BY <1>5, <1>6, <1>7, <1>8

-----------------------------------------------------------------------------
(* The inductive invariants. *)

Gated == {"ask", "copy", "run", "temp", "rename"}
Writing == {"temp", "rename"}

(* Where a call stands says which tool it names, and for which event the    *)
(* last hooks ran.                                                          *)
InOrder ==
    /\ pc \in Writing => call.tool \in WriteTools
    /\ pc = "child" => call.tool = "shell"
    /\ pc \in {"ask", "copy"} /\ effect.kind = "write" => call.tool \in WriteTools
    /\ pc \in BeyondHooks => event = "pre-tool"

(* What will be renamed into place has been written, and no file is half    *)
(* written.                                                                 *)
DiskIsWhole ==
    /\ disk \in [Files -> Contents]
    /\ pc = "rename" => temp[call.file] = plan

(* The rule set has judged the preview, and the preview is the change of    *)
(* the content it was made from.                                            *)
PreviewHolds ==
    pc \in Gated /\ call.tool \in WriteTools =>
        /\ effect.kind = "write"
        /\ CanWrite(call, effect.before)
        /\ effect.after = ContentAfter(call, effect.before)
        /\ effect.diff \in Diffs(TextOr(effect.before), effect.after)
        /\ effect.before \in Contents
        /\ broken = CheckDiff(ProjectRules, call.file, effect.diff.added)

(* A snapshot that nobody made stale is still what the file holds. *)
SnapshotsHold ==
    pc \in Gated /\ call.tool \in WriteTools =>
        /\ "preview" \notin stale =>
            /\ disk[call.file] = effect.before
            /\ pc \in Writing => plan = effect.after
        /\ pc \in {"run", "temp", "rename"} /\ "copy" \notin stale =>
            saved \in {disk[call.file], Half}
        /\ pc \in Writing /\ "run" \notin stale =>
            /\ CanWrite(call, disk[call.file])
            /\ plan = ContentAfter(call, disk[call.file])

FileInv == TypeOK /\ InOrder /\ DiskIsWhole /\ PreviewHolds /\ SnapshotsHold

(* The pre-tool hooks for the tool of the call. *)
Mine == {i \in DOMAIN Hooks : Hooks[i].event = "pre-tool" /\ call.tool \in Hooks[i].tools}

(* The hooks that were heard and those that still run are all the hooks of  *)
(* the event, until one refuses.                                            *)
HooksInv ==
    /\ pc = "hooks" /\ event = "pre-tool" /\ ~Refused =>
        Len(outcomes) + Len(hooks) = Cardinality(Mine)
    /\ pc \in BeyondHooks => Len(outcomes) = Cardinality(Mine)
    /\ Refused => hooks = <<>>
    /\ \A i \in DOMAIN outcomes : outcomes[i] = "Refused" =>
            i = Len(outcomes) /\ event = "pre-tool" /\ pc \notin BeyondHooks

Plain(S) == {k \in S : ExitLinesIn[k.command] = <<>>}
Watched == {k \in Plain(exits) : CheckOf[k.command] # "other"}

(* What the result of a call that has run will add to the evidence.         *)
Pending == IF event = "post-tool" /\ pc \in {"hooks", "answer"} THEN NewChecks(call) ELSE {}

(* Evidence and what is on its way to it are what was watched, until the    *)
(* run is dropped with a result in its hands.                               *)
EvidenceInv ==
    /\ Plain(checks) \subseteq Watched
    /\ pc \notin {"over", "dead"} => Plain(checks \cup Pending) = Watched

-----------------------------------------------------------------------------
(* Types. *)

(* The inputs of a call are those of its tool. *)
LEMMA CallFields ==
    ASSUME NEW r \in Requests \cup {Unknown}
    PROVE  /\ r.tool \in Tools
           /\ r.tool \in WriteTools \cup {"read_file"} => r.file \in Files
           /\ r.tool = "write_file" => r.content \in Seq(Lines)
           /\ r.tool = "patch" =>
                r.old \in Seq(Lines) /\ r.new \in Seq(Lines) /\ r.all \in BOOLEAN
           /\ r.tool = "shell" => r.command \in Commands
BY RequestsAssumption DEF Unknown, Tools, WriteTools

(* What a file tool makes of the content it finds is a text. *)
LEMMA ContentAfterType ==
    ASSUME NEW r \in Requests \cup {Unknown}, r.tool \in WriteTools,
           NEW x \in Contents \cup {Half}, CanWrite(r, x)
    PROVE  /\ ContentAfter(r, x) \in Seq(Lines)
           /\ TextOr(x) \in Seq(Lines)
           /\ r.tool = "patch" => \A l \in Lines : l \notin ToSet(r.old) =>
                Occurs(l, TextOr(x)) <= Occurs(l, ContentAfter(r, x))
<1>1. CASE r.tool = "write_file"
    <2>1. x = Absent \/ IsText(x)
        BY <1>1 DEF CanWrite
    <2>2. TextOr(x) \in Seq(Lines)
        BY <2>1, EmptySeq DEF TextOr, IsText, Contents
    <2>3. ContentAfter(r, x) = r.content
        BY <1>1 DEF ContentAfter
    <2> QED
        BY <1>1, <2>2, <2>3, CallFields
<1>2. CASE r.tool = "patch"
    <2>1. IsText(x) /\ Computable(x, r.old, r.all)
        BY <1>2 DEF CanWrite
    <2>2. x \in Seq(Lines) /\ TextOr(x) = x
        BY <2>1 DEF IsText, Contents, TextOr
    <2>3. ContentAfter(r, x) = Patched(x, r.old, r.new, r.all)
        BY <1>2 DEF ContentAfter
    <2>4. r.old \in Seq(Lines) /\ r.new \in Seq(Lines) /\ r.all \in BOOLEAN
        BY <1>2, CallFields
    <2> QED
        BY <2>1, <2>2, <2>3, <2>4, PatchedKeeps
<1> QED
    BY <1>1, <1>2 DEF WriteTools

(* The hooks of an event are of that event, and none is left out. *)
LEMMA MatchingType ==
    ASSUME NEW ev \in Events, NEW tool
    PROVE  /\ Matching(ev, tool) \in Seq([event : {ev}, tools : SUBSET Tools])
           /\ Len(Matching(ev, tool)) =
                Cardinality({i \in DOMAIN Hooks :
                    Hooks[i].event = ev /\ (ev = "stop" \/ tool \in Hooks[i].tools)})
<1> DEFINE I == {i \in DOMAIN Hooks :
                    Hooks[i].event = ev /\ (ev = "stop" \/ tool \in Hooks[i].tools)}
           H == [event : Events, tools : SUBSET Tools]
           m == Picked(Hooks, I)
<1>1. I \in SUBSET DOMAIN Hooks /\ Hooks \in Seq(H) /\ Matching(ev, tool) = m
    BY HooksAssumption DEF Matching
<1>2. \A i \in I : Hooks[i] \in [event : {ev}, tools : SUBSET Tools]
    <2> TAKE i \in I
    <2>1. Hooks[i] \in H
        <3>1. i \in 1..Len(Hooks)
            BY <1>1, LenProperties
        <3> QED
            BY <1>1, <3>1, ElementOfSeq
    <2> QED
        BY <2>1
<1> HIDE DEF I, H, m
<1>3. /\ Cardinality(I) \in Nat
      /\ m \in Seq(H) /\ Len(m) = Cardinality(I) /\ DOMAIN m = 1..Cardinality(I)
      /\ \A k \in 1..Cardinality(I) : Ascending(I)[k] \in I /\ m[k] = Hooks[Ascending(I)[k]]
    BY <1>1, PickedType DEF m
<1>4. m = [k \in 1..Cardinality(I) |-> m[k]]
    BY <1>3, LenProperties
<1> DEFINE G == [event : {ev}, tools : SUBSET Tools]
<1>5. m \in [1..Cardinality(I) -> G]
    BY <1>2, <1>3, <1>4
<1>6. m \in Seq(G)
    <2> HIDE DEF G
    <2> QED
        BY <1>3, <1>5, IsASeq
<1> QED
    BY <1>1, <1>3, <1>6 DEF I

ResultTypes == [error : BOOLEAN, lines : Seq(Int \cup {Garbled})]

(* The text of a command and its exit code are a result. *)
LEMMA ResultTypesHold ==
    /\ NoResult \in ResultTypes /\ Failure(<<>>) \in ResultTypes /\ Success(<<>>) \in ResultTypes
    /\ \A c \in Commands : Failure(ExitLinesIn[c]) \in ResultTypes
    /\ \A c \in Commands, code \in ExitCodes : Success(Rendered(c, code)) \in ResultTypes
<1>1. <<>> \in Seq(Int \cup {Garbled})
    BY EmptySeq
<1>2. \A c \in Commands : ExitLinesIn[c] \in Seq(Int \cup {Garbled})
    BY OutputAssumption
<1>3. ASSUME NEW c \in Commands, NEW code \in ExitCodes
      PROVE  Rendered(c, code) \in Seq(Int \cup {Garbled})
    <2>1. code \in Int \cup {Garbled}
        BY DEF ExitCodes, REFUSE
    <2> QED
        BY <1>2, <2>1, AppendProperties DEF Rendered
<1> QED
    BY <1>1, <1>2, <1>3 DEF ResultTypes, NoResult, Failure, Success

(* What Results leaves behind has the right types. *)
LEMMA ResultsType ==
    ASSUME TypeOK, NEW r \in ResultTypes, Results(r)
    PROVE  /\ result' \in ResultTypes
           /\ event' = "post-tool" /\ event' \in Events
           /\ hooks' \in Seq([event : {event'}, tools : SUBSET Tools])
           /\ outcomes' = <<>> /\ outcomes' \in Seq({"Passed", "Refused", "Failed"})
           /\ pc' = "hooks"
           /\ UNCHANGED <<call, made, effect, broken, allowed>>
<1>1. event' = "post-tool" /\ event' \in Events
    BY DEF Results, Events
<1>2. Matching("post-tool", call.tool) \in Seq([event : {event'}, tools : SUBSET Tools])
    BY <1>1, MatchingType
<1>3. <<>> \in Seq([event : {event'}, tools : SUBSET Tools])
      /\ <<>> \in Seq({"Passed", "Refused", "Failed"})
    BY EmptySeq
<1> QED
    BY <1>1, <1>2, <1>3 DEF Results

(* The initial states have the types. *)
LEMMA InitType == Init => FileInv
<1> SUFFICES ASSUME Init PROVE FileInv
    OBVIOUS
<1>1. Unknown \in Requests \cup {Unknown} /\ NoResult \in ResultTypes
    BY ResultTypesHold
<1>2. /\ <<>> \in Seq([event : {event}, tools : SUBSET Tools])
      /\ <<>> \in Seq({"Passed", "Refused", "Failed"})
      /\ <<>> \in Seq(Lines)
    BY EmptySeq
<1>3. disk \in [Files -> Contents] /\ temp \in [Files -> Contents]
    BY ContentsAssumption DEF Init, Contents
<1>4. TypeOK
    BY <1>1, <1>2, <1>3, BoundsAssumption
    DEF Init, TypeOK, Places, Events, ReadOnly, Tools, Contents, ResultTypes
<1>5. InOrder /\ PreviewHolds /\ SnapshotsHold
    BY DEF Init, InOrder, PreviewHolds, SnapshotsHold, Gated, Writing, BeyondHooks
<1> QED
    BY <1>3, <1>4, <1>5 DEF FileInv, DiskIsWhole, Init

(* Every step keeps the types and the place of the call. *)
LEMMA TypeStep ==
    ASSUME TypeOK, InOrder, Next
    PROVE  TypeOK' /\ InOrder'
<1> USE DEF TypeOK, InOrder, agent, evidence, files, Places
<1>1. ASSUME NEW r \in Requests, StartCall(r) PROVE TypeOK' /\ InOrder'
    <2>1. /\ <<>> \in Seq({"Passed", "Refused", "Failed"}) /\ <<>> \in Seq(Lines)
          /\ NoResult \in ResultTypes
        BY EmptySeq, ResultTypesHold
    <2>2. "pre-tool" \in Events
        BY DEF Events
    <2>3. hooks' \in Seq([event : {event'}, tools : SUBSET Tools])
        BY <1>1, <2>2, MatchingType DEF StartCall
    <2> QED
        BY <1>1, <2>1, <2>2, <2>3, BoundsAssumption
        DEF StartCall, ReadOnly, ResultTypes, Writing, BeyondHooks
<1>2. ASSUME NEW o \in {"Passed", "Refused", "Failed"}, HookSays(o), left' \in Nat
      PROVE  TypeOK' /\ InOrder'
    <2>1. outcomes' \in Seq({"Passed", "Refused", "Failed"})
        BY <1>2, AppendProperties DEF HookSays
    <2>2. hooks' \in Seq([event : {event}, tools : SUBSET Tools])
        BY <1>2, HeadTailProperties, EmptySeq DEF HookSays
    <2> QED
        BY <1>2, <2>1, <2>2 DEF HookSays, Writing, BeyondHooks
<1>3. ASSUME NEW code \in ExitCodes, HookExits(code) PROVE TypeOK' /\ InOrder'
    <2>1. Outcome(event, code) \in {"Passed", "Refused", "Failed"}
        BY DEF Outcome
    <2> QED
        BY <1>2, <1>3, <2>1 DEF HookExits
<1>4. CASE HookCannotStart
    BY <1>2, <1>4 DEF HookCannotStart
<1>5. CASE HookTimesOut
    BY <1>2, <1>5 DEF HookTimesOut
<1>6. CASE HooksDone
    BY <1>6, ResultTypesHold DEF HooksDone, ResultTypes, Writing, BeyondHooks
<1>7. CASE PreviewFails
    BY <1>7, ResultTypesHold DEF PreviewFails, ResultTypes, Writing, BeyondHooks
<1>8. ASSUME NEW e \in Previews(call), Preview(e) PROVE TypeOK' /\ InOrder'
    <2>1. e.kind \in {"read", "exec", "write"}
        BY DEF Previews, WritePreviews, ReadOnly, Execute, Write
    <2>2. Violations(call, e) \subseteq ProjectRules
        BY DEF Violations, CheckDiff, CheckCommand
    <2>3. e.kind = "write" => call.tool \in WriteTools
        BY DEF Previews, ReadOnly, Execute, WriteTools
    <2> QED
        BY <1>8, <2>1, <2>2, <2>3 DEF Preview, Writing, BeyondHooks
<1>9. ASSUME NEW ok \in BOOLEAN, Checkpoint(ok) PROVE TypeOK' /\ InOrder'
    <2>1. effect.kind = "write" => call.file \in Files /\ disk[call.file] \in Contents \cup {Half}
        BY <1>9, CallFields DEF Checkpoint
    <2>2. effect.kind = "write" => saved' \in Contents \cup {Half}
        BY <1>9, <2>1 DEF Checkpoint
    <2> QED
        BY <1>9, <2>1, <2>2 DEF Checkpoint, Writing, BeyondHooks
<1>10. ASSUME NEW always \in BOOLEAN, Approve(always) PROVE TypeOK' /\ InOrder'
    BY <1>10, CallFields DEF Approve, Writing, BeyondHooks
<1>11. CASE Deny
    BY <1>11, ResultTypesHold DEF Deny, ResultTypes, Writing, BeyondHooks
<1>12. ASSUME NEW r \in ResultTypes, Results(r), UNCHANGED <<plan, changed, checks, saved, stale, edits, left>>,
              disk' \in [Files -> Contents \cup {Half}], temp' \in [Files -> Contents \cup {Half}],
              exits' \subseteq [command : Commands, code : ExitCodes]
       PROVE  TypeOK' /\ InOrder'
    BY <1>12, ResultsType DEF ResultTypes, Writing, BeyondHooks
<1>13. CASE RunRead
    <2>1. [NoResult EXCEPT !.error = ~IsText(disk[call.file])] \in ResultTypes
        BY ResultTypesHold DEF NoResult, ResultTypes, IsText
    <2> QED
        BY <1>12, <1>13, <2>1 DEF RunRead
<1>14. CASE Compute
    <2>1. call.file \in Files
        BY <1>14, CallFields DEF Compute
    <2>2. plan' \in Seq(Lines)
        BY <1>14, <2>1, ContentAfterType DEF Compute
    <2> QED
        BY <1>14, <2>2 DEF Compute, Writing, BeyondHooks
<1>15. CASE CannotCompute
    BY <1>12, <1>15, ResultTypesHold DEF CannotCompute
<1>16. CASE WriteTemporary
    BY <1>16 DEF WriteTemporary, Writing, BeyondHooks, Contents
<1>17. ASSUME NEW remains \in BOOLEAN, CannotWrite(remains) PROVE TypeOK' /\ InOrder'
    <2>1. temp' \in [Files -> Contents \cup {Half}]
        BY <1>17 DEF CannotWrite
    <2> QED
        BY <1>12, <1>17, <2>1, ResultTypesHold DEF CannotWrite
<1>18. CASE Rename
    <2>1. call.file \in Files
        BY <1>18, CallFields DEF Rename, Writing
    <2>2. /\ disk' \in [Files -> Contents \cup {Half}]
          /\ temp' \in [Files -> Contents \cup {Half}]
        BY <1>18, <2>1 DEF Rename, Contents
    <2> QED
        BY <1>12, <1>18, <2>2, ResultTypesHold DEF Rename
<1>19. CASE CannotRename
    <2>1. temp' \in [Files -> Contents \cup {Half}]
        BY <1>19 DEF CannotRename, Contents
    <2> QED
        BY <1>12, <1>19, <2>1, ResultTypesHold DEF CannotRename
<1>20. CASE StartCommand
    BY <1>20 DEF StartCommand, Writing, BeyondHooks
<1>21. CASE CannotStart
    <2>1. Failure(ExitLinesIn[call.command]) \in ResultTypes
        BY <1>21, CallFields, ResultTypesHold DEF CannotStart
    <2> QED
        BY <1>12, <1>21, <2>1 DEF CannotStart
<1>22. ASSUME NEW code \in ExitCodes, CommandExits(code) PROVE TypeOK' /\ InOrder'
    <2>1. call.command \in Commands
        BY <1>22, CallFields DEF CommandExits
    <2>2. Success(Rendered(call.command, code)) \in ResultTypes
        BY <2>1, ResultTypesHold
    <2>3. exits' \subseteq [command : Commands, code : ExitCodes]
        BY <1>22, <2>1 DEF CommandExits
    <2> QED
        BY <1>12, <1>22, <2>2, <2>3 DEF CommandExits
<1>23. CASE CommandTimesOut
    <2>1. Failure(ExitLinesIn[call.command]) \in ResultTypes
        BY <1>23, CallFields, ResultTypesHold DEF CommandTimesOut
    <2> QED
        BY <1>12, <1>23, <2>1 DEF CommandTimesOut
<1>24. CASE Answer
    <2>1. NewChecks(call) \subseteq [command : Commands, code : Int]
        <3>1. ParseExitCode(result.lines) \subseteq Int
            <4>1. result.lines \in Seq(Int \cup {Garbled})
                OBVIOUS
            <4>2. result.lines # <<>> => Head(result.lines) \in Int \cup {Garbled}
                BY <4>1, HeadTailProperties
            <4> QED
                BY <4>2 DEF ParseExitCode
        <3> QED
            BY <3>1, CallFields DEF NewChecks
    <2> QED
        BY <1>24, <2>1 DEF Answer, Writing, BeyondHooks
<1>25. CASE Stop
    <2>1. "stop" \in Events /\ <<>> \in Seq({"Passed", "Refused", "Failed"})
        BY EmptySeq DEF Events
    <2>2. hooks' \in Seq([event : {event'}, tools : SUBSET Tools])
        BY <1>25, <2>1, MatchingType DEF Stop
    <2> QED
        BY <1>25, <2>1, <2>2 DEF Stop, Writing, BeyondHooks
<1>26. ASSUME NEW f \in Files, NEW text \in Texts, Edit(f, text) PROVE TypeOK' /\ InOrder'
    <2>1. text \in Contents
        BY ContentsAssumption
    <2> QED
        BY <1>26, <2>1, BoundsAssumption DEF Edit
<1>27. CASE Drop
    BY <1>27 DEF Drop, Writing, BeyondHooks
<1>28. CASE Die
    BY <1>28 DEF Die, Writing, BeyondHooks
<1> QED
    BY <1>1, <1>3, <1>4, <1>5, <1>6, <1>7, <1>8, <1>9, <1>10, <1>11, <1>13, <1>14, <1>15,
       <1>16, <1>17, <1>18, <1>19, <1>20, <1>21, <1>22, <1>23, <1>24, <1>25, <1>26, <1>27,
       <1>28
    DEF Next, HookStep, AgentStep, CommandStep, PersonStep, GateStep, RunStep

(* A step that leaves the files alone and ends outside of the gate keeps    *)
(* what is known of them.                                                   *)
LEMMA OutsideTheGate ==
    ASSUME DiskIsWhole, UNCHANGED disk, pc' \notin Gated
    PROVE  DiskIsWhole' /\ PreviewHolds' /\ SnapshotsHold'
BY DEF DiskIsWhole, PreviewHolds, SnapshotsHold, Gated

(* The preview of a file tool is the change of what the file holds.         *)
LEMMA PreviewIsTheChange ==
    ASSUME NEW r, r.tool \in WriteTools, NEW e \in Previews(r)
    PROVE  /\ e.kind = "write"
           /\ e.before = disk[r.file]
           /\ CanWrite(r, e.before)
           /\ e.after = ContentAfter(r, e.before)
           /\ e.diff \in Diffs(TextOr(e.before), e.after)
<1>1. e \in WritePreviews(r)
    BY DEF Previews, WriteTools
<1> QED
    BY <1>1 DEF WritePreviews, Write

(* Every step keeps the files whole and the snapshots true. *)
LEMMA FileStep ==
    ASSUME FileInv, Next
    PROVE  DiskIsWhole' /\ PreviewHolds' /\ SnapshotsHold'
<1> USE DEF agent, evidence, files
<1>0. TypeOK /\ InOrder /\ DiskIsWhole /\ PreviewHolds /\ SnapshotsHold
    BY DEF FileInv
<1>1. ASSUME NEW r \in Requests, StartCall(r) PROVE UNCHANGED disk /\ pc' \notin Gated
    BY <1>1 DEF StartCall, Gated
<1>2. CASE HookStep \/ HookTimesOut
    BY <1>0, <1>2, OutsideTheGate DEF HookStep, HookExits, HookCannotStart, HookTimesOut, HookSays, Gated
<1>3. CASE HooksDone
    <2>1. UNCHANGED disk
        BY <1>3 DEF HooksDone
    <2>2. CASE pc' # "preview"
        BY <1>0, <1>3, <2>1, <2>2, OutsideTheGate DEF HooksDone, Gated
    <2>3. CASE pc' = "preview"
        BY <1>0, <2>1, <2>3, OutsideTheGate DEF Gated
    <2> QED
        BY <2>2, <2>3
<1>4. CASE PreviewFails \/ Deny
    BY <1>0, <1>4, OutsideTheGate DEF PreviewFails, Deny, Gated
<1>5. ASSUME NEW e \in Previews(call), Preview(e) PROVE DiskIsWhole' /\ PreviewHolds' /\ SnapshotsHold'
    <2>0. /\ pc' \in {"ask", "copy"} /\ effect' = e /\ broken' = Violations(call, e)
          /\ UNCHANGED <<call, disk, temp, plan>>
        BY <1>5 DEF Preview
    <2>1. DiskIsWhole'
        BY <1>0, <2>0 DEF DiskIsWhole
    <2>2. CASE call.tool \in WriteTools
        <3>1. /\ e.kind = "write" /\ e.before = disk[call.file] /\ CanWrite(call, e.before)
              /\ e.after = ContentAfter(call, e.before)
              /\ e.diff \in Diffs(TextOr(e.before), e.after)
            BY <2>2, PreviewIsTheChange
        <3>2. e.before \in Contents
            BY <1>0, <2>2, <3>1, CallFields DEF TypeOK, DiskIsWhole
        <3>3. broken' = CheckDiff(ProjectRules, call.file, e.diff.added)
            BY <2>0, <3>1 DEF Violations
        <3>4. PreviewHolds'
            BY <2>0, <3>1, <3>2, <3>3 DEF PreviewHolds, CanWrite, ContentAfter
        <3>5. SnapshotsHold'
            BY <2>0, <3>1 DEF SnapshotsHold, Writing
        <3> QED
            BY <2>1, <3>4, <3>5
    <2>3. CASE call.tool \notin WriteTools
        BY <2>0, <2>1, <2>3 DEF PreviewHolds, SnapshotsHold
    <2> QED
        BY <2>2, <2>3
<1>6. ASSUME NEW always \in BOOLEAN, Approve(always) PROVE DiskIsWhole' /\ PreviewHolds' /\ SnapshotsHold'
    <2>0. pc = "ask" /\ pc' = "copy" /\ UNCHANGED <<call, effect, broken, plan, disk, temp, saved, stale>>
        BY <1>6 DEF Approve
    <2> QED
        BY <1>0, <2>0 DEF DiskIsWhole, PreviewHolds, SnapshotsHold, Gated, Writing, CanWrite, ContentAfter
<1>7. ASSUME NEW ok \in BOOLEAN, Checkpoint(ok) PROVE DiskIsWhole' /\ PreviewHolds' /\ SnapshotsHold'
    <2>0. pc = "copy" /\ pc' = "run" /\ UNCHANGED <<call, effect, broken, plan, disk, temp>>
        BY <1>7 DEF Checkpoint
    <2>1. DiskIsWhole' /\ PreviewHolds'
        BY <1>0, <2>0 DEF DiskIsWhole, PreviewHolds, Gated, CanWrite, ContentAfter
    <2>2. ASSUME call.tool \in WriteTools
          PROVE  saved' \in {disk[call.file], Half} /\ stale' = stale \ {"copy"}
        <3>1. effect.kind = "write"
            BY <1>0, <2>0, <2>2 DEF PreviewHolds, Gated
        <3> QED
            BY <1>7, <3>1 DEF Checkpoint
    <2>3. SnapshotsHold'
        BY <1>0, <2>0, <2>2 DEF SnapshotsHold, Gated, Writing
    <2> QED
        BY <2>1, <2>3
<1>8. CASE Compute
    <2>0. /\ pc = "run" /\ pc' = "temp" /\ call.tool \in WriteTools
          /\ CanWrite(call, disk[call.file])
          /\ plan' = ContentAfter(call, disk[call.file])
          /\ stale' = stale \ {"run"}
          /\ UNCHANGED <<call, effect, broken, disk, temp, saved>>
        BY <1>8 DEF Compute
    <2>1. DiskIsWhole' /\ PreviewHolds'
        BY <1>0, <2>0 DEF DiskIsWhole, PreviewHolds, Gated, CanWrite, ContentAfter
    <2>2. "preview" \notin stale' => disk[call.file] = effect.before /\ plan' = effect.after
        BY <1>0, <2>0 DEF PreviewHolds, SnapshotsHold, Gated
    <2>3. "copy" \notin stale' => saved \in {disk[call.file], Half}
        BY <1>0, <2>0 DEF SnapshotsHold, Gated
    <2>4. CanWrite(call, disk[call.file])' /\ ContentAfter(call, disk[call.file])' = ContentAfter(call, disk[call.file])
        BY <2>0 DEF CanWrite, ContentAfter
    <2>5. SnapshotsHold'
        BY <2>0, <2>2, <2>3, <2>4 DEF SnapshotsHold
    <2> QED
        BY <2>1, <2>5
<1>9. CASE WriteTemporary
    <2>0. /\ pc = "temp" /\ pc' = "rename" /\ call.tool \in WriteTools
          /\ temp' = [temp EXCEPT ![call.file] = plan]
          /\ UNCHANGED <<call, effect, broken, plan, disk, saved, stale>>
        BY <1>0, <1>9 DEF WriteTemporary, InOrder, Writing
    <2>1. temp'[call.file] = plan
        BY <1>0, <2>0, CallFields DEF TypeOK
    <2> QED
        BY <1>0, <2>0, <2>1 DEF DiskIsWhole, PreviewHolds, SnapshotsHold, Gated, Writing, CanWrite, ContentAfter
<1>10. CASE Rename
    <2>0. pc = "rename" /\ pc' = "hooks" /\ disk' = [disk EXCEPT ![call.file] = temp[call.file]]
        BY <1>10 DEF Rename, Results
    <2>1. temp[call.file] \in Contents
        BY <1>0, <2>0 DEF DiskIsWhole, TypeOK, Contents
    <2> QED
        BY <1>0, <2>0, <2>1 DEF DiskIsWhole, PreviewHolds, SnapshotsHold, Gated
<1>11. ASSUME NEW r, Results(r), UNCHANGED disk PROVE DiskIsWhole' /\ PreviewHolds' /\ SnapshotsHold'
    BY <1>0, <1>11, OutsideTheGate DEF Results, Gated
<1>12. CASE RunRead \/ CannotCompute \/ CannotRename \/ CannotStart \/ CommandTimesOut
    BY <1>11, <1>12 DEF RunRead, CannotCompute, CannotRename, CannotStart, CommandTimesOut
<1>13. ASSUME NEW remains \in BOOLEAN, CannotWrite(remains) PROVE DiskIsWhole' /\ PreviewHolds' /\ SnapshotsHold'
    BY <1>11, <1>13 DEF CannotWrite
<1>14. CASE CommandStep
    BY <1>11, <1>14 DEF CommandStep, CommandExits
<1>15. CASE StartCommand \/ Answer \/ Stop \/ Drop \/ Die
    BY <1>0, <1>15, OutsideTheGate DEF StartCommand, Answer, Stop, Drop, Die, Gated
<1>16. ASSUME NEW f \in Files, NEW text \in Texts, Edit(f, text)
       PROVE  DiskIsWhole' /\ PreviewHolds' /\ SnapshotsHold'
    <2>0. /\ disk' = [disk EXCEPT ![f] = text] /\ stale' = {"preview", "copy", "run"}
          /\ UNCHANGED <<pc, call, effect, broken, plan, temp, saved>>
        BY <1>16 DEF Edit
    <2>1. text \in Contents
        BY ContentsAssumption
    <2>2. DiskIsWhole'
        BY <1>0, <2>0, <2>1 DEF DiskIsWhole
    <2>3. PreviewHolds'
        BY <1>0, <2>0 DEF PreviewHolds, CanWrite, ContentAfter
    <2>4. SnapshotsHold'
        BY <2>0 DEF SnapshotsHold
    <2> QED
        BY <2>2, <2>3, <2>4
<1> QED
    BY <1>0, <1>1, <1>2, <1>3, <1>4, <1>5, <1>6, <1>7, <1>8, <1>9, <1>10, <1>12, <1>13, <1>14,
       <1>15, <1>16, OutsideTheGate
    DEF Next, AgentStep, PersonStep, GateStep, RunStep

(* The invariant of the files is inductive. *)
LEMMA FileInvariant == Spec => []FileInv
<1>1. FileInv /\ [Next]_vars => FileInv'
    <2>1. FileInv /\ Next => FileInv'
        BY TypeStep, FileStep DEF FileInv
    <2>2. FileInv /\ UNCHANGED vars => FileInv'
        BY DEF FileInv, TypeOK, InOrder, DiskIsWhole, PreviewHolds, SnapshotsHold, vars, agent,
               evidence, files, CanWrite, ContentAfter
    <2> QED
        BY <2>1, <2>2
<1> QED
    BY <1>1, InitType, PTL DEF Spec

-----------------------------------------------------------------------------
(* Theorems about the files. *)

(* The state of the tools has the types of the fields and locals of         *)
(* run_tools, authorise and checkpoint that it stands for.                  *)
THEOREM TypeCorrect == Spec => []TypeOK
<1>1. FileInv => TypeOK
    BY DEF FileInv
<1> QED
    BY <1>1, FileInvariant, PTL

(* write_atomically: whatever fails, whoever else writes and whenever the   *)
(* process dies, no file of the project is left half written.               *)
THEOREM FilesStayWhole == Spec => []FileIsWhole
<1>1. FileInv => FileIsWhole
    BY ContentsAssumption DEF FileInv, DiskIsWhole, FileIsWhole
<1> QED
    BY <1>1, FileInvariant, PTL

(* A change is applied by the rename and by nothing else; what it puts in   *)
(* place is what the tool computed.                                         *)
LEMMA AppliedByRename ==
    ASSUME FileInv, [Next]_vars, Applied
    PROVE  /\ call.tool \in WriteTools /\ call.file \in Files /\ pc = "rename"
           /\ disk' = [disk EXCEPT ![call.file] = plan]
           /\ disk'[call.file] = plan
<1>1. pc = "rename" /\ pc' = "hooks" /\ ~result'.error
    BY DEF Applied
<1>2. TypeOK /\ InOrder /\ DiskIsWhole
    BY DEF FileInv
<1>3. Next
    BY <1>1 DEF vars
<1>4. ~CannotRename
    BY <1>1 DEF CannotRename, Results, Failure
<1>5. Rename
    BY <1>1, <1>3, <1>4
    DEF Next, HookStep, AgentStep, CommandStep, PersonStep, GateStep, RunStep, StartCall,
        HookExits, HookCannotStart, HookTimesOut, HookSays, HooksDone, PreviewFails, Approve,
        Deny, Checkpoint, RunRead, Compute, CannotCompute, WriteTemporary, CannotWrite,
        StartCommand, CannotStart, CommandExits, CommandTimesOut, Answer, Stop, Edit, Drop, Die
<1>6. call.tool \in WriteTools /\ call.file \in Files
    BY <1>1, <1>2, CallFields DEF InOrder, Writing, TypeOK
<1>7. disk' = [disk EXCEPT ![call.file] = plan]
    BY <1>1, <1>2, <1>5 DEF Rename, DiskIsWhole
<1> QED
    BY <1>1, <1>2, <1>6, <1>7 DEF DiskIsWhole

(* Patch::run computes its change anew from what the file holds: a patch    *)
(* takes away no line outside of its snippet, even when somebody changed    *)
(* the file after the preview, as long as nobody writes between its own     *)
(* reading and its rename.                                                  *)
THEOREM PatchesKeepOthersLines == Spec => PatchKeepsOthersLines
<1>1. ASSUME FileInv, [Next]_vars, Applied, call.tool = "patch", "run" \notin stale,
             NEW l \in Lines, l \notin ToSet(call.old)
      PROVE  Occurs(l, TextOr(disk[call.file])) <= Occurs(l, disk'[call.file])
    <2>1. /\ call.file \in Files /\ pc = "rename" /\ call.tool \in WriteTools
          /\ disk'[call.file] = plan
        BY <1>1, AppliedByRename
    <2>2. CanWrite(call, disk[call.file]) /\ plan = ContentAfter(call, disk[call.file])
        BY <1>1, <2>1 DEF FileInv, SnapshotsHold, Gated, Writing
    <2>3. call \in Requests \cup {Unknown} /\ disk[call.file] \in Contents \cup {Half}
        BY <1>1, <2>1 DEF FileInv, TypeOK
    <2> QED
        BY <1>1, <2>1, <2>2, <2>3, ContentAfterType
<1>2. FileInv /\ [Next]_vars =>
        [Applied /\ call.tool = "patch" /\ "run" \notin stale =>
            \A l \in Lines :
                l \notin ToSet(call.old) =>
                    Occurs(l, TextOr(disk[call.file])) <= Occurs(l, disk'[call.file])]_vars
    BY <1>1
<1> QED
    BY <1>2, FileInvariant, PTL DEF Spec, PatchKeepsOthersLines

(* run_tools and the file tools: if nobody touched the file since the       *)
(* preview, the text that is applied is the one that was shown, and what it *)
(* replaces is the text it was shown on.                                    *)
THEOREM WhatWasApprovedIsApplied == Spec => ApprovedIsApplied
<1>1. ASSUME FileInv, [Next]_vars, Applied, "preview" \notin stale
      PROVE  disk[call.file] = effect.before /\ disk'[call.file] = effect.after
    <2>1. call.tool \in WriteTools /\ pc = "rename" /\ disk'[call.file] = plan
        BY <1>1, AppliedByRename
    <2> QED
        BY <1>1, <2>1 DEF FileInv, SnapshotsHold, Gated, Writing
<1>2. FileInv /\ [Next]_vars =>
        [Applied /\ "preview" \notin stale =>
            /\ disk[call.file] = effect.before
            /\ disk'[call.file] = effect.after]_vars
    BY <1>1
<1> QED
    BY <1>2, FileInvariant, PTL DEF Spec, ApprovedIsApplied

(* checkpoint: the copy for undo holds what the change replaced, unless it  *)
(* could not be saved or somebody wrote after it was taken.                 *)
THEOREM CopiesAreWhatWasReplaced == Spec => CopyIsWhatWasReplaced
<1>1. ASSUME FileInv, [Next]_vars, Applied
      PROVE  saved \in {disk[call.file], Half} \/ "copy" \in stale
    <2>1. call.tool \in WriteTools /\ pc = "rename"
        BY <1>1, AppliedByRename
    <2> QED
        BY <1>1, <2>1 DEF FileInv, SnapshotsHold, Gated
<1>2. FileInv /\ [Next]_vars =>
        [Applied => saved \in {disk[call.file], Half} \/ "copy" \in stale]_vars
    BY <1>1
<1> QED
    BY <1>2, FileInvariant, PTL DEF Spec, CopyIsWhatWasReplaced

(* authorise and Ledger::check_diff: a change that brings a forbidden line, *)
(* or any change to a forbidden file, is reported as breaking the rule,     *)
(* unless the file was touched after the preview.                           *)
THEOREM RulesAreReported == Spec => BrokenRulesAreReported
<1> DEFINE Innocent(rule, l) ==
        \/ rule.added = Unset \/ l \notin rule.added
        \/ rule.scope # Unset /\ call.file \notin rule.scope
        \/ rule.except # Unset /\ call.file \in rule.except
        \/ Occurs(l, disk'[call.file]) <= Occurs(l, TextOr(disk[call.file]))
<1>1. ASSUME FileInv, [Next]_vars, Applied, "preview" \notin stale,
             NEW rule \in ProjectRules, rule \notin broken
      PROVE  /\ rule.files = Unset \/ call.file \notin rule.files
             /\ \A l \in Lines : Innocent(rule, l)
    <2>1. /\ call.file \in Files /\ pc = "rename" /\ call.tool \in WriteTools
          /\ disk'[call.file] = plan
        BY <1>1, AppliedByRename
    <2>2. /\ disk[call.file] = effect.before /\ plan = effect.after
          /\ CanWrite(call, effect.before)
          /\ effect.after = ContentAfter(call, effect.before)
          /\ effect.diff \in Diffs(TextOr(effect.before), effect.after)
          /\ effect.before \in Contents
          /\ broken = CheckDiff(ProjectRules, call.file, effect.diff.added)
        BY <1>1, <2>1 DEF FileInv, SnapshotsHold, PreviewHolds, Gated, Writing
    <2>3. call \in Requests \cup {Unknown}
        BY <1>1 DEF FileInv, TypeOK
    <2>4. effect.after \in Seq(Lines) /\ TextOr(effect.before) \in Seq(Lines)
        BY <2>1, <2>2, <2>3, ContentAfterType
    <2>5. ~BrokenByDiff(rule, call.file, effect.diff.added)
        BY <1>1, <2>2 DEF CheckDiff
    <2>6. rule.files = Unset \/ call.file \notin rule.files
        BY <2>5 DEF BrokenByDiff, In
    <2>7. ASSUME NEW l \in Lines, rule.added # Unset, l \in rule.added,
                 AppliesTo(rule, call.file)
          PROVE  Occurs(l, disk'[call.file]) <= Occurs(l, TextOr(disk[call.file]))
        <3>1. l \notin ToSet(effect.diff.added)
            BY <2>5, <2>7 DEF BrokenByDiff, In, ToSet
        <3> QED
            BY <2>1, <2>2, <2>4, <3>1, DiffNamesWhatIsAdded
    <2> QED
        BY <2>6, <2>7 DEF AppliesTo, In
<1>2. FileInv /\ [Next]_vars =>
        [Applied /\ "preview" \notin stale /\ disk'[call.file] # disk[call.file] =>
            \A rule \in ProjectRules :
                \/ rule \in broken
                \/ /\ rule.files = Unset \/ call.file \notin rule.files
                   /\ \A l \in Lines : Innocent(rule, l)]_vars
    BY <1>1
<1> QED
    BY <1>2, FileInvariant, PTL DEF Spec, BrokenRulesAreReported

-----------------------------------------------------------------------------
(* Theorems about the hooks. *)

(* A hook's answer is counted, and only a refusal is a refusal. *)
LEMMA OneMoreOutcome ==
    ASSUME NEW S, NEW s \in Seq(S), NEW o \in S
    PROVE  /\ Len(Append(s, o)) = Len(s) + 1
           /\ Append(s, o)[Len(s) + 1] = o
           /\ \A i \in DOMAIN s : Append(s, o)[i] = s[i]
           /\ DOMAIN Append(s, o) = DOMAIN s \cup {Len(s) + 1}
           /\ DOMAIN s = 1..Len(s) /\ Len(s) \in Nat
BY LenProperties, AppendProperties

(* A hook that is done keeps the count: another one is heard and fewer are  *)
(* left, or the refusal ends the event.                                     *)
LEMMA HookSaysStep ==
    ASSUME FileInv, HooksInv, NEW o \in {"Passed", "Refused", "Failed"}, HookSays(o),
           o = "Refused" => event = "pre-tool"
    PROVE  HooksInv'
<1> DEFINE O == {"Passed", "Refused", "Failed"}
<1>0. /\ pc = "hooks" /\ hooks # <<>> /\ outcomes' = Append(outcomes, o)
      /\ hooks' = IF o = "Refused" THEN <<>> ELSE Tail(hooks)
      /\ UNCHANGED <<pc, call, event>>
    BY DEF HookSays
<1>1. outcomes \in Seq(O) /\ hooks \in Seq([event : {event}, tools : SUBSET Tools])
    BY DEF FileInv, TypeOK
<1>2. /\ Len(outcomes') = Len(outcomes) + 1
      /\ outcomes'[Len(outcomes) + 1] = o
      /\ \A i \in DOMAIN outcomes : outcomes'[i] = outcomes[i]
      /\ DOMAIN outcomes' = DOMAIN outcomes \cup {Len(outcomes) + 1}
      /\ DOMAIN outcomes = 1..Len(outcomes) /\ Len(outcomes) \in Nat
    <2> HIDE DEF O
    <2> QED
        BY <1>0, <1>1, OneMoreOutcome DEF O
<1>3. \A i \in DOMAIN outcomes : outcomes[i] # "Refused"
    BY <1>0, <1>2 DEF HooksInv, Refused, Contains
<1>4. Refused' <=> o = "Refused"
    BY <1>2, <1>3 DEF Refused, Contains
<1>5. ~Refused /\ Mine' = Mine
    BY <1>0, <1>2, <1>3 DEF Refused, Contains, Mine
<1>6. Len(Tail(hooks)) = Len(hooks) - 1 /\ Len(hooks) \in Nat
    BY <1>0, <1>1, HeadTailProperties, LenProperties
<1>7. event = "pre-tool" /\ ~Refused' => Len(outcomes') + Len(hooks') = Cardinality(Mine')
    <2> SUFFICES ASSUME event = "pre-tool", ~Refused'
                 PROVE  Len(outcomes') + Len(hooks') = Cardinality(Mine)
        BY <1>5
    <2>1. Len(outcomes) + Len(hooks) = Cardinality(Mine)
        BY <1>0, <1>5 DEF HooksInv
    <2>2. Len(hooks') = Len(hooks) - 1
        BY <1>0, <1>4, <1>6
    <2>3. Len(outcomes') + Len(hooks') = Len(outcomes) + Len(hooks)
        BY <1>2, <1>6, <2>2
    <2> QED
        BY <2>1, <2>3
<1>8. Refused' => hooks' = <<>>
    BY <1>0, <1>4
<1>9. ASSUME NEW i \in DOMAIN outcomes', outcomes'[i] = "Refused"
      PROVE  i = Len(outcomes') /\ event' = "pre-tool" /\ pc' \notin BeyondHooks
    BY <1>0, <1>2, <1>3, <1>9 DEF BeyondHooks
<1> QED
    BY <1>0, <1>7, <1>8, <1>9 DEF HooksInv, BeyondHooks

(* A step that leaves the hooks alone and goes no further than the call was *)
(* keeps the count.                                                         *)
LEMMA HooksUntouched ==
    ASSUME HooksInv, UNCHANGED <<call, event, hooks, outcomes>>,
           pc' \in BeyondHooks => pc \in BeyondHooks, pc' = "hooks" => pc = "hooks"
    PROVE  HooksInv'
BY DEF HooksInv, Refused, Mine

(* A new event starts without outcomes. *)
LEMMA HooksAnew ==
    ASSUME outcomes' = <<>>, pc' = "hooks",
           event' = "pre-tool" => Len(hooks') = Cardinality(Mine'),
           event' = "pre-tool" => Len(hooks') \in Nat
    PROVE  HooksInv'
<1>1. Len(<<>>) = 0 /\ DOMAIN outcomes' = {}
    OBVIOUS
<1> QED
    BY <1>1 DEF HooksInv, Refused, Contains, BeyondHooks

(* Every step keeps the count of the hooks. *)
LEMMA HooksStep ==
    ASSUME FileInv, HooksInv, Next
    PROVE  HooksInv'
<1> USE DEF agent, evidence, files
<1>1. ASSUME NEW r \in Requests, StartCall(r) PROVE HooksInv'
    <2>0. "pre-tool" \in Events
        BY DEF Events
    <2>1. /\ Matching("pre-tool", r.tool) \in Seq([event : {"pre-tool"}, tools : SUBSET Tools])
          /\ Len(Matching("pre-tool", r.tool)) = Cardinality({i \in DOMAIN Hooks :
                Hooks[i].event = "pre-tool" /\ ("pre-tool" = "stop" \/ r.tool \in Hooks[i].tools)})
        BY <2>0, MatchingType
    <2>2. Len(hooks') = Cardinality(Mine')
        BY <1>1, <2>1 DEF StartCall, Mine
    <2>3. Len(hooks') \in Nat
        BY <1>1, <2>1, LenProperties DEF StartCall
    <2> QED
        BY <1>1, <2>2, <2>3, HooksAnew DEF StartCall
<1>2. ASSUME NEW code \in ExitCodes, HookExits(code) PROVE HooksInv'
    <2>1. /\ Outcome(event, code) \in {"Passed", "Refused", "Failed"}
          /\ Outcome(event, code) = "Refused" => event = "pre-tool"
        BY DEF Outcome
    <2> QED
        BY <1>2, <2>1, HookSaysStep DEF HookExits
<1>3. CASE HookCannotStart \/ HookTimesOut
    BY <1>3, HookSaysStep DEF HookCannotStart, HookTimesOut
<1>4. CASE HooksDone
    <2>1. pc = "hooks" /\ hooks = <<>> /\ UNCHANGED <<call, event, hooks, outcomes>>
        BY <1>4 DEF HooksDone
    <2>2. CASE event = "pre-tool" /\ ~Refused /\ pc' = "preview"
        <3>0. Len(outcomes) \in Nat /\ DOMAIN outcomes = 1..Len(outcomes)
            BY LenProperties DEF FileInv, TypeOK
        <3>1. Len(outcomes) = Cardinality(Mine)
            BY <2>1, <2>2, <3>0 DEF HooksInv
        <3>2. \A i \in DOMAIN outcomes : outcomes[i] # "Refused"
            BY <2>2, <3>0 DEF Refused, Contains
        <3> QED
            BY <2>1, <2>2, <3>1, <3>2 DEF HooksInv, Refused, Mine, BeyondHooks
    <2>3. CASE pc' \in {"answer", "over"}
        BY <2>1, <2>3, HooksUntouched DEF BeyondHooks
    <2> QED
        BY <1>4, <2>2, <2>3 DEF HooksDone
<1>5. CASE PreviewFails \/ Deny
    BY <1>5, HooksUntouched DEF PreviewFails, Deny, BeyondHooks
<1>6. ASSUME NEW e, Preview(e) PROVE HooksInv'
    BY <1>6, HooksUntouched DEF Preview, BeyondHooks
<1>7. ASSUME NEW ok, Checkpoint(ok) PROVE HooksInv'
    BY <1>7, HooksUntouched DEF Checkpoint, BeyondHooks
<1>8. ASSUME NEW always, Approve(always) PROVE HooksInv'
    BY <1>8, HooksUntouched DEF Approve, BeyondHooks
<1>9. ASSUME NEW r, Results(r) PROVE HooksInv'
    BY <1>9, HooksAnew DEF Results
<1>10. CASE RunRead \/ CannotCompute \/ Rename \/ CannotRename \/ CannotStart \/ CommandTimesOut
    BY <1>9, <1>10 DEF RunRead, CannotCompute, Rename, CannotRename, CannotStart, CommandTimesOut
<1>11. ASSUME NEW remains, CannotWrite(remains) PROVE HooksInv'
    BY <1>9, <1>11 DEF CannotWrite
<1>12. CASE CommandStep
    BY <1>9, <1>12 DEF CommandStep, CommandExits
<1>13. CASE Compute \/ WriteTemporary \/ StartCommand \/ Answer
    BY <1>13, HooksUntouched DEF Compute, WriteTemporary, StartCommand, Answer, BeyondHooks
<1>14. CASE Stop
    BY <1>14, HooksAnew DEF Stop
<1>15. ASSUME NEW f, NEW text, Edit(f, text) PROVE HooksInv'
    BY <1>15, HooksUntouched DEF Edit
<1>16. CASE Drop \/ Die
    BY <1>16, HooksUntouched DEF Drop, Die, BeyondHooks
<1> QED
    BY <1>1, <1>2, <1>3, <1>4, <1>5, <1>6, <1>7, <1>8, <1>10, <1>11, <1>12, <1>13, <1>14,
       <1>15, <1>16
    DEF Next, HookStep, AgentStep, PersonStep, GateStep, RunStep

(* The initial states have run no hook. *)
LEMMA HooksInit == Init => HooksInv
<1>1. DOMAIN <<>> = {} /\ Len(<<>>) = 0
    OBVIOUS
<1> QED
    BY <1>1 DEF Init, HooksInv, Refused, Contains, BeyondHooks

(* HookSet::run and execute: a call goes on when every pre-tool hook for    *)
(* its tool was heard and none refused, however broken they are, and it is  *)
(* stopped at the first refusal.                                            *)
THEOREM HooksDecideAsDocumented == Spec => []HooksDecide
<1>1. FileInv /\ HooksInv /\ [Next]_vars => HooksInv'
    <2>1. HooksInv /\ UNCHANGED vars => HooksInv'
        BY HooksUntouched DEF vars, agent
    <2> QED
        BY <2>1, HooksStep
<1>2. FileInv /\ HooksInv => HooksDecide
    <2> SUFFICES ASSUME FileInv, HooksInv PROVE HooksDecide
        OBVIOUS
    <2>1. DOMAIN outcomes = 1..Len(outcomes)
        BY LenProperties DEF FileInv, TypeOK
    <2>2. pc \in BeyondHooks => ~Refused
        BY <2>1 DEF HooksInv, Refused, Contains
    <2> QED
        BY <2>2 DEF HooksInv, HooksDecide, Mine
<1>3. Spec => []HooksInv
    BY <1>1, HooksInit, FileInvariant, PTL DEF Spec
<1> QED
    BY <1>2, <1>3, FileInvariant, PTL

-----------------------------------------------------------------------------
(* Theorems about the evidence. *)

(* Only a shell call that is a check adds evidence. *)
LEMMA ChecksOfResult ==
    ASSUME NEW r \in Requests \cup {Unknown}
    PROVE  /\ r.tool # "shell" => NewChecks(r) = {}
           /\ result.lines = <<>> => NewChecks(r) = {}
BY DEF NewChecks, ParseExitCode

(* A step that leaves the evidence alone, with nothing on its way to it     *)
(* before or after, keeps it what was watched.                              *)
LEMMA EvidenceUntouched ==
    ASSUME EvidenceInv, UNCHANGED <<checks, exits>>, pc' \in {"over", "dead"} \/ Pending' = Pending,
           pc \in {"over", "dead"} => pc' \in {"over", "dead"}
    PROVE  EvidenceInv'
BY DEF EvidenceInv, Plain, Watched

(* Every step keeps the evidence what was watched. *)
LEMMA EvidenceStep ==
    ASSUME FileInv, EvidenceInv, Next
    PROVE  EvidenceInv'
<1> USE DEF agent, evidence, files
<1>0. call \in Requests \cup {Unknown} /\ TypeOK /\ InOrder
    BY DEF FileInv, TypeOK
<1>1. ASSUME NEW r \in Requests, StartCall(r) PROVE EvidenceInv'
    BY <1>1, EvidenceUntouched DEF StartCall, Pending
<1>2. ASSUME NEW o, HookSays(o) PROVE EvidenceInv'
    BY <1>2, EvidenceUntouched DEF HookSays, Pending, NewChecks
<1>3. CASE HookStep \/ HookTimesOut
    BY <1>2, <1>3 DEF HookStep, HookExits, HookCannotStart, HookTimesOut
<1>4. CASE HooksDone
    BY <1>4, EvidenceUntouched DEF HooksDone, Pending, NewChecks
<1>5. CASE PreviewFails \/ Deny
    BY <1>0, <1>5, EvidenceUntouched DEF PreviewFails, Deny, Pending, InOrder, BeyondHooks
<1>6. ASSUME NEW e, Preview(e) PROVE EvidenceInv'
    BY <1>6, EvidenceUntouched DEF Preview, Pending
<1>7. ASSUME NEW ok, Checkpoint(ok) PROVE EvidenceInv'
    BY <1>7, EvidenceUntouched DEF Checkpoint, Pending
<1>8. ASSUME NEW always, Approve(always) PROVE EvidenceInv'
    BY <1>8, EvidenceUntouched DEF Approve, Pending
<1>9. CASE Compute \/ WriteTemporary \/ StartCommand
    BY <1>9, EvidenceUntouched DEF Compute, WriteTemporary, StartCommand, Pending
<1>10. ASSUME NEW r, Results(r), pc \in {"run", "temp", "rename", "child"},
              call.tool # "shell" \/ r.lines = <<>>, UNCHANGED <<checks, exits>>
       PROVE  EvidenceInv'
    <2>1. result' = r /\ UNCHANGED call
        BY <1>10 DEF Results
    <2>2. Pending' = {} /\ Pending = {}
        BY <1>10, <2>1 DEF Pending, NewChecks, ParseExitCode
    <2> QED
        BY <1>10, <2>2, EvidenceUntouched
<1>11. CASE RunRead \/ CannotCompute \/ Rename \/ CannotRename
    BY <1>10, <1>11 DEF RunRead, CannotCompute, Rename, CannotRename, NoResult, Failure, Success
<1>12. ASSUME NEW remains, CannotWrite(remains) PROVE EvidenceInv'
    BY <1>10, <1>12 DEF CannotWrite, Failure
<1>13. CASE CannotStart \/ CommandTimesOut
    <2>1. Results(Failure(ExitLinesIn[call.command])) /\ UNCHANGED <<checks, exits>>
        BY <1>13 DEF CannotStart, CommandTimesOut
    <2>2. result'.lines = ExitLinesIn[call.command] /\ UNCHANGED call /\ pc \notin {"hooks", "answer"}
        BY <1>13, <2>1 DEF Results, Failure, CannotStart, CommandTimesOut
    <2>3. Pending = {} /\ Plain(Pending') = {}
        BY <2>2 DEF Pending, Plain, NewChecks, ParseExitCode
    <2>4. pc \notin {"over", "dead"}
        BY <1>13 DEF CannotStart, CommandTimesOut
    <2> QED
        BY <2>1, <2>3, <2>4 DEF EvidenceInv, Plain, Watched
<1>14. ASSUME NEW code \in ExitCodes, CommandExits(code) PROVE EvidenceInv'
    <2> DEFINE new == [command |-> call.command, code |-> code]
    <2>0. /\ pc = "child" /\ UNCHANGED <<checks, call>> /\ exits' = exits \cup {new}
          /\ result'.lines = Append(ExitLinesIn[call.command], code)
          /\ event' = "post-tool" /\ pc' = "hooks"
        BY <1>14 DEF CommandExits, Results, Success, Rendered
    <2>1. call.tool = "shell" /\ Pending = {}
        BY <1>0, <2>0 DEF InOrder, Pending
    <2>2. ASSUME ExitLinesIn[call.command] = <<>> PROVE ParseExitCode(result'.lines) = {code}
        <3>1. result'.lines = <<code>>
            BY <2>0, <2>2
        <3>2. code # Garbled
            BY OutputAssumption DEF ExitCodes, REFUSE
        <3> QED
            BY <3>1, <3>2 DEF ParseExitCode
    <2>3. Pending' = NewChecks(call)'
        BY <2>0 DEF Pending
    <2>4. Plain(Pending') = {k \in Plain({new}) : CheckOf[k.command] # "other"}
        <3>1. CASE ExitLinesIn[call.command] = <<>> /\ CheckOf[call.command] # "other"
            BY <2>0, <2>1, <2>2, <2>3, <3>1 DEF NewChecks, Plain
        <3>2. CASE ExitLinesIn[call.command] # <<>>
            BY <2>0, <2>3, <3>2 DEF NewChecks, Plain
        <3>3. CASE CheckOf[call.command] = "other"
            BY <2>0, <2>3, <3>3 DEF NewChecks, Plain
        <3> QED
            BY <3>1, <3>2, <3>3
    <2>5. Plain(checks) = Watched
        BY <2>0, <2>1 DEF EvidenceInv
    <2>6. Watched' = Watched \cup Plain(Pending')
        BY <2>0, <2>4 DEF Watched, Plain
    <2>7. Plain(checks' \cup Pending') = Plain(checks) \cup Plain(Pending')
        BY <2>0 DEF Plain
    <2>8. Plain(checks') = Plain(checks)
        BY <2>0 DEF Plain
    <2>9. Plain(checks') \subseteq Watched' /\ Plain(checks' \cup Pending') = Watched'
        BY <2>5, <2>6, <2>7, <2>8
    <2> QED
        BY <2>9 DEF EvidenceInv, Plain, Watched
<1>15. CASE Answer
    <2>1. /\ pc = "answer" /\ pc' = "idle" /\ checks' = checks \cup Pending
          /\ Pending' = {} /\ UNCHANGED exits
        BY <1>15 DEF Answer, Pending
    <2> QED
        BY <2>1 DEF EvidenceInv, Plain, Watched
<1>16. CASE Stop
    BY <1>0, <1>16, EvidenceUntouched DEF Stop, Pending
<1>17. ASSUME NEW f, NEW text, Edit(f, text) PROVE EvidenceInv'
    BY <1>17, EvidenceUntouched DEF Edit, Pending, NewChecks
<1>18. CASE Drop \/ Die
    BY <1>18, EvidenceUntouched DEF Drop, Die
<1> QED
    BY <1>1, <1>3, <1>4, <1>5, <1>6, <1>7, <1>8, <1>9, <1>11, <1>12, <1>13, <1>14, <1>15,
       <1>16, <1>17, <1>18
    DEF Next, AgentStep, CommandStep, PersonStep, GateStep, RunStep

(* record_check and parse_exit_code: for commands whose own text has no     *)
(* line that reads like an exit code, the evidence is exactly what the      *)
(* harness watched.                                                         *)
THEOREM EvidenceWasWatched == Spec => []EvidenceIsWatched
<1>1. Init => EvidenceInv
    BY DEF Init, EvidenceInv, Plain, Watched, Pending
<1>2. FileInv /\ EvidenceInv /\ [Next]_vars => EvidenceInv'
    <2>1. EvidenceInv /\ UNCHANGED vars => EvidenceInv'
        BY EvidenceUntouched DEF vars, agent, evidence, Pending, NewChecks
    <2> QED
        BY <2>1, EvidenceStep
<1>3. EvidenceInv => EvidenceIsWatched
    <2> SUFFICES ASSUME EvidenceInv PROVE EvidenceIsWatched
        OBVIOUS
    <2>1. pc = "idle" => Pending = {}
        BY DEF Pending
    <2> QED
        BY <2>1 DEF EvidenceInv, EvidenceIsWatched, Plain, Watched
<1> QED
    BY <1>1, <1>2, <1>3, FileInvariant, PTL DEF Spec

-----------------------------------------------------------------------------
(* Walking through a file system. *)

(* What is there and is not a link: where a walk can end. *)
Real(t) == {p \in DOMAIN t : ~IsLink(t, p)}

(* What a recursion over 0..n starts from and does at each number. *)
Recursion(D, n, b, F) == n \in Nat /\ b \in D /\ F \in [1..n -> [D -> D]]

(* A function over 0..n that is defined from its value before exists. *)
LEMMA RecursionExists ==
    ASSUME NEW D, NEW n, NEW b, NEW F, Recursion(D, n, b, F)
    PROVE  \E g \in [0..n -> D] : g[0] = b /\ \A k \in 1..n : g[k] = F[k][g[k - 1]]
<1> DEFINE IsIt(m, g) == g = [k \in 0..m |-> IF k = 0 THEN b ELSE F[k][g[k - 1]]]
           T == {m \in 0..n : \E g \in [0..m -> D] : IsIt(m, g)}
<1> USE DEF Recursion
<1>1. 0 \in T
    <2> DEFINE g == [k \in 0..0 |-> b]
    <2>1. g \in [0..0 -> D] /\ IsIt(0, g)
        OBVIOUS
    <2> HIDE DEF IsIt, g
    <2> QED
        BY <2>1
<1>2. ASSUME NEW m \in 0..(n - 1), m \in T PROVE m + 1 \in T
    <2>0. m \in Nat /\ m + 1 \in 1..n /\ m + 1 \in 0..n
        OBVIOUS
    <2>1. PICK g \in [0..m -> D] : IsIt(m, g)
        BY <1>2
    <2> DEFINE h == [k \in 0..(m + 1) |-> IF k = m + 1 THEN F[m + 1][g[m]] ELSE g[k]]
    <2>2. h \in [0..(m + 1) -> D]
        BY <2>0
    <2>3. ASSUME NEW k \in 0..(m + 1) PROVE h[k] = IF k = 0 THEN b ELSE F[k][h[k - 1]]
        <3>1. CASE k = m + 1
            <4>1. k # 0 /\ k - 1 = m /\ m \in 0..(m + 1) /\ m # m + 1
                BY <3>1, <2>0
            <4>2. h[k] = F[m + 1][g[m]] /\ h[m] = g[m]
                BY <3>1, <4>1
            <4> QED
                BY <3>1, <4>1, <4>2
        <3>2. CASE k # m + 1
            <4>1. k \in 0..m /\ h[k] = g[k]
                BY <3>2, <2>0
            <4>2. g[k] = IF k = 0 THEN b ELSE F[k][g[k - 1]]
                BY <2>1, <4>1
            <4>3. k # 0 => k - 1 \in 0..(m + 1) /\ k - 1 # m + 1
                BY <4>1, <2>0
            <4>4. k # 0 => h[k - 1] = g[k - 1]
                BY <4>3
            <4> QED
                BY <4>1, <4>2, <4>4
        <3> QED
            BY <3>1, <3>2
    <2>4. IsIt(m + 1, h)
        <3>1. h = [k \in 0..(m + 1) |-> h[k]]
            OBVIOUS
        <3> HIDE DEF h
        <3> QED
            BY <3>1, <2>3
    <2> HIDE DEF IsIt, h
    <2> QED
        BY <2>0, <2>2, <2>4
<1>3. n \in T
    <2>1. T \in SUBSET Nat
        OBVIOUS
    <2> HIDE DEF T
    <2>2. 0..n \subseteq T
        BY <1>1, <1>2, <2>1, UpTo
    <2> QED
        BY <2>2
<1>4. PICK g \in [0..n -> D] : IsIt(n, g)
    BY <1>3
<1>5. \A k \in 1..n : k \in 0..n /\ k # 0
    OBVIOUS
<1> QED
    BY <1>4, <1>5

(* A sequence of names begins with itself, and what a place begins with is  *)
(* a place.                                                                 *)
LEMMA PrefixFacts ==
    ASSUME NEW p \in TreePlaces
    PROVE  /\ IsPrefix(p, p)
           /\ Len(p) \in Nat
           /\ SubSeq(p, 1, Len(p)) = p
           /\ \A k \in 0..Len(p) :
                  /\ SubSeq(p, 1, k) \in TreePlaces
                  /\ Len(SubSeq(p, 1, k)) = k
                  /\ \A i \in 1..k : SubSeq(p, 1, k)[i] = p[i]
           /\ p # Nowhere
<1> DEFINE Name == STRING \ {".", ".."}
<1>1. p \in Seq(Name)
    BY DEF TreePlaces
<1>2. Len(p) \in Nat /\ SubSeq(p, 1, Len(p)) = p
    BY <1>1, LenProperties, SubSeqProperties
<1>3. ASSUME NEW k \in 0..Len(p)
      PROVE  /\ SubSeq(p, 1, k) \in TreePlaces
             /\ Len(SubSeq(p, 1, k)) = k
             /\ \A i \in 1..k : SubSeq(p, 1, k)[i] = p[i]
    <2> HIDE DEF Name
    <2>1. SubSeq(p, 1, k) = [i \in 1..k |-> p[i]]
        BY <1>1, <1>2
    <2>2. \A i \in 1..k : p[i] \in Name
        BY <1>1, <1>2
    <2>3. SubSeq(p, 1, k) \in Seq(Name)
        BY <1>2, <2>1, <2>2
    <2> QED
        BY <1>2, <2>1, <2>3 DEF TreePlaces, Name
<1>4. p # Nowhere
    <2> SUFFICES ASSUME p = Nowhere PROVE FALSE
        OBVIOUS
    <2>1. Len(p) = 1 /\ p[1] = ".."
        BY DEF Nowhere
    <2>2. p[1] \in Name
        BY <1>1, <2>1
    <2> QED
        BY <2>1, <2>2
<1> QED
    BY <1>2, <1>3, <1>4 DEF IsPrefix

(* The top is there, and nowhere is not. *)
LEMMA Ends ==
    ASSUME NEW t, FileSystem(t)
    PROVE  /\ <<>> \in Real(t)
           /\ Root \in Real(t)
           /\ Nowhere \notin DOMAIN t
           /\ Nowhere \notin Real(t)
<1>1. Nowhere \notin DOMAIN t
    BY PrefixFacts DEF FileSystem
<1> QED
    BY <1>1 DEF FileSystem, IsDir, IsLink, Real

(* A step of a walk ends at what is there, or nowhere. *)
LEMMA StepIsReal ==
    ASSUME NEW t, FileSystem(t), NEW at \in Real(t) \cup {Nowhere}, NEW c
    PROVE  /\ StepInto(t, at, c) \in Real(t) \cup {Nowhere}
           /\ at = Nowhere => StepInto(t, at, c) = Nowhere
<1>1. Nowhere \notin DOMAIN t
    BY Ends
<1>2. \A p : IsDir(t, p) => p \in Real(t)
    BY DEF IsDir, IsLink, Real
<1>3. ASSUME NEW next, IsLink(t, next), t[next].to \in DOMAIN t
      PROVE  t[next].to \in Real(t)
    <2>1. IsPrefix(t[next].to, t[next].to)
        BY <1>3, PrefixFacts DEF FileSystem
    <2>2. ~IsLink(t, t[next].to)
        BY <1>3, <2>1 DEF FileSystem, Straight, IsLink
    <2> QED
        BY <1>3, <2>2 DEF Real
<1>4. at \in DOMAIN t /\ at # <<>> => Front(at) \in Real(t)
    BY <1>2 DEF FileSystem
<1>5. IsDir(t, at) => at \in DOMAIN t
    BY DEF IsDir
<1>6. \A p \in DOMAIN t : ~IsLink(t, p) => p \in Real(t)
    BY DEF Real
<1> QED
    BY <1>1, <1>2, <1>3, <1>4, <1>5, <1>6, Ends DEF StepInto, Real

(* A walk starts at the top and goes on step by step; each place on it is   *)
(* there, until it leads nowhere.                                           *)
LEMMA WalkFacts ==
    ASSUME NEW t, FileSystem(t), NEW S, NEW parts \in Seq(S)
    PROVE  /\ Len(parts) \in Nat
           /\ Walked(t, parts)[0] = <<>>
           /\ \A k \in 0..Len(parts) : Walked(t, parts)[k] \in Real(t) \cup {Nowhere}
           /\ \A k \in 1..Len(parts) :
                  Walked(t, parts)[k] = StepInto(t, Walked(t, parts)[k - 1], parts[k])
<1> DEFINE n == Len(parts)
           D == Real(t) \cup {Nowhere}
           IsWalk(g) == g = [k \in 0..n |-> IF k = 0 THEN <<>> ELSE StepInto(t, g[k - 1], parts[k])]
           w == CHOOSE g : IsWalk(g)
<1>0. n \in Nat
    BY LenProperties
<1>1. \A at \in D : \A c : StepInto(t, at, c) \in D
    BY StepIsReal
<1>2. \E g : IsWalk(g)
    <2> DEFINE F == [k \in 1..n |-> [at \in D |-> StepInto(t, at, parts[k])]]
    <2> HIDE DEF D
    <2>1. F \in [1..n -> [D -> D]]
        BY <1>0, <1>1
    <2>2. <<>> \in D
        BY Ends DEF D
    <2>3. PICK g \in [0..n -> D] : g[0] = <<>> /\ \A k \in 1..n : g[k] = F[k][g[k - 1]]
        <3> HIDE DEF F
        <3>1. Recursion(D, n, <<>>, F)
            BY <1>0, <2>1, <2>2 DEF Recursion
        <3> QED
            BY <3>1, RecursionExists
    <2>4. \A k \in 1..n : k - 1 \in 0..n /\ k # 0
        BY <1>0
    <2>5. \A k \in 1..n : F[k][g[k - 1]] = StepInto(t, g[k - 1], parts[k])
        BY <2>4
    <2>6. \A k \in 0..n : k = 0 \/ k \in 1..n
        BY <1>0
    <2>7. IsWalk(g)
        <3> HIDE DEF F
        <3>1. g = [k \in 0..n |-> g[k]]
            BY <2>3
        <3>2. \A k \in 0..n : g[k] = IF k = 0 THEN <<>> ELSE StepInto(t, g[k - 1], parts[k])
            BY <2>3, <2>4, <2>5, <2>6
        <3> QED
            BY <3>1, <3>2
    <2> QED
        BY <2>7
<1>3. IsWalk(w)
    BY <1>2
<1>4. Walked(t, parts) = w
    BY DEF Walked
<1> HIDE DEF w
<1>5. w[0] = <<>> /\ \A k \in 1..n : w[k] = StepInto(t, w[k - 1], parts[k])
    BY <1>0, <1>3
<1>6. \A k \in 0..n : w[k] \in D
    <2> DEFINE T == {k \in 0..n : w[k] \in D}
    <2>1. 0 \in T
        BY <1>0, <1>5, Ends
    <2>2. ASSUME NEW k \in 0..(n - 1), k \in T PROVE k + 1 \in T
        <3>1. k + 1 \in 1..n /\ k + 1 \in 0..n /\ (k + 1) - 1 = k
            BY <1>0
        <3>2. w[k + 1] = StepInto(t, w[k], parts[k + 1])
            BY <1>5, <3>1
        <3> HIDE DEF D
        <3> QED
            BY <1>0, <1>1, <2>2, <3>1, <3>2
    <2>3. T \in SUBSET Nat
        OBVIOUS
    <2>4. 0..n \subseteq T
        <3> HIDE DEF T
        <3> QED
            BY <1>0, <2>1, <2>2, <2>3, UpTo
    <2> QED
        BY <2>4
<1> QED
    BY <1>0, <1>4, <1>5, <1>6

(* The directory of the first k names of a place holds the first k names    *)
(* less one.                                                                *)
LEMMA FrontOfPrefix ==
    ASSUME NEW d \in TreePlaces, NEW k \in 1..Len(d)
    PROVE  /\ Front(SubSeq(d, 1, k)) = SubSeq(d, 1, k - 1)
           /\ Append(SubSeq(d, 1, k - 1), d[k]) = SubSeq(d, 1, k)
           /\ SubSeq(d, 1, k) # <<>>
           /\ IsName(d[k]) /\ d[k] \in STRING
<1> DEFINE Name == STRING \ {".", ".."}
<1>1. d \in Seq(Name)
    BY DEF TreePlaces
<1>2. Len(d) \in Nat /\ k \in Nat /\ k - 1 \in Nat
    BY <1>1, LenProperties
<1>3. SubSeq(d, 1, k) = [i \in 1..k |-> d[i]] /\ SubSeq(d, 1, k - 1) = [i \in 1..(k - 1) |-> d[i]]
    BY <1>1, <1>2
<1>4. SubSeq(d, 1, k) \in Seq(Name) /\ Len(SubSeq(d, 1, k)) = k
    BY PrefixFacts, <1>2 DEF TreePlaces
<1>5. SubSeq(d, 1, k - 1) \in Seq(Name) /\ Len(SubSeq(d, 1, k - 1)) = k - 1
    BY PrefixFacts, <1>2 DEF TreePlaces
<1>6. d[k] \in Name
    BY <1>1, <1>2
<1>7. Front(SubSeq(d, 1, k)) = [i \in 1..(k - 1) |-> SubSeq(d, 1, k)[i]]
    <2> HIDE DEF Name
    <2> QED
        BY <1>2, <1>4 DEF Front
<1>8. Front(SubSeq(d, 1, k)) = SubSeq(d, 1, k - 1)
    BY <1>2, <1>3, <1>7
<1>9. Append(SubSeq(d, 1, k - 1), d[k]) = SubSeq(d, 1, k)
    <2> DEFINE a == SubSeq(d, 1, k - 1)
    <2>1. Append(a, d[k]) = [i \in 1..(k - 1 + 1) |-> IF i = k - 1 + 1 THEN d[k] ELSE a[i]]
        BY <1>5, <1>6
    <2>2. \A i \in 1..k : (IF i = k THEN d[k] ELSE a[i]) = d[i]
        BY <1>2, <1>3
    <2> HIDE DEF a
    <2>3. Append(a, d[k]) = [i \in 1..k |-> d[i]]
        BY <1>2, <2>1, <2>2
    <2> QED
        BY <1>3, <2>3 DEF a
<1>10. SubSeq(d, 1, k) # <<>>
    BY <1>2, <1>4
<1>11. IsName(d[k]) /\ d[k] \in STRING
    BY <1>6 DEF IsName
<1> QED
    BY <1>8, <1>9, <1>10, <1>11

(* What a place begins with is a directory. *)
LEMMA PrefixesAreDirs ==
    ASSUME NEW t, FileSystem(t), NEW d \in TreePlaces, NEW j \in 0..Len(d),
           SubSeq(d, 1, j) \in DOMAIN t
    PROVE  \A k \in 0..(j - 1) : IsDir(t, SubSeq(d, 1, k))
<1>0. Len(d) \in Nat /\ j \in Nat
    BY PrefixFacts
<1>1. ASSUME NEW k \in 1..j, SubSeq(d, 1, k) \in DOMAIN t
      PROVE  IsDir(t, SubSeq(d, 1, k - 1))
    <2>1. k \in 1..Len(d)
        BY <1>0
    <2> QED
        BY <1>1, <2>1, FrontOfPrefix DEF FileSystem
<1>2. \A p : IsDir(t, p) => p \in DOMAIN t
    BY DEF IsDir
<1> DEFINE T == {i \in 0..j : SubSeq(d, 1, j - i) \in DOMAIN t}
<1>3. 0 \in T
    BY <1>0
<1>4. ASSUME NEW i \in 0..(j - 1), i \in T PROVE i + 1 \in T
    <2>1. i + 1 \in 0..j /\ j - i \in 1..j /\ (j - i) - 1 = j - (i + 1)
        BY <1>0
    <2>2. SubSeq(d, 1, (j - i) - 1) \in DOMAIN t
        BY <1>1, <1>2, <1>4, <2>1
    <2> QED
        BY <2>1, <2>2
<1>5. T \in SUBSET Nat
    OBVIOUS
<1>6. 0..j \subseteq T
    <2> HIDE DEF T
    <2> QED
        BY <1>0, <1>3, <1>4, <1>5, UpTo
<1>7. ASSUME NEW k \in 0..(j - 1) PROVE IsDir(t, SubSeq(d, 1, k))
    <2>1. k + 1 \in 1..j /\ j - (k + 1) \in 0..j /\ j - (j - (k + 1)) = k + 1 /\ (k + 1) - 1 = k
        BY <1>0
    <2>2. j - (k + 1) \in T
        <3> HIDE DEF T
        <3> QED
            BY <1>6, <2>1
    <2>3. SubSeq(d, 1, k + 1) \in DOMAIN t
        BY <2>1, <2>2
    <2> QED
        BY <1>1, <2>1, <2>3
<1> QED
    BY <1>7

(* A place is a path of names. *)
LEMMA PlacesArePaths ==
    ASSUME NEW d \in TreePlaces
    PROVE  d \in Seq(STRING) /\ Len(d) \in Nat
<1>1. Len(d) \in Nat /\ d = [i \in 1..Len(d) |-> d[i]] /\ \A i \in 1..Len(d) : d[i] \in STRING
    BY LenProperties, ElementOfSeq DEF TreePlaces
<1> QED
    BY <1>1

(* The walk along a place that is there meets nothing but that place. *)
LEMMA WalksToItself ==
    ASSUME NEW t, FileSystem(t), NEW d \in TreePlaces, NEW j \in 0..Len(d),
           SubSeq(d, 1, j) \in Real(t)
    PROVE  Walked(t, d)[j] = SubSeq(d, 1, j)
<1>0. Len(d) \in Nat /\ d \in Seq(STRING) /\ j \in Nat
    BY PlacesArePaths
<1>w. /\ Walked(t, d)[0] = <<>>
      /\ \A k \in 1..Len(d) : Walked(t, d)[k] = StepInto(t, Walked(t, d)[k - 1], d[k])
    BY <1>0, WalkFacts
<1>1. \A k \in 0..(j - 1) : IsDir(t, SubSeq(d, 1, k))
    BY PrefixesAreDirs DEF Real
<1>2. \A k \in 0..j : SubSeq(d, 1, k) \in Real(t)
    <2>1. \A p : IsDir(t, p) => p \in Real(t)
        BY DEF IsDir, IsLink, Real
    <2>2. \A k \in 0..j : k \in 0..(j - 1) \/ k = j
        BY <1>0
    <2> QED
        BY <1>1, <2>1, <2>2
<1> DEFINE T == {k \in 0..j : Walked(t, d)[k] = SubSeq(d, 1, k)}
<1>3. 0 \in T
    <2>1. SubSeq(d, 1, 0) = <<>>
        BY <1>0
    <2> QED
        BY <1>0, <2>1, <1>w, 0 \in 0..j
<1>4. ASSUME NEW k \in 0..(j - 1), k \in T PROVE k + 1 \in T
    <2>1. k + 1 \in 1..Len(d) /\ (k + 1) - 1 = k /\ k + 1 \in 0..j
        BY <1>0
    <2>2. Walked(t, d)[k + 1] = StepInto(t, SubSeq(d, 1, k), d[k + 1])
        BY <1>4, <2>1, <1>w
    <2>3. /\ Append(SubSeq(d, 1, k), d[k + 1]) = SubSeq(d, 1, k + 1)
          /\ d[k + 1] # "." /\ d[k + 1] # ".."
        BY <2>1, FrontOfPrefix DEF IsName
    <2>4. IsDir(t, SubSeq(d, 1, k)) /\ SubSeq(d, 1, k + 1) \in Real(t) /\ SubSeq(d, 1, k) # Nowhere
        <3>1. k \in 0..(j - 1) /\ k \in 0..j /\ k + 1 \in 0..j
            BY <1>0
        <3>2. IsDir(t, SubSeq(d, 1, k)) /\ SubSeq(d, 1, k + 1) \in Real(t) /\ SubSeq(d, 1, k) \in Real(t)
            BY <3>1, <1>1, <1>2
        <3> QED
            BY <3>2, Ends
    <2>5. StepInto(t, SubSeq(d, 1, k), d[k + 1]) = SubSeq(d, 1, k + 1)
        BY <2>3, <2>4 DEF StepInto, Real
    <2> QED
        BY <2>1, <2>2, <2>5
<1>5. T \in SUBSET Nat
    OBVIOUS
<1>6. 0..j \subseteq T
    <2> HIDE DEF T
    <2> QED
        BY <1>0, <1>3, <1>4, <1>5, UpTo
<1>7. j \in T
    <2> HIDE DEF T
    <2> QED
        BY <1>0, <1>6
<1> QED
    BY <1>7

(* The system resolves a place that is there to itself. *)
LEMMA RealIsCanonical ==
    ASSUME NEW t, FileSystem(t), NEW p \in Real(t)
    PROVE  Canonical(t, p) = p /\ p \in TreePlaces
<1>1. p \in TreePlaces
    BY DEF FileSystem, Real
<1>2. Len(p) \in 0..Len(p) /\ SubSeq(p, 1, Len(p)) = p
    BY <1>1, PrefixFacts
<1> QED
    BY <1>1, <1>2, WalksToItself DEF Canonical

(* A walk along a place comes to a point where it cannot go on. *)
Blocked(t, d) ==
    \E j \in 1..Len(d) :
        /\ SubSeq(d, 1, j - 1) \in Real(t)
        /\ StepInto(t, SubSeq(d, 1, j - 1), d[j]) = Nowhere

(* Once nowhere, a walk stays there. *)
LEMMA BlockedIsNowhere ==
    ASSUME NEW t, FileSystem(t), NEW d \in TreePlaces, Blocked(t, d)
    PROVE  Canonical(t, d) = Nowhere
<1>0. Len(d) \in Nat /\ d \in Seq(STRING)
    BY PlacesArePaths
<1>1. PICK j \in 1..Len(d) : /\ SubSeq(d, 1, j - 1) \in Real(t)
                            /\ StepInto(t, SubSeq(d, 1, j - 1), d[j]) = Nowhere
    BY DEF Blocked
<1>2. j \in Nat /\ j - 1 \in 0..Len(d) /\ Len(d) - j \in Nat
    BY <1>0
<1>w. /\ Walked(t, d)[0] = <<>>
      /\ \A k \in 1..Len(d) : Walked(t, d)[k] = StepInto(t, Walked(t, d)[k - 1], d[k])
    BY <1>0, WalkFacts
<1>3. Walked(t, d)[j] = Nowhere
    <2>1. Walked(t, d)[j - 1] = SubSeq(d, 1, j - 1)
        BY <1>1, <1>2, WalksToItself
    <2> QED
        BY <1>w, <1>1, <2>1
<1> DEFINE T == {i \in 0..(Len(d) - j) : Walked(t, d)[j + i] = Nowhere}
<1>4. 0 \in T
    BY <1>2, <1>3
<1>5. ASSUME NEW i \in 0..((Len(d) - j) - 1), i \in T PROVE i + 1 \in T
    <2>1. /\ j + (i + 1) \in 1..Len(d) /\ (j + (i + 1)) - 1 = j + i
          /\ i + 1 \in 0..(Len(d) - j)
        BY <1>0, <1>2
    <2>2. Walked(t, d)[j + (i + 1)] = StepInto(t, Nowhere, d[j + (i + 1)])
        BY <1>w, <1>5, <2>1
    <2>3. StepInto(t, Nowhere, d[j + (i + 1)]) = Nowhere
        BY DEF StepInto
    <2> QED
        BY <2>1, <2>2, <2>3
<1>6. T \in SUBSET Nat
    OBVIOUS
<1>7. 0..(Len(d) - j) \subseteq T
    <2> HIDE DEF T
    <2> QED
        BY <1>2, <1>4, <1>5, <1>6, UpTo
<1>8. Len(d) - j \in T
    <2> HIDE DEF T
    <2> QED
        BY <1>2, <1>7
<1>9. j + (Len(d) - j) = Len(d)
    BY <1>0, <1>2
<1> QED
    BY <1>8, <1>9 DEF Canonical

(* A longer place is blocked where its beginning is. *)
LEMMA BlockedExtends ==
    ASSUME NEW t, NEW d \in TreePlaces, NEW e \in TreePlaces, Blocked(t, d),
           Len(d) <= Len(e), \A i \in 1..Len(d) : e[i] = d[i]
    PROVE  Blocked(t, e)
<1>0. Len(d) \in Nat /\ Len(e) \in Nat
    BY PlacesArePaths
<1>1. PICK j \in 1..Len(d) : /\ SubSeq(d, 1, j - 1) \in Real(t)
                            /\ StepInto(t, SubSeq(d, 1, j - 1), d[j]) = Nowhere
    BY DEF Blocked
<1>2. j \in 1..Len(e) /\ e[j] = d[j] /\ j - 1 \in 0..Len(d) /\ j - 1 \in 0..Len(e)
    BY <1>0
<1>3. SubSeq(e, 1, j - 1) = SubSeq(d, 1, j - 1)
    <2>1. d \in Seq(STRING) /\ e \in Seq(STRING)
        BY PlacesArePaths
    <2>2. SubSeq(d, 1, j - 1) = [i \in 1..(j - 1) |-> d[i]]
        BY <1>0, <1>2, <2>1
    <2>3. SubSeq(e, 1, j - 1) = [i \in 1..(j - 1) |-> e[i]]
        BY <1>0, <1>2, <2>1
    <2>4. \A i \in 1..(j - 1) : e[i] = d[i]
        BY <1>0, <1>2
    <2> QED
        BY <2>2, <2>3, <2>4
<1> QED
    BY <1>1, <1>2, <1>3 DEF Blocked

(* A name behind a place is a place. *)
LEMMA AppendPlace ==
    ASSUME NEW d \in TreePlaces, NEW c \in STRING, IsName(c)
    PROVE  /\ Append(d, c) \in TreePlaces
           /\ Len(Append(d, c)) = Len(d) + 1
           /\ Append(d, c)[Len(d) + 1] = c
           /\ \A i \in 1..Len(d) : Append(d, c)[i] = d[i]
           /\ SubSeq(Append(d, c), 1, Len(d)) = d
           /\ Front(Append(d, c)) = d
           /\ Append(d, c) # <<>>
<1> DEFINE Name == STRING \ {".", ".."}
           e == Append(d, c)
<1>1. d \in Seq(Name) /\ c \in Name
    BY DEF TreePlaces, IsName
<1> HIDE DEF Name
<1>2. /\ e \in Seq(Name)
      /\ Len(e) = Len(d) + 1
      /\ e[Len(d) + 1] = c
      /\ \A i \in 1..Len(d) : e[i] = d[i]
    <2>0. Len(d) \in Nat
        BY <1>1
    <2>1. e \in Seq(Name)
        BY <1>1, AppendProperties, Zenon
    <2>2. Len(e) = Len(d) + 1
        BY <1>1
    <2>3. e[Len(d) + 1] = c
        BY <1>1, AppendProperties, Zenon
    <2>4. \A i \in 1..Len(d) : e[i] = d[i]
        BY <1>1
    <2> QED
        BY <2>1, <2>2, <2>3, <2>4
<1>3. e \in TreePlaces
    BY <1>2 DEF TreePlaces, Name
<1>4. Len(d) \in Nat /\ Len(d) \in 0..Len(e)
    BY <1>1, <1>2
<1> HIDE DEF e
<1>5. SubSeq(e, 1, Len(d)) = d
    <2>1. SubSeq(e, 1, Len(d)) = [i \in 1..Len(d) |-> e[i]]
        BY <1>2, <1>4
    <2>2. d = [i \in 1..Len(d) |-> d[i]]
        BY <1>1
    <2> QED
        BY <1>2, <2>1, <2>2
<1>6. Front(e) = d
    BY <1>2, <1>4, <1>5 DEF Front
<1>7. e # <<>>
    BY <1>2, <1>4
<1> QED
    BY <1>2, <1>3, <1>5, <1>6, <1>7 DEF e

(* Where a walk that has come somewhere cannot go on, the place it would go *)
(* on to is blocked; a dot does not go on from what is not a directory.     *)
LEMMA StopsThere ==
    ASSUME NEW t, FileSystem(t), NEW at \in Real(t), NEW c \in STRING,
           StepInto(t, at, c) = Nowhere
    PROVE  IF IsName(c) THEN Blocked(t, Append(at, c)) ELSE ~IsDir(t, at)
<1>1. at \in TreePlaces
    BY RealIsCanonical
<1>2. CASE IsName(c)
    <2>1. /\ Len(at) \in Nat
          /\ Len(Append(at, c)) = Len(at) + 1
          /\ Append(at, c)[Len(at) + 1] = c
          /\ SubSeq(Append(at, c), 1, Len(at)) = at
        BY <1>1, <1>2, AppendPlace, PlacesArePaths
    <2>2. Len(at) + 1 \in 1..Len(Append(at, c)) /\ (Len(at) + 1) - 1 = Len(at)
        BY <2>1
    <2> HIDE DEF Blocked
    <2>3. SubSeq(Append(at, c), 1, (Len(at) + 1) - 1) = at
        BY <2>1, <2>2
    <2> QED
        BY <1>2, <2>1, <2>2, <2>3 DEF Blocked
<1>3. CASE ~IsName(c)
    <2> SUFFICES ASSUME IsDir(t, at) PROVE FALSE
        BY <1>3
    <2>1. at # Nowhere
        BY Ends
    <2>2. CASE c = "."
        BY <2>1, <2>2 DEF StepInto
    <2>3. CASE c = ".."
        <3>1. at = <<>> \/ Front(at) \in Real(t)
            BY DEF FileSystem, Real, IsDir, IsLink
        <3>2. Front(at) # Nowhere \/ at = <<>>
            BY <3>1, Ends
        <3>3. c # "."
            BY <2>3
        <3> QED
            BY <2>1, <2>3, <3>2, <3>3 DEF StepInto
    <2> QED
        BY <1>3, <2>2, <2>3 DEF IsName
<1> QED
    BY <1>2, <1>3

-----------------------------------------------------------------------------
(* What becomes of the path of a call. *)

(* The path of a call, made absolute, is a path. *)
LEMMA JoinedIsPath ==
    ASSUME NEW path \in Paths
    PROVE  /\ Joined(path) \in Seq(STRING)
           /\ path.parts = <<>> => Joined(path) \in {<<>>, Root}
<1>1. path.parts \in Seq(STRING) /\ path.absolute \in BOOLEAN
    BY PathsAssumption
<1>2. Root \in Seq(STRING)
    BY TreesAssumption, PlacesArePaths
<1>3. Root \o path.parts \in Seq(STRING)
    BY <1>1, <1>2
<1>4. path.parts = <<>> => Root \o path.parts = Root
    BY <1>2
<1> QED
    BY <1>1, <1>3, <1>4 DEF Joined

(* A sequence of some is a sequence of more. *)
LEMMA SeqOfMore ==
    ASSUME NEW A, NEW B, A \subseteq B, NEW s \in Seq(A)
    PROVE  s \in Seq(B)
<1>1. Len(s) \in Nat /\ s = [i \in 1..Len(s) |-> s[i]] /\ \A i \in 1..Len(s) : s[i] \in A
    BY LenProperties, ElementOfSeq
<1> QED
    BY <1>1

(* The whole path of a call is the path, and a dot if it ends in a          *)
(* separator; the dot goes on from a directory only, and stays there.       *)
LEMMA WholeFacts ==
    ASSUME NEW t, FileSystem(t), NEW path \in Paths
    PROVE  LET parts == Joined(path)
               end == Walked(t, parts)[Len(parts)]
           IN
           /\ ~path.slash => Whole(path) = parts
           /\ Canonical(t, Whole(path)) \in Real(t) \cup {Nowhere}
           /\ Canonical(t, Whole(path)) =
                  IF path.slash /\ ~IsDir(t, end) THEN Nowhere ELSE end
<1> DEFINE parts == Joined(path)
           n == Len(parts)
           w == Walked(t, parts)
<1>1. parts \in Seq(STRING) /\ n \in Nat
    BY JoinedIsPath, LenProperties
<1>2. /\ w[0] = <<>>
      /\ \A k \in 0..n : w[k] \in Real(t) \cup {Nowhere}
      /\ \A k \in 1..n : w[k] = StepInto(t, w[k - 1], parts[k])
    BY <1>1, WalkFacts
<1>3. n \in 0..n
    BY <1>1
<1>4. CASE ~path.slash
    <2>1. Whole(path) = parts
        BY <1>1, <1>4 DEF Whole
    <2> QED
        BY <1>2, <1>3, <1>4, <2>1 DEF Canonical
<1>5. CASE path.slash
    <2> DEFINE whole == Whole(path)
               v == Walked(t, whole)
    <2>1. whole = parts \o <<".">>
        BY <1>5 DEF Whole
    <2> DEFINE S == STRING \cup {"."}
    <2>2. /\ whole \in Seq(S) /\ Len(whole) = n + 1 /\ whole[n + 1] = "."
          /\ \A k \in 1..n : whole[k] = parts[k]
        <3>1. <<".">> \in Seq(S) /\ Len(<<".">>) = 1 /\ <<".">>[1] = "."
            OBVIOUS
        <3>2. parts \in Seq(S)
            BY <1>1, SeqOfMore
        <3> HIDE DEF parts, S
        <3> QED
            BY <1>1, <2>1, <3>1, <3>2
    <2>3. /\ v[0] = <<>>
          /\ \A k \in 0..(n + 1) : v[k] \in Real(t) \cup {Nowhere}
          /\ \A k \in 1..(n + 1) : v[k] = StepInto(t, v[k - 1], whole[k])
        BY <2>2, WalkFacts
    <2> HIDE DEF v, w, whole, parts, n, S
    <2> DEFINE T == {k \in 0..n : v[k] = w[k]}
    <2>4. 0 \in T
        BY <1>1, <1>2, <2>3
    <2>5. ASSUME NEW k \in 0..(n - 1), k \in T PROVE k + 1 \in T
        <3>1. k + 1 \in 1..n /\ k + 1 \in 1..(n + 1) /\ k + 1 \in 0..n /\ (k + 1) - 1 = k
            BY <1>1
        <3> QED
            BY <1>2, <2>2, <2>3, <2>5, <3>1
    <2>6. T \in SUBSET Nat
        OBVIOUS
    <2>7. 0..n \subseteq T
        <3> HIDE DEF T
        <3> QED
            BY <1>1, <2>4, <2>5, <2>6, UpTo
    <2>8. v[n] = w[n]
        BY <1>3, <2>7
    <2>9. n + 1 \in 1..(n + 1) /\ n + 1 \in 0..(n + 1) /\ (n + 1) - 1 = n
        BY <1>1
    <2>10. v[n + 1] = StepInto(t, w[n], ".") /\ v[n + 1] \in Real(t) \cup {Nowhere}
        BY <2>2, <2>3, <2>8, <2>9
    <2>11. v[n + 1] = IF ~IsDir(t, w[n]) THEN Nowhere ELSE w[n]
        <3>1. IsDir(t, w[n]) => w[n] # Nowhere
            BY Ends DEF IsDir, Real, IsLink
        <3> QED
            BY <2>10, <3>1 DEF StepInto
    <2>12. Canonical(t, whole) = v[n + 1]
        BY <2>2 DEF Canonical, v
    <2> QED
        BY <1>5, <2>10, <2>11, <2>12 DEF w, whole, parts, n
<1> QED
    BY <1>4, <1>5

(* What the code makes of a path: where the system gets with it, or else    *)
(* what is there and no directory, or a place nobody can walk to, or a link *)
(* behind which the path has a separator.                                   *)
LEMMA DeepestFacts ==
    ASSUME NEW t, FileSystem(t), NEW path \in Paths
    PROVE  LET e == DeepestExisting(t, path)
               asked == Canonical(t, Whole(path))
           IN
           /\ e \in TreePlaces
           /\ asked \in Real(t) \cup {Nowhere}
           /\ \/ e \in Real(t) /\ asked = e
              \/ e \in Real(t) /\ ~IsDir(t, e) /\ asked = Nowhere
              \/ Blocked(t, e) /\ asked = Nowhere
              \/ path.slash /\ IsLink(t, e) /\ asked = Nowhere
<1> DEFINE parts == Joined(path)
           n == Len(parts)
           w == Walked(t, parts)
           asked == Canonical(t, Whole(path))
           Next1(x, k) == IF k < n /\ w[k] # Nowhere THEN w[k]
                          ELSE IF IsName(parts[k]) THEN Append(x, parts[k]) ELSE x
           IsFound(g) == g = [k \in 0..n |->
                                 IF k = 0 THEN <<>>
                                 ELSE IF k < n /\ w[k] # Nowhere THEN w[k]
                                 ELSE IF IsName(parts[k]) THEN Append(g[k - 1], parts[k])
                                 ELSE g[k - 1]]
           found == CHOOSE g : IsFound(g)
<1>0. parts \in Seq(STRING) /\ n \in Nat /\ \A k \in 1..n : parts[k] \in STRING
    BY JoinedIsPath, LenProperties, ElementOfSeq
<1>1. /\ w[0] = <<>>
      /\ \A k \in 0..n : w[k] \in Real(t) \cup {Nowhere}
      /\ \A k \in 1..n : w[k] = StepInto(t, w[k - 1], parts[k])
    BY <1>0, WalkFacts
<1>2. Real(t) \subseteq TreePlaces /\ Nowhere \notin Real(t) /\ <<>> \in Real(t)
    BY Ends, RealIsCanonical
<1>a. /\ asked \in Real(t) \cup {Nowhere}
      /\ asked = IF path.slash /\ ~IsDir(t, w[n]) THEN Nowhere ELSE w[n]
    BY WholeFacts
<1>6. DeepestExisting(t, path) = IF asked # Nowhere THEN asked ELSE found[n]
    BY DEF DeepestExisting
<1> HIDE DEF w, asked, parts, n
<1>3. \A x \in TreePlaces : \A k \in 1..n : Next1(x, k) \in TreePlaces
    <2> SUFFICES ASSUME NEW x \in TreePlaces, NEW k \in 1..n PROVE Next1(x, k) \in TreePlaces
        OBVIOUS
    <2>1. k \in 0..n /\ parts[k] \in STRING
        BY <1>0
    <2>2. w[k] # Nowhere => w[k] \in TreePlaces
        BY <1>1, <1>2, <2>1
    <2>3. IsName(parts[k]) => Append(x, parts[k]) \in TreePlaces
        BY <2>1, AppendPlace
    <2> QED
        BY <2>2, <2>3
<1>4. \E g : IsFound(g)
    <2> DEFINE F == [k \in 1..n |-> [x \in TreePlaces |-> Next1(x, k)]]
    <2>1. Recursion(TreePlaces, n, <<>>, F)
        <3> HIDE DEF Next1
        <3>1. F \in [1..n -> [TreePlaces -> TreePlaces]]
            BY <1>3
        <3> HIDE DEF F
        <3> QED
            BY <1>0, <1>2, <3>1 DEF Recursion
    <2>2. PICK g \in [0..n -> TreePlaces] : g[0] = <<>> /\ \A k \in 1..n : g[k] = F[k][g[k - 1]]
        <3> HIDE DEF F
        <3> QED
            BY <2>1, RecursionExists
    <2>3. \A k \in 1..n : k - 1 \in 0..n
        BY <1>0
    <2>4. \A k \in 1..n : F[k][g[k - 1]] = Next1(g[k - 1], k)
        <3> HIDE DEF Next1
        <3> QED
            BY <2>3
    <2>5. \A k \in 0..n : IF k = 0 THEN TRUE ELSE k \in 1..n
        BY <1>0
    <2>7. IsFound(g)
        <3> HIDE DEF F
        <3>1. g = [k \in 0..n |-> g[k]]
            BY <2>2
        <3>2. \A k \in 0..n : g[k] = IF k = 0 THEN <<>>
                                     ELSE IF k < n /\ w[k] # Nowhere THEN w[k]
                                     ELSE IF IsName(parts[k]) THEN Append(g[k - 1], parts[k])
                                     ELSE g[k - 1]
            BY <2>2, <2>4, <2>5
        <3> QED
            BY <3>1, <3>2
    <2> QED
        BY <2>7
<1>5. IsFound(found)
    <2> HIDE DEF IsFound
    <2> QED
        BY <1>4
<1> HIDE DEF found
<1>7. found[0] = <<>> /\ \A k \in 1..n : found[k] = Next1(found[k - 1], k)
    <2>1. 0 \in 0..n /\ \A k \in 1..n : k \in 0..n /\ k # 0
        BY <1>0
    <2> QED
        BY <1>5, <2>1
<1> DEFINE Good(k, e) == /\ e \in TreePlaces
                         /\ \/ e \in Real(t) /\ w[k] = e
                            \/ e \in Real(t) /\ ~IsDir(t, e) /\ w[k] = Nowhere
                            \/ Blocked(t, e) /\ w[k] = Nowhere
           T == {k \in 0..n : (k < n \/ n = 0 \/ w[n] = Nowhere) => Good(k, found[k])}
<1>8. 0 \in T
    BY <1>0, <1>1, <1>2, <1>7
<1>9. ASSUME NEW k \in 0..(n - 1), k \in T PROVE k + 1 \in T
    <2> DEFINE c == parts[k + 1]
               e == found[k]
    <2>1. k + 1 \in 1..n /\ k + 1 \in 0..n /\ (k + 1) - 1 = k /\ k \in 0..n /\ k < n
        BY <1>0
    <2>2. found[k + 1] = Next1(e, k + 1) /\ w[k + 1] = StepInto(t, w[k], c) /\ c \in STRING
        BY <1>0, <1>1, <1>7, <2>1
    <2>3. w[k + 1] \in Real(t) \cup {Nowhere}
        BY <1>1, <2>1
    <2>4. Good(k, e)
        BY <1>9, <2>1
    <2> HIDE DEF e, c
    <2> SUFFICES ASSUME k + 1 < n \/ w[k + 1] = Nowhere PROVE Good(k + 1, found[k + 1])
        <3>1. k + 1 < n \/ k + 1 = n
            BY <1>0
        <3>2. n # 0
            BY <1>0
        <3> QED
            BY <2>1, <3>1, <3>2
    <2>5. CASE w[k + 1] # Nowhere
        BY <1>2, <2>1, <2>2, <2>3, <2>5
    <2>6. CASE w[k + 1] = Nowhere
        <3>1. found[k + 1] = IF IsName(c) THEN Append(e, c) ELSE e
            BY <2>2, <2>6 DEF c
        <3>2. CASE e \in Real(t) /\ (w[k] = e \/ ~IsDir(t, e))
            <4>1. StepInto(t, e, c) = Nowhere
                BY <2>2, <2>6, <3>2 DEF StepInto
            <4>2. IF IsName(c) THEN Blocked(t, Append(e, c)) ELSE ~IsDir(t, e)
                BY <2>2, <3>2, <4>1, StopsThere
            <4>3. IsName(c) => Append(e, c) \in TreePlaces
                BY <2>2, <2>4, AppendPlace
            <4> QED
                BY <2>4, <2>6, <3>1, <3>2, <4>2, <4>3
        <3>3. CASE Blocked(t, e)
            <4>1. IsName(c) => /\ Append(e, c) \in TreePlaces
                               /\ Len(e) <= Len(Append(e, c))
                               /\ \A i \in 1..Len(e) : Append(e, c)[i] = e[i]
                <5>1. Len(e) \in Nat /\ e \in TreePlaces /\ c \in STRING
                    BY <2>2, <2>4, PlacesArePaths
                <5>2. IsName(c) => /\ Append(e, c) \in TreePlaces
                                   /\ Len(Append(e, c)) = Len(e) + 1
                                   /\ \A i \in 1..Len(e) : Append(e, c)[i] = e[i]
                    BY <5>1, AppendPlace
                <5>3. Len(e) <= Len(e) + 1
                    BY <5>1
                <5>4. IsName(c) => Len(e) <= Len(Append(e, c))
                    BY <5>2, <5>3
                <5> QED
                    BY <5>2, <5>4
            <4>2. IsName(c) => Blocked(t, Append(e, c))
                BY <2>4, <3>3, <4>1, BlockedExtends
            <4> QED
                BY <2>4, <2>6, <3>1, <3>3, <4>1, <4>2
        <3> QED
            BY <2>4, <3>2, <3>3
    <2> QED
        BY <2>5, <2>6
<1>10. T \in SUBSET Nat
    OBVIOUS
<1>11. 0..n \subseteq T
    <2> HIDE DEF T
    <2> QED
        BY <1>0, <1>8, <1>9, <1>10, UpTo
<1>12. \A k \in 0..n : (k < n \/ n = 0 \/ w[n] = Nowhere) => Good(k, found[k])
    <2> HIDE DEF Good
    <2> QED
        BY <1>11
<1>13. CASE asked # Nowhere
    BY <1>2, <1>6, <1>13, <1>a DEF asked
<1>14. CASE asked = Nowhere /\ w[n] = Nowhere
    <2>1. Good(n, found[n])
        <3> HIDE DEF Good
        <3> QED
            BY <1>0, <1>12, <1>14
    <2> QED
        BY <1>6, <1>14, <2>1, <1>2 DEF asked
<1>15. CASE asked = Nowhere /\ w[n] # Nowhere
    <2> DEFINE c == parts[n]
               at == w[n - 1]
               e == found[n]
    <2>1. path.slash /\ ~IsDir(t, w[n]) /\ w[n] \in Real(t)
        <3>1. n \in 0..n
            BY <1>0
        <3> QED
            BY <1>1, <1>15, <1>a, <3>1
    <2>2. n # 0
        BY <1>1, <2>1 DEF FileSystem
    <2>3. n \in 1..n /\ n - 1 \in 0..n /\ n - 1 < n /\ ~(n < n)
        BY <1>0, <2>2
    <2>4. w[n] = StepInto(t, at, c) /\ c \in STRING /\ at \in Real(t) \cup {Nowhere}
        BY <1>0, <1>1, <2>3
    <2>5. at # Nowhere /\ IsDir(t, at)
        BY <1>15, <2>4 DEF StepInto
    <2>6. at \in Real(t) /\ at \in TreePlaces
        BY <1>2, <2>4, <2>5
    <2>7. found[n - 1] = at
        <3>1. Good(n - 1, found[n - 1])
            <4> HIDE DEF Good
            <4> QED
                BY <1>12, <2>3
        <3> QED
            BY <2>5, <3>1
    <2>8. e = IF IsName(c) THEN Append(at, c) ELSE at
        BY <1>7, <2>3, <2>7
    <2> HIDE DEF at, c, e
    <2>9. IsName(c)
        <3> SUFFICES ASSUME ~IsName(c) PROVE FALSE
            OBVIOUS
        <3>1. c = "." \/ c = ".."
            BY DEF IsName
        <3>2. at = <<>> \/ IsDir(t, Front(at))
            BY <2>6 DEF FileSystem, Real
        <3>3. IsDir(t, w[n])
            BY <2>4, <2>5, <3>1, <3>2 DEF StepInto
        <3> QED
            BY <2>1, <3>3
    <2>10. c # "." /\ c # ".."
        BY <2>9 DEF IsName
    <2>11. e = Append(at, c) /\ e \in TreePlaces
        BY <2>4, <2>6, <2>8, <2>9, AppendPlace
    <2>12. e \in DOMAIN t /\ (IsLink(t, e) \/ w[n] = e)
        BY <1>15, <2>4, <2>5, <2>10, <2>11 DEF StepInto
    <2>13. DeepestExisting(t, path) = e
        BY <1>6, <1>15 DEF e
    <2> QED
        BY <1>15, <2>1, <2>11, <2>12, <2>13 DEF asked
<1> QED
    BY <1>13, <1>14, <1>15

(* A path that is not refused becomes a place in the workspace: what the    *)
(* path leads to, or else a place nobody can walk to, what is no directory, *)
(* or a link behind which the path has a separator.  One that leads into    *)
(* the workspace is not refused.                                            *)
LEMMA ResolveFacts ==
    ASSUME NEW t, FileSystem(t), NEW path \in Paths
    PROVE  LET at == Resolve(t, path)
               asked == Canonical(t, Whole(path))
           IN
           /\ asked \in Real(t) \cup {Nowhere}
           /\ at # Nowhere => /\ at \in TreePlaces /\ IsPrefix(Root, at)
                              /\ \/ at \in Real(t) /\ asked = at
                                 \/ at \in Real(t) /\ ~IsDir(t, at) /\ asked = Nowhere
                                 \/ Blocked(t, at) /\ asked = Nowhere
                                 \/ UnresolvedLink(t, path) /\ IsLink(t, at) /\ asked = Nowhere
           /\ asked # Nowhere /\ IsPrefix(Root, asked) /\ ~IsDir(t, asked) => at = asked
<1> DEFINE asked == Canonical(t, Whole(path))
           e == DeepestExisting(t, path)
           empty == ~path.absolute /\ path.parts = <<>> /\ ~path.slash
<1>1. /\ e \in TreePlaces
      /\ asked \in Real(t) \cup {Nowhere}
      /\ \/ e \in Real(t) /\ asked = e
         \/ e \in Real(t) /\ ~IsDir(t, e) /\ asked = Nowhere
         \/ Blocked(t, e) /\ asked = Nowhere
         \/ path.slash /\ IsLink(t, e) /\ asked = Nowhere
    BY DeepestFacts
<1>2. empty => IsDir(t, asked)
    <2>1. Canonical(t, <<>>) = <<>> /\ Canonical(t, Root) = Root
        BY Ends, RealIsCanonical
    <2>2. ~path.slash => Whole(path) = Joined(path)
        BY WholeFacts
    <2> QED
        BY <2>1, <2>2, JoinedIsPath DEF FileSystem
<1> HIDE DEF asked, e
<1>3. e # Nowhere
    BY <1>1, PrefixFacts
<1>4. Resolve(t, path) = IF ~empty /\ IsPrefix(Root, e) THEN e ELSE Nowhere
    BY DEF Resolve, e
<1>5. asked # Nowhere => e = asked
    BY <1>1, Ends
<1> HIDE DEF empty
<1>6. Resolve(t, path) # Nowhere /\ path.slash /\ IsLink(t, e) => UnresolvedLink(t, path)
    BY <1>4 DEF UnresolvedLink
<1> QED
    BY <1>1, <1>2, <1>3, <1>4, <1>5, <1>6 DEF asked

(* What the system opens for a path that ends in no separator behind a      *)
(* link: the place in the workspace itself, or nothing.                     *)
LEMMA OpenedFacts ==
    ASSUME NEW t, FileSystem(t), NEW path \in Paths, ~UnresolvedLink(t, path)
    PROVE  LET at == Resolve(t, path) IN
           Opened(t, path) = IF at # Nowhere /\ at \in Real(t) THEN at ELSE Nowhere
<1> DEFINE at == Resolve(t, path)
<1>1. CASE at = Nowhere
    BY <1>1 DEF Opened
<1>2. CASE at # Nowhere /\ at \in Real(t)
    BY <1>2, RealIsCanonical DEF Opened
<1>3. CASE at # Nowhere /\ at \notin Real(t)
    <2>1. at \in TreePlaces /\ Blocked(t, at)
        BY <1>3, ResolveFacts
    <2> HIDE DEF at
    <2>2. Canonical(t, at) = Nowhere
        BY <2>1, BlockedIsNowhere
    <2> QED
        BY <1>3, <2>2 DEF Opened, at
<1> QED
    BY <1>1, <1>2, <1>3

(* The system's walk to a place in the workspace that a path became ends at *)
(* that place.                                                              *)
LEMMA LandsThere ==
    ASSUME NEW t, FileSystem(t), NEW at \in TreePlaces, at # <<>>,
           at \in Real(t) \/ Blocked(t, at) \/ IsLink(t, at)
    PROVE  /\ Landing(t, at) = at
           /\ Parent(t, at) \in {Front(at), Nowhere}
           /\ Append(Front(at), Last(at)) = at
           /\ Front(at) = SubSeq(at, 1, Len(at) - 1)
<1>0. Len(at) \in Nat /\ Len(at) \in 1..Len(at) /\ Len(at) # 0 /\ SubSeq(at, 1, Len(at)) = at
    <2>1. Len(at) \in Nat /\ SubSeq(at, 1, Len(at)) = at
        BY PrefixFacts
    <2>2. Len(at) # 0
        BY PlacesArePaths
    <2> QED
        BY <2>1, <2>2
<1>1. Front(at) = SubSeq(at, 1, Len(at) - 1) /\ Append(Front(at), Last(at)) = at
    <2>1. /\ Front(SubSeq(at, 1, Len(at))) = SubSeq(at, 1, Len(at) - 1)
          /\ Append(SubSeq(at, 1, Len(at) - 1), at[Len(at)]) = SubSeq(at, 1, Len(at))
        BY <1>0, FrontOfPrefix, Zenon
    <2>2. Last(at) = at[Len(at)]
        BY DEF Last
    <2> QED
        BY <1>0, <2>1, <2>2, Zenon
<1>2. CASE Front(at) \in Real(t)
    <2>1. Parent(t, at) = Front(at)
        BY <1>2, RealIsCanonical DEF Parent
    <2>2. Front(at) # Nowhere
        BY <1>2, Ends
    <2> QED
        BY <1>1, <2>1, <2>2 DEF Landing
<1>3. CASE Front(at) \notin Real(t)
    <2>1. at \notin Real(t) /\ ~IsLink(t, at)
        BY <1>3 DEF FileSystem, Real, IsDir, IsLink
    <2>2. PICK j \in 1..Len(at) : /\ SubSeq(at, 1, j - 1) \in Real(t)
                                  /\ StepInto(t, SubSeq(at, 1, j - 1), at[j]) = Nowhere
        BY <2>1 DEF Blocked
    <2>3. j # Len(at)
        BY <1>1, <1>3, <2>2, Zenon
    <2> DEFINE d == SubSeq(at, 1, Len(at) - 1)
    <2>4. Len(at) - 1 \in 0..Len(at) /\ j \in 1..(Len(at) - 1) /\ j - 1 \in 0..(Len(at) - 1)
        <3>1. Len(at) \in Nat /\ Len(at) # 0 /\ j \in 1..Len(at) /\ j # Len(at)
            BY <1>0, <2>2, <2>3, Zenon
        <3> QED
            BY <3>1
    <2>5. d \in TreePlaces /\ Len(d) = Len(at) - 1 /\ \A i \in 1..(Len(at) - 1) : d[i] = at[i]
        BY <2>4, PrefixFacts
    <2>6. SubSeq(d, 1, j - 1) = SubSeq(at, 1, j - 1)
        <3> HIDE DEF d
        <3>1. d \in Seq(STRING) /\ at \in Seq(STRING)
            BY <2>5, PlacesArePaths
        <3>2. SubSeq(d, 1, j - 1) = [i \in 1..(j - 1) |-> d[i]]
            BY <1>0, <2>4, <2>5, <3>1
        <3>3. SubSeq(at, 1, j - 1) = [i \in 1..(j - 1) |-> at[i]]
            BY <1>0, <2>4, <3>1
        <3>4. \A i \in 1..(j - 1) : d[i] = at[i]
            BY <1>0, <2>4, <2>5
        <3> QED
            BY <3>2, <3>3, <3>4
    <2>7. Blocked(t, d)
        <3> HIDE DEF d
        <3> QED
            BY <2>2, <2>4, <2>5, <2>6 DEF Blocked
    <2>8. Canonical(t, d) = Nowhere
        <3> HIDE DEF d
        <3> QED
            BY <2>5, <2>7, BlockedIsNowhere
    <2>9. Parent(t, at) = Nowhere
        BY <1>1, <2>8 DEF Parent
    <2> QED
        BY <1>1, <2>9 DEF Landing
<1> QED
    BY <1>2, <1>3

(* What a place in the workspace begins with is in the workspace, or there  *)
(* already.                                                                 *)
LEMMA PrefixInside ==
    ASSUME NEW t, FileSystem(t), NEW at \in TreePlaces, IsPrefix(Root, at), NEW k \in 0..Len(at)
    PROVE  IsPrefix(Root, SubSeq(at, 1, k)) \/ SubSeq(at, 1, k) \in DOMAIN t
<1> DEFINE d == SubSeq(at, 1, k)
           r == Len(Root)
<1>0. /\ Root \in TreePlaces /\ r \in Nat /\ Len(at) \in Nat /\ k \in Nat
      /\ Root \in Seq(STRING) /\ at \in Seq(STRING)
    BY TreesAssumption, PlacesArePaths
<1>1. r <= Len(at) /\ SubSeq(Root, 1, r) = SubSeq(at, 1, r)
    BY DEF IsPrefix
<1>2. d \in TreePlaces /\ Len(d) = k /\ \A i \in 1..k : d[i] = at[i]
    BY PrefixFacts
<1>3. d \in Seq(STRING)
    BY <1>2, PlacesArePaths
<1> HIDE DEF d
<1>4. CASE r <= k
    <2>1. SubSeq(d, 1, r) = [i \in 1..r |-> d[i]]
        BY <1>0, <1>2, <1>3, <1>4
    <2>2. SubSeq(at, 1, r) = [i \in 1..r |-> at[i]]
        BY <1>0, <1>1
    <2>3. \A i \in 1..r : d[i] = at[i]
        BY <1>0, <1>2, <1>4
    <2>4. SubSeq(Root, 1, r) = SubSeq(d, 1, r)
        BY <1>1, <2>1, <2>2, <2>3
    <2> QED
        BY <1>2, <1>4, <2>4 DEF IsPrefix, d
<1>5. CASE k < r
    <2>1. \A i \in 1..r : SubSeq(Root, 1, r)[i] = Root[i] /\ SubSeq(at, 1, r)[i] = at[i]
        BY <1>0, <1>1, PrefixFacts
    <2>2. \A i \in 1..k : Root[i] = at[i]
        BY <1>0, <1>1, <1>5, <2>1
    <2>3. SubSeq(Root, 1, k) = [i \in 1..k |-> Root[i]] /\ d = [i \in 1..k |-> at[i]]
        BY <1>0, <1>5 DEF d
    <2>4. SubSeq(Root, 1, k) = d
        BY <2>2, <2>3
    <2>5. SubSeq(Root, 1, r) = Root /\ Root \in DOMAIN t
        BY <1>0, PrefixFacts DEF FileSystem, IsDir
    <2>6. IsDir(t, SubSeq(Root, 1, k))
        <3>1. k \in 0..(r - 1) /\ r \in 0..r
            BY <1>0, <1>5
        <3> QED
            BY <1>0, <2>5, <3>1, PrefixesAreDirs
    <2> QED
        BY <2>4, <2>6 DEF IsDir, d
<1> QED
    BY <1>0, <1>4, <1>5

-----------------------------------------------------------------------------
(* What a write does to the file system. *)

(* What a place begins with is a finite number of places. *)
LEMMA PrefixesFinite ==
    ASSUME NEW at \in TreePlaces
    PROVE  IsFiniteSet({SubSeq(at, 1, k) : k \in 0..(Len(at) - 1)})
<1> DEFINE I == 0..(Len(at) - 1)
           S == {SubSeq(at, 1, k) : k \in I}
           f == [k \in I |-> SubSeq(at, 1, k)]
<1>1. f \in Surjection(I, S)
    BY DEF Surjection
<1>2. IsFiniteSet(I)
    BY FS_Interval, PlacesArePaths
<1> HIDE DEF f, I, S
<1>3. IsFiniteSet(S)
    BY <1>1, <1>2, FS_Surjection
<1> QED
    BY <1>3 DEF S, I

(* A write leaves a file system behind, and nothing outside of the          *)
(* workspace differs in it.                                                 *)
LEMMA CreatedFacts ==
    ASSUME NEW t, FileSystem(t), NEW at \in TreePlaces, IsPrefix(Root, at),
           at \in Real(t) \/ Blocked(t, at) \/ IsLink(t, at), CanCreate(t, at)
    PROVE  /\ FileSystem(Created(t, at))
           /\ \A p : ~IsPrefix(Root, p) =>
                  /\ p \in DOMAIN t <=> p \in DOMAIN Created(t, at)
                  /\ p \in DOMAIN t => Created(t, at)[p] = t[p]
<1> DEFINE t2 == Created(t, at)
           N == NewDirs(t, at)
<1>1. /\ at # <<>>
      /\ Landing(t, at) = at
      /\ Parent(t, at) \in {Front(at), Nowhere}
      /\ Front(at) = SubSeq(at, 1, Len(at) - 1)
    BY LandsThere DEF CanCreate
<1>2. ~IsDir(t, at)
    BY <1>1 DEF CanCreate
<1>3. Len(at) \in Nat /\ Len(at) # 0
    BY <1>1, PlacesArePaths
<1>4. ASSUME NEW p \in N
      PROVE  /\ p \notin DOMAIN t /\ p \in TreePlaces /\ p # at /\ IsPrefix(Root, p)
             /\ \E k \in 0..(Len(at) - 1) : p = SubSeq(at, 1, k)
             /\ Parent(t, at) = Nowhere
    <2>1. p \notin DOMAIN t /\ Parent(t, at) = Nowhere
        BY DEF NewDirs
    <2>2. PICK k \in 0..(Len(at) - 1) : p = SubSeq(at, 1, k)
        BY DEF NewDirs
    <2>3. k \in 0..Len(at) /\ k # Len(at)
        BY <1>3
    <2>4. p \in TreePlaces /\ Len(p) = k
        BY <2>2, <2>3, PrefixFacts
    <2>5. IsPrefix(Root, p)
        BY <2>1, <2>2, <2>3, PrefixInside
    <2> QED
        BY <2>1, <2>2, <2>3, <2>4, <2>5
<1>5. /\ DOMAIN t2 = DOMAIN t \cup N \cup {at}
      /\ t2[at] = File(NewText)
      /\ \A p \in N : t2[p] = Dir
      /\ \A p \in DOMAIN t : p # at => t2[p] = t[p]
    BY <1>1, <1>4 DEF Created
<1>6. t2 = [p \in DOMAIN t2 |-> t2[p]]
    BY DEF Created
<1> HIDE DEF t2, N
<1>7. \A p : IsDir(t, p) => IsDir(t2, p)
    BY <1>2, <1>5 DEF IsDir
<1>8. \A p \in N : IsDir(t2, p)
    BY <1>5 DEF IsDir, Dir
<1>9. Parent(t, at) = Nowhere => \A k \in 0..(Len(at) - 1) : IsDir(t2, SubSeq(at, 1, k))
    <2> SUFFICES ASSUME Parent(t, at) = Nowhere, NEW k \in 0..(Len(at) - 1)
                 PROVE  IsDir(t2, SubSeq(at, 1, k))
        OBVIOUS
    <2>1. CASE SubSeq(at, 1, k) \in DOMAIN t
        BY <1>7, <2>1 DEF CanCreate
    <2>2. CASE SubSeq(at, 1, k) \notin DOMAIN t
        BY <1>8, <2>2 DEF N, NewDirs
    <2> QED
        BY <2>1, <2>2
<1>10. ASSUME NEW p \in DOMAIN t2, p # <<>> PROVE IsDir(t2, Front(p))
    <2>1. CASE p \in DOMAIN t
        BY <1>7, <1>10, <2>1 DEF FileSystem
    <2>2. CASE p = at
        <3>1. CASE Parent(t, at) = Nowhere
            <4>1. Len(at) - 1 \in 0..(Len(at) - 1)
                BY <1>3
            <4> QED
                BY <1>1, <1>9, <2>2, <3>1, <4>1
        <3>2. CASE Parent(t, at) # Nowhere
            BY <1>1, <1>7, <2>2, <3>2 DEF CanCreate
        <3> QED
            BY <3>1, <3>2
    <2>3. CASE p \in N
        <3>1. PICK k \in 0..(Len(at) - 1) : p = SubSeq(at, 1, k)
            BY <1>4, <2>3
        <3>2. k # 0
            BY <1>10, <3>1
        <3>3. k \in 1..Len(at) /\ k - 1 \in 0..(Len(at) - 1)
            BY <1>3, <3>2
        <3>4. Front(p) = SubSeq(at, 1, k - 1)
            BY <3>1, <3>3, FrontOfPrefix
        <3> QED
            BY <1>4, <1>9, <2>3, <3>3, <3>4
    <2> QED
        BY <1>5, <2>1, <2>2, <2>3
<1>11. \A p \in DOMAIN t2 : IsLink(t2, p) => p \in DOMAIN t /\ IsLink(t, p) /\ t2[p] = t[p]
    BY <1>5 DEF IsLink, File, Dir
<1>12. Straight(t2)
    BY <1>11 DEF FileSystem, Straight, IsLink
<1>13. IsFiniteSet(DOMAIN t2)
    <2>1. IsFiniteSet({SubSeq(at, 1, k) : k \in 0..(Len(at) - 1)})
        BY PrefixesFinite
    <2>2. N \subseteq {SubSeq(at, 1, k) : k \in 0..(Len(at) - 1)}
        BY DEF N, NewDirs
    <2>3. IsFiniteSet(N)
        BY <2>1, <2>2, FS_Subset
    <2>4. IsFiniteSet(DOMAIN t)
        BY DEF FileSystem
    <2>5. IsFiniteSet(DOMAIN t \cup N)
        BY <2>3, <2>4, FS_Union
    <2> QED
        BY <1>5, <2>5, FS_AddElement
<1>14. DOMAIN t2 \subseteq TreePlaces
    BY <1>4, <1>5 DEF FileSystem
<1>15. t2 \in [DOMAIN t2 -> {Dir, Unreadable} \cup [kind : {"file"}, text : Seq(STRING)]
                                              \cup [kind : {"link"}, to : TreePlaces]]
    <2> DEFINE E == {Dir, Unreadable} \cup [kind : {"file"}, text : Seq(STRING)]
                                     \cup [kind : {"link"}, to : TreePlaces]
    <2>1. File(NewText) \in E /\ Dir \in E
        BY InputsAssumption DEF File
    <2>2. \A p \in DOMAIN t : t[p] \in E
        BY DEF FileSystem
    <2> HIDE DEF E
    <2>3. \A p \in DOMAIN t2 : t2[p] \in E
        BY <1>5, <2>1, <2>2
    <2>4. t2 \in [DOMAIN t2 -> E]
        BY <1>6, <2>3
    <2> QED
        BY <2>4 DEF E
<1>16. IsDir(t2, <<>>) /\ IsDir(t2, Root)
    BY <1>7 DEF FileSystem
<1>17. FileSystem(t2)
    BY <1>10, <1>12, <1>13, <1>14, <1>15, <1>16 DEF FileSystem
<1>18. \A p : ~IsPrefix(Root, p) =>
           /\ p \in DOMAIN t <=> p \in DOMAIN t2
           /\ p \in DOMAIN t => t2[p] = t[p]
    BY <1>4, <1>5
<1> QED
    BY <1>17, <1>18 DEF t2

(* An entry somebody else makes in the workspace leaves a file system       *)
(* behind, and nothing outside of the workspace differs in it.              *)
LEMMA MadeFacts ==
    ASSUME NEW t, FileSystem(t), NEW name \in Names,
           NEW what \in {Dir} \cup {Link(to) : to \in Targets},
           Append(Root, name) \notin DOMAIN t, Straight(Made(t, name, what))
    PROVE  /\ FileSystem(Made(t, name, what))
           /\ \A p : ~IsPrefix(Root, p) =>
                  /\ p \in DOMAIN t <=> p \in DOMAIN Made(t, name, what)
                  /\ p \in DOMAIN t => Made(t, name, what)[p] = t[p]
<1> DEFINE at == Append(Root, name)
           t2 == Made(t, name, what)
<1>1. name \in STRING /\ IsName(name)
    <2>1. <<name>> \in Seq(STRING \ {".", ".."})
        BY InputsAssumption DEF TreePlaces
    <2>2. name = <<name>>[1] /\ Len(<<name>>) = 1
        OBVIOUS
    <2>3. <<name>>[1] \in STRING \ {".", ".."}
        BY <2>1, <2>2, ElementOfSeq
    <2> QED
        BY <2>2, <2>3 DEF IsName
<1>2. /\ at \in TreePlaces /\ at # <<>> /\ Front(at) = Root
      /\ Len(Root) \in Nat /\ Len(at) = Len(Root) + 1 /\ SubSeq(at, 1, Len(Root)) = Root
    BY <1>1, TreesAssumption, AppendPlace, PlacesArePaths
<1>3. IsPrefix(Root, at)
    BY <1>2, TreesAssumption, PrefixFacts DEF IsPrefix
<1> HIDE DEF at
<1>4. /\ DOMAIN t2 = DOMAIN t \cup {at} /\ at \notin DOMAIN t
      /\ t2[at] = what
      /\ \A p \in DOMAIN t : t2[p] = t[p]
      /\ t2 = [p \in DOMAIN t2 |-> t2[p]]
    BY DEF at, Made
<1> HIDE DEF t2
<1>5. \A p : IsDir(t, p) => IsDir(t2, p)
    BY <1>4 DEF IsDir
<1>6. \A p \in DOMAIN t2 : p # <<>> => IsDir(t2, Front(p))
    BY <1>2, <1>4, <1>5 DEF FileSystem
<1>7. IsFiniteSet(DOMAIN t2)
    BY <1>4, FS_AddElement DEF FileSystem
<1>8. DOMAIN t2 \subseteq TreePlaces
    BY <1>2, <1>4 DEF FileSystem
<1>9. t2 \in [DOMAIN t2 -> {Dir, Unreadable} \cup [kind : {"file"}, text : Seq(STRING)]
                                             \cup [kind : {"link"}, to : TreePlaces]]
    <2> DEFINE E == {Dir, Unreadable} \cup [kind : {"file"}, text : Seq(STRING)]
                                     \cup [kind : {"link"}, to : TreePlaces]
    <2>1. what \in E
        BY InputsAssumption DEF Link
    <2>2. \A p \in DOMAIN t : t[p] \in E
        BY DEF FileSystem
    <2> HIDE DEF E
    <2>3. \A p \in DOMAIN t2 : t2[p] \in E
        BY <1>4, <2>1, <2>2
    <2>4. t2 \in [DOMAIN t2 -> E]
        BY <1>4, <2>3
    <2> QED
        BY <2>4 DEF E
<1>10. FileSystem(t2)
    <2>1. Straight(t2)
        BY DEF t2
    <2> QED
        BY <1>5, <1>6, <1>7, <1>8, <1>9, <2>1 DEF FileSystem
<1> QED
    BY <1>3, <1>4, <1>10 DEF t2

(* A step leaves a file system behind, and nothing outside of the workspace *)
(* differs in it.                                                           *)
LEMMA TreeStep ==
    ASSUME FileSystem(tree), [FilesNext]_filesVars
    PROVE  /\ FileSystem(tree')
           /\ \A p : ~IsPrefix(Root, p) =>
                  /\ p \in DOMAIN tree <=> p \in DOMAIN tree'
                  /\ p \in DOMAIN tree => tree'[p] = tree[p]
<1>1. CASE tree' = tree
    BY <1>1
<1>2. ASSUME NEW path \in Paths, CreateFile(path), tree' # tree
      PROVE  /\ FileSystem(tree')
             /\ \A p : ~IsPrefix(Root, p) =>
                    /\ p \in DOMAIN tree <=> p \in DOMAIN tree'
                    /\ p \in DOMAIN tree => tree'[p] = tree[p]
    <2> DEFINE at == Resolve(tree, path)
    <2>1. CanCreate(tree, at) /\ tree' = Created(tree, at)
        BY <1>2 DEF CreateFile
    <2>2. at # Nowhere
        BY <2>1 DEF CanCreate
    <2>3. /\ at \in TreePlaces /\ IsPrefix(Root, at)
          /\ at \in Real(tree) \/ Blocked(tree, at) \/ IsLink(tree, at)
        BY <2>2, ResolveFacts
    <2> HIDE DEF at
    <2> QED
        BY <2>1, <2>3, CreatedFacts
<1>3. ASSUME NEW name \in Names, NEW what \in {Dir} \cup {Link(to) : to \in Targets},
             MakeEntry(name, what)
      PROVE  /\ FileSystem(tree')
             /\ \A p : ~IsPrefix(Root, p) =>
                    /\ p \in DOMAIN tree <=> p \in DOMAIN tree'
                    /\ p \in DOMAIN tree => tree'[p] = tree[p]
    <2>1. /\ Append(Root, name) \notin DOMAIN tree
          /\ tree' = Made(tree, name, what)
          /\ Straight(Made(tree, name, what))
        BY <1>3 DEF MakeEntry
    <2> QED
        BY <2>1, MadeFacts
<1>4. \/ tree' = tree
      \/ \E path \in Paths : CreateFile(path)
      \/ \E name \in Names : \E what \in {Dir} \cup {Link(to) : to \in Targets} :
             MakeEntry(name, what)
    BY DEF FilesNext, filesVars, ReadFile, ListDir, Grep, Glob
<1> QED
    BY <1>1, <1>2, <1>3, <1>4

(* The workspace and what is around it stay a file system. *)
LEMMA TreeInvariant == FilesSpec => []FileSystem(tree)
<1>1. FilesInit => FileSystem(tree)
    BY TreesAssumption DEF FilesInit
<1>2. FileSystem(tree) /\ [FilesNext]_filesVars => FileSystem(tree)'
    BY TreeStep
<1> QED
    BY <1>1, <1>2, PTL DEF FilesSpec

(* Whatever path the model sends and whatever links there are, no tool      *)
(* changes anything outside of the workspace.                               *)
THEOREM WritesAreInside == FilesSpec => WritesStayInside
<1>1. FileSystem(tree) /\ [FilesNext]_filesVars
      => [\A p \in DOMAIN tree \cup DOMAIN tree' :
            ~IsPrefix(Root, p) =>
                p \in DOMAIN tree /\ p \in DOMAIN tree' /\ tree'[p] = tree[p]]_filesVars
    <2> SUFFICES ASSUME FileSystem(tree), [FilesNext]_filesVars,
                        NEW p \in DOMAIN tree \cup DOMAIN tree', ~IsPrefix(Root, p)
                 PROVE  p \in DOMAIN tree /\ p \in DOMAIN tree' /\ tree'[p] = tree[p]
        OBVIOUS
    <2>1. /\ p \in DOMAIN tree <=> p \in DOMAIN tree'
          /\ p \in DOMAIN tree => tree'[p] = tree[p]
        BY TreeStep
    <2> QED
        BY <2>1
<1> QED
    BY <1>1, TreeInvariant, PTL DEF FilesSpec, WritesStayInside

-----------------------------------------------------------------------------
(* What a read shows. *)

(* The beginning of a sequence has nothing that the sequence has not. *)
LEMMA FrontPart ==
    ASSUME NEW S, NEW s \in Seq(S), NEW m \in Nat, m <= Len(s)
    PROVE  /\ SubSeq(s, 1, m) \in Seq(S) /\ Len(SubSeq(s, 1, m)) = m
           /\ ToSet(SubSeq(s, 1, m)) \subseteq ToSet(s)
<1>1. Len(s) \in Nat /\ DOMAIN s = 1..Len(s)
    BY LenProperties
<1>2. SubSeq(s, 1, m) = [i \in 1..m |-> s[i]]
    BY <1>1
<1>3. \A i \in 1..m : i \in DOMAIN s
    BY <1>1
<1>4. SubSeq(s, 1, m) \in Seq(S) /\ Len(SubSeq(s, 1, m)) = m
    BY <1>1
<1>5. DOMAIN SubSeq(s, 1, m) = 1..m
    BY <1>2
<1>6. ToSet(SubSeq(s, 1, m)) \subseteq ToSet(s)
    BY <1>2, <1>3, <1>5 DEF ToSet
<1> QED
    BY <1>4, <1>6

(* A result that is not cut is the whole one. *)
LEMMA TruncateFacts ==
    ASSUME NEW S, NEW shown \in Seq(S), NEW notes
    PROVE  LET r == Truncate(shown, notes) IN
           /\ r.shown \in Seq(S)
           /\ Len(r.shown) <= MaxOutput
           /\ r.notes \in {notes, notes \cup {"truncated"}}
           /\ "truncated" \notin r.notes => r.shown = shown /\ r.notes = notes
           /\ shown # <<>> => r.shown # <<>>
           /\ ToSet(r.shown) \subseteq ToSet(shown)
<1>0. MaxOutput \in Nat /\ MaxOutput # 0 /\ Len(shown) \in Nat
    BY LimitsAssumption
<1>1. CASE Len(shown) <= MaxOutput
    BY <1>1 DEF Truncate
<1>2. CASE ~(Len(shown) <= MaxOutput)
    <2>1. /\ SubSeq(shown, 1, MaxOutput) \in Seq(S) /\ Len(SubSeq(shown, 1, MaxOutput)) = MaxOutput
          /\ ToSet(SubSeq(shown, 1, MaxOutput)) \subseteq ToSet(shown)
        <3>1. MaxOutput <= Len(shown)
            BY <1>0, <1>2
        <3> QED
            BY <1>0, <3>1, FrontPart
    <2>2. SubSeq(shown, 1, MaxOutput) # <<>>
        BY <1>0, <2>1
    <2> QED
        BY <1>0, <1>2, <2>1, <2>2 DEF Truncate
<1> QED
    BY <1>1, <1>2

(* The lines of a range are the lines whose numbers lie in it. *)
LEMMA LinesInRange ==
    ASSUME NEW text \in Seq(STRING), NEW range \in Ranges
    PROVE  LET lines == NumberLines(text, range) IN
           /\ lines \in Seq(ShownLines)
           /\ \A i \in DOMAIN text :
                  InRange(i, range) <=> [number |-> i, line |-> text[i]] \in ToSet(lines)
<1> DEFINE n == Len(text)
           first == IF range.from \in {Open, 0} THEN 1 ELSE range.from
           last == IF range.to = Open \/ range.to > n THEN n ELSE range.to
           size == IF last < first THEN 0 ELSE last - first + 1
           lines == [i \in 1..size |-> [number |-> first + i - 1, line |-> text[first + i - 1]]]
<1>0. n \in Nat /\ DOMAIN text = 1..n /\ \A i \in 1..n : text[i] \in STRING
    BY LenProperties, ElementOfSeq
<1>1. range.from \in Nat \cup {Open} /\ range.to \in Nat \cup {Open} /\ Open \notin Nat
    BY InputsAssumption
<1>2. first \in Nat /\ first >= 1 /\ last \in Nat /\ last <= n
    BY <1>0, <1>1
<1>3. \A i \in 1..n : InRange(i, range) <=> first <= i /\ i <= last
    <2> SUFFICES ASSUME NEW i \in 1..n PROVE InRange(i, range) <=> first <= i /\ i <= last
        OBVIOUS
    <2>1. (range.from = Open \/ range.from <= i) <=> first <= i
        BY <1>0, <1>1
    <2>2. (range.to = Open \/ i <= range.to) <=> i <= last
        BY <1>0, <1>1
    <2> QED
        BY <2>1, <2>2 DEF InRange
<1>4. NumberLines(text, range) = lines
    BY DEF NumberLines
<1> HIDE DEF first, last, n
<1>5. size \in Nat
    BY <1>2
<1>6. \A i \in 1..size : first + i - 1 \in 1..n
    BY <1>0, <1>2
<1>7. lines \in Seq(ShownLines)
    <2>1. \A i \in 1..size : lines[i] \in ShownLines
        BY <1>0, <1>6 DEF ShownLines
    <2> HIDE DEF size
    <2>2. lines = [i \in 1..size |-> lines[i]]
        OBVIOUS
    <2> HIDE DEF lines
    <2> QED
        BY <1>5, <2>1, <2>2
<1>8. ASSUME NEW i \in 1..n
      PROVE  first <= i /\ i <= last <=> [number |-> i, line |-> text[i]] \in ToSet(lines)
    <2>1. ASSUME first <= i, i <= last
          PROVE  [number |-> i, line |-> text[i]] \in ToSet(lines)
        <3>1. i - first + 1 \in 1..size /\ first + (i - first + 1) - 1 = i
            BY <1>0, <1>2, <2>1
        <3> HIDE DEF size
        <3>2. lines[i - first + 1] = [number |-> i, line |-> text[i]]
            BY <3>1
        <3>3. DOMAIN lines = 1..size
            OBVIOUS
        <3> HIDE DEF lines
        <3> QED
            BY <3>1, <3>2, <3>3 DEF ToSet
    <2>2. ASSUME [number |-> i, line |-> text[i]] \in ToSet(lines)
          PROVE  first <= i /\ i <= last
        <3>1. PICK k \in 1..size : lines[k] = [number |-> i, line |-> text[i]]
            <4> HIDE DEF size
            <4> QED
                BY <2>2 DEF ToSet
        <3>2. lines[k].number = first + k - 1
            <4> HIDE DEF size
            <4> QED
                OBVIOUS
        <3>3. i = first + k - 1
            BY <3>1, <3>2
        <3> HIDE DEF lines
        <3> QED
            BY <1>0, <1>2, <3>3
    <2> QED
        BY <2>1, <2>2
<1> QED
    BY <1>0, <1>3, <1>4, <1>7, <1>8

(* What read_file returns. *)
LEMMA ReadFacts ==
    ASSUME NEW t, FileSystem(t), NEW path \in Paths, NEW range \in Ranges
    PROVE  LET read == Opened(t, path)
               asked == Canonical(t, Whole(path))
               r == ReadResult(t, read, range)
           IN
           /\ r \in [shown : Seq(ShownLines), notes : SUBSET Notes]
           /\ Len(r.shown) <= MaxOutput
           /\ r.shown # <<>> => /\ asked \in {read, Nowhere}
                                /\ ~UnresolvedLink(t, path) => IsPrefix(Root, read)
           /\ IsPrefix(Root, asked) /\ IsTextFile(t, asked) => r # Refusal
           /\ r # Refusal /\ "truncated" \notin r.notes =>
                \A i \in DOMAIN t[read].text :
                    InRange(i, range) <=>
                        [number |-> i, line |-> t[read].text[i]] \in ToSet(r.shown)
<1> DEFINE at == Resolve(t, path)
           read == Opened(t, path)
           asked == Canonical(t, Whole(path))
           r == ReadResult(t, read, range)
           lines == NumberLines(t[read].text, range)
<1>0. MaxOutput \in Nat
    BY LimitsAssumption
<1>1. ~UnresolvedLink(t, path) => read = IF at # Nowhere /\ at \in Real(t) THEN at ELSE Nowhere
    BY OpenedFacts
<1>2. /\ asked \in Real(t) \cup {Nowhere}
      /\ at # Nowhere => /\ IsPrefix(Root, at)
                         /\ at \in Real(t) => asked \in {at, Nowhere}
                         /\ UnresolvedLink(t, path) => asked = Nowhere
      /\ asked # Nowhere /\ IsPrefix(Root, asked) /\ ~IsDir(t, asked) => at = asked
    <2>1. UnresolvedLink(t, path) => at \notin Real(t)
        BY DEF UnresolvedLink, Real
    <2> QED
        BY <2>1, ResolveFacts, Ends
<1>a. read = Nowhere \/ at # Nowhere
    BY DEF Opened
<1> HIDE DEF at, read, asked
<1>3. IsFile(t, read) => /\ asked \in {read, Nowhere}
                         /\ ~UnresolvedLink(t, path) => IsPrefix(Root, read)
    <2>1. IsFile(t, read) => read # Nowhere
        BY Ends DEF IsFile
    <2> QED
        BY <1>1, <1>2, <1>a, <2>1
<1>4. IsFile(t, asked) => asked # Nowhere /\ ~IsDir(t, asked)
    BY Ends DEF IsFile, IsDir
<1>5. IsPrefix(Root, asked) /\ IsFile(t, asked) => read = asked
    <2>1. IsPrefix(Root, asked) /\ IsFile(t, asked) => at = asked /\ ~UnresolvedLink(t, path)
        BY <1>2, <1>4
    <2> QED
        BY <1>1, <1>2, <1>4, <2>1
<1>6. CASE ~(IsFile(t, read) /\ t[read].kind = "file")
    <2>1. ~IsTextFile(t, read)
        BY <1>6 DEF IsTextFile
    <2>2. r = Refusal
        BY <2>1 DEF ReadResult
    <2>3. Refusal.shown = <<>> /\ Len(<<>>) = 0 /\ Refusal.notes = {"error"}
        BY DEF Refusal, Nothing
    <2>4. Refusal \in [shown : Seq(ShownLines), notes : SUBSET Notes]
        BY DEF Refusal, Nothing, Notes
    <2> HIDE DEF r
    <2> QED
        BY <1>0, <1>5, <1>6, <2>2, <2>3, <2>4 DEF r, read, asked, IsTextFile
<1>7. CASE IsFile(t, read) /\ t[read].kind = "file"
    <2>1. t[read].text \in Seq(STRING)
        BY <1>7 DEF FileSystem, IsFile, Dir, Unreadable
    <2>2. /\ lines \in Seq(ShownLines)
          /\ \A i \in DOMAIN t[read].text :
                 InRange(i, range) <=> [number |-> i, line |-> t[read].text[i]] \in ToSet(lines)
        BY <2>1, LinesInRange
    <2>3. r = IF lines = <<>> THEN Nothing("no_lines") ELSE Truncate(lines, {})
        BY <1>7 DEF ReadResult, IsTextFile
    <2> HIDE DEF lines, r
    <2>4. CASE lines = <<>>
        <3>1. r = Nothing("no_lines") /\ r.shown = <<>> /\ r.notes = {"no_lines"} /\ Len(<<>>) = 0
            BY <2>3, <2>4 DEF Nothing
        <3>2. r # Refusal
            BY <3>1 DEF Refusal, Nothing
        <3>3. r \in [shown : Seq(ShownLines), notes : SUBSET Notes]
            BY <3>1 DEF Nothing, Notes
        <3> QED
            BY <1>0, <2>2, <2>4, <3>1, <3>2, <3>3 DEF r, read, asked
    <2>5. CASE lines # <<>>
        <3>1. r = Truncate(lines, {})
            BY <2>3, <2>5
        <3>2. /\ r.shown \in Seq(ShownLines)
              /\ Len(r.shown) <= MaxOutput
              /\ r.notes \in {{}, {} \cup {"truncated"}}
              /\ "truncated" \notin r.notes => r.shown = lines
              /\ r.shown # <<>>
            BY <2>2, <2>5, <3>1, TruncateFacts
        <3>3. r # Refusal
            BY <3>2 DEF Refusal, Nothing
        <3>4. r \in [shown : Seq(ShownLines), notes : SUBSET Notes]
            <4>1. r = [shown |-> r.shown, notes |-> r.notes]
                BY <3>1 DEF Truncate
            <4>2. r.notes \in SUBSET Notes
                BY <3>2 DEF Notes
            <4> QED
                BY <3>2, <4>1, <4>2
        <3> QED
            BY <1>3, <1>7, <2>2, <3>2, <3>3, <3>4 DEF r, read, asked
    <2> QED
        BY <2>4, <2>5
<1> QED
    BY <1>6, <1>7

-----------------------------------------------------------------------------
(* What a search shows. *)

(* What a sequence with one more at its end has. *)
LEMMA ToSetAppend ==
    ASSUME NEW S, NEW s \in Seq(S), NEW e \in S
    PROVE  ToSet(Append(s, e)) = ToSet(s) \cup {e}
<1> DEFINE a == Append(s, e)
<1>1. Len(s) \in Nat /\ DOMAIN s = 1..Len(s)
    BY LenProperties
<1>2. /\ a \in Seq(S) /\ Len(a) = Len(s) + 1
      /\ \A i \in 1..Len(s) : a[i] = s[i]
      /\ a[Len(s) + 1] = e
    BY AppendProperties
<1> HIDE DEF a
<1>3. DOMAIN a = 1..(Len(s) + 1)
    BY <1>2, LenProperties
<1>4. \A i \in 1..(Len(s) + 1) : i \in 1..Len(s) \/ i = Len(s) + 1
    BY <1>1
<1>5. Len(s) + 1 \in 1..(Len(s) + 1) /\ \A i \in 1..Len(s) : i \in 1..(Len(s) + 1)
    BY <1>1
<1>6. ToSet(a) = ToSet(s) \cup {e}
    BY <1>1, <1>2, <1>3, <1>4, <1>5 DEF ToSet
<1> QED
    BY <1>6 DEF a

(* What two sequences one after the other have. *)
LEMMA ToSetConcat ==
    ASSUME NEW S, NEW s \in Seq(S), NEW r \in Seq(S)
    PROVE  ToSet(s \o r) = ToSet(s) \cup ToSet(r)
<1> DEFINE a == s \o r
<1>1. Len(s) \in Nat /\ DOMAIN s = 1..Len(s) /\ Len(r) \in Nat /\ DOMAIN r = 1..Len(r)
    BY LenProperties
<1>2. /\ a \in Seq(S) /\ Len(a) = Len(s) + Len(r)
      /\ \A i \in 1..(Len(s) + Len(r)) : a[i] = IF i <= Len(s) THEN s[i] ELSE r[i - Len(s)]
    BY ConcatProperties
<1> HIDE DEF a
<1>3. DOMAIN a = 1..(Len(s) + Len(r))
    BY <1>2, LenProperties
<1>4. ToSet(a) \subseteq ToSet(s) \cup ToSet(r)
    <2> SUFFICES ASSUME NEW i \in DOMAIN a PROVE a[i] \in ToSet(s) \cup ToSet(r)
        BY DEF ToSet
    <2>1. CASE i <= Len(s)
        <3>1. i \in 1..Len(s)
            BY <1>1, <1>3, <2>1
        <3> QED
            BY <1>1, <1>2, <1>3, <2>1, <3>1 DEF ToSet
    <2>2. CASE ~(i <= Len(s))
        <3>1. i - Len(s) \in 1..Len(r)
            BY <1>1, <1>3, <2>2
        <3> QED
            BY <1>1, <1>2, <1>3, <2>2, <3>1 DEF ToSet
    <2> QED
        BY <2>1, <2>2
<1>5. ToSet(s) \subseteq ToSet(a)
    <2> SUFFICES ASSUME NEW i \in 1..Len(s) PROVE s[i] \in ToSet(a)
        BY <1>1 DEF ToSet
    <2>1. i \in 1..(Len(s) + Len(r)) /\ i <= Len(s)
        BY <1>1
    <2> QED
        BY <1>2, <1>3, <2>1 DEF ToSet
<1>6. ToSet(r) \subseteq ToSet(a)
    <2> SUFFICES ASSUME NEW i \in 1..Len(r) PROVE r[i] \in ToSet(a)
        BY <1>1 DEF ToSet
    <2>1. /\ Len(s) + i \in 1..(Len(s) + Len(r)) /\ ~(Len(s) + i <= Len(s))
          /\ (Len(s) + i) - Len(s) = i
        BY <1>1
    <2>2. a[Len(s) + i] = r[i]
        BY <1>2, <2>1
    <2> QED
        BY <1>3, <2>1, <2>2 DEF ToSet
<1> QED
    BY <1>4, <1>5, <1>6 DEF a

(* The matches among the first k lines of a file. *)
HitsUpTo(t, p, k) ==
    {[file |-> p, number |-> i] : i \in {j \in 1..k : TextOf(t, p)[j] \in Hits}}

(* The places whose text a search can read, links to files among them. *)
Searchable(t) == {p \in DOMAIN t : IsTextFile(t, LeadsTo(t, p))}

(* What a search reads is text. *)
LEMMA SearchableText ==
    ASSUME NEW t, FileSystem(t), NEW p \in Searchable(t)
    PROVE  TextOf(t, p) \in Seq(STRING)
<1> DEFINE q == LeadsTo(t, p)
<1>1. q \in DOMAIN t /\ t[q].kind = "file"
    BY DEF Searchable, IsTextFile, IsFile
<1> HIDE DEF q
<1>2. t[q].text \in Seq(STRING)
    BY <1>1 DEF FileSystem, Dir, Unreadable
<1> QED
    BY <1>2 DEF TextOf, q

(* Where a search goes is there to be read. *)
LEMMA SearchedFacts ==
    ASSUME NEW t, NEW at
    PROVE  Searched(t, at) \subseteq Searchable(t)
<1> SUFFICES ASSUME NEW p \in Searched(t, at) PROVE p \in Searchable(t)
    OBVIOUS
<1>1. p \in DOMAIN t /\ IsTextFile(t, IF p = at THEN LeadsTo(t, p) ELSE p)
    BY DEF Searched, WalkBelow
<1>2. IsTextFile(t, p) => LeadsTo(t, p) = p
    BY DEF IsTextFile, LeadsTo, IsLink
<1> QED
    BY <1>1, <1>2 DEF Searchable

(* The search finds in a file the lines that match, and no others. *)
LEMMA HitsFacts ==
    ASSUME NEW t, FileSystem(t), NEW p \in Searchable(t)
    PROVE  /\ HitsIn(t, p) \in Seq(ShownMatches)
           /\ ToSet(HitsIn(t, p)) = HitsUpTo(t, p, Len(TextOf(t, p)))
<1> DEFINE text == TextOf(t, p)
           n == Len(text)
           D == Seq(ShownMatches)
           hit(k) == [file |-> p, number |-> k]
           Next1(x, k) == IF text[k] \in Hits THEN Append(x, hit(k)) ELSE x
           IsIt(g) == g = [k \in 0..n |->
                              IF k = 0 THEN <<>>
                              ELSE IF text[k] \in Hits
                                   THEN Append(g[k - 1], [file |-> p, number |-> k])
                              ELSE g[k - 1]]
           upTo == CHOOSE g : IsIt(g)
<1>0. n \in Nat
    <2>1. text \in Seq(STRING)
        BY SearchableText
    <2> QED
        BY <2>1, LenProperties
<1>1. \A k \in 1..n : hit(k) \in ShownMatches
    BY <1>0 DEF ShownMatches, FileSystem, Searchable
<1>2. \A x \in D : \A k \in 1..n : Next1(x, k) \in D
    <2> SUFFICES ASSUME NEW x \in D, NEW k \in 1..n PROVE Next1(x, k) \in D
        OBVIOUS
    <2>1. hit(k) \in ShownMatches
        BY <1>1
    <2> HIDE DEF hit
    <2>2. Append(x, hit(k)) \in D
        BY <2>1, AppendProperties
    <2> QED
        BY <2>2
<1>3. <<>> \in D
    OBVIOUS
<1> HIDE DEF D
<1>4. \E g : IsIt(g)
    <2> DEFINE F == [k \in 1..n |-> [x \in D |-> Next1(x, k)]]
    <2>1. Recursion(D, n, <<>>, F)
        <3> HIDE DEF Next1
        <3>1. F \in [1..n -> [D -> D]]
            BY <1>2
        <3> HIDE DEF F
        <3> QED
            BY <1>0, <1>3, <3>1 DEF Recursion
    <2>2. PICK g \in [0..n -> D] : g[0] = <<>> /\ \A k \in 1..n : g[k] = F[k][g[k - 1]]
        <3> HIDE DEF F
        <3> QED
            BY <2>1, RecursionExists
    <2>3. \A k \in 1..n : k - 1 \in 0..n /\ k # 0
        BY <1>0
    <2>4. \A k \in 1..n : F[k][g[k - 1]] = Next1(g[k - 1], k)
        <3> HIDE DEF Next1
        <3> QED
            BY <2>3
    <2>5. \A k \in 0..n : k = 0 \/ k \in 1..n
        BY <1>0
    <2>6. IsIt(g)
        <3> HIDE DEF F, text
        <3>1. g = [k \in 0..n |-> g[k]]
            BY <2>2
        <3>2. \A k \in 1..n : g[k] = IF text[k] \in Hits
                                     THEN Append(g[k - 1], [file |-> p, number |-> k])
                                     ELSE g[k - 1]
            BY <2>2, <2>4, Zenon
        <3>3. \A k \in 0..n : g[k] = IF k = 0 THEN <<>>
                                     ELSE IF text[k] \in Hits
                                          THEN Append(g[k - 1], [file |-> p, number |-> k])
                                     ELSE g[k - 1]
            BY <2>2, <2>3, <2>5, <3>2, Zenon
        <3> QED
            BY <3>1, <3>3
    <2> QED
        BY <2>6
<1>5. IsIt(upTo)
    <2> HIDE DEF IsIt
    <2> QED
        BY <1>4
<1>6. HitsIn(t, p) = upTo[n]
    BY DEF HitsIn
<1> HIDE DEF upTo
<1>7. upTo[0] = <<>> /\ \A k \in 1..n : upTo[k] = Next1(upTo[k - 1], k)
    <2>1. 0 \in 0..n /\ \A k \in 1..n : k \in 0..n /\ k # 0
        BY <1>0
    <2> HIDE DEF text
    <2> QED
        BY <1>5, <2>1
<1> DEFINE T == {k \in 0..n : upTo[k] \in D /\ ToSet(upTo[k]) = HitsUpTo(t, p, k)}
<1>8. 0 \in T
    <2>1. ToSet(<<>>) = {} /\ HitsUpTo(t, p, 0) = {}
        BY DEF ToSet, HitsUpTo
    <2>2. upTo[0] \in D /\ ToSet(upTo[0]) = HitsUpTo(t, p, 0)
        BY <1>3, <1>7, <2>1
    <2>3. 0 \in 0..n
        BY <1>0
    <2> HIDE DEF n
    <2> QED
        BY <2>2, <2>3
<1>9. ASSUME NEW k \in 0..(n - 1), k \in T PROVE k + 1 \in T
    <2>1. k + 1 \in 1..n /\ k + 1 \in 0..n /\ (k + 1) - 1 = k
        BY <1>0
    <2>2. upTo[k + 1] = Next1(upTo[k], k + 1)
        BY <1>7, <2>1
    <2>3. upTo[k] \in D /\ ToSet(upTo[k]) = HitsUpTo(t, p, k)
        BY <1>9
    <2>4. HitsUpTo(t, p, k + 1) = IF text[k + 1] \in Hits
                                  THEN HitsUpTo(t, p, k) \cup {hit(k + 1)}
                                  ELSE HitsUpTo(t, p, k)
        <3>1. \A j : j \in 1..(k + 1) <=> j \in 1..k \/ j = k + 1
            BY <1>0
        <3> QED
            BY <3>1 DEF HitsUpTo
    <2>5. hit(k + 1) \in ShownMatches
        BY <1>1, <2>1
    <2> HIDE DEF hit
    <2>6. ToSet(Append(upTo[k], hit(k + 1))) = ToSet(upTo[k]) \cup {hit(k + 1)}
        BY <2>3, <2>5, ToSetAppend DEF D
    <2>7. upTo[k + 1] \in D
        BY <1>2, <2>1, <2>2, <2>3
    <2>8. ToSet(upTo[k + 1]) = HitsUpTo(t, p, k + 1)
        BY <2>2, <2>3, <2>4, <2>6
    <2> QED
        BY <2>1, <2>7, <2>8
<1>10. T \in SUBSET Nat
    OBVIOUS
<1>11. 0..n \subseteq T
    <2> HIDE DEF T
    <2> QED
        BY <1>0, <1>8, <1>9, <1>10, UpTo
<1>12. n \in T
    <2> HIDE DEF T
    <2> QED
        BY <1>0, <1>11
<1> QED
    BY <1>6, <1>12 DEF D

(* The search finds in files the lines that match, and no others. *)
LEMMA MatchesFacts ==
    ASSUME NEW t, FileSystem(t), NEW S \in SUBSET Searchable(t),
           NEW order \in Seq(S)
    PROVE  /\ MatchesIn(t, order) \in Seq(ShownMatches)
           /\ ToSet(MatchesIn(t, order)) =
                  UNION {HitsUpTo(t, p, Len(TextOf(t, p))) : p \in ToSet(order)}
<1> DEFINE n == Len(order)
           D == Seq(ShownMatches)
           hits(k) == HitsIn(t, order[k])
           found(k) == HitsUpTo(t, order[k], Len(TextOf(t, order[k])))
           IsIt(g) == g = [k \in 0..n |-> IF k = 0 THEN <<>> ELSE g[k - 1] \o HitsIn(t, order[k])]
           upTo == CHOOSE g : IsIt(g)
<1>0. n \in Nat /\ DOMAIN order = 1..n /\ \A k \in 1..n : order[k] \in S
    BY LenProperties, ElementOfSeq
<1>1. \A k \in 1..n : hits(k) \in D /\ ToSet(hits(k)) = found(k)
    BY <1>0, HitsFacts
<1> HIDE DEF hits
<1>2. \A x \in D : \A k \in 1..n : x \o hits(k) \in D
    BY <1>1, ConcatProperties
<1>3. <<>> \in D
    OBVIOUS
<1> HIDE DEF D
<1>4. \E g : IsIt(g)
    <2> DEFINE F == [k \in 1..n |-> [x \in D |-> x \o hits(k)]]
    <2>1. Recursion(D, n, <<>>, F)
        <3>1. F \in [1..n -> [D -> D]]
            BY <1>2
        <3> HIDE DEF F
        <3> QED
            BY <1>0, <1>3, <3>1 DEF Recursion
    <2>2. PICK g \in [0..n -> D] : g[0] = <<>> /\ \A k \in 1..n : g[k] = F[k][g[k - 1]]
        <3> HIDE DEF F
        <3> QED
            BY <2>1, RecursionExists
    <2>3. \A k \in 1..n : k - 1 \in 0..n /\ k # 0
        BY <1>0
    <2>4. \A k \in 1..n : F[k][g[k - 1]] = g[k - 1] \o hits(k)
        BY <2>3
    <2>5. \A k \in 0..n : k = 0 \/ k \in 1..n
        BY <1>0
    <2>6. IsIt(g)
        <3> HIDE DEF F
        <3>1. g = [k \in 0..n |-> g[k]]
            BY <2>2
        <3>2. \A k \in 1..n : g[k] = g[k - 1] \o HitsIn(t, order[k])
            BY <2>2, <2>4, Zenon DEF hits
        <3>3. \A k \in 0..n : g[k] = IF k = 0 THEN <<>> ELSE g[k - 1] \o HitsIn(t, order[k])
            BY <2>2, <2>3, <2>5, <3>2, Zenon
        <3> QED
            BY <3>1, <3>3
    <2> QED
        BY <2>6
<1>5. IsIt(upTo)
    <2> HIDE DEF IsIt
    <2> QED
        BY <1>4
<1>6. MatchesIn(t, order) = upTo[n]
    BY DEF MatchesIn
<1> HIDE DEF upTo
<1>7. upTo[0] = <<>> /\ \A k \in 1..n : upTo[k] = upTo[k - 1] \o hits(k)
    <2>1. 0 \in 0..n /\ \A k \in 1..n : k \in 0..n /\ k # 0
        BY <1>0
    <2> QED
        BY <1>5, <2>1 DEF hits
<1> DEFINE T == {k \in 0..n : /\ upTo[k] \in D
                              /\ ToSet(upTo[k]) = UNION {found(j) : j \in 1..k}}
<1>8. 0 \in T
    <2>1. ToSet(<<>>) = {} /\ UNION {found(j) : j \in 1..0} = {}
        BY DEF ToSet
    <2> QED
        BY <1>0, <1>3, <1>7, <2>1
<1>9. ASSUME NEW k \in 0..(n - 1), k \in T PROVE k + 1 \in T
    <2>1. k + 1 \in 1..n /\ k + 1 \in 0..n /\ (k + 1) - 1 = k
        BY <1>0
    <2>2. upTo[k + 1] = upTo[k] \o hits(k + 1)
        BY <1>7, <2>1
    <2>3. upTo[k] \in D /\ ToSet(upTo[k]) = UNION {found(j) : j \in 1..k}
        BY <1>9
    <2>4. hits(k + 1) \in D /\ ToSet(hits(k + 1)) = found(k + 1)
        BY <1>1, <2>1
    <2> HIDE DEF found
    <2>5. UNION {found(j) : j \in 1..(k + 1)} = (UNION {found(j) : j \in 1..k}) \cup found(k + 1)
        <3>1. \A j : j \in 1..(k + 1) <=> j \in 1..k \/ j = k + 1
            BY <1>0
        <3> QED
            BY <3>1
    <2>6. ToSet(upTo[k] \o hits(k + 1)) = ToSet(upTo[k]) \cup ToSet(hits(k + 1))
        BY <2>3, <2>4, ToSetConcat DEF D
    <2>7. upTo[k + 1] \in D
        BY <1>2, <2>1, <2>2, <2>3
    <2>8. ToSet(upTo[k + 1]) = UNION {found(j) : j \in 1..(k + 1)}
        BY <2>2, <2>3, <2>4, <2>5, <2>6
    <2> QED
        BY <2>1, <2>7, <2>8
<1>10. T \in SUBSET Nat
    OBVIOUS
<1>11. 0..n \subseteq T
    <2> HIDE DEF T
    <2> QED
        BY <1>0, <1>8, <1>9, <1>10, UpTo
<1>12. n \in T
    <2> HIDE DEF T
    <2> QED
        BY <1>0, <1>11
<1>13. UNION {found(j) : j \in 1..n} =
           UNION {HitsUpTo(t, p, Len(TextOf(t, p))) : p \in ToSet(order)}
    BY <1>0 DEF ToSet
<1> QED
    BY <1>6, <1>12, <1>13 DEF D

(* An order of a finite set has every one of the set and no other. *)
LEMMA OrderFacts ==
    ASSUME NEW S, IsFiniteSet(S), NEW order \in SetToSeqs(S)
    PROVE  order \in Seq(S) /\ ToSet(order) = S
<1> DEFINE n == Cardinality(S)
<1>1. n \in Nat
    BY FS_CardinalityType
<1>2. order \in [1..n -> S] /\ \A i, j \in 1..n : i # j => order[i] # order[j]
    BY DEF SetToSeqs
<1>3. order \in Injection(1..n, S)
    <2> HIDE DEF n
    <2> QED
        BY <1>2 DEF Injection, IsInjective
<1>4. Cardinality(1..n) = n
    BY <1>1, FS_Interval
<1>5. order \in Surjection(1..n, S)
    BY <1>3, <1>4, FS_Injection
<1> HIDE DEF n
<1>6. \A x \in S : \E i \in 1..n : order[i] = x
    BY <1>5 DEF Surjection
<1>7. order \in Seq(S)
    BY <1>1, <1>2
<1>8. DOMAIN order = 1..n
    BY <1>2
<1> QED
    BY <1>2, <1>6, <1>7, <1>8 DEF ToSet

(* A finite set has an order. *)
LEMMA SetToSeqFacts ==
    ASSUME NEW S, IsFiniteSet(S)
    PROVE  SetToSeq(S) \in Seq(S)
<1> DEFINE n == Cardinality(S)
<1>1. n \in Nat /\ ExistsBijection(1..n, S)
    BY FS_CardinalityType
<1>2. \E f \in [1..n -> S] : IsInjective(f)
    BY <1>1 DEF ExistsBijection, Bijection, Injection, IsInjective
<1>3. SetToSeq(S) \in [1..n -> S]
    BY <1>2 DEF SetToSeq
<1> HIDE DEF n
<1> QED
    BY <1>1, <1>3

(* Everything a tool can show. *)
Shown == ShownLines \cup TreePlaces \cup ShownMatches

(* What a tool can answer. *)
Answers == {r \in [shown : Seq(Shown), notes : SUBSET Notes] : Len(r.shown) <= MaxOutput}

(* A result without lines is an answer. *)
LEMMA NothingIsAnswer ==
    ASSUME NEW note \in Notes
    PROVE  Nothing(note) \in Answers /\ Nothing(note).shown = <<>>
<1>1. Len(<<>>) = 0 /\ 0 <= MaxOutput
    BY LimitsAssumption
<1>2. Nothing(note) \in [shown : Seq(Shown), notes : SUBSET Notes] /\ Nothing(note).shown = <<>>
    BY DEF Nothing
<1> QED
    BY <1>1, <1>2 DEF Answers

(* A result within the cap, or cut to it, is an answer. *)
LEMMA TruncatedIsAnswer ==
    ASSUME NEW shown \in Seq(Shown)
    PROVE  Truncate(shown, {}) \in Answers
<1> DEFINE r == Truncate(shown, {})
<1>1. r.shown \in Seq(Shown) /\ Len(r.shown) <= MaxOutput /\ r.notes \in {{}, {} \cup {"truncated"}}
    BY TruncateFacts
<1>2. r = [shown |-> r.shown, notes |-> r.notes]
    BY DEF Truncate
<1>3. r.notes \in SUBSET Notes
    BY <1>1 DEF Notes
<1> HIDE DEF r
<1>4. r \in [shown : Seq(Shown), notes : SUBSET Notes]
    BY <1>1, <1>2, <1>3
<1>5. r \in Answers
    BY <1>1, <1>4 DEF Answers
<1> QED
    BY <1>5 DEF r

(* What list_dir and glob return. *)
LEMMA ListingFacts ==
    ASSUME NEW t, FileSystem(t), NEW entries \in SUBSET DOMAIN t, NEW note \in Notes,
           NEW r \in Listings(entries, note)
    PROVE  r \in Answers
<1>1. CASE entries = {}
    BY <1>1, NothingIsAnswer DEF Listings
<1>2. CASE entries # {}
    <2>1. PICK S \in SUBSET entries : r = Truncate(SetToSeq(S), {})
        BY <1>2 DEF Listings
    <2>2. IsFiniteSet(S)
        BY FS_Subset DEF FileSystem
    <2>3. S \subseteq Shown
        BY DEF FileSystem, Shown
    <2>4. SetToSeq(S) \in Seq(Shown)
        BY <2>2, <2>3, SetToSeqFacts, SeqOfMore
    <2> QED
        BY <2>1, <2>4, TruncatedIsAnswer
<1> QED
    BY <1>1, <1>2

(* Matches that are not all shown are marked as cut. *)
LEMMA CutFacts ==
    ASSUME NEW all \in Seq(ShownMatches)
    PROVE  LET r == CutMatches(all) IN
           /\ r \in Answers
           /\ ToSet(r.shown) \subseteq ToSet(all) \cup {StopMark}
           /\ "truncated" \notin r.notes /\ StopMark \notin ToSet(r.shown) => r.shown = all
<1> DEFINE r == CutMatches(all)
           first == SubSeq(all, 1, MAX_MATCHES)
<1>0. MAX_MATCHES \in Nat /\ Len(all) \in Nat
    BY LimitsAssumption, LenProperties
<1>1. ShownMatches \subseteq Shown
    BY DEF Shown
<1>2. CASE Len(all) < MAX_MATCHES
    <2>1. r = Truncate(all, {})
        BY <1>2 DEF CutMatches
    <2>2. r \in Answers
        BY <1>1, <2>1, SeqOfMore, TruncatedIsAnswer
    <2>3. "truncated" \notin r.notes => r.shown = all
        BY <2>1, TruncateFacts
    <2>4. ToSet(r.shown) \subseteq ToSet(all)
        BY <2>1, TruncateFacts
    <2> QED
        BY <2>2, <2>3, <2>4
<1>3. CASE ~(Len(all) < MAX_MATCHES)
    <2>1. r = Truncate(Append(first, StopMark), {})
        BY <1>3 DEF CutMatches
    <2>2. first \in Seq(ShownMatches) /\ ToSet(first) \subseteq ToSet(all)
        <3>1. MAX_MATCHES <= Len(all)
            BY <1>0, <1>3
        <3> QED
            BY <1>0, <3>1, FrontPart
    <2>3. StopMark \in ShownMatches
        BY DEF StopMark, ShownMatches
    <2> HIDE DEF first
    <2>4. /\ Append(first, StopMark) \in Seq(ShownMatches)
          /\ ToSet(Append(first, StopMark)) = ToSet(first) \cup {StopMark}
        BY <2>2, <2>3, AppendProperties, ToSetAppend
    <2>5. r \in Answers
        BY <1>1, <2>1, <2>4, SeqOfMore, TruncatedIsAnswer
    <2> DEFINE ends == Append(first, StopMark)
    <2>8. ends \in Seq(ShownMatches) /\ r = Truncate(ends, {}) /\ StopMark \in ToSet(ends)
        BY <2>1, <2>4
    <2> HIDE DEF ends, r
    <2>9. /\ "truncated" \notin r.notes => r.shown = ends
          /\ ToSet(r.shown) \subseteq ToSet(ends)
        BY <2>8, TruncateFacts
    <2>6. "truncated" \notin r.notes => StopMark \in ToSet(r.shown)
        BY <2>8, <2>9, Zenon
    <2>7. ToSet(r.shown) \subseteq ToSet(all) \cup {StopMark}
        BY <2>2, <2>4, <2>9 DEF ends
    <2> USE DEF r
    <2> QED
        BY <2>5, <2>6, <2>7
<1> QED
    BY <1>2, <1>3

(* What grep returns. *)
LEMMA GrepFacts ==
    ASSUME NEW t, FileSystem(t), NEW at, NEW r \in GrepResults(t, at)
    PROVE  /\ r \in Answers
           /\ \A match \in ToSet(r.shown) \ {StopMark} :
                  at # Nowhere /\ match.file \in Searched(t, at)
           /\ r # Refusal /\ "truncated" \notin r.notes /\ StopMark \notin ToSet(r.shown) =>
                \A p \in Searched(t, at) : \A i \in DOMAIN TextOf(t, p) :
                    TextOf(t, p)[i] \in Hits <=> [file |-> p, number |-> i] \in ToSet(r.shown)
<1>1. CASE at = Nowhere
    <2>1. r = Refusal
        BY <1>1 DEF GrepResults
    <2>2. r \in Answers /\ r.shown = <<>>
        BY <2>1, NothingIsAnswer DEF Refusal, Notes
    <2>3. ToSet(<<>>) = {}
        BY DEF ToSet
    <2> QED
        BY <2>1, <2>2, <2>3
<1>2. CASE at # Nowhere
    <2> DEFINE S == Searched(t, at)
    <2>1. S \in SUBSET Searchable(t)
        BY SearchedFacts
    <2>2. IsFiniteSet(S)
        <3>1. S \in SUBSET DOMAIN t
            BY <2>1 DEF Searchable
        <3> QED
            BY <3>1, FS_Subset DEF FileSystem
    <2>3. PICK order \in SetToSeqs(S) :
              r = IF MatchesIn(t, order) = <<>> THEN Nothing("no_matches")
                  ELSE CutMatches(MatchesIn(t, order))
        BY <1>2 DEF GrepResults
    <2> HIDE DEF S
    <2>4. order \in Seq(S) /\ ToSet(order) = S
        BY <2>2, OrderFacts
    <2> DEFINE all == MatchesIn(t, order)
    <2>5. /\ all \in Seq(ShownMatches)
          /\ ToSet(all) = UNION {HitsUpTo(t, p, Len(TextOf(t, p))) : p \in S}
        BY <2>1, <2>4, MatchesFacts
    <2> HIDE DEF all
    <2>6. ASSUME NEW p \in S, NEW i \in DOMAIN TextOf(t, p)
          PROVE  TextOf(t, p)[i] \in Hits <=> [file |-> p, number |-> i] \in ToSet(all)
        <3>1. TextOf(t, p) \in Seq(STRING)
            BY <2>1, SearchableText
        <3>2. i \in 1..Len(TextOf(t, p))
            BY <3>1, LenProperties
        <3>3. ASSUME TextOf(t, p)[i] \in Hits PROVE [file |-> p, number |-> i] \in ToSet(all)
            BY <2>5, <3>2, <3>3 DEF HitsUpTo
        <3>4. ASSUME [file |-> p, number |-> i] \in ToSet(all) PROVE TextOf(t, p)[i] \in Hits
            <4>1. PICK q \in S : [file |-> p, number |-> i] \in HitsUpTo(t, q, Len(TextOf(t, q)))
                BY <2>5, <3>4
            <4>2. PICK j \in 1..Len(TextOf(t, q)) :
                      TextOf(t, q)[j] \in Hits /\ [file |-> p, number |-> i] = [file |-> q, number |-> j]
                BY <4>1 DEF HitsUpTo
            <4>3. p = q /\ i = j
                BY <4>2
            <4> QED
                BY <4>2, <4>3
        <3> QED
            BY <3>3, <3>4
    <2>7. r \in Answers
        BY <2>3, <2>5, CutFacts, NothingIsAnswer DEF Notes, all
    <2>8. "truncated" \notin r.notes /\ StopMark \notin ToSet(r.shown) => r.shown = all
        <3>1. CASE all = <<>>
            BY <2>3, <3>1 DEF all, Nothing
        <3>2. CASE all # <<>>
            <4>1. r = CutMatches(all)
                BY <2>3, <3>2 DEF all
            <4> QED
                BY <2>5, <4>1, CutFacts
        <3> QED
            BY <3>1, <3>2
    <2>9. ASSUME NEW match \in ToSet(r.shown) \ {StopMark} PROVE match.file \in S
        <3>1. match \in ToSet(all)
            <4>1. CASE all = <<>>
                <5>1. r.shown = <<>> /\ ToSet(<<>>) = {}
                    BY <2>3, <4>1 DEF all, Nothing, ToSet
                <5> QED
                    BY <2>9, <5>1
            <4>2. CASE all # <<>>
                <5>1. r = CutMatches(all)
                    BY <2>3, <4>2 DEF all
                <5> QED
                    BY <2>5, <2>9, <5>1, CutFacts
            <4> QED
                BY <4>1, <4>2
        <3>2. PICK q \in S : match \in HitsUpTo(t, q, Len(TextOf(t, q)))
            BY <2>5, <3>1
        <3>3. PICK j \in 1..Len(TextOf(t, q)) : match = [file |-> q, number |-> j]
            BY <3>2 DEF HitsUpTo
        <3> QED
            BY <3>3
    <2> QED
        BY <1>2, <2>6, <2>7, <2>8, <2>9 DEF S
<1> QED
    BY <1>1, <1>2

-----------------------------------------------------------------------------
(* Every call. *)

(* Every step reads with read_file or grep, changes nothing, or is another  *)
(* call or none.                                                            *)
LEMMA CallsThatRead ==
    ASSUME [FilesNext]_filesVars
    PROVE  \/ \E path \in Paths : \E range \in Ranges : ReadFile(path, range)
           \/ \E path \in Paths : Grep(path)
           \/ UNCHANGED filesVars
           \/ request'.tool \notin {"read_file", "grep"}
<1>1. \A path : ListDir(path) \/ CreateFile(path) => request'.tool \notin {"read_file", "grep"}
    BY DEF ListDir, CreateFile
<1>2. \A glob : Glob(glob) => request'.tool \notin {"read_file", "grep"}
    BY DEF Glob
<1>3. \A name, what : MakeEntry(name, what) => request'.tool \notin {"read_file", "grep"}
    BY DEF MakeEntry
<1> QED
    BY <1>1, <1>2, <1>3 DEF FilesNext

(* The file system stays one, no result is longer than the cap, and the     *)
(* steps stay within their bound.                                           *)
THEOREM FileTypesHold == FilesSpec => []FilesTypeOK
<1> DEFINE AnswerOK == answer \in Answers
           StepsOK == steps \in 0..MaxSteps
<1>0. MaxSteps \in Nat
    BY LimitsAssumption
<1>1. FilesInit => AnswerOK /\ StepsOK
    BY <1>0, NothingIsAnswer DEF FilesInit, Notes
<1>2. FileSystem(tree) /\ AnswerOK /\ StepsOK /\ [FilesNext]_filesVars => AnswerOK' /\ StepsOK'
    <2> SUFFICES ASSUME FileSystem(tree), AnswerOK, StepsOK, [FilesNext]_filesVars
                 PROVE  AnswerOK' /\ StepsOK'
        OBVIOUS
    <2>1. Step => StepsOK'
        BY <1>0 DEF Step
    <2>2. ASSUME NEW path \in Paths, NEW range \in Ranges, ReadFile(path, range)
          PROVE  answer' \in Answers
        <3> DEFINE r == ReadResult(tree, Opened(tree, path), range)
        <3>1. r \in [shown : Seq(ShownLines), notes : SUBSET Notes] /\ Len(r.shown) <= MaxOutput
            BY ReadFacts
        <3> HIDE DEF r
        <3>2. r.shown \in Seq(Shown)
            BY <3>1, SeqOfMore DEF Shown
        <3>3. r \in [shown : Seq(Shown), notes : SUBSET Notes]
            BY <3>1, <3>2
        <3> QED
            BY <2>2, <3>1, <3>3 DEF ReadFile, Answers, r
    <2>3. ASSUME NEW path \in Paths, ListDir(path) PROVE answer' \in Answers
        <3>1. answer' \in ListResults(tree, Resolve(tree, path))
            BY <2>3 DEF ListDir
        <3> DEFINE at == Resolve(tree, path)
                   entries == {p \in WalkBelow(tree, at) : Len(p) = Len(at) + 1}
        <3>2. entries \in SUBSET DOMAIN tree
            BY DEF WalkBelow
        <3>3. answer' \in {Refusal} \/ answer' \in Listings(entries, "empty")
            BY <3>1 DEF ListResults
        <3> HIDE DEF entries
        <3> QED
            BY <3>2, <3>3, ListingFacts, NothingIsAnswer DEF Refusal, Notes
    <2>4. ASSUME NEW glob \in Globs, Glob(glob) PROVE answer' \in Answers
        <3> DEFINE entries == {p \in WalkBelow(tree, Root) : IsFile(tree, p) /\ Last(p) \in glob}
        <3>1. answer' \in Listings(entries, "no_files")
            BY <2>4 DEF Glob, GlobResults
        <3>2. entries \in SUBSET DOMAIN tree
            BY DEF WalkBelow
        <3> HIDE DEF entries
        <3> QED
            BY <3>1, <3>2, ListingFacts DEF Notes
    <2>5. ASSUME NEW path \in Paths, Grep(path) PROVE answer' \in Answers
        BY <2>5, GrepFacts DEF Grep
    <2>6. ASSUME NEW path \in Paths, CreateFile(path) PROVE answer' \in Answers
        BY <2>6, NothingIsAnswer DEF CreateFile, Refusal, Notes
    <2>7. ASSUME NEW name, NEW what, MakeEntry(name, what) PROVE answer' \in Answers
        BY <2>7, NothingIsAnswer DEF MakeEntry, Notes
    <2>8. CASE UNCHANGED filesVars
        BY <2>8 DEF filesVars
    <2>9. CASE FilesNext
        <3>1. answer' \in Answers
            BY <2>2, <2>3, <2>4, <2>5, <2>6, <2>7, <2>9 DEF FilesNext
        <3>2. Step
            BY <2>9 DEF FilesNext, ReadFile, ListDir, Grep, Glob, CreateFile, MakeEntry
        <3> QED
            BY <2>1, <3>1, <3>2
    <2> QED
        BY <2>8, <2>9
<1>3. FileSystem(tree) /\ AnswerOK /\ StepsOK => FilesTypeOK
    BY DEF FilesTypeOK, Answers, Shown
<1> QED
    BY <1>1, <1>2, <1>3, TreeInvariant, PTL DEF FilesSpec

(* What lies below a place in the workspace lies in the workspace. *)
LEMMA PrefixOfPrefix ==
    ASSUME NEW at \in TreePlaces, NEW p \in TreePlaces, IsPrefix(Root, at), IsPrefix(at, p)
    PROVE  IsPrefix(Root, p)
<1> DEFINE r == Len(Root)
           m == Len(at)
<1>1. /\ Root \in Seq(STRING) /\ at \in Seq(STRING) /\ p \in Seq(STRING)
      /\ r \in Nat /\ m \in Nat /\ Len(p) \in Nat
    BY TreesAssumption, PlacesArePaths
<1>2. r <= m /\ SubSeq(Root, 1, r) = SubSeq(at, 1, r)
    BY DEF IsPrefix
<1>3. m <= Len(p) /\ SubSeq(at, 1, m) = SubSeq(p, 1, m)
    BY DEF IsPrefix
<1>4. \A i \in 1..m : at[i] = p[i]
    <2>1. \A i \in 1..m : SubSeq(at, 1, m)[i] = at[i] /\ SubSeq(p, 1, m)[i] = p[i]
        BY <1>1, <1>3
    <2> QED
        BY <1>3, <2>1
<1>5. SubSeq(at, 1, r) = [i \in 1..r |-> at[i]] /\ SubSeq(p, 1, r) = [i \in 1..r |-> p[i]]
    BY <1>1, <1>2, <1>3
<1>6. \A i \in 1..r : at[i] = p[i]
    BY <1>1, <1>2, <1>4
<1>7. SubSeq(Root, 1, r) = SubSeq(p, 1, r) /\ r <= Len(p)
    BY <1>1, <1>2, <1>3, <1>5, <1>6
<1> QED
    BY <1>7 DEF IsPrefix

(* A link that leads somewhere can be walked to. *)
LEMMA LinkIsWalked ==
    ASSUME NEW t, FileSystem(t), NEW at \in TreePlaces, IsLink(t, at), t[at].to \in DOMAIN t
    PROVE  ~Blocked(t, at)
<1> SUFFICES ASSUME NEW j \in 1..Len(at),
                    SubSeq(at, 1, j - 1) \in Real(t),
                    StepInto(t, SubSeq(at, 1, j - 1), at[j]) = Nowhere
             PROVE  FALSE
    BY DEF Blocked
<1>0. Len(at) \in Nat /\ SubSeq(at, 1, Len(at)) = at /\ at \in DOMAIN t
    BY PlacesArePaths, PrefixFacts DEF IsLink
<1>1. \A k \in 0..(Len(at) - 1) : IsDir(t, SubSeq(at, 1, k))
    <2>1. Len(at) \in 0..Len(at)
        BY <1>0
    <2> QED
        BY <1>0, <2>1, PrefixesAreDirs
<1>2. j - 1 \in 0..(Len(at) - 1)
    BY <1>0
<1>3. /\ Append(SubSeq(at, 1, j - 1), at[j]) = SubSeq(at, 1, j)
      /\ at[j] # "." /\ at[j] # ".."
    BY FrontOfPrefix DEF IsName
<1>4. IsDir(t, SubSeq(at, 1, j - 1)) /\ SubSeq(at, 1, j - 1) # Nowhere
    BY <1>1, <1>2, Ends
<1>5. SubSeq(at, 1, j) \in DOMAIN t /\ (IsLink(t, SubSeq(at, 1, j)) => SubSeq(at, 1, j) = at)
    <2>1. CASE j = Len(at)
        BY <1>0, <2>1
    <2>2. CASE j # Len(at)
        <3>0. Len(at) \in Nat
            BY PlacesArePaths
        <3>1. j \in 0..(Len(at) - 1)
            BY <2>2, <3>0
        <3> QED
            BY <1>1, <3>1 DEF IsDir, IsLink
    <2> QED
        BY <2>1, <2>2
<1>6. SubSeq(at, 1, j) # Nowhere /\ t[at].to # Nowhere
    BY <1>5, Ends
<1> QED
    BY <1>3, <1>4, <1>5, <1>6 DEF StepInto

(* Unless the path ends in a separator behind a link, a search shows only   *)
(* what lies in the workspace.                                              *)
LEMMA SearchInside ==
    ASSUME NEW t, FileSystem(t), NEW path \in Paths, ~UnresolvedLink(t, path),
           NEW r \in GrepResults(t, Resolve(t, path)),
           NEW match \in ToSet(r.shown) \ {StopMark}
    PROVE  IsPrefix(Root, Canonical(t, match.file))
<1> DEFINE at == Resolve(t, path)
<1>1. at # Nowhere /\ match.file \in Searched(t, at)
    BY GrepFacts
<1>2. at \in TreePlaces /\ IsPrefix(Root, at) /\ (at \in Real(t) \/ Blocked(t, at))
    BY <1>1, ResolveFacts
<1>3. /\ match.file \in DOMAIN t /\ IsPrefix(at, match.file)
      /\ IsTextFile(t, IF match.file = at THEN LeadsTo(t, match.file) ELSE match.file)
    BY <1>1 DEF Searched, WalkBelow
<1>4. match.file \in TreePlaces
    BY <1>3 DEF FileSystem
<1>5. match.file \in Real(t)
    <2>1. CASE match.file = at
        <3>1. at \in Real(t)
            <4>1. CASE IsLink(t, at)
                <5>1. t[at].to \in DOMAIN t
                    BY <1>3, <2>1, <4>1 DEF IsTextFile, IsFile, LeadsTo
                <5> QED
                    BY <1>2, <4>1, <5>1, LinkIsWalked
            <4>2. CASE ~IsLink(t, at)
                BY <1>3, <2>1, <4>2 DEF Real
            <4> QED
                BY <4>1, <4>2
        <3> QED
            BY <2>1, <3>1
    <2>2. CASE match.file # at
        BY <1>3, <2>2 DEF IsTextFile, IsFile, IsLink, Real
    <2> QED
        BY <2>1, <2>2
<1>6. Canonical(t, match.file) = match.file
    BY <1>5, RealIsCanonical
<1> QED
    BY <1>2, <1>3, <1>4, <1>6, PrefixOfPrefix

(* Unless the path ends in a separator behind a link, what read_file and    *)
(* grep show lies in the workspace; what read_file shows is what the path   *)
(* asked for, and a path that leads to a text file of the workspace is not  *)
(* refused.                                                                 *)
THEOREM ReadsAreInside == FilesSpec => []ReadsStayInside
<1>1. FilesInit => ReadsStayInside
    BY DEF FilesInit, ReadsStayInside
<1>2. FileSystem(tree) /\ ReadsStayInside /\ [FilesNext]_filesVars => ReadsStayInside'
    <2> SUFFICES ASSUME FileSystem(tree), ReadsStayInside, [FilesNext]_filesVars
                 PROVE  ReadsStayInside'
        OBVIOUS
    <2>1. ASSUME NEW path \in Paths, NEW range \in Ranges, ReadFile(path, range)
          PROVE  ReadsStayInside'
        <3>1. /\ request'.tool = "read_file" /\ request'.path = path
              /\ answer' = ReadResult(tree, Opened(tree, path), range)
              /\ tree' = tree
            BY <2>1 DEF ReadFile
        <3>2. PlacesRead' = IF answer'.shown = <<>> THEN {} ELSE {Opened(tree, path)}
            BY <3>1 DEF PlacesRead
        <3> QED
            BY <3>1, <3>2, ReadFacts DEF ReadsStayInside
    <2>2. ASSUME NEW path \in Paths, Grep(path) PROVE ReadsStayInside'
        <3>1. /\ request'.tool = "grep" /\ request'.path = path
              /\ answer' \in GrepResults(tree, Resolve(tree, path))
              /\ tree' = tree
            BY <2>2 DEF Grep
        <3>2. PlacesRead' =
                  {Canonical(tree, match.file) : match \in ToSet(answer'.shown) \ {StopMark}}
            BY <3>1 DEF PlacesRead
        <3>3. ASSUME ~UnresolvedLink(tree, path), NEW match \in ToSet(answer'.shown) \ {StopMark}
              PROVE  IsPrefix(Root, Canonical(tree, match.file))
            BY <3>1, <3>3, SearchInside
        <3> QED
            BY <3>1, <3>2, <3>3 DEF ReadsStayInside
    <2>3. CASE UNCHANGED filesVars
        BY <2>3 DEF ReadsStayInside, PlacesRead, filesVars
    <2>4. CASE request'.tool \notin {"read_file", "grep"}
        BY <2>4 DEF ReadsStayInside
    <2>5. \/ \E path \in Paths : \E range \in Ranges : ReadFile(path, range)
          \/ \E path \in Paths : Grep(path)
          \/ UNCHANGED filesVars
          \/ request'.tool \notin {"read_file", "grep"}
        BY CallsThatRead
    <2> QED
        BY <2>1, <2>2, <2>3, <2>4, <2>5
<1> QED
    BY <1>1, <1>2, TreeInvariant, PTL DEF FilesSpec

(* A line of the range, or a match, that a result does not have is missing  *)
(* from a result that says it is a fragment.                                *)
THEOREM FragmentsMarked == FilesSpec => []FragmentsAreMarked
<1>1. FilesInit => FragmentsAreMarked
    BY DEF FilesInit, FragmentsAreMarked
<1>2. FileSystem(tree) /\ FragmentsAreMarked /\ [FilesNext]_filesVars => FragmentsAreMarked'
    <2> SUFFICES ASSUME FileSystem(tree), FragmentsAreMarked, [FilesNext]_filesVars
                 PROVE  FragmentsAreMarked'
        OBVIOUS
    <2>1. ASSUME NEW path \in Paths, NEW range \in Ranges, ReadFile(path, range)
          PROVE  FragmentsAreMarked'
        <3>1. /\ request'.tool = "read_file" /\ request'.path = path /\ request'.range = range
              /\ answer' = ReadResult(tree, Opened(tree, path), range)
              /\ tree' = tree
            BY <2>1 DEF ReadFile
        <3> QED
            BY <3>1, ReadFacts DEF FragmentsAreMarked
    <2>2. ASSUME NEW path \in Paths, Grep(path) PROVE FragmentsAreMarked'
        <3>1. /\ request'.tool = "grep" /\ request'.path = path
              /\ answer' \in GrepResults(tree, Resolve(tree, path))
              /\ tree' = tree
            BY <2>2 DEF Grep
        <3> QED
            BY <3>1, GrepFacts DEF FragmentsAreMarked
    <2>3. CASE UNCHANGED filesVars
        BY <2>3 DEF FragmentsAreMarked, filesVars
    <2>4. CASE request'.tool \notin {"read_file", "grep"}
        BY <2>4 DEF FragmentsAreMarked
    <2>5. \/ \E path \in Paths : \E range \in Ranges : ReadFile(path, range)
          \/ \E path \in Paths : Grep(path)
          \/ UNCHANGED filesVars
          \/ request'.tool \notin {"read_file", "grep"}
        BY CallsThatRead
    <2> QED
        BY <2>1, <2>2, <2>3, <2>4, <2>5
<1> QED
    BY <1>1, <1>2, TreeInvariant, PTL DEF FilesSpec

=============================================================================
