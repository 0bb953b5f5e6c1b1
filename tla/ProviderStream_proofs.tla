------------------------- MODULE ProviderStream_proofs -------------------------
(* Proofs about ProviderStream, for every set of replies: any number of      *)
(* blocks and pieces, mixed, cut off or broken anywhere.                     *)
EXTENDS ProviderStream, SequenceTheorems, FiniteSetTheorems, TLAPS

-----------------------------------------------------------------------------
(* The invariant. *)

(* How many numbers of S come before i. *)
Rank(S, i) == Cardinality({j \in S : j < i})

(* The first pieces of a call. *)
FirstPieces(i, n) == [k \in 1..n |-> <<i, k>>]

(* The call that the parser has built of the pieces received. *)
Built(i) == [id |-> i, args |-> FirstPieces(i, sent[i])]

(* Every call that has reached the agent is a whole call of the reply, at   *)
(* its place.                                                               *)
ContentInv ==
    \A k \in DOMAIN content :
        /\ content[k].index \in ToolBlocks
        /\ content[k].call = content[k].index
        /\ content[k].args = Pieces(content[k].index)
        /\ Rank(ToolBlocks, content[k].index) = k - 1

(* Blocks open and close in order; the calls that are closed have reached   *)
(* the agent, those that are open are under construction.                   *)
AnthropicInv ==
    /\ tail \in {"body", "complete"}
    /\ \A i \in closed, j \in Indices : j < i => j \in closed
    /\ DOMAIN pending = (opened \ closed) \cap ToolBlocks
    /\ \A i \in DOMAIN pending : pending[i] = Built(i)
    /\ Len(content) = Cardinality(closed \cap ToolBlocks)
    /\ tail = "complete" => closed = Indices

(* Until the finish reason all calls are under construction, and then none. *)
OpenAiInv ==
    /\ closed = {}
    /\ tail = "body" =>
        /\ content = <<>>
        /\ DOMAIN pending = opened \cap ToolBlocks
        /\ \A i \in DOMAIN pending : pending[i] = Built(i)
    /\ tail # "body" =>
        /\ pending = <<>>
        /\ Len(content) = Cardinality(ToolBlocks)

(* A turn is billed, and gets its ending, with the last event. *)
EndingInv ==
    /\ billed = IF tail = "complete" THEN 1 ELSE 0
    /\ tail = "complete" => stop \in {MapStopReason(RawReason), "Other"}

StreamInv ==
    /\ ContentInv
    /\ \A i \in Indices \ opened : sent[i] = 0
    /\ billed <= 1
    /\ result # "error" =>
        /\ protocol = "anthropic" => AnthropicInv
        /\ protocol = "openai" => OpenAiInv
        /\ EndingInv

-----------------------------------------------------------------------------
(* Numbers in their order. *)

(* The ranks of the numbers of a finite set are 0, 1, 2 and so on, each once. *)
LEMMA Ranks ==
    ASSUME NEW n \in Nat, NEW S \in SUBSET (1..n)
    PROVE  /\ IsFiniteSet(S) /\ Cardinality(S) \in Nat
           /\ \A k \in 1..Cardinality(S) : \E i \in S : Rank(S, i) = k - 1
<1> DEFINE Below(i) == {j \in S : j < i}
           c == Cardinality(S)
           f == [i \in S |-> Cardinality(Below(i))]
<1>1. IsFiniteSet(S) /\ c \in Nat
    <2>1. IsFiniteSet(1..n)
        BY FS_Interval
    <2>2. IsFiniteSet(S)
        BY <2>1, FS_Subset
    <2> QED
        BY <2>2, FS_CardinalityType
<1>2. \A i : IsFiniteSet(Below(i)) /\ Cardinality(Below(i)) \in Nat
    BY <1>1, FS_Subset, FS_CardinalityType
<1>3. ASSUME NEW T, IsFiniteSet(T), NEW U \in SUBSET T, U # T
      PROVE  Cardinality(U) < Cardinality(T)
    <2>1. /\ IsFiniteSet(U) /\ Cardinality(U) <= Cardinality(T)
          /\ Cardinality(U) = Cardinality(T) => U = T
        BY <1>3, FS_Subset
    <2>2. Cardinality(U) \in Nat /\ Cardinality(T) \in Nat
        BY <1>3, <2>1, FS_CardinalityType
    <2> QED
        BY <1>3, <2>1, <2>2
<1>4. ASSUME NEW i \in S PROVE Cardinality(Below(i)) \in 0..(c - 1)
    <2>1. Below(i) \in SUBSET S /\ Below(i) # S
        OBVIOUS
    <2> HIDE DEF Below
    <2>2. Cardinality(Below(i)) < c
        BY <1>1, <1>3, <2>1
    <2> QED
        BY <1>1, <1>2, <2>2
<1>5. ASSUME NEW i \in S, NEW j \in S, i < j PROVE Cardinality(Below(i)) < Cardinality(Below(j))
    <2>0. \A k \in S : k \in Nat
        OBVIOUS
    <2>1. Below(i) \in SUBSET Below(j) /\ Below(i) # Below(j)
        <3>1. i \in Below(j) /\ i \notin Below(i)
            BY <1>5, <2>0
        <3>2. \A k \in Below(i) : k \in Below(j)
            BY <1>5, <2>0
        <3> HIDE DEF Below
        <3> QED
            BY <3>1, <3>2
    <2> HIDE DEF Below
    <2> QED
        BY <1>2, <1>3, <2>1
<1>6. ASSUME NEW i \in S, NEW j \in S, Cardinality(Below(i)) = Cardinality(Below(j)) PROVE i = j
    <2>1. ~(i < j) /\ ~(j < i)
        <3> HIDE DEF Below
        <3> QED
            BY <1>2, <1>5, <1>6
    <2> QED
        BY <2>1
<1>7. f \in Injection(S, 0..(c - 1))
    <2> HIDE DEF Below, c
    <2>1. f \in [S -> 0..(c - 1)] /\ \A i, j \in S : f[i] = f[j] => i = j
        BY <1>4, <1>6
    <2> HIDE DEF f
    <2> QED
        BY <2>1 DEF Injection, IsInjective
<1>8. IsFiniteSet(0..(c - 1)) /\ Cardinality(0..(c - 1)) = c
    <2> HIDE DEF c
    <2> QED
        BY <1>1, FS_Interval
<1>9. f \in Surjection(S, 0..(c - 1))
    <2> HIDE DEF f
    <2> QED
        BY <1>7, <1>8, FS_Injection DEF c
<1>10. ASSUME NEW k \in 1..c PROVE \E i \in S : Rank(S, i) = k - 1
    <2>1. k - 1 \in 0..(c - 1)
        BY <1>1
    <2>2. PICK i \in S : f[i] = k - 1
        <3> HIDE DEF f, c
        <3> QED
            BY <1>9, <2>1 DEF Surjection
    <2> QED
        BY <2>2 DEF Rank
<1> QED
    BY <1>1, <1>10

(* The calls that are drained are those under construction, by their index. *)
LEMMA DrainedCalls ==
    ASSUME NEW n \in Nat, DOMAIN pending \in SUBSET (1..n)
    PROVE  /\ Cardinality(DOMAIN pending) \in Nat
           /\ DOMAIN Drained = 1..Cardinality(DOMAIN pending)
           /\ Drained = [k \in 1..Cardinality(DOMAIN pending) |-> Drained[k]]
           /\ \A k \in 1..Cardinality(DOMAIN pending) :
                 \E i \in DOMAIN pending :
                    /\ Rank(DOMAIN pending, i) = k - 1
                    /\ Drained[k] = ToolCall(i, pending[i])
<1> DEFINE S == DOMAIN pending
           c == Cardinality(S)
           at(k) == CHOOSE i \in S : Cardinality({j \in S : j < i}) = k - 1
<1>1. c \in Nat /\ \A k \in 1..c : \E i \in S : Rank(S, i) = k - 1
    BY Ranks
<1>2. ASSUME NEW k \in 1..c PROVE at(k) \in S /\ Rank(S, at(k)) = k - 1
    <2>1. \E i \in S : Cardinality({j \in S : j < i}) = k - 1
        BY <1>1 DEF Rank
    <2> QED
        BY <2>1 DEF Rank
<1>3. Ascending(S) = [k \in 1..c |-> at(k)]
    BY DEF Ascending
<1> HIDE DEF at
<1>4. Drained = [k \in 1..c |-> ToolCall(at(k), pending[at(k)])]
    BY <1>3 DEF Drained
<1> HIDE DEF c
<1>5. \A k \in 1..c : Drained[k] = ToolCall(at(k), pending[at(k)])
    BY <1>4
<1> QED
    BY <1>1, <1>2, <1>4, <1>5 DEF c

(* With nothing under construction there is nothing to drain. *)
LEMMA NothingDrained ==
    ASSUME pending = <<>>
    PROVE  Drained = <<>> /\ DrainParses
<1>1. DOMAIN pending = {}
    OBVIOUS
<1>2. Cardinality(DOMAIN pending) = 0
    BY <1>1, FS_EmptySet
<1>3. DOMAIN Ascending(DOMAIN pending) = {}
    BY <1>2 DEF Ascending
<1> QED
    BY <1>1, <1>3 DEF Drained, DrainParses

-----------------------------------------------------------------------------
(* Types. *)

Arguments == Seq(Nat \X Nat)
Calls == [call : Nat, args : Arguments, index : Nat]

(* A reply is a finite sequence of blocks. *)
LEMMA ReplyType ==
    ASSUME reply \in Replies
    PROVE  /\ Len(reply.blocks) \in Nat
           /\ Indices = 1..Len(reply.blocks)
           /\ \A i \in Indices : reply.blocks[i] \in Blocks
           /\ ToolBlocks \in SUBSET (1..Len(reply.blocks))
           /\ reply.limit \in BOOLEAN
<1>1. reply.blocks \in Seq(Blocks) /\ reply.limit \in BOOLEAN
    BY ReplyAssumption
<1>2. Len(reply.blocks) \in Nat /\ Indices = 1..Len(reply.blocks)
    BY <1>1, LenProperties DEF Indices
<1> QED
    BY <1>1, <1>2, ElementOfSeq DEF ToolBlocks, Indices

(* The first pieces of a call are arguments, each longer by the next piece. *)
LEMMA PiecesGrow ==
    ASSUME NEW i \in Nat, NEW m \in Nat
    PROVE  /\ FirstPieces(i, m) \in Arguments
           /\ FirstPieces(i, 0) = <<>>
           /\ Append(FirstPieces(i, m), <<i, m + 1>>) = FirstPieces(i, m + 1)
           /\ FirstPieces(i, m) \o << <<i, m + 1>> >> = FirstPieces(i, m + 1)
           /\ FirstPieces(i, m) \o <<>> = FirstPieces(i, m)
<1> DEFINE s == FirstPieces(i, m)
           t == FirstPieces(i, m + 1)
           x == <<i, m + 1>>
<1>1. s \in Arguments /\ t \in Arguments /\ x \in Nat \X Nat
    BY DEF FirstPieces, Arguments
<1>2. Len(s) = m /\ Len(t) = m + 1
    BY DEF FirstPieces
<1>3. \A k \in 1..(m + 1) : t[k] = IF k = m + 1 THEN x ELSE s[k]
    BY DEF FirstPieces
<1>4. FirstPieces(i, 0) = <<>>
    BY DEF FirstPieces
<1> HIDE DEF s, t, x
<1>5. Append(s, x) = t
    <2>1. /\ Append(s, x) \in Arguments /\ Len(Append(s, x)) = m + 1
          /\ \A k \in 1..m : Append(s, x)[k] = s[k]
          /\ Append(s, x)[m + 1] = x
        BY <1>1, <1>2, AppendProperties DEF Arguments
    <2>2. \A k \in 1..(m + 1) : k = m + 1 \/ k \in 1..m
        OBVIOUS
    <2>3. \A k \in 1..Len(t) : Append(s, x)[k] = t[k]
        BY <1>2, <1>3, <2>1, <2>2
    <2> QED
        BY <1>1, <1>2, <2>1, <2>3, SeqEqual DEF Arguments
<1>6. s \o <<x>> = Append(s, x)
    BY <1>1, AppendIsConcat DEF Arguments
<1>7. s \o <<>> = s
    BY <1>1, ConcatEmptySeq DEF Arguments
<1> QED
    BY <1>1, <1>4, <1>5, <1>6, <1>7 DEF s, t, x

(* The arguments of a call in pieces are arguments. *)
LEMMA BuiltType ==
    ASSUME reply \in Replies, NEW i \in ToolBlocks
    PROVE  /\ i \in Nat /\ i \in Indices
           /\ reply.blocks[i].pieces \in Nat
           /\ Pieces(i) = FirstPieces(i, reply.blocks[i].pieces)
<1>1. i \in Indices /\ i \in 1..Len(reply.blocks) /\ Len(reply.blocks) \in Nat /\ reply.blocks[i] \in Blocks
    BY ReplyType DEF ToolBlocks
<1> QED
    BY <1>1 DEF Pieces, FirstPieces, Blocks

(* What is drained is calls. *)
LEMMA DrainedType ==
    ASSUME TypeOK
    PROVE  Drained \in Seq(Calls)
<1>1. /\ Len(reply.blocks) \in Nat
      /\ DOMAIN pending \in SUBSET (1..Len(reply.blocks))
      /\ \A i \in DOMAIN pending : i \in Nat /\ pending[i] \in PartialTools
    BY ReplyType DEF TypeOK
<1>2. \A i \in DOMAIN pending : ToolCall(i, pending[i]) \in Calls
    BY <1>1 DEF ToolCall, PartialTools, Calls, Arguments
<1>3. /\ Cardinality(DOMAIN pending) \in Nat
      /\ Drained = [k \in 1..Cardinality(DOMAIN pending) |-> Drained[k]]
      /\ \A k \in 1..Cardinality(DOMAIN pending) : Drained[k] \in Calls
    BY <1>1, <1>2, DrainedCalls
<1> HIDE DEF Calls
<1> DEFINE c == Cardinality(DOMAIN pending)
           d == Drained
<1> HIDE DEF c, d
<1>4. c \in Nat /\ d = [k \in 1..c |-> d[k]] /\ \A k \in 1..c : d[k] \in Calls
    BY <1>3 DEF c, d
<1>5. d \in [1..c -> Calls]
    BY <1>4
<1>6. d \in Seq(Calls)
    BY <1>4, <1>5
<1> QED
    BY <1>6 DEF d

(* The first state has the types. *)
LEMMA InitType == Init => TypeOK
<1> SUFFICES ASSUME Init PROVE TypeOK
    OBVIOUS
<1>1. <<>> \in Seq([call : Nat, args : Seq(Nat \X Nat), index : Nat]) /\ DOMAIN <<>> = {}
    BY EmptySeq
<1> QED
    BY <1>1 DEF Init, TypeOK, StopReasons

(* The mapped reason is one of the reasons. *)
LEMMA ReasonType == \A raw : MapStopReason(raw) \in StopReasons
BY DEF MapStopReason, StopReasons

(* Each step keeps the types. *)
LEMMA TypePreserved == TypeOK /\ [Next]_vars => TypeOK'
<1> SUFFICES ASSUME TypeOK, [Next]_vars PROVE TypeOK'
    OBVIOUS
<1>0. /\ protocol \in Protocols /\ reply \in Replies /\ opened \subseteq Indices
      /\ sent \in [Indices -> Nat] /\ closed \subseteq opened
      /\ tail \in {"body", "finished", "complete"}
      /\ DOMAIN pending \subseteq (opened \ closed) \cap ToolBlocks
      /\ \A i \in DOMAIN pending : pending[i] \in [id : Nat, args : Arguments]
      /\ content \in Seq(Calls) /\ stop \in StopReasons /\ billed \in Nat
      /\ result \in {"reading", "ok", "error"}
    BY DEF TypeOK, PartialTools, Arguments, Calls
<1>1. ASSUME /\ UNCHANGED choice
             /\ opened' \subseteq Indices /\ sent' \in [Indices -> Nat] /\ closed' \subseteq opened'
             /\ tail' \in {"body", "finished", "complete"}
             /\ DOMAIN pending' \subseteq (opened' \ closed') \cap ToolBlocks
             /\ \A i \in DOMAIN pending' : pending'[i] \in [id : Nat, args : Arguments]
             /\ content' \in Seq(Calls) /\ stop' \in StopReasons /\ billed' \in Nat
             /\ result' \in {"reading", "ok", "error"}
      PROVE  TypeOK'
    <2>1. Indices' = Indices /\ ToolBlocks' = ToolBlocks
        BY <1>1 DEF choice, Indices, ToolBlocks
    <2> QED
        BY <1>0, <1>1, <2>1 DEF TypeOK, choice, PartialTools, Arguments, Calls
<1>2. \A i \in Indices : i \in Nat
    BY <1>0, ReplyType
<1>3. ASSUME NEW i \in Indices, ContentBlockStart(i) PROVE TypeOK'
    <2>1. /\ UNCHANGED <<choice, sent, closed, tail, turn>> /\ opened' = opened \cup {i} /\ i \notin opened
          /\ pending' = IF reply.blocks[i].tool THEN Put(i, [id |-> i, args |-> <<>>]) ELSE pending
        BY <1>3 DEF ContentBlockStart, Open, NoDelta
    <2>2. [id |-> i, args |-> <<>>] \in [id : Nat, args : Arguments]
        BY <1>2, EmptySeq DEF Arguments
    <2>3. /\ DOMAIN pending' \subseteq (opened' \ closed') \cap ToolBlocks
          /\ \A j \in DOMAIN pending' : pending'[j] \in [id : Nat, args : Arguments]
        <3>1. CASE reply.blocks[i].tool
            <4>1. /\ DOMAIN pending' = DOMAIN pending \cup {i}
                  /\ \A j \in DOMAIN pending' :
                        pending'[j] = IF j = i THEN [id |-> i, args |-> <<>>] ELSE pending[j]
                BY <2>1, <3>1 DEF Put
            <4>2. i \in ToolBlocks
                BY <3>1 DEF ToolBlocks
            <4> QED
                BY <1>0, <2>1, <2>2, <4>1, <4>2
        <3>2. CASE ~reply.blocks[i].tool
            BY <1>0, <2>1, <3>2
        <3> QED
            BY <3>1, <3>2
    <2> QED
        BY <1>0, <1>1, <2>1, <2>3 DEF turn
<1>4. ASSUME NEW i \in Indices, SendPiece(i)
      PROVE  /\ i \in opened \ closed /\ sent' \in [Indices -> Nat]
             /\ <<i, sent'[i]>> \in Nat \X Nat
    BY <1>0, <1>2, <1>4 DEF SendPiece
<1>5. ASSUME NEW i \in Indices, ContentBlockDelta(i) PROVE TypeOK'
    <2>1. /\ UNCHANGED <<choice, opened, closed, tail, turn>> /\ SendPiece(i)
          /\ pending' = IF i \in DOMAIN pending
                         THEN Put(i, [pending[i] EXCEPT !.args = Append(@, <<i, sent'[i]>>)])
                         ELSE pending
        BY <1>5 DEF ContentBlockDelta, NoDelta
    <2>2. /\ DOMAIN pending' \subseteq (opened' \ closed') \cap ToolBlocks
          /\ \A j \in DOMAIN pending' : pending'[j] \in [id : Nat, args : Arguments]
        <3>1. CASE i \in DOMAIN pending
            <4> DEFINE p == [pending[i] EXCEPT !.args = Append(@, <<i, sent'[i]>>)]
            <4>1. p \in [id : Nat, args : Arguments]
                <5>1. pending[i] \in [id : Nat, args : Arguments]
                    BY <1>0, <3>1
                <5>2. Append(pending[i].args, <<i, sent'[i]>>) \in Arguments
                    BY <1>4, <2>1, <5>1, AppendProperties DEF Arguments
                <5> QED
                    BY <5>1, <5>2
            <4> HIDE DEF p
            <4>2. /\ DOMAIN pending' = DOMAIN pending
                  /\ \A j \in DOMAIN pending : pending'[j] = IF j = i THEN p ELSE pending[j]
                BY <2>1, <3>1 DEF Put, p
            <4> QED
                BY <1>0, <2>1, <4>1, <4>2
        <3>2. CASE i \notin DOMAIN pending
            BY <1>0, <2>1, <3>2
        <3> QED
            BY <3>1, <3>2
    <2> QED
        BY <1>0, <1>1, <1>4, <2>1, <2>2 DEF turn
<1>6. ASSUME NEW calls \in Seq(Calls) PROVE content \o calls \in Seq(Calls)
    BY <1>0, ConcatProperties
<1>7. ASSUME NEW i \in Indices, ContentBlockStop(i) PROVE TypeOK'
    <2>1. /\ UNCHANGED <<choice, opened, sent, tail>> /\ i \in opened
          /\ closed' = closed \cup {i} /\ pending' = Without(i)
          /\ \/ i \in DOMAIN pending /\ TakeCalls(<<ToolCall(i, pending[i])>>)
             \/ Fail
             \/ NoDelta
        BY <1>7 DEF ContentBlockStop, AllSent
    <2>2. /\ DOMAIN pending' = DOMAIN pending \ {i}
          /\ \A j \in DOMAIN pending' : pending'[j] = pending[j]
        BY <2>1 DEF Without
    <2>3. /\ DOMAIN pending' \subseteq (opened' \ closed') \cap ToolBlocks
          /\ \A j \in DOMAIN pending' : pending'[j] \in [id : Nat, args : Arguments]
        BY <1>0, <2>1, <2>2
    <2>4. /\ content' \in Seq(Calls) /\ stop' \in StopReasons /\ billed' \in Nat
          /\ result' \in {"reading", "ok", "error"}
        <3>1. CASE i \in DOMAIN pending /\ TakeCalls(<<ToolCall(i, pending[i])>>)
            <4>1. ToolCall(i, pending[i]) \in Calls
                BY <1>0, <1>2, <3>1 DEF ToolCall, Calls
            <4>2. <<ToolCall(i, pending[i])>> \in Seq(Calls)
                BY <4>1
            <4> QED
                BY <1>0, <1>6, <3>1, <4>2 DEF TakeCalls
        <3>2. CASE Fail
            BY <1>0, <3>2 DEF Fail
        <3>3. CASE NoDelta
            BY <1>0, <3>3 DEF NoDelta, turn
        <3> QED
            BY <2>1, <3>1, <3>2, <3>3
    <2> QED
        BY <1>0, <1>1, <2>1, <2>3, <2>4
<1>8. CASE MessageDelta
    <2>1. /\ UNCHANGED <<choice, opened, sent, closed, pending>> /\ tail' = "complete"
          /\ content' = content \o <<>> /\ stop' = MapStopReason(RawReason)
          /\ billed' = billed + 1 /\ result' = result
        BY <1>8 DEF MessageDelta, TakeCompleted
    <2>2. content' \in Seq(Calls)
        BY <1>6, <2>1, EmptySeq
    <2> QED
        BY <1>0, <1>1, <2>1, <2>2, ReasonType
<1>9. ASSUME NEW i \in Indices, NEW named \in BOOLEAN, NEW pieces \in Arguments,
             Fragment(i, named, pieces), i \in ToolBlocks, i \in opened' \ closed',
             opened \subseteq opened', closed' = closed
      PROVE  /\ DOMAIN pending' \subseteq (opened' \ closed') \cap ToolBlocks
             /\ \A j \in DOMAIN pending' : pending'[j] \in [id : Nat, args : Arguments]
    <2> DEFINE before == IF i \in DOMAIN pending THEN pending[i] ELSE [id |-> 0, args |-> <<>>]
               p == [id |-> IF named THEN i ELSE before.id, args |-> before.args \o pieces]
    <2>1. before \in [id : Nat, args : Arguments]
        BY <1>0, EmptySeq DEF Arguments
    <2> HIDE DEF before
    <2>2. p \in [id : Nat, args : Arguments]
        <3>1. before.args \o pieces \in Arguments
            BY <1>9, <2>1, ConcatProperties DEF Arguments
        <3> QED
            BY <1>2, <2>1, <3>1
    <2>3. pending' = Put(i, p)
        BY <1>9 DEF Fragment, before
    <2> HIDE DEF p
    <2>4. /\ DOMAIN pending' = DOMAIN pending \cup {i}
          /\ \A j \in DOMAIN pending' : pending'[j] = IF j = i THEN p ELSE pending[j]
        BY <2>3 DEF Put
    <2> QED
        BY <1>0, <1>9, <2>2, <2>4
<1>10. ASSUME NEW i \in Indices, FirstFragment(i) PROVE TypeOK'
    <2>1. /\ UNCHANGED <<choice, sent, closed, tail, turn>> /\ opened' = opened \cup {i} /\ i \notin opened
          /\ IF reply.blocks[i].tool THEN Fragment(i, TRUE, <<>>) ELSE UNCHANGED pending
        BY <1>10 DEF FirstFragment, Open, NoDelta
    <2>2. /\ DOMAIN pending' \subseteq (opened' \ closed') \cap ToolBlocks
          /\ \A j \in DOMAIN pending' : pending'[j] \in [id : Nat, args : Arguments]
        <3>1. CASE reply.blocks[i].tool
            <4>1. i \in ToolBlocks /\ <<>> \in Arguments
                BY <3>1, EmptySeq DEF ToolBlocks, Arguments
            <4>2. i \in opened' \ closed' /\ opened \subseteq opened' /\ closed' = closed
                BY <1>0, <2>1
            <4> QED
                BY <1>9, <2>1, <3>1, <4>1, <4>2
        <3>2. CASE ~reply.blocks[i].tool
            BY <1>0, <2>1, <3>2
        <3> QED
            BY <3>1, <3>2
    <2> QED
        BY <1>0, <1>1, <2>1, <2>2 DEF turn
<1>11. ASSUME NEW i \in Indices, NextFragment(i) PROVE TypeOK'
    <2>1. /\ UNCHANGED <<choice, opened, closed, tail, turn>> /\ SendPiece(i)
          /\ IF reply.blocks[i].tool THEN Fragment(i, FALSE, << <<i, sent'[i]>> >>)
             ELSE UNCHANGED pending
        BY <1>11 DEF NextFragment, NoDelta
    <2>2. /\ DOMAIN pending' \subseteq (opened' \ closed') \cap ToolBlocks
          /\ \A j \in DOMAIN pending' : pending'[j] \in [id : Nat, args : Arguments]
        <3>1. CASE reply.blocks[i].tool
            <4>1. i \in ToolBlocks /\ << <<i, sent'[i]>> >> \in Arguments
                BY <1>4, <2>1, <3>1 DEF ToolBlocks, Arguments
            <4>2. i \in opened' \ closed' /\ opened \subseteq opened' /\ closed' = closed
                BY <1>4, <2>1
            <4> QED
                BY <1>9, <2>1, <3>1, <4>1, <4>2
        <3>2. CASE ~reply.blocks[i].tool
            BY <1>0, <2>1, <3>2
        <3> QED
            BY <3>1, <3>2
    <2> QED
        BY <1>0, <1>1, <1>4, <2>1, <2>2 DEF turn
<1>12. ASSUME NEW completed \in BOOLEAN, NEW raw, Drain(completed, MapStopReason(raw)),
              tail' \in {"finished", "complete"}, UNCHANGED <<choice, opened, sent, closed>>
       PROVE  TypeOK'
    <2>1. /\ pending' = <<>>
          /\ \/ Fail
             \/ TakeCompleted(Drained, MapStopReason(raw))
             \/ TakeCalls(Drained)
        BY <1>12 DEF Drain
    <2>2. content \o Drained \in Seq(Calls)
        BY <1>6, DrainedType
    <2>3. /\ content' \in Seq(Calls) /\ stop' \in StopReasons /\ billed' \in Nat
          /\ result' \in {"reading", "ok", "error"}
        <3>1. CASE Fail
            BY <1>0, <3>1 DEF Fail
        <3>2. CASE TakeCompleted(Drained, MapStopReason(raw))
            BY <1>0, <2>2, <3>2, ReasonType DEF TakeCompleted
        <3>3. CASE TakeCalls(Drained)
            BY <1>0, <2>2, <3>3 DEF TakeCalls
        <3> QED
            BY <2>1, <3>1, <3>2, <3>3
    <2>4. DOMAIN pending' = {}
        BY <2>1
    <2> QED
        BY <1>0, <1>1, <1>12, <2>3, <2>4
<1>13. ASSUME NEW withUsage \in BOOLEAN, FinishChunk(withUsage) PROVE TypeOK'
    BY <1>12, <1>13 DEF FinishChunk
<1>14. CASE UsageChunk
    BY <1>12, <1>14 DEF UsageChunk
<1>15. CASE StreamEnds \/ StreamBreaks
    BY <1>0, <1>1, <1>15 DEF StreamEnds, StreamBreaks, Fail, server
<1>16. CASE UNCHANGED vars
    BY <1>0, <1>1, <1>16 DEF vars, server, turn
<1> QED
    BY <1>3, <1>5, <1>7, <1>8, <1>10, <1>11, <1>13, <1>14, <1>15, <1>16 DEF Next

-----------------------------------------------------------------------------
(* What reaches the agent. *)

(* A call as it has to arrive: whole, and with so many calls before it. *)
Arrived(call, before) ==
    /\ call.index \in ToolBlocks
    /\ call.call = call.index
    /\ call.args = Pieces(call.index)
    /\ Rank(ToolBlocks, call.index) = before

(* Calls that follow those that have arrived, each at its place. *)
LEMMA ContentGrows ==
    ASSUME TypeOK, ContentInv, UNCHANGED choice, NEW calls \in Seq(Calls),
           content' = content \o calls,
           \A k \in 1..Len(calls) : Arrived(calls[k], Len(content) + k - 1)
    PROVE  ContentInv' /\ Len(content') = Len(content) + Len(calls)
<1>1. content \in Seq(Calls)
    BY DEF TypeOK, Calls, Arguments
<1> DEFINE n == Len(content)
           m == Len(calls)
<1>2. /\ n \in Nat /\ m \in Nat
      /\ content' \in Seq(Calls) /\ Len(content') = n + m
      /\ \A k \in 1..(n + m) : content'[k] = IF k <= n THEN content[k] ELSE calls[k - n]
    BY <1>1, ConcatProperties, LenProperties
<1>3. DOMAIN content' = 1..(n + m) /\ DOMAIN content = 1..n
    BY <1>1, <1>2, LenProperties
<1>4. \A k \in 1..n : Arrived(content[k], k - 1)
    BY <1>3 DEF ContentInv, Arrived
<1>5. ASSUME NEW k \in 1..(n + m) PROVE Arrived(content'[k], k - 1)
    <2>1. CASE k <= n
        BY <1>2, <1>4, <2>1
    <2>2. CASE ~(k <= n)
        <3>1. k - n \in 1..m /\ n + (k - n) - 1 = k - 1
            BY <1>2, <2>2
        <3>2. Arrived(calls[k - n], n + (k - n) - 1)
            BY <3>1
        <3> QED
            BY <1>2, <2>2, <3>1, <3>2
    <2> QED
        BY <2>1, <2>2
<1>6. ContentInv'
    <2> HIDE DEF n, m
    <2>1. reply' = reply
        BY DEF choice
    <2> QED
        BY <1>3, <1>5, <2>1 DEF ContentInv, Arrived, Rank, ToolBlocks, Indices, Pieces
<1> QED
    BY <1>2, <1>6

(* When nothing more arrives, what has arrived stays as it is. *)
LEMMA ContentStays ==
    ASSUME ContentInv, UNCHANGED <<choice, content>>
    PROVE  ContentInv'
BY DEF ContentInv, choice, Rank, ToolBlocks, Indices, Pieces

(* i is the first of the numbers that are not in C, *)
ComesNext(C, n, i) ==
    /\ \A j \in 1..n : j < i => j \in C
    /\ \A k \in C : \A j \in 1..n : j < k => j \in C

(* and so its rank in T counts what C has of T. *)
RankIsCount(T, C, i) ==
    /\ Rank(T, i) = Cardinality(C \cap T)
    /\ Cardinality(C \cap T) \in Nat
    /\ Cardinality((C \cup {i}) \cap T) =
         IF i \in T THEN Cardinality(C \cap T) + 1 ELSE Cardinality(C \cap T)

(* The next block to be closed is a call with as many calls before it as    *)
(* have been closed.                                                        *)
LEMMA NextToClose ==
    \A n \in Nat : \A T \in SUBSET (1..n), C \in SUBSET (1..n) : \A i \in (1..n) \ C :
        ComesNext(C, n, i) => RankIsCount(T, C, i)
<1> SUFFICES ASSUME NEW n \in Nat, NEW T \in SUBSET (1..n), NEW C \in SUBSET (1..n),
                    NEW i \in (1..n) \ C, ComesNext(C, n, i)
             PROVE  RankIsCount(T, C, i)
    OBVIOUS
<1> USE DEF ComesNext, RankIsCount
<1>1. ASSUME NEW k \in C PROVE k < i
    <2>1. ~(i < k) /\ k # i
        OBVIOUS
    <2>2. k \in Nat /\ i \in Nat
        OBVIOUS
    <2> QED
        BY <2>1, <2>2
<1>2. {j \in T : j < i} = C \cap T
    BY <1>1
<1>3. IsFiniteSet(C \cap T) /\ Cardinality(C \cap T) \in Nat
    <2>1. IsFiniteSet(1..n) /\ C \cap T \in SUBSET (1..n)
        BY FS_Interval
    <2>2. IsFiniteSet(C \cap T)
        BY <2>1, FS_Subset
    <2> QED
        BY <2>2, FS_CardinalityType
<1>4. (C \cup {i}) \cap T = IF i \in T THEN (C \cap T) \cup {i} ELSE C \cap T
    OBVIOUS
<1>5. CASE i \in T
    <2>1. i \notin C \cap T
        OBVIOUS
    <2> QED
        BY <1>2, <1>3, <1>4, <1>5, <2>1, FS_AddElement DEF Rank
<1>6. CASE i \notin T
    BY <1>2, <1>3, <1>4, <1>6 DEF Rank
<1> QED
    BY <1>5, <1>6

(* Nothing has been sent, nothing has arrived. *)
LEMMA StreamInit == Init => StreamInv
<1> SUFFICES ASSUME Init PROVE StreamInv
    OBVIOUS
<1>1. /\ opened = {} /\ closed = {} /\ tail = "body" /\ pending = <<>> /\ content = <<>>
      /\ billed = 0 /\ result = "reading" /\ \A i \in Indices : sent[i] = 0
    BY DEF Init
<1>2. ContentInv
    BY <1>1 DEF ContentInv
<1>3. AnthropicInv
    <2>1. Len(content) = 0
        BY <1>1
    <2>2. closed \cap ToolBlocks = {}
        BY <1>1
    <2>3. Cardinality(closed \cap ToolBlocks) = 0
        BY <2>2, FS_EmptySet
    <2> QED
        BY <1>1, <2>1, <2>3 DEF AnthropicInv
<1>4. OpenAiInv
    BY <1>1 DEF OpenAiInv
<1> QED
    BY <1>1, <1>2, <1>3, <1>4 DEF StreamInv, EndingInv

(* What the steps of a protocol that leave the turn alone have in common.   *)
LEMMA TurnStays ==
    ASSUME StreamInv, UNCHANGED <<choice, turn>>, TypeOK,
           \A i \in Indices \ opened' : sent'[i] = 0,
           protocol = "anthropic" => AnthropicInv', protocol = "openai" => OpenAiInv',
           (tail' = "complete") = (tail = "complete"),
           result = "reading"
    PROVE  StreamInv'
<1>1. ContentInv'
    BY ContentStays DEF StreamInv, turn
<1>2. EndingInv'
    BY DEF StreamInv, EndingInv, turn, choice, RawReason, ToolBlocks, Indices
<1>3. Indices' = Indices
    BY DEF choice, Indices
<1> QED
    BY <1>1, <1>2, <1>3 DEF StreamInv, turn, choice

(* One step on the protocol of Anthropic. *)
LEMMA AnthropicStep ==
    ASSUME TypeOK, StreamInv, Reading, protocol = "anthropic", UNCHANGED choice,
           \/ \E i \in Indices : ContentBlockStart(i) \/ ContentBlockDelta(i) \/ ContentBlockStop(i)
           \/ MessageDelta
    PROVE  StreamInv'
<1>0. /\ reply \in Replies /\ opened \subseteq Indices /\ sent \in [Indices -> Nat]
      /\ closed \subseteq opened /\ content \in Seq(Calls)
    BY DEF TypeOK, Calls, Arguments
<1>1. /\ result = "reading" /\ ContentInv /\ AnthropicInv /\ EndingInv
      /\ \A i \in Indices \ opened : sent[i] = 0
      /\ protocol' = "anthropic" /\ reply' = reply
    BY DEF StreamInv, Reading, choice
<1>2. /\ tail \in {"body", "complete"}
      /\ \A i \in closed, j \in Indices : j < i => j \in closed
      /\ DOMAIN pending = (opened \ closed) \cap ToolBlocks
      /\ \A i \in DOMAIN pending : pending[i] = Built(i)
      /\ Len(content) = Cardinality(closed \cap ToolBlocks)
      /\ tail = "complete" => closed = Indices
    BY <1>1 DEF AnthropicInv
<1>3. /\ Indices' = Indices /\ ToolBlocks' = ToolBlocks /\ RawReason' = RawReason
    BY <1>1 DEF Indices, ToolBlocks, RawReason
<1>4. /\ Len(reply.blocks) \in Nat /\ Indices = 1..Len(reply.blocks)
      /\ ToolBlocks \in SUBSET (1..Len(reply.blocks))
    BY <1>0, ReplyType
<1>5. billed <= 1 /\ billed = IF tail = "complete" THEN 1 ELSE 0
    BY <1>1 DEF EndingInv
<1>6. ASSUME NEW i \in Indices, ContentBlockStart(i) PROVE StreamInv'
    <2>1. /\ UNCHANGED <<sent, closed, tail, turn>>
          /\ opened' = opened \cup {i} /\ i \notin opened /\ tail = "body"
          /\ pending' = IF reply.blocks[i].tool THEN Put(i, [id |-> i, args |-> <<>>]) ELSE pending
        BY <1>6 DEF ContentBlockStart, Open, NoDelta
    <2>2. [id |-> i, args |-> <<>>] = Built(i)'
        <3>1. sent'[i] = 0
            BY <1>1, <2>1
        <3> QED
            BY <3>1 DEF Built, FirstPieces
    <2>3. \A j : Built(j)' = Built(j)
        BY <2>1 DEF Built, FirstPieces
    <2>4. /\ DOMAIN pending' = (opened' \ closed') \cap ToolBlocks
          /\ \A j \in DOMAIN pending' : pending'[j] = Built(j)'
        <3>1. CASE reply.blocks[i].tool
            <4>1. /\ DOMAIN pending' = DOMAIN pending \cup {i}
                  /\ \A j \in DOMAIN pending' : pending'[j] = IF j = i THEN Built(i)' ELSE pending[j]
                BY <2>1, <2>2, <3>1 DEF Put
            <4>2. i \in ToolBlocks /\ i \notin closed
                BY <1>0, <2>1, <3>1 DEF ToolBlocks
            <4> QED
                BY <1>2, <2>1, <2>3, <4>1, <4>2
        <3>2. CASE ~reply.blocks[i].tool
            <4>1. i \notin ToolBlocks
                BY <3>2 DEF ToolBlocks
            <4> QED
                BY <1>2, <2>1, <2>3, <3>2, <4>1
        <3> QED
            BY <3>1, <3>2
    <2>5. AnthropicInv'
        BY <1>2, <1>3, <2>1, <2>4 DEF AnthropicInv, turn
    <2> QED
        BY <1>1, <2>1, <2>5, TurnStays
<1>7. ASSUME NEW i \in Indices, ContentBlockDelta(i) PROVE StreamInv'
    <2>1. /\ UNCHANGED <<opened, closed, tail, turn>> /\ i \in opened \ closed
          /\ sent' = [sent EXCEPT ![i] = @ + 1]
          /\ pending' = IF i \in DOMAIN pending
                         THEN Put(i, [pending[i] EXCEPT !.args = Append(@, <<i, sent'[i]>>)])
                         ELSE pending
        BY <1>7 DEF ContentBlockDelta, SendPiece, NoDelta
    <2>2. /\ sent'[i] = sent[i] + 1 /\ sent[i] \in Nat /\ i \in Nat
          /\ \A j \in Indices : j # i => sent'[j] = sent[j]
        BY <1>0, <1>4, <2>1
    <2>3. \A j \in Indices : j # i => Built(j)' = Built(j)
        BY <2>2 DEF Built, FirstPieces
    <2>4. i \in DOMAIN pending => [pending[i] EXCEPT !.args = Append(@, <<i, sent'[i]>>)] = Built(i)'
        <3>1. SUFFICES ASSUME i \in DOMAIN pending
                       PROVE  [pending[i] EXCEPT !.args = Append(@, <<i, sent'[i]>>)] = Built(i)'
            OBVIOUS
        <3>2. pending[i] = [id |-> i, args |-> FirstPieces(i, sent[i])]
            BY <1>2, <3>1 DEF Built
        <3>3. Append(FirstPieces(i, sent[i]), <<i, sent'[i]>>) = FirstPieces(i, sent'[i])
            BY <2>2, PiecesGrow
        <3>4. Built(i)' = [id |-> i, args |-> FirstPieces(i, sent'[i])]
            BY DEF Built, FirstPieces
        <3> QED
            BY <3>2, <3>3, <3>4
    <2>5. /\ DOMAIN pending' = (opened' \ closed') \cap ToolBlocks
          /\ \A j \in DOMAIN pending' : pending'[j] = Built(j)'
        <3>1. CASE i \in DOMAIN pending
            <4>1. /\ DOMAIN pending' = DOMAIN pending
                  /\ \A j \in DOMAIN pending' : pending'[j] = IF j = i THEN Built(i)' ELSE pending[j]
                BY <2>1, <2>4, <3>1 DEF Put
            <4>2. DOMAIN pending \subseteq Indices
                BY <1>2 DEF ToolBlocks
            <4> QED
                BY <1>2, <2>1, <2>3, <4>1, <4>2
        <3>2. CASE i \notin DOMAIN pending
            <4>1. DOMAIN pending \subseteq Indices
                BY <1>2 DEF ToolBlocks
            <4> QED
                BY <1>2, <2>1, <2>3, <3>2, <4>1
        <3> QED
            BY <3>1, <3>2
    <2>6. AnthropicInv'
        BY <1>2, <1>3, <2>1, <2>5 DEF AnthropicInv, turn
    <2>7. \A j \in Indices \ opened' : sent'[j] = 0
        BY <1>1, <2>1, <2>2
    <2> QED
        BY <1>1, <2>1, <2>6, <2>7, TurnStays
<1>8. ASSUME NEW i \in Indices, ContentBlockStop(i) PROVE StreamInv'
    <2>1. /\ UNCHANGED <<opened, sent, tail>> /\ i \in opened \ closed
          /\ sent[i] = reply.blocks[i].pieces
          /\ \A j \in Indices : j < i => j \in closed
          /\ closed' = closed \cup {i} /\ pending' = Without(i)
          /\ IF i \in DOMAIN pending
             THEN TakeCalls(<<ToolCall(i, pending[i])>>) \/ Fail
             ELSE NoDelta
        BY <1>8 DEF ContentBlockStop, AllSent
    <2>2. /\ Rank(ToolBlocks, i) = Cardinality(closed \cap ToolBlocks)
          /\ Cardinality(closed \cap ToolBlocks) \in Nat
          /\ Cardinality(closed' \cap ToolBlocks) =
                IF i \in ToolBlocks THEN Cardinality(closed \cap ToolBlocks) + 1
                ELSE Cardinality(closed \cap ToolBlocks)
        <3>1. /\ closed \in SUBSET (1..Len(reply.blocks))
              /\ i \in (1..Len(reply.blocks)) \ closed
              /\ \A j \in 1..Len(reply.blocks) : j < i => j \in closed
              /\ \A k \in closed, j \in 1..Len(reply.blocks) : j < k => j \in closed
            BY <1>0, <1>2, <1>4, <2>1
        <3>2. /\ Rank(ToolBlocks, i) = Cardinality(closed \cap ToolBlocks)
              /\ Cardinality(closed \cap ToolBlocks) \in Nat
              /\ Cardinality((closed \cup {i}) \cap ToolBlocks) =
                    IF i \in ToolBlocks THEN Cardinality(closed \cap ToolBlocks) + 1
                    ELSE Cardinality(closed \cap ToolBlocks)
            <4>1. Len(reply.blocks) \in Nat /\ ToolBlocks \in SUBSET (1..Len(reply.blocks))
                BY <1>4
            <4>2. ComesNext(closed, Len(reply.blocks), i)
                BY <3>1 DEF ComesNext
            <4>3. RankIsCount(ToolBlocks, closed, i)
                BY <3>1, <4>1, <4>2, NextToClose
            <4> QED
                BY <4>3 DEF RankIsCount
        <3> QED
            BY <2>1, <3>2
    <2>3. i \in DOMAIN pending <=> i \in ToolBlocks
        BY <1>2, <2>1
    <2>4. ASSUME ContentInv', Len(content') = Cardinality(closed' \cap ToolBlocks),
                 UNCHANGED <<stop, billed, result>>
          PROVE  StreamInv'
        <3>1. /\ DOMAIN pending' = DOMAIN pending \ {i}
              /\ \A j \in DOMAIN pending' : pending'[j] = pending[j]
            BY <2>1 DEF Without
        <3>2. /\ DOMAIN pending' = (opened' \ closed') \cap ToolBlocks
              /\ \A j \in DOMAIN pending' : pending'[j] = Built(j)'
            <4>1. \A j : Built(j)' = Built(j)
                BY <2>1 DEF Built, FirstPieces
            <4> QED
                BY <1>2, <2>1, <3>1, <4>1
        <3>3. \A k \in closed', j \in Indices : j < k => j \in closed'
            BY <1>2, <2>1
        <3>4. tail' = "body"
            BY <1>0, <1>2, <2>1
        <3>5. AnthropicInv'
            BY <1>3, <2>4, <3>2, <3>3, <3>4 DEF AnthropicInv
        <3>6. EndingInv' /\ billed' <= 1
            BY <1>5, <2>1, <2>4, <3>4 DEF EndingInv
        <3>7. \A j \in Indices' \ opened' : sent'[j] = 0
            BY <1>1, <1>3, <2>1
        <3> QED
            BY <1>1, <2>4, <3>5, <3>6, <3>7 DEF StreamInv
    <2>5. CASE i \in DOMAIN pending /\ TakeCalls(<<ToolCall(i, pending[i])>>)
        <3> DEFINE call == ToolCall(i, pending[i])
        <3>1. call = [call |-> i, args |-> FirstPieces(i, sent[i]), index |-> i]
            BY <1>2, <2>5 DEF ToolCall, Built
        <3>2. i \in ToolBlocks /\ i \in Nat /\ FirstPieces(i, sent[i]) = Pieces(i)
            BY <1>0, <2>1, <2>3, <2>5, BuiltType
        <3>3. call \in Calls
            <4>1. FirstPieces(i, sent[i]) \in Arguments
                BY <1>0, <3>2, PiecesGrow
            <4> QED
                BY <3>1, <3>2, <4>1 DEF Calls
        <3>4. Arrived(call, Len(content))
            BY <1>2, <2>2, <3>1, <3>2 DEF Arrived
        <3>5. Len(content) \in Nat
            BY <1>2, <2>2
        <3>6. content' = content \o <<call>> /\ UNCHANGED <<stop, billed, result>>
            BY <2>5 DEF TakeCalls
        <3> HIDE DEF call
        <3>7. /\ <<call>> \in Seq(Calls) /\ Len(<<call>>) = 1
              /\ \A k \in 1..Len(<<call>>) : Arrived(<<call>>[k], Len(content) + k - 1)
            <4>1. Len(content) + 1 - 1 = Len(content)
                BY <3>5
            <4> QED
                BY <3>3, <3>4, <4>1
        <3>8. ContentInv' /\ Len(content') = Len(content) + 1
            BY <1>1, <3>6, <3>7, ContentGrows
        <3> QED
            BY <1>2, <2>2, <2>4, <3>2, <3>6, <3>8
    <2>6. CASE Fail
        <3>1. ContentInv'
            BY <1>1, <2>6, ContentStays DEF Fail
        <3>2. billed' <= 1 /\ result' = "error"
            BY <1>5, <2>6 DEF Fail
        <3>3. \A j \in Indices' \ opened' : sent'[j] = 0
            BY <1>1, <1>3, <2>1
        <3> QED
            BY <3>1, <3>2, <3>3 DEF StreamInv
    <2>7. CASE i \notin DOMAIN pending /\ NoDelta
        <3>1. UNCHANGED turn
            BY <2>7 DEF NoDelta
        <3>2. ContentInv'
            BY <1>1, <3>1, ContentStays DEF turn
        <3> QED
            BY <1>2, <2>2, <2>3, <2>4, <2>7, <3>1, <3>2 DEF turn
    <2> QED
        BY <2>1, <2>5, <2>6, <2>7
<1>9. CASE MessageDelta
    <2>1. /\ tail = "body" /\ closed = Indices /\ UNCHANGED <<opened, sent, closed, pending>>
          /\ tail' = "complete" /\ content' = content \o <<>> /\ stop' = MapStopReason(RawReason)
          /\ billed' = billed + 1 /\ result' = result
        BY <1>9 DEF MessageDelta, TakeCompleted
    <2>2. content' = content
        BY <1>0, <2>1, ConcatEmptySeq
    <2>3. ContentInv'
        BY <1>1, <2>2, ContentStays
    <2>4. \A j : Built(j)' = Built(j)
        BY <2>1 DEF Built, FirstPieces
    <2>5. AnthropicInv'
        BY <1>2, <1>3, <2>1, <2>2, <2>4 DEF AnthropicInv
    <2>6. EndingInv' /\ billed' <= 1
        BY <1>3, <1>5, <2>1 DEF EndingInv
    <2>7. \A j \in Indices' \ opened' : sent'[j] = 0
        BY <1>1, <1>3, <2>1
    <2> QED
        BY <1>1, <2>3, <2>5, <2>6, <2>7 DEF StreamInv
<1> QED
    BY <1>6, <1>7, <1>8, <1>9

(* One step on the protocol of OpenAI. *)
LEMMA OpenAiStep ==
    ASSUME TypeOK, StreamInv, Reading, protocol = "openai", UNCHANGED choice,
           \/ \E i \in Indices : FirstFragment(i) \/ NextFragment(i)
           \/ \E withUsage \in BOOLEAN : FinishChunk(withUsage)
           \/ UsageChunk
    PROVE  StreamInv'
<1>0. /\ reply \in Replies /\ opened \subseteq Indices /\ sent \in [Indices -> Nat]
      /\ content \in Seq(Calls)
    BY DEF TypeOK, Calls, Arguments
<1>1. /\ result = "reading" /\ ContentInv /\ OpenAiInv /\ EndingInv
      /\ \A i \in Indices \ opened : sent[i] = 0
      /\ protocol' = "openai" /\ reply' = reply
    BY DEF StreamInv, Reading, choice
<1>2. /\ closed = {}
      /\ tail = "body" =>
           /\ content = <<>> /\ DOMAIN pending = opened \cap ToolBlocks
           /\ \A i \in DOMAIN pending : pending[i] = Built(i)
      /\ tail # "body" => pending = <<>> /\ Len(content) = Cardinality(ToolBlocks)
    BY <1>1 DEF OpenAiInv
<1>3. /\ Indices' = Indices /\ ToolBlocks' = ToolBlocks /\ RawReason' = RawReason
    BY <1>1 DEF Indices, ToolBlocks, RawReason
<1>4. /\ Len(reply.blocks) \in Nat /\ Indices = 1..Len(reply.blocks)
      /\ ToolBlocks \in SUBSET (1..Len(reply.blocks))
    BY <1>0, ReplyType
<1>5. billed <= 1 /\ billed = IF tail = "complete" THEN 1 ELSE 0
    BY <1>1 DEF EndingInv
<1>6. ASSUME NEW i \in Indices, FirstFragment(i) PROVE StreamInv'
    <2>1. /\ UNCHANGED <<sent, closed, tail, turn>>
          /\ opened' = opened \cup {i} /\ i \notin opened /\ tail = "body"
          /\ IF reply.blocks[i].tool THEN Fragment(i, TRUE, <<>>) ELSE UNCHANGED pending
        BY <1>6 DEF FirstFragment, Open, NoDelta
    <2>2. \A j : Built(j)' = Built(j)
        BY <2>1 DEF Built, FirstPieces
    <2>3. /\ DOMAIN pending' = opened' \cap ToolBlocks
          /\ \A j \in DOMAIN pending' : pending'[j] = Built(j)'
        <3>1. CASE reply.blocks[i].tool
            <4>1. i \in ToolBlocks /\ i \notin DOMAIN pending
                BY <1>2, <2>1, <3>1 DEF ToolBlocks
            <4>2. <<>> \o <<>> = <<>>
                BY EmptySeq, ConcatEmptySeq
            <4>3. pending' = Put(i, [id |-> i, args |-> <<>>])
                BY <2>1, <3>1, <4>1, <4>2 DEF Fragment
            <4>4. Built(i)' = [id |-> i, args |-> <<>>]
                <5>1. sent'[i] = 0
                    BY <1>1, <2>1
                <5> QED
                    BY <5>1 DEF Built, FirstPieces
            <4>5. /\ DOMAIN pending' = DOMAIN pending \cup {i}
                  /\ \A j \in DOMAIN pending' : pending'[j] = IF j = i THEN Built(i)' ELSE pending[j]
                BY <4>3, <4>4 DEF Put
            <4> QED
                BY <1>2, <2>1, <2>2, <4>1, <4>5
        <3>2. CASE ~reply.blocks[i].tool
            <4>1. i \notin ToolBlocks
                BY <3>2 DEF ToolBlocks
            <4> QED
                BY <1>2, <2>1, <2>2, <3>2, <4>1
        <3> QED
            BY <3>1, <3>2
    <2>4. OpenAiInv'
        BY <1>2, <1>3, <2>1, <2>3 DEF OpenAiInv, turn
    <2>5. \A j \in Indices \ opened' : sent'[j] = 0
        BY <1>1, <2>1
    <2> QED
        BY <1>1, <2>1, <2>4, <2>5, TurnStays
<1>7. ASSUME NEW i \in Indices, NextFragment(i) PROVE StreamInv'
    <2>1. /\ UNCHANGED <<opened, closed, tail, turn>> /\ i \in opened \ closed /\ tail = "body"
          /\ sent' = [sent EXCEPT ![i] = @ + 1]
          /\ IF reply.blocks[i].tool THEN Fragment(i, FALSE, << <<i, sent'[i]>> >>)
             ELSE UNCHANGED pending
        BY <1>7 DEF NextFragment, SendPiece, NoDelta
    <2>2. /\ sent'[i] = sent[i] + 1 /\ sent[i] \in Nat /\ i \in Nat
          /\ \A j \in Indices : j # i => sent'[j] = sent[j]
        BY <1>0, <1>4, <2>1
    <2>3. \A j \in Indices : j # i => Built(j)' = Built(j)
        BY <2>2 DEF Built, FirstPieces
    <2>4. DOMAIN pending \subseteq Indices
        BY <1>2, <2>1 DEF ToolBlocks
    <2>5. /\ DOMAIN pending' = opened' \cap ToolBlocks
          /\ \A j \in DOMAIN pending' : pending'[j] = Built(j)'
        <3>1. CASE reply.blocks[i].tool
            <4>1. i \in ToolBlocks /\ i \in DOMAIN pending
                BY <1>2, <2>1, <3>1 DEF ToolBlocks
            <4>2. pending[i] = [id |-> i, args |-> FirstPieces(i, sent[i])]
                BY <1>2, <2>1, <4>1 DEF Built
            <4>3. FirstPieces(i, sent[i]) \o << <<i, sent'[i]>> >> = FirstPieces(i, sent'[i])
                BY <2>2, PiecesGrow
            <4>4. Built(i)' = [id |-> i, args |-> FirstPieces(i, sent'[i])]
                BY DEF Built, FirstPieces
            <4>5. pending' = Put(i, [id |-> pending[i].id, args |-> pending[i].args \o << <<i, sent'[i]>> >>])
                BY <2>1, <3>1, <4>1 DEF Fragment
            <4>6. [id |-> pending[i].id, args |-> pending[i].args \o << <<i, sent'[i]>> >>] = Built(i)'
                <5>1. pending[i].id = i /\ pending[i].args = FirstPieces(i, sent[i])
                    BY <4>2
                <5> QED
                    BY <4>3, <4>4, <5>1, Zenon
            <4>7. /\ DOMAIN pending' = DOMAIN pending
                  /\ \A j \in DOMAIN pending' : pending'[j] = IF j = i THEN Built(i)' ELSE pending[j]
                BY <4>1, <4>5, <4>6 DEF Put
            <4> QED
                BY <1>2, <2>1, <2>3, <2>4, <4>7
        <3>2. CASE ~reply.blocks[i].tool
            <4>1. i \notin ToolBlocks
                BY <3>2 DEF ToolBlocks
            <4> QED
                BY <1>2, <2>1, <2>3, <2>4, <3>2, <4>1
        <3> QED
            BY <3>1, <3>2
    <2>6. OpenAiInv'
        BY <1>2, <1>3, <2>1, <2>5 DEF OpenAiInv, turn
    <2>7. \A j \in Indices \ opened' : sent'[j] = 0
        BY <1>1, <2>1, <2>2
    <2> QED
        BY <1>1, <2>1, <2>6, <2>7, TurnStays
<1>8. ASSUME NEW completed \in BOOLEAN, NEW raw, Drain(completed, MapStopReason(raw)),
             UNCHANGED <<opened, sent, closed>>,
             tail' = IF completed THEN "complete" ELSE "finished", tail # "complete",
             MapStopReason(raw) \in {MapStopReason(RawReason), "Other"},
             ContentInv /\ content' = content \o Drained =>
                 ContentInv' /\ Len(content') = Cardinality(ToolBlocks)
      PROVE  StreamInv'
    <2>1. \A j \in Indices' \ opened' : sent'[j] = 0
        BY <1>1, <1>3, <1>8
    <2>2. billed = 0
        BY <1>5, <1>8
    <2>3. CASE Fail
        <3>1. ContentInv'
            BY <1>1, <2>3, ContentStays DEF Fail
        <3>2. billed' <= 1 /\ result' = "error"
            BY <1>5, <2>3 DEF Fail
        <3> QED
            BY <2>1, <3>1, <3>2 DEF StreamInv
    <2>4. CASE completed /\ TakeCompleted(Drained, MapStopReason(raw))
        <3>1. /\ content' = content \o Drained /\ stop' = MapStopReason(raw)
              /\ billed' = 1 /\ result' = result /\ pending' = <<>> /\ tail' = "complete"
            BY <1>8, <2>2, <2>4 DEF TakeCompleted, Drain
        <3>2. ContentInv' /\ OpenAiInv'
            BY <1>1, <1>2, <1>3, <1>8, <3>1 DEF OpenAiInv
        <3>3. EndingInv'
            BY <1>3, <1>8, <3>1 DEF EndingInv
        <3> QED
            BY <1>1, <2>1, <3>1, <3>2, <3>3 DEF StreamInv
    <2>5. CASE ~completed /\ TakeCalls(Drained)
        <3>1. /\ content' = content \o Drained /\ UNCHANGED <<stop, billed, result>>
              /\ pending' = <<>> /\ tail' = "finished"
            BY <1>8, <2>5 DEF TakeCalls, Drain
        <3>2. ContentInv' /\ OpenAiInv'
            BY <1>1, <1>2, <1>3, <1>8, <3>1 DEF OpenAiInv
        <3>3. EndingInv'
            BY <2>2, <3>1 DEF EndingInv
        <3> QED
            BY <1>1, <1>5, <2>1, <3>1, <3>2, <3>3 DEF StreamInv
    <2> QED
        BY <1>8, <2>3, <2>4, <2>5 DEF Drain
<1>9. ASSUME NEW withUsage \in BOOLEAN, FinishChunk(withUsage) PROVE StreamInv'
    <2>1. /\ tail = "body" /\ UNCHANGED <<opened, sent, closed>>
          /\ tail' = IF withUsage THEN "complete" ELSE "finished"
          /\ \A i \in Indices : i \in opened /\ sent[i] = reply.blocks[i].pieces
          /\ Drain(withUsage, MapStopReason(RawReason))
        BY <1>9 DEF FinishChunk, AllSent
    <2>2. /\ content = <<>> /\ DOMAIN pending = ToolBlocks
          /\ \A i \in ToolBlocks : pending[i] = Built(i)
        BY <1>2, <2>1 DEF ToolBlocks
    <2>3. ASSUME content' = content \o Drained
          PROVE  ContentInv' /\ Len(content') = Cardinality(ToolBlocks)
        <3>1. /\ Cardinality(ToolBlocks) \in Nat
              /\ DOMAIN Drained = 1..Cardinality(ToolBlocks)
              /\ \A k \in 1..Cardinality(ToolBlocks) :
                    \E i \in ToolBlocks :
                        Rank(ToolBlocks, i) = k - 1 /\ Drained[k] = ToolCall(i, pending[i])
            BY <1>4, <2>2, DrainedCalls
        <3>2. Drained \in Seq(Calls)
            BY DrainedType
        <3>3. Len(Drained) = Cardinality(ToolBlocks)
            <4>1. Len(Drained) \in Nat /\ DOMAIN Drained = 1..Len(Drained)
                BY <3>2, LenProperties
            <4> QED
                BY <3>1, <4>1
        <3>4. ASSUME NEW k \in 1..Len(Drained) PROVE Arrived(Drained[k], Len(content) + k - 1)
            <4>1. PICK i \in ToolBlocks :
                      Rank(ToolBlocks, i) = k - 1 /\ Drained[k] = ToolCall(i, pending[i])
                BY <3>1, <3>3
            <4>2. Pieces(i) = FirstPieces(i, sent[i])
                BY <1>0, <2>1, <4>1, BuiltType
            <4>3. Drained[k] = [call |-> i, args |-> Pieces(i), index |-> i]
                BY <2>2, <4>1, <4>2 DEF ToolCall, Built
            <4>4. Len(content) + k - 1 = k - 1
                BY <2>2, <3>1, <3>3
            <4> QED
                BY <4>1, <4>3, <4>4 DEF Arrived
        <3>5. ContentInv' /\ Len(content') = Len(content) + Len(Drained)
            BY <1>1, <2>3, <3>2, <3>4, ContentGrows
        <3>6. Len(content) = 0
            BY <2>2
        <3> QED
            BY <3>1, <3>3, <3>5, <3>6
    <2> QED
        BY <1>8, <2>1, <2>3
<1>10. CASE UsageChunk
    <2>1. /\ tail = "finished" /\ UNCHANGED <<opened, sent, closed>> /\ tail' = "complete"
          /\ Drain(TRUE, MapStopReason("none"))
        BY <1>10 DEF UsageChunk
    <2>2. MapStopReason("none") = "Other"
        BY DEF MapStopReason
    <2>3. ASSUME content' = content \o Drained
          PROVE  ContentInv' /\ Len(content') = Cardinality(ToolBlocks)
        <3>1. pending = <<>> /\ Len(content) = Cardinality(ToolBlocks)
            BY <1>2, <2>1
        <3>2. content' = content
            BY <1>0, <2>3, <3>1, NothingDrained, ConcatEmptySeq
        <3>3. ContentInv'
            BY <1>1, <3>2, ContentStays
        <3> QED
            BY <3>1, <3>2, <3>3
    <2> QED
        BY <1>8, <2>1, <2>2, <2>3
<1> QED
    BY <1>6, <1>7, <1>9, <1>10

(* Each step keeps the invariant. *)
LEMMA StreamStep == TypeOK /\ StreamInv /\ [Next]_vars => StreamInv'
<1> SUFFICES ASSUME TypeOK, StreamInv, [Next]_vars PROVE StreamInv'
    OBVIOUS
<1>1. CASE \/ \E i \in Indices : ContentBlockStart(i) \/ ContentBlockDelta(i) \/ ContentBlockStop(i)
           \/ MessageDelta
    <2>1. Reading /\ protocol = "anthropic" /\ UNCHANGED choice
        BY <1>1 DEF ContentBlockStart, ContentBlockDelta, ContentBlockStop, MessageDelta, Open, SendPiece
    <2> QED
        BY <1>1, <2>1, AnthropicStep
<1>2. CASE \/ \E i \in Indices : FirstFragment(i) \/ NextFragment(i)
           \/ \E withUsage \in BOOLEAN : FinishChunk(withUsage)
           \/ UsageChunk
    <2>1. Reading /\ protocol = "openai" /\ UNCHANGED choice
        BY <1>2 DEF FirstFragment, NextFragment, FinishChunk, UsageChunk, Open, SendPiece
    <2> QED
        BY <1>2, <2>1, OpenAiStep
<1>3. ASSUME UNCHANGED <<choice, server, pending, content, stop, billed>>,
             result' = "error" \/ result # "error"
      PROVE  StreamInv'
    <2>1. /\ ContentInv' /\ Indices' = Indices /\ protocol' = protocol
        BY <1>3, ContentStays DEF StreamInv, choice, Indices
    <2>2. /\ AnthropicInv' = AnthropicInv /\ OpenAiInv' = OpenAiInv /\ EndingInv' = EndingInv
        BY <1>3 DEF AnthropicInv, OpenAiInv, EndingInv, choice, server, Indices, ToolBlocks,
                    RawReason, Built, FirstPieces
    <2> QED
        BY <1>3, <2>1, <2>2 DEF StreamInv, server
<1>4. CASE StreamEnds \/ StreamBreaks
    BY <1>3, <1>4 DEF StreamEnds, StreamBreaks, Reading, Fail
<1>5. CASE UNCHANGED vars
    <2>1. UNCHANGED <<choice, server, pending, content, stop, billed, result>>
        BY <1>5 DEF vars, turn
    <2>2. CASE result = "error"
        BY <1>3, <2>1, <2>2
    <2>3. CASE result # "error"
        BY <1>3, <2>1, <2>3
    <2> QED
        BY <2>2, <2>3
<1> QED
    BY <1>1, <1>2, <1>4, <1>5 DEF Next

-----------------------------------------------------------------------------
(* The theorems. *)

(* The inductive invariant holds in every state. *)
LEMMA InvAlways == Spec => [](TypeOK /\ StreamInv)
<1>1. Init => TypeOK /\ StreamInv
    BY InitType, StreamInit
<1>2. TypeOK /\ StreamInv /\ [Next]_vars => (TypeOK /\ StreamInv)'
    BY TypePreserved, StreamStep
<1> QED
    BY <1>1, <1>2, PTL DEF Spec

(* StreamState and Turn have their types; only a block that the provider    *)
(* has begun and not ended is under construction.                           *)
THEOREM TypeCorrect == Spec => []TypeOK
    BY InvAlways, PTL

(* Both parsers: every call that reaches the agent has its own id and all   *)
(* of its own pieces in order, however the calls of a reply were mixed and  *)
(* wherever it stopped: "no consumer ever has to handle half a JSON object".*)
THEOREM CallsArriveWhole == Spec => []CallsAreWhole
<1>1. StreamInv => CallsAreWhole
    BY DEF StreamInv, ContentInv, CallsAreWhole
<1> QED
    BY <1>1, InvAlways, PTL

(* ContentBlockStop and drain_tools: calls reach the agent in the order of  *)
(* the reply, none twice and none skipped.                                  *)
THEOREM CallsArriveInOrder == Spec => []CallsKeepTheirOrder
<1>1. StreamInv => CallsKeepTheirOrder
    BY DEF StreamInv, ContentInv, CallsKeepTheirOrder, Rank
<1> QED
    BY <1>1, InvAlways, PTL

(* one_turn: a stream that came through to its last event has delivered     *)
(* every call, and was billed once; no stream is ever billed twice.         *)
THEOREM WholeStreamHolds == Spec => []WholeStreamIsAccountedFor
<1>1. TypeOK /\ StreamInv => WholeStreamIsAccountedFor
    <2> SUFFICES ASSUME TypeOK, StreamInv, tail = "complete", result = "ok"
                 PROVE  billed = 1 /\ Len(content) = Cardinality(ToolBlocks)
        BY DEF StreamInv, WholeStreamIsAccountedFor
    <2>1. protocol \in {"anthropic", "openai"}
        BY ReplyAssumption DEF TypeOK
    <2>2. billed = 1
        BY DEF StreamInv, EndingInv
    <2>3. CASE protocol = "anthropic"
        <3>1. closed = Indices /\ Len(content) = Cardinality(closed \cap ToolBlocks)
            BY <2>3 DEF StreamInv, AnthropicInv
        <3>2. closed \cap ToolBlocks = ToolBlocks
            BY <3>1 DEF ToolBlocks
        <3> QED
            BY <2>2, <3>1, <3>2
    <2>4. CASE protocol = "openai"
        BY <2>2, <2>4 DEF StreamInv, OpenAiInv
    <2> QED
        BY <2>1, <2>3, <2>4
<1> QED
    BY <1>1, InvAlways, PTL

(* map_stop_reason and the ending that `run` derives from it: after a whole *)
(* stream whose last event names a reason, it is the one the model had.     *)
THEOREM NamedEndingHolds == Spec => []NamedEndingIsTrue
<1>1. TypeOK /\ StreamInv /\ WholeStreamIsAccountedFor => NamedEndingIsTrue
    <2> SUFFICES ASSUME TypeOK, StreamInv, WholeStreamIsAccountedFor,
                        tail = "complete", result = "ok", stop # "Other"
                 PROVE  FinishReason = IF ToolBlocks # {} THEN "tools"
                                       ELSE IF reply.limit THEN "OutputTruncated" ELSE "Completed"
        BY DEF NamedEndingIsTrue
    <2>1. stop = MapStopReason(RawReason)
        BY DEF StreamInv, EndingInv
    <2>2. content # <<>> <=> ToolBlocks # {}
        <3>1. Len(content) = Cardinality(ToolBlocks) /\ content \in Seq(Calls)
            BY DEF WholeStreamIsAccountedFor, TypeOK, Calls, Arguments
        <3>2. IsFiniteSet(ToolBlocks)
            BY ReplyType, Ranks DEF TypeOK
        <3>3. Cardinality(ToolBlocks) = 0 <=> ToolBlocks = {}
            BY <3>2, FS_EmptySet
        <3>4. content = <<>> <=> Len(content) = 0
            BY <3>1, EmptySeq
        <3> QED
            BY <3>1, <3>3, <3>4
    <2> QED
        BY <2>1, <2>2 DEF FinishReason, MapStopReason, RawReason
<1> QED
    BY <1>1, InvAlways, WholeStreamHolds, PTL

=============================================================================
