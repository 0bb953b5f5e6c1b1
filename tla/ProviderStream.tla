---------------------------- MODULE ProviderStream ----------------------------
(***************************************************************************)
(* One model turn from the wire to the agent: the two stream parsers of    *)
(* crates/tc-providers (anthropic.rs, openai.rs; provider_for picks one)   *)
(* and the loop of Agent::one_turn that collects what they emit.           *)
(*                                                                         *)
(* A reply is a sequence of blocks, each text or a tool call.  The         *)
(* arguments of a call are cut into pieces; what has been received of them *)
(* is a sequence of pieces <<block, number>>, and it is JSON exactly when  *)
(* all pieces of one call are there in order.  A reply that hit the output *)
(* limit may end in a block that is not whole.  The provider is external:  *)
(* it sends its blocks interleaved, and the stream may end or break after  *)
(* any event.  The text itself and the model's name are left out.          *)
(***************************************************************************)
EXTENDS Integers, Sequences, FiniteSets

CONSTANTS
    Protocols,  \* protocols in use: "anthropic", "openai"
    Replies     \* what a model can answer

Blocks == [tool : BOOLEAN, pieces : Nat, whole : BOOLEAN]

ASSUME ReplyAssumption ==
    /\ Protocols \subseteq {"anthropic", "openai"}
    /\ \A r \in Replies :
        /\ r.blocks \in Seq(Blocks)
        /\ r.limit \in BOOLEAN
        /\ \A i \in DOMAIN r.blocks :
            ~r.blocks[i].whole => r.limit /\ i = Len(r.blocks)

VARIABLES
    protocol,   \* ModelInfo.vendor.kind
    reply,      \* what the model answers this time
    opened,     \* blocks the provider has begun to send
    sent,       \* per block, pieces sent
    closed,     \* blocks it has declared complete
    tail,       \* how far the provider is: "body", "finished", "complete"
    pending,    \* StreamState.pending_tools
    content,    \* Turn.content: the tool calls
    stop,       \* Turn.stop_reason
    billed,     \* how often one_turn added a cost to `spent`
    result      \* "reading", or what one_turn returned: "ok", "error"

choice == <<protocol, reply>>
server == <<opened, sent, closed, tail>>
turn == <<content, stop, billed, result>>
vars == <<choice, server, pending, turn>>

Indices == DOMAIN reply.blocks
ToolBlocks == {i \in Indices : reply.blocks[i].tool}
StopReasons == {"EndTurn", "ToolUse", "MaxTokens", "Other"}

Init ==
    /\ protocol \in Protocols
    /\ reply \in Replies
    /\ opened = {}
    /\ sent = [i \in Indices |-> 0]
    /\ closed = {}
    /\ tail = "body"
    /\ pending = <<>>
    /\ content = <<>>
    /\ stop = "EndTurn"
    /\ billed = 0
    /\ result = "reading"

-----------------------------------------------------------------------------
(* Tool calls under construction. *)

(* All pieces of a call, in order. *)
Pieces(i) == [k \in 1..reply.blocks[i].pieces |-> <<i, k>>]

(* Empty arguments stand for {}. *)
Parses(args) ==
    \/ args = <<>>
    \/ \E i \in ToolBlocks : reply.blocks[i].whole /\ args = Pieces(i)

ToolCall(i, p) == [call |-> p.id, args |-> p.args, index |-> i]

(* Mutant: one call is under construction at a time. *)
PutAlone(i, p) == [j \in {i} |-> p]

Put(i, p) == [j \in DOMAIN pending \cup {i} |-> IF j = i THEN p ELSE pending[j]]
Without(i) == [j \in DOMAIN pending \ {i} |-> pending[j]]

(* Mutant: the order in which the calls lie in the map. *)
Descending(S) ==
    [k \in 1..Cardinality(S) |-> CHOOSE i \in S : Cardinality({j \in S : j > i}) = k - 1]

Ascending(S) ==
    [k \in 1..Cardinality(S) |-> CHOOSE i \in S : Cardinality({j \in S : j < i}) = k - 1]

(* drain_tools: every buffered call by its index. *)
Drained == [k \in DOMAIN Ascending(DOMAIN pending) |->
                LET i == Ascending(DOMAIN pending)[k] IN ToolCall(i, pending[i])]

DrainParses == \A i \in DOMAIN pending : Parses(pending[i].args)

(* Mutant: the output limit is not told apart from an ordinary end. *)
MapStopReasonLosingLimit(raw) ==
    CASE raw = "end" -> "EndTurn"
      [] raw = "tools" -> "ToolUse"
      [] raw = "limit" -> "EndTurn"
      [] OTHER -> "Other"

MapStopReason(raw) ==
    CASE raw = "end" -> "EndTurn"
      [] raw = "tools" -> "ToolUse"
      [] raw = "limit" -> "MaxTokens"
      [] OTHER -> "Other"

RawReason == IF reply.limit THEN "limit" ELSE IF ToolBlocks # {} THEN "tools" ELSE "end"

-----------------------------------------------------------------------------
(* one_turn: what it does with the items of the stream. *)

NoDelta == UNCHANGED turn

TakeCalls(calls) ==
    /\ content' = content \o calls
    /\ UNCHANGED <<stop, billed, result>>

TakeCompleted(calls, reason) ==
    /\ content' = content \o calls
    /\ stop' = reason
    /\ billed' = billed + 1
    /\ UNCHANGED result

Fail ==
    /\ result' = "error"
    /\ UNCHANGED <<content, stop, billed>>

-----------------------------------------------------------------------------
(* The provider. *)

Reading == result = "reading"

Open(i) ==
    /\ Reading
    /\ tail = "body"
    /\ i \in Indices \ opened
    /\ opened' = opened \cup {i}

SendPiece(i) ==
    /\ Reading
    /\ i \in opened \ closed
    /\ sent[i] < reply.blocks[i].pieces
    /\ sent' = [sent EXCEPT ![i] = @ + 1]

AllSent(i) == i \in opened /\ sent[i] = reply.blocks[i].pieces

-----------------------------------------------------------------------------
(* Anthropic: blocks have a beginning and an end of their own.             *)

ContentBlockStart(i) ==
    /\ protocol = "anthropic"
    /\ Open(i)
    /\ \A j \in Indices : j < i => j \in opened
    /\ pending' = IF reply.blocks[i].tool THEN Put(i, [id |-> i, args |-> <<>>]) ELSE pending
    /\ NoDelta
    /\ UNCHANGED <<choice, sent, closed, tail>>

ContentBlockDelta(i) ==
    /\ protocol = "anthropic"
    /\ SendPiece(i)
    /\ pending' = IF i \in DOMAIN pending
                  THEN Put(i, [pending[i] EXCEPT !.args = Append(@, <<i, sent'[i]>>)])
                  ELSE pending
    /\ NoDelta
    /\ UNCHANGED <<choice, opened, closed, tail>>

(* Mutant: the finished call stays in the map. *)
ContentBlockStopKeeping(i) ==
    /\ protocol = "anthropic"
    /\ Reading
    /\ i \notin closed /\ AllSent(i)
    /\ \A j \in Indices : j < i => j \in closed
    /\ closed' = closed \cup {i}
    /\ IF i \in DOMAIN pending
       THEN IF Parses(pending[i].args) THEN TakeCalls(<<ToolCall(i, pending[i])>>) ELSE Fail
       ELSE NoDelta
    /\ UNCHANGED <<choice, opened, sent, tail, pending>>

ContentBlockStop(i) ==
    /\ protocol = "anthropic"
    /\ Reading
    /\ i \notin closed /\ AllSent(i)
    /\ \A j \in Indices : j < i => j \in closed
    /\ closed' = closed \cup {i}
    /\ pending' = Without(i)
    /\ IF i \in DOMAIN pending
       THEN IF Parses(pending[i].args) THEN TakeCalls(<<ToolCall(i, pending[i])>>) ELSE Fail
       ELSE NoDelta
    /\ UNCHANGED <<choice, opened, sent, tail>>

MessageDelta ==
    /\ protocol = "anthropic"
    /\ Reading
    /\ tail = "body"
    /\ closed = Indices
    /\ tail' = "complete"
    /\ TakeCompleted(<<>>, MapStopReason(RawReason))
    /\ UNCHANGED <<choice, opened, sent, closed, pending>>

-----------------------------------------------------------------------------
(* OpenAI and compatible gateways: fragments of calls by their index, in   *)
(* any order; the first fragment of a call has its id and name.            *)

Fragment(i, named, pieces) ==
    LET before == IF i \in DOMAIN pending THEN pending[i] ELSE [id |-> 0, args |-> <<>>]
    IN  pending' = Put(i, [id |-> IF named THEN i ELSE before.id,
                           args |-> before.args \o pieces])

FirstFragment(i) ==
    /\ protocol = "openai"
    /\ Open(i)
    /\ IF reply.blocks[i].tool THEN Fragment(i, TRUE, <<>>) ELSE UNCHANGED pending
    /\ NoDelta
    /\ UNCHANGED <<choice, sent, closed, tail>>

NextFragment(i) ==
    /\ protocol = "openai"
    /\ SendPiece(i)
    /\ tail = "body"
    /\ IF reply.blocks[i].tool
       THEN Fragment(i, FALSE, << <<i, sent'[i]>> >>)
       ELSE UNCHANGED pending
    /\ NoDelta
    /\ UNCHANGED <<choice, opened, closed, tail>>

Drain(completed, reason) ==
    /\ pending' = <<>>
    /\ IF ~DrainParses THEN Fail
       ELSE IF completed THEN TakeCompleted(Drained, reason) ELSE TakeCalls(Drained)

(* Mutant: the finish reason completes the turn as well.                   *)
FinishChunkCompleting(withUsage) ==
    /\ protocol = "openai"
    /\ Reading
    /\ tail = "body"
    /\ \A i \in Indices : AllSent(i)
    /\ tail' = IF withUsage THEN "complete" ELSE "finished"
    /\ Drain(TRUE, MapStopReason(RawReason))
    /\ UNCHANGED <<choice, opened, sent, closed>>

(* A chunk with the finish reason.  The usage may be in it, or follow in a *)
(* chunk of its own, which has no choices and so no reason.                *)
FinishChunk(withUsage) ==
    /\ protocol = "openai"
    /\ Reading
    /\ tail = "body"
    /\ \A i \in Indices : AllSent(i)
    /\ tail' = IF withUsage THEN "complete" ELSE "finished"
    /\ Drain(withUsage, MapStopReason(RawReason))
    /\ UNCHANGED <<choice, opened, sent, closed>>

UsageChunk ==
    /\ protocol = "openai"
    /\ Reading
    /\ tail = "finished"
    /\ tail' = "complete"
    /\ Drain(TRUE, MapStopReason("none"))
    /\ UNCHANGED <<choice, opened, sent, closed>>

-----------------------------------------------------------------------------

(* The stream ends: normally, or because the provider stops sending.       *)
StreamEnds ==
    /\ Reading
    /\ result' = "ok"
    /\ UNCHANGED <<choice, server, pending, content, stop, billed>>

(* The connection breaks, or an event cannot be decoded. *)
StreamBreaks ==
    /\ Reading
    /\ Fail
    /\ UNCHANGED <<choice, server, pending>>

Next ==
    \/ \E i \in Indices :
        \/ ContentBlockStart(i) \/ ContentBlockDelta(i) \/ ContentBlockStop(i)
        \/ FirstFragment(i) \/ NextFragment(i)
    \/ MessageDelta
    \/ \E withUsage \in BOOLEAN : FinishChunk(withUsage)
    \/ UsageChunk
    \/ StreamEnds
    \/ StreamBreaks

Spec == Init /\ [][Next]_vars

(* What `run` makes of a turn that came back. *)
FinishReason ==
    IF content # <<>> THEN "tools"
    ELSE IF stop = "MaxTokens" THEN "OutputTruncated"
    ELSE "Completed"

-----------------------------------------------------------------------------

PartialTools == [id : Nat, args : Seq(Nat \X Nat)]

(* The types of StreamState and Turn; only a block that the provider has   *)
(* begun and not ended is under construction.                              *)
TypeOK ==
    /\ protocol \in Protocols
    /\ reply \in Replies
    /\ opened \subseteq Indices
    /\ sent \in [Indices -> Nat]
    /\ closed \subseteq opened
    /\ tail \in {"body", "finished", "complete"}
    /\ DOMAIN pending \subseteq (opened \ closed) \cap ToolBlocks
    /\ \A i \in DOMAIN pending : pending[i] \in PartialTools
    /\ content \in Seq([call : Nat, args : Seq(Nat \X Nat), index : Nat])
    /\ stop \in StopReasons
    /\ billed \in Nat
    /\ result \in {"reading", "ok", "error"}

(* "Emits this only once the arguments parse, so no consumer ever has to   *)
(* handle half a JSON object": each call that reaches the agent has its    *)
(* own id and all of its own pieces, whatever else was interleaved.        *)
CallsAreWhole ==
    \A k \in DOMAIN content :
        /\ content[k].call = content[k].index
        /\ content[k].args = Pieces(content[k].index)

(* Calls reach the agent in the order of the reply, none of them twice,    *)
(* and none is skipped.                                                    *)
CallsKeepTheirOrder ==
    \A k \in DOMAIN content :
        /\ content[k].index \in ToolBlocks
        /\ Cardinality({i \in ToolBlocks : i < content[k].index}) = k - 1

(* A stream that came through to its last event has delivered every call   *)
(* of the reply, and cost its user something exactly once.                 *)
WholeStreamIsAccountedFor ==
    /\ billed <= 1
    /\ tail = "complete" /\ result = "ok" =>
        /\ billed = 1
        /\ Len(content) = Cardinality(ToolBlocks)

(* The ending that `run` reports after a whole stream is the one the model *)
(* had, wherever the last event names a reason: calls are run, an answer   *)
(* cut off by the output limit is called that, any other is complete.      *)
NamedEndingIsTrue ==
    tail = "complete" /\ result = "ok" /\ stop # "Other" =>
        FinishReason = IF ToolBlocks # {} THEN "tools"
                       ELSE IF reply.limit THEN "OutputTruncated"
                       ELSE "Completed"

(* "Completed" ("The model finished its answer", tc-agent/src/lib.rs) is   *)
(* said of no answer that the limit cut off, once its stream came through. *)
TruncationIsVisible ==
    reply.limit /\ tail = "complete" /\ result = "ok" => FinishReason # "Completed"

=============================================================================
