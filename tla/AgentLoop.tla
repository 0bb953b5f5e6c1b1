------------------------------ MODULE AgentLoop ------------------------------
(***************************************************************************)
(* The agent loop of crates/tc-agent/src/lib.rs: one `Agent` serving the   *)
(* prompts of a session, one after the other, under the mutex that the     *)
(* front end holds while a run is going.                                   *)
(*                                                                         *)
(* A run streams model turns, passes every tool call through the gate      *)
(* (hooks, preview, ledger, approval), executes what was cleared, feeds    *)
(* the results back and stops at one of the exits of `run`.  The model,    *)
(* the tools, the hooks and the person are the environment: what they      *)
(* answer is chosen nondeterministically.  Each value of pc is a place     *)
(* where the task awaits, so it is also a place where Esc can drop it.     *)
(*                                                                         *)
(* Data is abstracted to what the properties tell apart.  A call stands    *)
(* for its fingerprint (name and arguments); a write call also stands for  *)
(* the file it names.  Money is counted in natural units.  A message is a  *)
(* role and the positions of the tool calls it makes or answers.           *)
(***************************************************************************)
EXTENDS Integers, Sequences, FiniteSets

CONSTANTS
    Calls,          \* tool calls the model can make
    ToolOf,         \* the tool a call names
    KindOf,         \* what its preview returns: "read", "write" or "exec"
    CheckOf,        \* what verify::classify makes of its command
    MaxTurns,       \* MAX_TURNS
    LoopThreshold,  \* LOOP_THRESHOLD
    Limit,          \* budget.session_limit_usd; 0 means no limit
    MaxCost,        \* the most one model call costs
    MaxCalls,       \* bound: tool calls in one turn
    MaxPrompts,     \* bound: prompts in the session
    Decisions,      \* decisions the approver can return
    Teaching,       \* AgentSetup.teaching
    CanAbort        \* whether a front end can drop the run (the TUI's Esc)

Kinds == {"read", "write", "exec"}
CheckKinds == {"test", "build", "other"}     \* "build" is any check but a test
AllDecisions == {"approve", "always", "deny", "abort"}

ASSUME CallsAssumption ==
    /\ KindOf \in [Calls -> Kinds]
    /\ CheckOf \in [Calls -> CheckKinds]
    /\ Calls \subseteq DOMAIN ToolOf

ASSUME LimitsAssumption ==
    /\ MaxTurns \in Nat
    /\ LoopThreshold \in Nat \ {0}
    /\ Limit \in Nat
    /\ MaxCost \in Nat
    /\ MaxCalls \in Nat
    /\ MaxPrompts \in Nat

ASSUME SetupAssumption ==
    /\ Decisions \subseteq AllDecisions
    /\ Teaching \in BOOLEAN
    /\ CanAbort \in BOOLEAN

Tools == {ToolOf[c] : c \in Calls}

VARIABLES
    pc,         \* where the agent task awaits; "idle" between runs
    prompts,    \* prompts submitted so far
    turn,       \* turns completed by this run
    repeats,    \* `repeats`: how often this run's model asked for each call
    calls,      \* tool calls of the current turn, in order
    idx,        \* position of the call being handled
    answered,   \* positions whose result is in `results`
    effect,     \* previewed effect of the call being handled
    decision,   \* what the approver said about it
    history,    \* `history`: the conversation, across prompts
    approved,   \* `approved_tools`
    spent,      \* `spent`
    proof,      \* `proof`: evidence of the current run
    panel,      \* the Proven event this run sent; NoEvidence when none
    outcome,    \* how the run ended: FinishReason, "Failed" or "Aborted"
    executed,   \* history variable: executions of each call in this run
    written,    \* history variable: files the write tools changed in this run
    tested      \* history variable: a test passed in this run

locals == <<turn, repeats, calls, idx, answered, effect, decision>>
ghosts == <<executed, written, tested>>
vars == <<pc, prompts, locals, history, approved, spent, proof, panel, outcome,
          ghosts>>

-----------------------------------------------------------------------------
(* Evidence and verdict: proof.rs. *)

Checks == [kind : {"test", "build"}, passed : BOOLEAN]
Evidence == [changed : SUBSET Calls, checks : SUBSET Checks, broken : BOOLEAN]
NoEvidence == [changed |-> {}, checks |-> {}, broken |-> FALSE]

WithChange(p, c, e) ==
    IF e.kind = "write" THEN [p EXCEPT !.changed = @ \cup {c}] ELSE p

WithCheck(p, c, passed) ==
    IF CheckOf[c] = "other" THEN p
    ELSE [p EXCEPT !.checks = @ \cup {[kind |-> CheckOf[c], passed |-> passed]}]

WithViolation(p, e) == [p EXCEPT !.broken = @ \/ e.breaks]

Verdict(p) ==
    IF \E k \in p.checks : ~k.passed THEN "Failing"
    ELSE IF \E k \in p.checks : k.kind = "test" THEN "Verified"
    ELSE IF p.checks # {} THEN "Partial"
    ELSE IF p.changed = {} THEN "NothingToShow"
    ELSE "Unverified"

-----------------------------------------------------------------------------
(* Previewed effects: `lines` says the diff adds or removes a line, so     *)
(* ~lines is FileDiff::is_empty; `changes` says that the disk will differ; *)
(* `breaks` says that the ledger found a violation.  A diff without lines  *)
(* still changes the disk when it creates an empty file.                   *)

Effects == [kind : Kinds, lines : BOOLEAN, changes : BOOLEAN, breaks : BOOLEAN]
NoEffect == [kind |-> "read", lines |-> FALSE, changes |-> FALSE, breaks |-> FALSE]

EffectsOf(c) ==
    {e \in Effects :
        /\ e.kind = KindOf[c]
        /\ e.kind = "read" => e = NoEffect
        /\ e.kind = "write" => (e.lines => e.changes)
        /\ e.kind = "exec" => e.lines /\ e.changes}

NeedsApproval(e) == e.kind # "read"
IsEmptyDiff(e) == e.kind = "write" /\ ~e.lines

(* Mutant: a blanket approval also covers a change that breaks a rule. *)
RunsUnaskedDespiteRules(e, c) ==
    ~NeedsApproval(e) \/ IsEmptyDiff(e) \/ ToolOf[c] \in approved

RunsUnasked(e, c) ==
    \/ ~NeedsApproval(e)
    \/ IsEmptyDiff(e)
    \/ ToolOf[c] \in approved /\ ~e.breaks

-----------------------------------------------------------------------------
(* Conversation. *)

Roles == {"user", "assistant", "tool"}
Messages == [role : Roles, ids : SUBSET Nat]

UserMessage == [role |-> "user", ids |-> {}]
AssistantMessage(cs) == [role |-> "assistant", ids |-> DOMAIN cs]
ToolResults(ids) == [role |-> "tool", ids |-> ids]

(* The tool calls of message i are not answered by the very next message. *)
Dangling(i) ==
    /\ history[i].role = "assistant"
    /\ history[i].ids # {}
    /\ ~ \E j \in DOMAIN history :
            j = i + 1 /\ history[j] = ToolResults(history[i].ids)

-----------------------------------------------------------------------------
(* Guard rails. *)

Exhausted == Limit > 0 /\ spent >= Limit

Occurrences(cs, c) == Cardinality({i \in DOMAIN cs : cs[i] = c})

Counted(cs) == [c \in Calls |-> repeats[c] + Occurrences(cs, c)]

(* Mutant: the repetition is noticed one call too late. *)
LoopingLate(cs) == \E c \in Calls : Occurrences(cs, c) > 0 /\ Counted(cs)[c] > LoopThreshold

Looping(cs) == \E c \in Calls : Occurrences(cs, c) > 0 /\ Counted(cs)[c] >= LoopThreshold

Turns == UNION {[1..n -> Calls] : n \in 1..MaxCalls}

-----------------------------------------------------------------------------

NoRepeats == [c \in Calls |-> 0]

Init ==
    /\ pc = "idle"
    /\ prompts = 0
    /\ turn = 0
    /\ repeats = NoRepeats
    /\ calls = <<>>
    /\ idx = 0
    /\ answered = {}
    /\ effect = NoEffect
    /\ decision = "none"
    /\ history = <<>>
    /\ approved = {}
    /\ spent = 0
    /\ proof = NoEvidence
    /\ panel = NoEvidence
    /\ outcome = "none"
    /\ executed = NoRepeats
    /\ written = {}
    /\ tested = FALSE

(* The task of a run ends: its locals are gone. *)
DropLocals ==
    /\ turn' = 0
    /\ repeats' = NoRepeats
    /\ calls' = <<>>
    /\ idx' = 0
    /\ answered' = {}
    /\ effect' = NoEffect
    /\ decision' = "none"

(* Mutant: the evidence is kept for the whole session. *)
StartRunKeepingProof ==
    /\ pc = "idle"
    /\ prompts < MaxPrompts
    /\ pc' = "turn"
    /\ prompts' = prompts + 1
    /\ history' = Append(history, UserMessage)
    /\ panel' = NoEvidence
    /\ outcome' = "none"
    /\ executed' = NoRepeats
    /\ written' = {}
    /\ tested' = FALSE
    /\ UNCHANGED <<locals, approved, spent, proof>>

(* A prompt arrives: `run` resets the evidence and pushes the message. *)
StartRun ==
    /\ pc = "idle"
    /\ prompts < MaxPrompts
    /\ pc' = "turn"
    /\ prompts' = prompts + 1
    /\ proof' = NoEvidence
    /\ history' = Append(history, UserMessage)
    /\ panel' = NoEvidence
    /\ outcome' = "none"
    /\ executed' = NoRepeats
    /\ written' = {}
    /\ tested' = FALSE
    /\ UNCHANGED <<locals, approved, spent>>

(* The head of the for loop: out of turns, out of budget, or one more request. *)
StopAtTurnLimit ==
    /\ pc = "turn"
    /\ turn = MaxTurns
    /\ pc' = "finish"
    /\ outcome' = "TurnLimit"
    /\ UNCHANGED <<prompts, locals, history, approved, spent, proof, panel, ghosts>>

StopAtBudget ==
    /\ pc = "turn"
    /\ turn < MaxTurns
    /\ Exhausted
    /\ pc' = "finish"
    /\ outcome' = "BudgetExhausted"
    /\ UNCHANGED <<prompts, locals, history, approved, spent, proof, panel, ghosts>>

SendRequest ==
    /\ pc = "turn"
    /\ turn < MaxTurns
    /\ ~Exhausted
    /\ pc' = "stream"
    /\ UNCHANGED <<prompts, locals, history, approved, spent, proof, panel, outcome,
                   ghosts>>

(* A turn's Completed delta is billed; a stream without one is not. *)
Bill(cost) == spent' = spent + cost

(* Mutant: a failed turn ends the run without its panel. *)
FailTurnSilently(cost) ==
    /\ pc = "stream"
    /\ Bill(cost)
    /\ outcome' = "Failed"
    /\ pc' = "idle"
    /\ DropLocals
    /\ UNCHANGED <<prompts, history, approved, proof, panel, ghosts>>

(* The request or the stream fails: the panel, then Failed; no finish(). *)
FailTurn(cost) ==
    /\ pc = "stream"
    /\ Bill(cost)
    /\ panel' = proof
    /\ outcome' = "Failed"
    /\ pc' = "idle"
    /\ DropLocals
    /\ UNCHANGED <<prompts, history, approved, proof, ghosts>>

(* The turn asks for no tool: the run is over. *)
EndAnswer(truncated, cost) ==
    /\ pc = "stream"
    /\ Bill(cost)
    /\ history' = Append(history, AssistantMessage(<<>>))
    /\ outcome' = IF truncated THEN "OutputTruncated" ELSE "Completed"
    /\ pc' = "finish"
    /\ UNCHANGED <<prompts, locals, approved, proof, panel, ghosts>>

(* One call was asked for too often: no call of this turn is run. *)
StopAtLoop(cs, cost) ==
    /\ pc = "stream"
    /\ Looping(cs)
    /\ Bill(cost)
    /\ history' = Append(history, AssistantMessage(cs))
    /\ outcome' = "Loop"
    /\ pc' = "finish"
    /\ UNCHANGED <<prompts, locals, approved, proof, panel, ghosts>>

StartTools(cs, cost) ==
    /\ pc = "stream"
    /\ ~Looping(cs)
    /\ Bill(cost)
    /\ history' = Append(history, AssistantMessage(cs))
    /\ repeats' = Counted(cs)
    /\ calls' = cs
    /\ idx' = 1
    /\ answered' = {}
    /\ pc' = "gate"
    /\ UNCHANGED <<prompts, turn, effect, decision, approved, proof, panel, outcome,
                   ghosts>>

-----------------------------------------------------------------------------
(* Mutant: the loop over the calls runs one past the end. *)
NextCallPastTheEnd(results) ==
    /\ effect' = NoEffect
    /\ decision' = "none"
    /\ pc' = "gate"
    /\ idx' = idx + 1
    /\ answered' = results
    /\ UNCHANGED <<turn, repeats, calls, history>>

(* With the results so far: the next call or, after the last one, the      *)
(* results as one message and the next turn.                               *)
NextCall(results) ==
    /\ effect' = NoEffect
    /\ decision' = "none"
    /\ UNCHANGED repeats
    /\ \/ /\ idx < Len(calls)
          /\ pc' = "gate"
          /\ idx' = idx + 1
          /\ answered' = results
          /\ UNCHANGED <<turn, calls, history>>
       \/ /\ idx = Len(calls)
          /\ pc' = "turn"
          /\ turn' = turn + 1
          /\ history' = Append(history, ToolResults(results))
          /\ calls' = <<>>
          /\ idx' = 0
          /\ answered' = {}

PushResult == NextCall(answered \cup {idx})

(* Mutant: a refused call is skipped without a result. *)
SkipRefusedCall ==
    /\ pc = "gate"
    /\ NextCall(answered)
    /\ UNCHANGED <<prompts, approved, spent, proof, panel, outcome, ghosts>>

(* A pre-tool hook refuses the call, or its preview fails. *)
RefuseBeforeAsking ==
    /\ pc = "gate"
    /\ PushResult
    /\ UNCHANGED <<prompts, approved, spent, proof, panel, outcome, ghosts>>

(* The preview succeeds and nobody needs to be asked: straight to the      *)
(* checkpoint, which records the change before the tool runs.              *)
ClearUnasked(e) ==
    /\ pc = "gate"
    /\ RunsUnasked(e, calls[idx])
    /\ effect' = e
    /\ proof' = WithChange(WithViolation(proof, e), calls[idx], e)
    /\ pc' = "tool"
    /\ UNCHANGED <<prompts, turn, repeats, calls, idx, answered, decision, history,
                   approved, spent, panel, outcome, ghosts>>

Ask(e) ==
    /\ pc = "gate"
    /\ ~RunsUnasked(e, calls[idx])
    /\ effect' = e
    /\ proof' = WithViolation(proof, e)
    /\ pc' = "ask"
    /\ UNCHANGED <<prompts, turn, repeats, calls, idx, answered, decision, history,
                   approved, spent, panel, outcome, ghosts>>

Approve(d) ==
    /\ pc = "ask"
    /\ d \in {"approve", "always"}
    /\ decision' = d
    /\ approved' = IF d = "always" THEN approved \cup {ToolOf[calls[idx]]} ELSE approved
    /\ proof' = WithChange(proof, calls[idx], effect)
    /\ pc' = "tool"
    /\ UNCHANGED <<prompts, turn, repeats, calls, idx, answered, effect, history, spent,
                   panel, outcome, ghosts>>

(* Mutant: a declined call goes through the gate again. *)
DeclineAndRetry ==
    /\ pc = "ask"
    /\ "deny" \in Decisions
    /\ pc' = "gate"
    /\ UNCHANGED <<prompts, locals, history, approved, spent, proof, panel, outcome,
                   ghosts>>

Decline ==
    /\ pc = "ask"
    /\ "deny" \in Decisions
    /\ PushResult
    /\ UNCHANGED <<prompts, approved, spent, proof, panel, outcome, ghosts>>

(* Gate::Aborted: run_tools returns without the remaining results. *)
DeclineAndStop ==
    /\ pc = "ask"
    /\ "abort" \in Decisions
    /\ outcome' = "Declined"
    /\ pc' = "finish"
    /\ UNCHANGED <<prompts, locals, history, approved, spent, proof, panel, ghosts>>

(* The tool itself.  It may fail; a write that succeeds changes its file   *)
(* when the previewed effect said so.                                      *)
RunTool(ok) ==
    LET c == calls[idx]
        changes == ok /\ effect.kind = "write" /\ effect.changes
    IN
    /\ pc = "tool"
    /\ executed' = [executed EXCEPT ![c] = @ + 1]
    /\ written' = IF changes THEN written \cup {c} ELSE written
    /\ pc' = "post"
    /\ UNCHANGED <<prompts, locals, history, approved, spent, proof, panel, outcome,
                   tested>>

(* The post-tool hooks have run.  A shell result that carries an exit code *)
(* becomes evidence; one that timed out or could not start carries none.   *)
RecordCheck(passed) ==
    LET c == calls[idx] IN
    /\ pc = "post"
    /\ effect.kind = "exec"
    /\ proof' = WithCheck(proof, c, passed)
    /\ tested' = (tested \/ (passed /\ CheckOf[c] = "test"))
    /\ PushResult
    /\ UNCHANGED <<prompts, approved, spent, panel, outcome, executed, written>>

RecordNoCheck ==
    /\ pc = "post"
    /\ PushResult
    /\ UNCHANGED <<prompts, approved, spent, proof, panel, outcome, ghosts>>

-----------------------------------------------------------------------------
(* finish(): stop hooks, the panel when there is evidence, then the        *)
(* question when teaching is on and a file changed, then Finished.         *)

AsksAQuestion == Teaching /\ proof.changed # {}

Finish ==
    /\ pc = "finish"
    /\ ~AsksAQuestion
    /\ panel' = proof
    /\ pc' = "idle"
    /\ DropLocals
    /\ UNCHANGED <<prompts, history, approved, spent, proof, outcome, ghosts>>

FinishWithQuestion ==
    /\ pc = "finish"
    /\ AsksAQuestion
    /\ panel' = proof
    /\ pc' = "question"
    /\ UNCHANGED <<prompts, locals, history, approved, spent, proof, outcome, ghosts>>

(* The question is one more model call. *)
Question(cost) ==
    /\ pc = "question"
    /\ spent' = spent + cost
    /\ pc' = "idle"
    /\ DropLocals
    /\ UNCHANGED <<prompts, history, approved, proof, panel, outcome, ghosts>>

(* Esc: the front end aborts the task at whatever it was awaiting.  A call *)
(* under way may have been billed already: the event about it is awaited   *)
(* after the cost has been added.                                          *)
AbortTask(cost) ==
    /\ CanAbort
    /\ pc # "idle"
    /\ spent' = IF pc \in {"stream", "question"} THEN spent + cost ELSE spent
    /\ pc' = "idle"
    /\ outcome' = "Aborted"
    /\ DropLocals
    /\ UNCHANGED <<prompts, history, approved, proof, panel, ghosts>>

-----------------------------------------------------------------------------

Costs == 0..MaxCost

StreamStep ==
    \E cost \in Costs :
        \/ FailTurn(cost)
        \/ \E truncated \in BOOLEAN : EndAnswer(truncated, cost)
        \/ \E cs \in Turns : StopAtLoop(cs, cost) \/ StartTools(cs, cost)

GateStep ==
    \/ RefuseBeforeAsking
    \/ \E e \in Effects :
        /\ pc = "gate"
        /\ e \in EffectsOf(calls[idx])
        /\ ClearUnasked(e) \/ Ask(e)
    \/ \E d \in Decisions : Approve(d)
    \/ Decline
    \/ DeclineAndStop

ToolStep ==
    \/ \E ok \in BOOLEAN : RunTool(ok)
    \/ \E passed \in BOOLEAN : RecordCheck(passed)
    \/ RecordNoCheck

FinishStep ==
    \/ Finish
    \/ FinishWithQuestion
    \/ \E cost \in Costs : Question(cost)

AgentStep ==
    \/ StopAtTurnLimit
    \/ StopAtBudget
    \/ SendRequest
    \/ StreamStep
    \/ GateStep
    \/ ToolStep
    \/ FinishStep

Next == StartRun \/ AgentStep \/ \E cost \in Costs : AbortTask(cost)

Spec == Init /\ [][Next]_vars

(* The provider, the tools, the hooks and the approver answer: the task is *)
(* always scheduled again.  Nobody is obliged to send a prompt or press    *)
(* Esc.                                                                    *)
FairSpec == Spec /\ WF_vars(AgentStep)

-----------------------------------------------------------------------------
(* Invariants. *)

Outcomes == {"none", "Completed", "TurnLimit", "BudgetExhausted", "Loop",
             "OutputTruncated", "Declined", "Failed", "Aborted"}

Places == {"idle", "turn", "stream", "gate", "ask", "tool", "post", "finish",
           "question"}

(* The state has the types of the fields of Agent and the locals of run(); *)
(* a tool call is being handled only while there is one.                   *)
TypeOK ==
    /\ pc \in Places
    /\ prompts \in Nat
    /\ turn \in Nat
    /\ repeats \in [Calls -> Nat]
    /\ calls \in Seq(Calls)
    /\ idx \in Nat
    /\ answered \in SUBSET Nat
    /\ effect \in Effects
    /\ decision \in {"none", "approve", "always"}
    /\ history \in Seq(Messages)
    /\ approved \in SUBSET Tools
    /\ spent \in Nat
    /\ proof \in Evidence
    /\ panel \in Evidence
    /\ outcome \in Outcomes
    /\ executed \in [Calls -> Nat]
    /\ written \in SUBSET Calls
    /\ tested \in BOOLEAN
    /\ pc \in {"gate", "ask", "tool", "post"} => idx \in DOMAIN calls

(* No request that a run sends leaves one of the tool calls of that run    *)
(* unanswered: a call without a result can only lie before a later prompt. *)
RunAnswersItsCalls ==
    pc = "stream" =>
        \A i \in DOMAIN history :
            Dangling(i) =>
                \E j \in DOMAIN history : j > i /\ history[j].role = "user"

(* A call repeated with identical arguments is stopped before it runs for  *)
(* the LOOP_THRESHOLD-th time in a run, however the repetitions are spread *)
(* over the turns and inside one turn.                                     *)
RepetitionIsCut == \A c \in Calls : executed[c] < LoopThreshold

(* The session overshoots its budget by at most the turn that crossed the  *)
(* limit and one question about its change, however many prompts follow.   *)
OverspendBounded == Limit > 0 => spent <= Limit - 1 + 2 * MaxCost

(* A change whose preview shows something, and that breaks a rule, runs    *)
(* only after its own approval; without a broken rule an earlier "always"  *)
(* for the same tool is enough.                                            *)
ChangeIsConfirmed ==
    pc = "tool" /\ NeedsApproval(effect) /\ ~IsEmptyDiff(effect) =>
        \/ decision \in {"approve", "always"}
        \/ ToolOf[calls[idx]] \in approved /\ ~effect.breaks

(* Whatever a run wrote before it finished or failed is in the panel it    *)
(* showed.                                                                 *)
PanelCoversWrites ==
    pc = "idle" /\ outcome \notin {"none", "Aborted"} => written \subseteq panel.changed

(* A panel says "verified" only when a test passed in this very prompt.    *)
GreenTickIsEarned == Verdict(panel) = "Verified" => tested

(* Every run comes back: the front end gets the prompt line again. *)
RunEnds == pc # "idle" ~> pc = "idle"

-----------------------------------------------------------------------------
(* What the documentation says and the code does not keep. *)

(* A tool call left unanswered makes the next request invalid. *)
EveryRequestIsValid == pc = "stream" => \A i \in DOMAIN history : ~Dangling(i)

(* Nothing changes on the disk without somebody having approved it. *)
NothingChangesUnseen ==
    pc = "tool" /\ effect.kind = "write" /\ effect.changes =>
        \/ decision \in {"approve", "always"}
        \/ ToolOf[calls[idx]] \in approved

=============================================================================
