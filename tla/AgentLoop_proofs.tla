--------------------------- MODULE AgentLoop_proofs ---------------------------
(* Proofs about AgentLoop, for every set of calls and every limit, and about *)
(* Headless, which extends it, for every size of its channel.                *)
EXTENDS Headless, FiniteSetTheorems, SequenceTheorems, TLAPS

(* The calls of a turn are a sequence with at least one element. *)
LEMMA TurnIsSequence ==
    ASSUME NEW cs \in Turns
    PROVE  /\ cs \in Seq(Calls)
           /\ 1 \in DOMAIN cs
           /\ DOMAIN cs = 1..Len(cs)
           /\ DOMAIN cs \in SUBSET Nat
<1>1. PICK n \in 1..MaxCalls : cs \in [1..n -> Calls]
    BY DEF Turns
<1>2. n \in Nat /\ n >= 1
    BY <1>1, LimitsAssumption
<1>3. cs \in Seq(Calls)
    BY <1>1, <1>2, SeqDef
<1>4. Len(cs) = n
    BY <1>1, <1>2, <1>3, LenProperties
<1> QED
    BY <1>1, <1>2, <1>3, <1>4

(* A call occurs in a sequence of calls a natural number of times. *)
LEMMA OccurrencesNat ==
    ASSUME NEW cs \in Seq(Calls), NEW c
    PROVE  Occurrences(cs, c) \in Nat
<1>1. DOMAIN cs = 1..Len(cs) /\ Len(cs) \in Nat
    BY LenProperties
<1>2. IsFiniteSet(1..Len(cs))
    BY <1>1, FS_Interval
<1>3. IsFiniteSet({i \in DOMAIN cs : cs[i] = c})
    BY <1>1, <1>2, FS_Subset
<1> QED
    BY <1>3, FS_CardinalityType DEF Occurrences

(* Counting a turn keeps the counters natural numbers. *)
LEMMA CountedType ==
    ASSUME NEW cs \in Turns, repeats \in [Calls -> Nat]
    PROVE  Counted(cs) \in [Calls -> Nat]
BY TurnIsSequence, OccurrencesNat DEF Counted

(* Types of the evidence. *)
LEMMA EvidenceType ==
    ASSUME NEW p \in Evidence, NEW c \in Calls, NEW e \in Effects, NEW b \in BOOLEAN
    PROVE  /\ WithChange(p, c, e) \in Evidence
           /\ WithCheck(p, c, b) \in Evidence
           /\ WithViolation(p, e) \in Evidence
<1>1. WithChange(p, c, e) \in Evidence
    BY DEF WithChange, Evidence
<1>2. WithCheck(p, c, b) \in Evidence
    <2>1. CASE CheckOf[c] = "other"
        BY <2>1 DEF WithCheck
    <2>2. CASE CheckOf[c] # "other"
        <3>1. CheckOf[c] \in {"test", "build"}
            BY <2>2, CallsAssumption DEF CheckKinds
        <3>2. [kind |-> CheckOf[c], passed |-> b] \in Checks
            BY <3>1 DEF Checks
        <3> QED
            BY <2>2, <3>2 DEF WithCheck, Evidence
    <2> QED
        BY <2>1, <2>2
<1>3. WithViolation(p, e) \in Evidence
    BY DEF WithViolation, Evidence, Effects
<1> QED
    BY <1>1, <1>2, <1>3

(* A run that has done nothing has well-formed evidence. *)
LEMMA NoEvidenceType == NoEvidence \in Evidence
BY DEF NoEvidence, Evidence

(* The effect of no call is a well-formed effect. *)
LEMMA NoEffectType == NoEffect \in Effects
BY DEF NoEffect, Effects, Kinds

(* A new agent has the types. *)
LEMMA InitType == Init => TypeOK
<1>1. NoRepeats \in [Calls -> Nat]
    BY DEF NoRepeats
<1>2. <<>> \in Seq(Calls) /\ <<>> \in Seq(Messages)
    BY EmptySeq
<1> SUFFICES ASSUME Init PROVE TypeOK
    OBVIOUS
<1>3. repeats \in [Calls -> Nat] /\ executed \in [Calls -> Nat]
    BY <1>1 DEF Init
<1>4. calls \in Seq(Calls) /\ history \in Seq(Messages)
    BY <1>2 DEF Init
<1>5. effect \in Effects /\ proof \in Evidence /\ panel \in Evidence
    BY NoEvidenceType, NoEffectType DEF Init
<1> QED
    BY <1>3, <1>4, <1>5 DEF Init, TypeOK, Places, Outcomes

(* What DropLocals leaves behind has the right types. *)
LEMMA DropLocalsType ==
    ASSUME DropLocals
    PROVE  /\ turn' \in Nat
           /\ repeats' \in [Calls -> Nat]
           /\ calls' \in Seq(Calls)
           /\ idx' \in Nat
           /\ answered' \in SUBSET Nat
           /\ effect' \in Effects
           /\ decision' \in {"none", "approve", "always"}
BY NoEffectType, EmptySeq DEF DropLocals, NoRepeats

(* What NextCall leaves behind has the right types. *)
LEMMA NextCallType ==
    ASSUME TypeOK, NEW results \in SUBSET Nat, NextCall(results), idx \in DOMAIN calls
    PROVE  /\ turn' \in Nat
           /\ repeats' \in [Calls -> Nat]
           /\ calls' \in Seq(Calls)
           /\ idx' \in Nat
           /\ answered' \in SUBSET Nat
           /\ effect' \in Effects
           /\ decision' \in {"none", "approve", "always"}
           /\ history' \in Seq(Messages)
           /\ pc' \in Places
           /\ pc' \in {"gate", "ask", "tool", "post"} => idx' \in DOMAIN calls'
<1>1. DOMAIN calls = 1..Len(calls) /\ Len(calls) \in Nat
    BY LenProperties DEF TypeOK
<1>2. effect' \in Effects /\ decision' \in {"none", "approve", "always"}
    BY NoEffectType DEF NextCall
<1>3. repeats' \in [Calls -> Nat]
    BY DEF NextCall, TypeOK
<1>4. CASE idx < Len(calls) /\ pc' = "gate" /\ idx' = idx + 1 /\ answered' = results
           /\ UNCHANGED <<turn, calls, history>>
    <2>1. idx' \in DOMAIN calls'
        BY <1>1, <1>4 DEF TypeOK
    <2> QED
        BY <1>2, <1>3, <1>4, <2>1 DEF TypeOK, Places
<1>5. CASE /\ pc' = "turn"
           /\ turn' = turn + 1
           /\ history' = Append(history, ToolResults(results))
           /\ calls' = <<>>
           /\ idx' = 0
           /\ answered' = {}
    <2>1. ToolResults(results) \in Messages
        BY DEF ToolResults, Messages, Roles
    <2>2. history' \in Seq(Messages)
        BY <1>5, <2>1, AppendProperties DEF TypeOK
    <2>3. calls' \in Seq(Calls)
        BY <1>5, EmptySeq
    <2> QED
        BY <1>2, <1>3, <1>5, <2>2, <2>3 DEF TypeOK, Places
<1> QED
    BY <1>4, <1>5 DEF NextCall

(* A step of StreamStep keeps the types. *)
LEMMA StreamStepType ==
    ASSUME TypeOK, StreamStep
    PROVE  TypeOK'
<1> USE DEF TypeOK
<1>1. PICK cost \in Costs :
        \/ FailTurn(cost)
        \/ \E truncated \in BOOLEAN : EndAnswer(truncated, cost)
        \/ \E cs \in Turns : StopAtLoop(cs, cost) \/ StartTools(cs, cost)
    BY DEF StreamStep
<1>2. cost \in Nat
    BY LimitsAssumption DEF Costs
<1>3. CASE FailTurn(cost)
    BY <1>2, <1>3, DropLocalsType DEF FailTurn, Bill, Places, Outcomes, ghosts
<1>4. ASSUME NEW truncated \in BOOLEAN, EndAnswer(truncated, cost)
      PROVE  TypeOK'
    <2>1. AssistantMessage(<<>>) \in Messages
        BY DEF AssistantMessage, Messages, Roles
    <2>2. history' \in Seq(Messages)
        BY <1>4, <2>1, AppendProperties DEF EndAnswer
    <2> QED
        BY <1>2, <1>4, <2>2 DEF EndAnswer, Bill, Places, Outcomes, locals, ghosts
<1>5. ASSUME NEW cs \in Turns, StopAtLoop(cs, cost) \/ StartTools(cs, cost)
      PROVE  TypeOK'
    <2>1. AssistantMessage(cs) \in Messages
        BY TurnIsSequence DEF AssistantMessage, Messages, Roles
    <2>2. history' = Append(history, AssistantMessage(cs))
        BY <1>5 DEF StopAtLoop, StartTools
    <2>3. history' \in Seq(Messages)
        BY <2>1, <2>2, AppendProperties
    <2>4. CASE StopAtLoop(cs, cost)
        BY <1>2, <2>3, <2>4 DEF StopAtLoop, Bill, Places, Outcomes, locals, ghosts
    <2>5. CASE StartTools(cs, cost)
        BY <1>2, <2>3, <2>5, TurnIsSequence, CountedType
        DEF StartTools, Bill, Places, ghosts
    <2> QED
        BY <1>5, <2>4, <2>5
<1> QED
    BY <1>1, <1>3, <1>4, <1>5

(* A step of GateStep keeps the types. *)
LEMMA GateStepType ==
    ASSUME TypeOK, GateStep
    PROVE  TypeOK'
<1> USE DEF TypeOK
<1>1. ASSUME pc \in {"gate", "ask"}, PushResult,
             UNCHANGED <<prompts, approved, spent, proof, panel, outcome, ghosts>>
      PROVE  TypeOK'
    BY <1>1, NextCallType DEF PushResult, ghosts
<1>2. ASSUME pc \in {"gate", "ask"}
      PROVE  calls[idx] \in Calls
    BY <1>2, ElementOfSeq, LenProperties
<1>3. CASE RefuseBeforeAsking \/ Decline
    BY <1>1, <1>3 DEF RefuseBeforeAsking, Decline
<1>4. ASSUME NEW e \in Effects, ClearUnasked(e) \/ Ask(e)
      PROVE  TypeOK'
    <2>1. /\ proof' \in Evidence
          /\ pc' \in {"tool", "ask"}
        BY <1>2, <1>4, EvidenceType DEF ClearUnasked, Ask
    <2> QED
        BY <1>4, <2>1 DEF ClearUnasked, Ask, Places, ghosts
<1>5. ASSUME NEW d \in Decisions, Approve(d)
      PROVE  TypeOK'
    <2>1. proof' \in Evidence
        BY <1>2, <1>5, EvidenceType DEF Approve
    <2>2. approved' \in SUBSET Tools
        BY <1>2, <1>5 DEF Approve, Tools
    <2> QED
        BY <1>5, <2>1, <2>2 DEF Approve, Places, ghosts
<1>6. CASE DeclineAndStop
    BY <1>6 DEF DeclineAndStop, locals, ghosts, Places, Outcomes
<1> QED
    BY <1>3, <1>4, <1>5, <1>6 DEF GateStep

(* A step of ToolStep keeps the types. *)
LEMMA ToolStepType ==
    ASSUME TypeOK, ToolStep
    PROVE  TypeOK'
<1> USE DEF TypeOK
<1>1. ASSUME pc \in {"tool", "post"}
      PROVE  calls[idx] \in Calls
    BY <1>1, ElementOfSeq, LenProperties
<1>2. ASSUME NEW ok \in BOOLEAN, RunTool(ok)
      PROVE  TypeOK'
    <2>1. /\ executed' \in [Calls -> Nat]
          /\ written' \in SUBSET Calls
        BY <1>1, <1>2 DEF RunTool
    <2> QED
        BY <1>2, <2>1 DEF RunTool, locals, Places
<1>3. ASSUME NEW passed \in BOOLEAN, RecordCheck(passed)
      PROVE  TypeOK'
    <2>1. proof' \in Evidence
        BY <1>1, <1>3, EvidenceType DEF RecordCheck
    <2>2. tested' = (tested \/ (passed /\ CheckOf[calls[idx]] = "test"))
        BY <1>3 DEF RecordCheck
    <2>3. tested' \in BOOLEAN
        BY <2>2, Zenon
    <2> QED
        BY <1>3, <2>1, <2>3, NextCallType DEF RecordCheck, PushResult
<1>4. CASE RecordNoCheck
    BY <1>4, NextCallType DEF RecordNoCheck, PushResult, ghosts
<1> QED
    BY <1>2, <1>3, <1>4 DEF ToolStep

(* Every step keeps the types. *)
LEMMA TypePreserved == TypeOK /\ [Next]_vars => TypeOK'
<1> SUFFICES ASSUME TypeOK, [Next]_vars PROVE TypeOK'
    OBVIOUS
<1> USE DEF TypeOK
<1>1. CASE StartRun
    <2>1. UserMessage \in Messages
        BY DEF UserMessage, Messages, Roles
    <2>2. history' \in Seq(Messages)
        BY <1>1, <2>1, AppendProperties DEF StartRun
    <2>3. NoRepeats \in [Calls -> Nat]
        BY DEF NoRepeats
    <2>4. executed' \in [Calls -> Nat] /\ proof' \in Evidence /\ panel' \in Evidence
        BY <1>1, <2>3, NoEvidenceType DEF StartRun
    <2>5. /\ pc' = "turn" /\ prompts' = prompts + 1 /\ outcome' = "none"
          /\ written' = {} /\ tested' = FALSE
          /\ UNCHANGED <<turn, repeats, calls, idx, answered, effect, decision,
                         approved, spent>>
        BY <1>1 DEF StartRun, locals
    <2>6. tested' \in BOOLEAN
        BY <2>5
    <2>7. pc' \in Places /\ outcome' \in Outcomes /\ prompts' \in Nat
        BY <2>5 DEF Places, Outcomes
    <2>8. written' \in SUBSET Calls
        BY <2>5
    <2>9. pc' \in {"gate", "ask", "tool", "post"} => idx' \in DOMAIN calls'
        BY <2>5
    <2> QED
        BY <2>2, <2>4, <2>5, <2>6, <2>7, <2>8, <2>9
<1>2. CASE StopAtTurnLimit \/ StopAtBudget \/ SendRequest
    BY <1>2 DEF StopAtTurnLimit, StopAtBudget, SendRequest, locals, ghosts,
       Places, Outcomes
<1>3. CASE StreamStep
    BY <1>3, StreamStepType
<1>4. CASE GateStep
    BY <1>4, GateStepType
<1>5. CASE ToolStep
    BY <1>5, ToolStepType
<1>6. CASE Finish \/ FinishWithQuestion
    BY <1>6, DropLocalsType DEF Finish, FinishWithQuestion, locals, ghosts, Places
<1>7. ASSUME NEW cost \in Costs, Question(cost)
      PROVE  TypeOK'
    BY <1>7, DropLocalsType, LimitsAssumption DEF Question, Costs, ghosts, Places
<1>8. ASSUME NEW cost \in Costs, AbortTask(cost)
      PROVE  TypeOK'
    BY <1>8, DropLocalsType, LimitsAssumption DEF AbortTask, Costs, ghosts, Places, Outcomes
<1>9. CASE UNCHANGED vars
    BY <1>9 DEF vars, locals, ghosts
<1> QED
    BY <1>1, <1>2, <1>3, <1>4, <1>5, <1>6, <1>7, <1>8, <1>9 DEF Next, AgentStep, FinishStep

(* The agent's state always has its types, and a call is being handled     *)
(* only while the turn has one at that position.                           *)
THEOREM TypeCorrect == Spec => []TypeOK
BY InitType, TypePreserved, PTL DEF Spec

-----------------------------------------------------------------------------
(* The budget.  Beyond the turn that crosses the limit there is room for   *)
(* one question only: once it has been paid for, a later run starts with   *)
(* no evidence, stops at the budget check and so asks nothing.             *)

PastOneTurn == spent > Limit - 1 + MaxCost

BudgetInv ==
    Limit > 0 =>
        /\ spent <= Limit - 1 + 2 * MaxCost
        /\ pc = "stream" => spent < Limit
        /\ PastOneTurn /\ pc # "idle" => pc \in {"turn", "finish"} /\ proof.changed = {}

(* No step of the loop breaks the bound on what is spent. *)
LEMMA BudgetPreserved == TypeOK /\ BudgetInv /\ [Next]_vars => BudgetInv'
<1> SUFFICES ASSUME TypeOK, BudgetInv, [Next]_vars, Limit > 0
             PROVE  /\ spent' <= Limit - 1 + 2 * MaxCost
                    /\ pc' = "stream" => spent' < Limit
                    /\ PastOneTurn' /\ pc' # "idle" =>
                            pc' \in {"turn", "finish"} /\ proof'.changed = {}
    BY DEF BudgetInv
<1>1. spent \in Nat /\ Limit \in Nat /\ MaxCost \in Nat /\ Costs = 0..MaxCost
    BY LimitsAssumption DEF TypeOK, Costs
<1> USE DEF BudgetInv, PastOneTurn
<1>2. CASE StartRun
    <2>1. proof'.changed = {} /\ pc' = "turn" /\ spent' = spent
        BY <1>2 DEF StartRun, NoEvidence
    <2> QED
        BY <1>1, <2>1
<1>3. CASE StopAtTurnLimit \/ StopAtBudget \/ SendRequest
    BY <1>1, <1>3 DEF StopAtTurnLimit, StopAtBudget, SendRequest, Exhausted
<1>4. CASE StreamStep
    <2>1. PICK cost \in Costs : spent' = spent + cost /\ pc = "stream"
        BY <1>4 DEF StreamStep, FailTurn, EndAnswer, StopAtLoop, StartTools, Bill
    <2>2. pc' # "stream"
        BY <1>4 DEF StreamStep, FailTurn, EndAnswer, StopAtLoop, StartTools
    <2> QED
        BY <1>1, <2>1, <2>2
<1>5. CASE GateStep \/ ToolStep
    <2>1. pc \in {"gate", "ask", "tool", "post"} /\ spent' = spent
        BY <1>5 DEF GateStep, RefuseBeforeAsking, ClearUnasked, Ask, Approve, Decline,
           DeclineAndStop, ToolStep, RunTool, RecordCheck, RecordNoCheck
    <2>2. pc' # "stream"
        BY <1>5 DEF GateStep, RefuseBeforeAsking, ClearUnasked, Ask, Approve, Decline,
           DeclineAndStop, ToolStep, RunTool, RecordCheck, RecordNoCheck, PushResult,
           NextCall
    <2> QED
        BY <1>1, <2>1, <2>2
<1>6. CASE Finish
    BY <1>1, <1>6 DEF Finish
<1>7. CASE FinishWithQuestion
    BY <1>1, <1>7 DEF FinishWithQuestion, AsksAQuestion
<1>8. ASSUME NEW cost \in Costs, Question(cost)
      PROVE  /\ spent' <= Limit - 1 + 2 * MaxCost
             /\ pc' = "idle"
    BY <1>1, <1>8 DEF Question
<1>9. ASSUME NEW cost \in Costs, AbortTask(cost)
      PROVE  /\ spent' <= Limit - 1 + 2 * MaxCost
             /\ pc' = "idle"
    BY <1>1, <1>9 DEF AbortTask
<1>10. CASE UNCHANGED vars
    BY <1>1, <1>10 DEF vars
<1> QED
    BY <1>2, <1>3, <1>4, <1>5, <1>6, <1>7, <1>8, <1>9, <1>10
    DEF Next, AgentStep, FinishStep

(* Whatever the limit, the price of a call and the number of prompts, the  *)
(* session overshoots its budget by at most one turn and one question.     *)
THEOREM BudgetHolds == Spec => []OverspendBounded
<1>1. Init => BudgetInv
    BY LimitsAssumption DEF Init, BudgetInv, PastOneTurn
<1>2. BudgetInv => OverspendBounded
    BY DEF BudgetInv, OverspendBounded
<1> QED
    BY <1>1, <1>2, TypeCorrect, BudgetPreserved, PTL DEF Spec

-----------------------------------------------------------------------------
(* Consent. *)

(* No step lets a visible change through to its tool unconfirmed. *)
LEMMA ConsentPreserved == ChangeIsConfirmed /\ [Next]_vars => ChangeIsConfirmed'
<1> SUFFICES ASSUME ChangeIsConfirmed, [Next]_vars PROVE ChangeIsConfirmed'
    OBVIOUS
<1> USE DEF ChangeIsConfirmed
<1>1. ASSUME NEW e \in Effects, ClearUnasked(e)
      PROVE  ChangeIsConfirmed'
    BY <1>1 DEF ClearUnasked, RunsUnasked, NeedsApproval, IsEmptyDiff
<1>2. ASSUME NEW d \in Decisions, Approve(d)
      PROVE  ChangeIsConfirmed'
    BY <1>2 DEF Approve
<1>3. CASE UNCHANGED vars
    BY <1>3 DEF vars, locals, NeedsApproval, IsEmptyDiff
<1>4. ASSUME pc' # "tool"
      PROVE  ChangeIsConfirmed'
    BY <1>4
<1>5. CASE StartRun \/ StopAtTurnLimit \/ StopAtBudget \/ SendRequest \/ StreamStep
           \/ FinishStep \/ \E cost \in Costs : AbortTask(cost)
    BY <1>4, <1>5 DEF StartRun, StopAtTurnLimit, StopAtBudget, SendRequest, StreamStep,
       FailTurn, EndAnswer, StopAtLoop, StartTools, FinishStep, Finish,
       FinishWithQuestion, Question, AbortTask
<1>6. CASE RefuseBeforeAsking \/ Decline \/ DeclineAndStop \/ ToolStep
           \/ \E e \in Effects : Ask(e)
    BY <1>4, <1>6 DEF RefuseBeforeAsking, Decline, DeclineAndStop, ToolStep, RunTool,
       RecordCheck, RecordNoCheck, PushResult, NextCall, Ask
<1> QED
    BY <1>1, <1>2, <1>3, <1>5, <1>6 DEF Next, AgentStep, GateStep

(* A visible change never runs without its own approval, except under an   *)
(* earlier "always" and then only when it breaks no rule.                  *)
THEOREM ConsentHolds == Spec => []ChangeIsConfirmed
<1>1. Init => ChangeIsConfirmed
    BY DEF Init, ChangeIsConfirmed
<1> QED
    BY <1>1, ConsentPreserved, PTL DEF Spec

-----------------------------------------------------------------------------
(* Evidence.  The checkpoint records a change before the tool that makes   *)
(* it runs, so whatever a run wrote is in its proof; a test counts only    *)
(* when this run watched its exit code.                                    *)

GreenTest == [kind |-> "test", passed |-> TRUE]

EvidenceInv ==
    /\ GreenTest \in proof.checks => tested
    /\ GreenTest \in panel.checks => tested
    /\ written \subseteq proof.changed
    /\ pc = "tool" /\ effect.kind = "write" => calls[idx] \in proof.changed
    /\ pc = "question" => panel = proof
    /\ PanelCoversWrites

(* The evidence a run has gathered only grows. *)
LEMMA ChangesGrow ==
    ASSUME NEW p \in Evidence, NEW c \in Calls, NEW e \in Effects
    PROVE  /\ p.changed \subseteq WithChange(p, c, e).changed
           /\ e.kind = "write" => c \in WithChange(p, c, e).changed
           /\ WithChange(p, c, e).checks = p.checks
           /\ WithViolation(p, e).changed = p.changed
           /\ WithViolation(p, e).checks = p.checks
BY DEF WithChange, WithViolation, Evidence

(* The only green test a check can add is the one that was just watched. *)
LEMMA GreenTestIsWatched ==
    ASSUME NEW p \in Evidence, NEW c \in Calls, NEW b \in BOOLEAN
    PROVE  /\ WithCheck(p, c, b).changed = p.changed
           /\ GreenTest \in WithCheck(p, c, b).checks =>
                    GreenTest \in p.checks \/ (b /\ CheckOf[c] = "test")
<1>1. WithCheck(p, c, b).changed = p.changed
    BY DEF WithCheck, Evidence
<1>2. ASSUME GreenTest \in WithCheck(p, c, b).checks
      PROVE  GreenTest \in p.checks \/ (b /\ CheckOf[c] = "test")
    <2>1. GreenTest \in p.checks \/ GreenTest = [kind |-> CheckOf[c], passed |-> b]
        BY <1>2 DEF WithCheck, Evidence
    <2>2. ASSUME GreenTest = [kind |-> CheckOf[c], passed |-> b]
          PROVE  b /\ CheckOf[c] = "test"
        <3>1. GreenTest.kind = CheckOf[c] /\ GreenTest.passed = b
            BY <2>2
        <3> QED
            BY <3>1 DEF GreenTest
    <2> QED
        BY <2>1, <2>2
<1> QED
    BY <1>1, <1>2

(* No step separates the evidence from what the run did. *)
LEMMA EvidencePreserved == TypeOK /\ EvidenceInv /\ [Next]_vars => EvidenceInv'
<1> SUFFICES ASSUME TypeOK, EvidenceInv, [Next]_vars PROVE EvidenceInv'
    OBVIOUS
<1> USE DEF EvidenceInv, PanelCoversWrites
<1>1. proof \in Evidence /\ effect \in Effects
    BY DEF TypeOK
<1>2. ASSUME pc \in {"gate", "ask", "tool", "post"}
      PROVE  calls[idx] \in Calls
    BY <1>2, ElementOfSeq, LenProperties DEF TypeOK
<1>3. CASE StartRun
    BY <1>3 DEF StartRun, NoEvidence
<1>4. CASE StopAtTurnLimit \/ StopAtBudget \/ SendRequest
    BY <1>4 DEF StopAtTurnLimit, StopAtBudget, SendRequest, ghosts
<1>5. CASE StreamStep
    BY <1>5 DEF StreamStep, FailTurn, EndAnswer, StopAtLoop, StartTools, ghosts
<1>6. CASE RefuseBeforeAsking \/ Decline \/ DeclineAndStop
    BY <1>6 DEF RefuseBeforeAsking, Decline, DeclineAndStop, PushResult, NextCall, ghosts
<1>7. ASSUME NEW e \in Effects, ClearUnasked(e)
      PROVE  EvidenceInv'
    <2>1. /\ calls[idx] \in Calls
          /\ WithViolation(proof, e) \in Evidence
        BY <1>1, <1>2, <1>7, EvidenceType DEF ClearUnasked
    <2>2. proof' = WithChange(WithViolation(proof, e), calls[idx], e)
        BY <1>7 DEF ClearUnasked
    <2>3. /\ proof'.checks = proof.checks
          /\ proof.changed \subseteq proof'.changed
          /\ e.kind = "write" => calls[idx] \in proof'.changed
        <3>1. /\ WithViolation(proof, e).changed = proof.changed
              /\ WithViolation(proof, e).checks = proof.checks
            BY <1>1, <2>1, ChangesGrow
        <3>2. /\ WithViolation(proof, e).changed \subseteq proof'.changed
              /\ e.kind = "write" => calls[idx] \in proof'.changed
              /\ proof'.checks = WithViolation(proof, e).checks
            BY <2>1, <2>2, ChangesGrow
        <3> QED
            BY <3>1, <3>2
    <2>4. /\ pc' = "tool" /\ effect' = e
          /\ UNCHANGED <<calls, idx, panel, written, tested>>
        BY <1>7 DEF ClearUnasked, ghosts
    <2> QED
        BY <2>3, <2>4
<1>8. ASSUME NEW e \in Effects, Ask(e)
      PROVE  EvidenceInv'
    <2>1. calls[idx] \in Calls
        BY <1>2, <1>8 DEF Ask
    <2>2. proof'.checks = proof.checks /\ proof'.changed = proof.changed
        BY <1>1, <1>8, <2>1, ChangesGrow DEF Ask
    <2>3. pc' = "ask" /\ UNCHANGED <<panel, written, tested>>
        BY <1>8 DEF Ask, ghosts
    <2> QED
        BY <2>2, <2>3
<1>9. ASSUME NEW d \in Decisions, Approve(d)
      PROVE  EvidenceInv'
    <2>1. calls[idx] \in Calls
        BY <1>2, <1>9 DEF Approve
    <2>2. /\ proof'.checks = proof.checks
          /\ proof.changed \subseteq proof'.changed
          /\ effect.kind = "write" => calls[idx] \in proof'.changed
        BY <1>1, <1>9, <2>1, ChangesGrow DEF Approve
    <2>3. pc' = "tool" /\ UNCHANGED <<calls, idx, effect, panel, written, tested>>
        BY <1>9 DEF Approve, ghosts
    <2> QED
        BY <2>2, <2>3
<1>10. ASSUME NEW ok \in BOOLEAN, RunTool(ok)
       PROVE  EvidenceInv'
    <2>1. written' \subseteq proof.changed
        BY <1>10 DEF RunTool
    <2> QED
        BY <1>10, <2>1 DEF RunTool, locals
<1>11. ASSUME NEW passed \in BOOLEAN, RecordCheck(passed)
       PROVE  EvidenceInv'
    <2>1. calls[idx] \in Calls
        BY <1>2, <1>11 DEF RecordCheck
    <2>2. /\ proof'.changed = proof.changed
          /\ GreenTest \in proof'.checks =>
                GreenTest \in proof.checks \/ (passed /\ CheckOf[calls[idx]] = "test")
        BY <1>1, <1>11, <2>1, GreenTestIsWatched DEF RecordCheck
    <2>3. tested' = (tested \/ (passed /\ CheckOf[calls[idx]] = "test"))
        BY <1>11 DEF RecordCheck
    <2>4. pc' \in {"gate", "turn"} /\ UNCHANGED <<panel, written>>
        BY <1>11 DEF RecordCheck, PushResult, NextCall
    <2> QED
        BY <2>2, <2>3, <2>4
<1>12. CASE RecordNoCheck
    BY <1>12 DEF RecordNoCheck, PushResult, NextCall, ghosts
<1>13. CASE FinishStep
    BY <1>13 DEF FinishStep, Finish, FinishWithQuestion, Question, ghosts
<1>14. CASE \E cost \in Costs : AbortTask(cost)
    BY <1>14 DEF AbortTask, ghosts
<1>15. CASE UNCHANGED vars
    BY <1>15 DEF vars, locals, ghosts
<1> QED
    BY <1>3, <1>4, <1>5, <1>6, <1>7, <1>8, <1>9, <1>10, <1>11, <1>12, <1>13, <1>14, <1>15
    DEF Next, AgentStep, GateStep, ToolStep

(* The evidence of a run matches what the run did, at every step. *)
LEMMA EvidenceInvariant == Spec => []EvidenceInv
<1>1. Init => EvidenceInv
    BY DEF Init, EvidenceInv, PanelCoversWrites, NoEvidence
<1> QED
    BY <1>1, TypeCorrect, EvidencePreserved, PTL DEF Spec

(* A run that ends by itself, or fails, has shown every file it wrote. *)
THEOREM PanelIsComplete == Spec => []PanelCoversWrites
<1>1. EvidenceInv => PanelCoversWrites
    BY DEF EvidenceInv
<1> QED
    BY <1>1, EvidenceInvariant, PTL

(* "Verified" is shown only when a test passed during that prompt. *)
THEOREM GreenTickHolds == Spec => []GreenTickIsEarned
<1>1. TypeOK /\ EvidenceInv => GreenTickIsEarned
    <2> SUFFICES ASSUME TypeOK, EvidenceInv, Verdict(panel) = "Verified"
                 PROVE  tested
        BY DEF GreenTickIsEarned
    <2>1. PICK k \in panel.checks : k.kind = "test" /\ k.passed
        BY DEF Verdict
    <2>2. k \in Checks
        BY <2>1 DEF TypeOK, Evidence
    <2>3. k = GreenTest
        BY <2>1, <2>2 DEF Checks, GreenTest
    <2> QED
        BY <2>1, <2>3 DEF EvidenceInv
<1> QED
    BY <1>1, TypeCorrect, EvidenceInvariant, PTL

-----------------------------------------------------------------------------
(* Repetition.  `repeats` counts a whole turn before any of its calls      *)
(* runs, so what has run plus what this turn may still run stays within    *)
(* the counter, and the counter of a run that goes on below the threshold. *)

Pending(cs, k, c) == Cardinality({i \in DOMAIN cs : i >= k /\ cs[i] = c})

RepetitionInv ==
    \A c \in Calls :
        /\ repeats[c] < LoopThreshold
        /\ executed[c] < LoopThreshold
        /\ pc \in {"turn", "stream"} => executed[c] <= repeats[c]
        /\ pc \in {"gate", "ask", "tool"} => executed[c] + Pending(calls, idx, c) <= repeats[c]
        /\ pc = "post" => executed[c] + Pending(calls, idx + 1, c) <= repeats[c]

(* The executions of a call still to come are a natural number. *)
LEMMA PendingNat ==
    ASSUME NEW cs \in Seq(Calls), NEW k, NEW c
    PROVE  Pending(cs, k, c) \in Nat
<1>1. DOMAIN cs = 1..Len(cs) /\ Len(cs) \in Nat
    BY LenProperties
<1>2. IsFiniteSet(1..Len(cs))
    BY <1>1, FS_Interval
<1>3. IsFiniteSet({i \in DOMAIN cs : i >= k /\ cs[i] = c})
    BY <1>1, <1>2, FS_Subset
<1> QED
    BY <1>3, FS_CardinalityType DEF Pending

(* Moving past position k takes its own call off the pending ones. *)
LEMMA PendingStep ==
    ASSUME NEW cs \in Seq(Calls), NEW k \in DOMAIN cs, NEW c
    PROVE  /\ cs[k] = c => Pending(cs, k, c) = Pending(cs, k + 1, c) + 1
           /\ cs[k] # c => Pending(cs, k, c) = Pending(cs, k + 1, c)
<1> DEFINE P(n) == {i \in DOMAIN cs : i >= n /\ cs[i] = c}
<1>1. DOMAIN cs = 1..Len(cs) /\ Len(cs) \in Nat /\ k \in Nat
    BY LenProperties
<1>2. IsFiniteSet(P(k + 1))
    <2>1. IsFiniteSet(1..Len(cs))
        BY <1>1, FS_Interval
    <2>2. P(k + 1) \subseteq 1..Len(cs)
        BY <1>1
    <2> QED
        BY <2>1, <2>2, FS_Subset
<1>3. CASE cs[k] = c
    <2>1. P(k) = P(k + 1) \cup {k}
        BY <1>1, <1>3
    <2>2. k \notin P(k + 1)
        BY <1>1
    <2>3. Cardinality(P(k + 1) \cup {k}) = Cardinality(P(k + 1)) + 1
        BY <1>2, <2>2, FS_AddElement
    <2> QED
        BY <1>3, <2>1, <2>3 DEF Pending
<1>4. CASE cs[k] # c
    <2>1. P(k) = P(k + 1)
        BY <1>1, <1>4
    <2> QED
        BY <1>4, <2>1 DEF Pending
<1> QED
    BY <1>3, <1>4

(* At the first position everything the turn asks for is pending. *)
LEMMA PendingAll ==
    ASSUME NEW cs \in Seq(Calls), NEW c
    PROVE  Pending(cs, 1, c) = Occurrences(cs, c)
<1>1. {i \in DOMAIN cs : i >= 1 /\ cs[i] = c} = {i \in DOMAIN cs : cs[i] = c}
    BY LenProperties
<1> QED
    BY <1>1 DEF Pending, Occurrences

(* No step lets a call run more often than it was counted. *)
LEMMA RepetitionPreserved == TypeOK /\ RepetitionInv /\ [Next]_vars => RepetitionInv'
<1> SUFFICES ASSUME TypeOK, RepetitionInv, [Next]_vars, NEW c \in Calls
             PROVE  /\ repeats'[c] < LoopThreshold
                    /\ executed'[c] < LoopThreshold
                    /\ pc' \in {"turn", "stream"} => executed'[c] <= repeats'[c]
                    /\ pc' \in {"gate", "ask", "tool"} =>
                            executed'[c] + Pending(calls', idx', c) <= repeats'[c]
                    /\ pc' = "post" =>
                            executed'[c] + Pending(calls', idx' + 1, c) <= repeats'[c]
    BY DEF RepetitionInv
<1>1. /\ repeats[c] \in Nat
      /\ executed[c] \in Nat
      /\ LoopThreshold \in Nat \ {0}
      /\ calls \in Seq(Calls)
    BY LimitsAssumption DEF TypeOK
<1>2. /\ repeats[c] < LoopThreshold
      /\ executed[c] < LoopThreshold
      /\ pc \in {"turn", "stream"} => executed[c] <= repeats[c]
      /\ pc \in {"gate", "ask", "tool"} =>
              executed[c] + Pending(calls, idx, c) <= repeats[c]
      /\ pc = "post" => executed[c] + Pending(calls, idx + 1, c) <= repeats[c]
    BY DEF RepetitionInv
<1>3. Pending(calls, idx, c) \in Nat /\ Pending(calls, idx + 1, c) \in Nat
    BY <1>1, PendingNat
<1>4. ASSUME pc \in {"gate", "ask", "tool", "post"}
      PROVE  /\ calls[idx] = c => Pending(calls, idx, c) = Pending(calls, idx + 1, c) + 1
             /\ calls[idx] # c => Pending(calls, idx, c) = Pending(calls, idx + 1, c)
    BY <1>1, <1>4, PendingStep DEF TypeOK
<1>5. CASE StartRun
    <2>1. executed'[c] = 0 /\ pc' = "turn" /\ repeats' = repeats
        BY <1>5 DEF StartRun, NoRepeats, locals
    <2> QED
        BY <1>1, <1>2, <2>1
<1>6. CASE StopAtTurnLimit \/ StopAtBudget \/ SendRequest
    BY <1>2, <1>6 DEF StopAtTurnLimit, StopAtBudget, SendRequest, locals, ghosts
<1>7. CASE DropLocals /\ pc' = "idle" /\ executed' = executed
    <2>1. repeats'[c] = 0
        BY <1>7 DEF DropLocals, NoRepeats
    <2> QED
        BY <1>1, <1>2, <1>7, <2>1
<1>8. ASSUME NEW cs \in Turns, NEW cost \in Costs, StartTools(cs, cost)
      PROVE  /\ repeats'[c] < LoopThreshold
             /\ executed'[c] < LoopThreshold
             /\ pc' = "gate"
             /\ executed'[c] + Pending(calls', idx', c) <= repeats'[c]
    <2>1. cs \in Seq(Calls) /\ Occurrences(cs, c) \in Nat
        BY TurnIsSequence, OccurrencesNat
    <2>2. /\ pc = "stream" /\ pc' = "gate" /\ ~Looping(cs)
          /\ repeats' = Counted(cs) /\ calls' = cs /\ idx' = 1 /\ executed' = executed
        BY <1>8 DEF StartTools, ghosts
    <2>3. repeats'[c] = repeats[c] + Occurrences(cs, c)
        BY <2>2 DEF Counted
    <2>4. Pending(calls', idx', c) = Occurrences(cs, c)
        BY <2>1, <2>2, PendingAll
    <2>5. Occurrences(cs, c) > 0 => ~(repeats'[c] >= LoopThreshold)
        BY <2>2 DEF Looping
    <2> QED
        BY <1>1, <1>2, <2>1, <2>2, <2>3, <2>4, <2>5
<1>9. CASE StreamStep
    <2>1. PICK cost \in Costs :
            \/ FailTurn(cost)
            \/ \E truncated \in BOOLEAN : EndAnswer(truncated, cost)
            \/ \E cs \in Turns : StopAtLoop(cs, cost) \/ StartTools(cs, cost)
        BY <1>9 DEF StreamStep
    <2>2. CASE FailTurn(cost)
        BY <1>7, <2>2 DEF FailTurn, ghosts
    <2>3. CASE \/ \E truncated \in BOOLEAN : EndAnswer(truncated, cost)
               \/ \E cs \in Turns : StopAtLoop(cs, cost)
        <3>1. pc' = "finish" /\ repeats' = repeats /\ executed' = executed
            BY <2>3 DEF EndAnswer, StopAtLoop, locals, ghosts
        <3> QED
            BY <1>2, <3>1
    <2>4. CASE \E cs \in Turns : StartTools(cs, cost)
        BY <1>8, <2>4
    <2> QED
        BY <2>1, <2>2, <2>3, <2>4
<1>10. ASSUME NEW results, NextCall(results), executed' = executed,
              pc \in {"gate", "ask", "post"}
       PROVE  /\ repeats'[c] < LoopThreshold
              /\ executed'[c] < LoopThreshold
              /\ pc' \in {"turn", "stream"} => executed'[c] <= repeats'[c]
              /\ pc' \in {"gate", "ask", "tool"} =>
                      executed'[c] + Pending(calls', idx', c) <= repeats'[c]
              /\ pc' = "post" =>
                      executed'[c] + Pending(calls', idx' + 1, c) <= repeats'[c]
    <2>1. executed[c] + Pending(calls, idx + 1, c) <= repeats[c]
        BY <1>1, <1>2, <1>3, <1>4, <1>10
    <2>2. /\ repeats' = repeats
          /\ \/ pc' = "gate" /\ idx' = idx + 1 /\ calls' = calls
             \/ pc' = "turn"
        BY <1>10 DEF NextCall
    <2> QED
        BY <1>1, <1>2, <1>3, <1>10, <2>1, <2>2
<1>11. CASE RefuseBeforeAsking \/ Decline \/ RecordNoCheck
            \/ \E passed \in BOOLEAN : RecordCheck(passed)
    BY <1>10, <1>11 DEF RefuseBeforeAsking, Decline, RecordNoCheck, RecordCheck,
       PushResult, ghosts
<1>12. ASSUME pc \in {"gate", "ask"}, pc' \in {"ask", "tool", "finish"},
              UNCHANGED <<repeats, executed, calls, idx>>
       PROVE  /\ repeats'[c] < LoopThreshold
              /\ executed'[c] < LoopThreshold
              /\ pc' \in {"gate", "ask", "tool"} =>
                      executed'[c] + Pending(calls', idx', c) <= repeats'[c]
    BY <1>2, <1>12
<1>13. CASE (\E e \in Effects : ClearUnasked(e) \/ Ask(e))
            \/ (\E d \in Decisions : Approve(d)) \/ DeclineAndStop
    BY <1>12, <1>13 DEF ClearUnasked, Ask, Approve, DeclineAndStop, locals, ghosts
<1>14. ASSUME NEW ok \in BOOLEAN, RunTool(ok)
       PROVE  /\ repeats'[c] < LoopThreshold
              /\ executed'[c] < LoopThreshold
              /\ pc' = "post"
              /\ executed'[c] + Pending(calls', idx' + 1, c) <= repeats'[c]
    <2>1. /\ pc = "tool" /\ pc' = "post"
          /\ UNCHANGED <<repeats, calls, idx>>
          /\ executed' = [executed EXCEPT ![calls[idx]] = @ + 1]
        BY <1>14 DEF RunTool, locals
    <2>2. executed'[c] = IF calls[idx] = c THEN executed[c] + 1 ELSE executed[c]
        BY <2>1 DEF TypeOK
    <2> QED
        BY <1>1, <1>2, <1>3, <1>4, <2>1, <2>2
<1>15. CASE FinishStep \/ \E cost \in Costs : AbortTask(cost)
    <2>1. CASE FinishWithQuestion
        BY <1>2, <2>1 DEF FinishWithQuestion, locals, ghosts
    <2>2. CASE Finish \/ (\E cost \in Costs : Question(cost) \/ AbortTask(cost))
        BY <1>7, <2>2 DEF Finish, Question, AbortTask, ghosts
    <2> QED
        BY <1>15, <2>1, <2>2 DEF FinishStep
<1>16. CASE UNCHANGED vars
    BY <1>2, <1>16 DEF vars, locals, ghosts
<1> QED
    BY <1>5, <1>6, <1>9, <1>11, <1>13, <1>14, <1>15, <1>16
    DEF Next, AgentStep, GateStep, ToolStep

(* However the model spreads a repetition over the turns of a run and      *)
(* inside a turn, the call runs fewer than LOOP_THRESHOLD times.           *)
THEOREM RepetitionHolds == Spec => []RepetitionIsCut
<1>1. Init => RepetitionInv
    BY LimitsAssumption DEF Init, NoRepeats, RepetitionInv
<1>2. RepetitionInv => RepetitionIsCut
    BY DEF RepetitionInv, RepetitionIsCut
<1> QED
    BY <1>1, <1>2, TypeCorrect, RepetitionPreserved, PTL DEF Spec

-----------------------------------------------------------------------------
(* Conversation.  While a run is under way, every unanswered call lies     *)
(* before a prompt; while its tools run, the last message is the           *)
(* assistant's and the results collected so far are those of the calls     *)
(* before the current one.                                                 *)

BeforeAPrompt(i) == \E j \in DOMAIN history : j > i /\ history[j].role = "user"

ConversationInv ==
    /\ pc \in {"turn", "stream"} =>
            \A i \in DOMAIN history : Dangling(i) => BeforeAPrompt(i)
    /\ pc \in {"gate", "ask", "tool", "post"} =>
            /\ history # <<>>
            /\ history[Len(history)] = AssistantMessage(calls)
            /\ answered = 1..(idx - 1)
            /\ \A i \in 1..(Len(history) - 1) : Dangling(i) => BeforeAPrompt(i)

(* Appending a message opens no old call and hides no prompt. *)
LEMMA ConversationGrows ==
    ASSUME history \in Seq(Messages), NEW m \in Messages, history' = Append(history, m),
           NEW i \in DOMAIN history
    PROVE  /\ Dangling(i)' => Dangling(i)
           /\ BeforeAPrompt(i) => BeforeAPrompt(i)'
<1>1. /\ DOMAIN history = 1..Len(history)
      /\ DOMAIN history' = 1..(Len(history) + 1)
      /\ Len(history) \in Nat
      /\ \A j \in 1..Len(history) : history'[j] = history[j]
    BY AppendProperties, LenProperties
<1> QED
    BY <1>1 DEF Dangling, BeforeAPrompt

(* No step leaves a call of the current run without its result. *)
LEMMA ConversationPreserved == TypeOK /\ ConversationInv /\ [Next]_vars => ConversationInv'
<1> SUFFICES ASSUME TypeOK, ConversationInv, [Next]_vars PROVE ConversationInv'
    OBVIOUS
<1>1. /\ history \in Seq(Messages)
      /\ DOMAIN history = 1..Len(history)
      /\ Len(history) \in Nat
      /\ calls \in Seq(Calls)
      /\ DOMAIN calls = 1..Len(calls)
      /\ Len(calls) \in Nat
    BY LenProperties DEF TypeOK
<1>2. ASSUME NEW m \in Messages, history' = Append(history, m)
      PROVE  /\ DOMAIN history' = 1..(Len(history) + 1)
             /\ Len(history') = Len(history) + 1
             /\ history'[Len(history) + 1] = m
             /\ \A i \in 1..Len(history) : history'[i] = history[i]
    BY <1>1, <1>2, AppendProperties
<1>3. ASSUME pc' \in {"idle", "finish", "question"}
      PROVE  ConversationInv'
    BY <1>3 DEF ConversationInv
<1>4. CASE StartRun
    <2>1. /\ UserMessage \in Messages
          /\ history' = Append(history, UserMessage)
          /\ pc' = "turn"
        BY <1>4 DEF StartRun, UserMessage, Messages, Roles
    <2>2. history'[Len(history) + 1].role = "user"
        BY <1>2, <2>1 DEF UserMessage
    <2>3. \A i \in DOMAIN history' : Dangling(i)' => BeforeAPrompt(i)'
        BY <1>1, <1>2, <2>1, <2>2 DEF Dangling, BeforeAPrompt
    <2> QED
        BY <2>1, <2>3 DEF ConversationInv
<1>5. CASE StopAtTurnLimit \/ StopAtBudget \/ DeclineAndStop \/ FinishStep
           \/ \E cost \in Costs : AbortTask(cost)
    BY <1>3, <1>5 DEF StopAtTurnLimit, StopAtBudget, DeclineAndStop, FinishStep, Finish,
       FinishWithQuestion, Question, AbortTask
<1>6. CASE SendRequest
    BY <1>6 DEF SendRequest, ConversationInv, Dangling, BeforeAPrompt
<1>7. ASSUME NEW cs \in Turns, NEW cost \in Costs, StartTools(cs, cost)
      PROVE  ConversationInv'
    <2>1. /\ pc = "stream" /\ pc' = "gate"
          /\ history' = Append(history, AssistantMessage(cs))
          /\ calls' = cs /\ idx' = 1 /\ answered' = {}
        BY <1>7 DEF StartTools
    <2>2. AssistantMessage(cs) \in Messages
        BY TurnIsSequence DEF AssistantMessage, Messages, Roles
    <2>3. /\ history' # <<>>
          /\ history'[Len(history')] = AssistantMessage(cs)
          /\ Len(history') - 1 = Len(history)
        BY <1>1, <1>2, <2>1, <2>2
    <2>4. \A i \in DOMAIN history : Dangling(i)' => BeforeAPrompt(i)'
        BY <1>1, <2>1, <2>2, ConversationGrows DEF ConversationInv
    <2>5. AssistantMessage(calls)' = AssistantMessage(cs)
        BY <2>1 DEF AssistantMessage
    <2> QED
        BY <1>1, <2>1, <2>3, <2>4, <2>5 DEF ConversationInv
<1>8. CASE StreamStep
    <2>1. CASE \E cost \in Costs :
                \/ FailTurn(cost)
                \/ \E truncated \in BOOLEAN : EndAnswer(truncated, cost)
                \/ \E cs \in Turns : StopAtLoop(cs, cost)
        BY <1>3, <2>1 DEF FailTurn, EndAnswer, StopAtLoop
    <2>2. CASE \E cost \in Costs, cs \in Turns : StartTools(cs, cost)
        BY <1>7, <2>2
    <2> QED
        BY <1>8, <2>1, <2>2 DEF StreamStep
<1>9. CASE PushResult /\ pc \in {"gate", "ask", "post"}
    <2>1. /\ history # <<>>
          /\ history[Len(history)] = AssistantMessage(calls)
          /\ answered = 1..(idx - 1)
          /\ \A i \in 1..(Len(history) - 1) : Dangling(i) => BeforeAPrompt(i)
          /\ idx \in 1..Len(calls)
        BY <1>1, <1>9 DEF ConversationInv, TypeOK
    <2>2. answered \cup {idx} = 1..idx
        BY <1>1, <2>1
    <2>3. CASE /\ idx < Len(calls) /\ pc' = "gate" /\ idx' = idx + 1
               /\ answered' = 1..idx
               /\ UNCHANGED <<turn, calls, history>>
        BY <1>1, <2>1, <2>3 DEF ConversationInv, Dangling, BeforeAPrompt, AssistantMessage
    <2>4. CASE /\ idx = Len(calls)
               /\ pc' = "turn"
               /\ history' = Append(history, ToolResults(1..idx))
        <3>1. ToolResults(1..idx) \in Messages
            BY <1>1, <2>1 DEF ToolResults, Messages, Roles
        <3>2. /\ DOMAIN history' = 1..(Len(history) + 1)
              /\ history'[Len(history) + 1] = ToolResults(1..idx)
              /\ history'[Len(history)] = AssistantMessage(calls)
            <4>1. Len(history) \in 1..Len(history)
                BY <1>1, <2>1, EmptySeq
            <4>2. /\ DOMAIN history' = 1..(Len(history) + 1)
                  /\ history'[Len(history) + 1] = ToolResults(1..idx)
                  /\ \A i \in 1..Len(history) : history'[i] = history[i]
                BY <1>2, <2>4, <3>1
            <4> QED
                BY <2>1, <4>1, <4>2
        <3>3. ASSUME NEW i \in DOMAIN history', i = Len(history) + 1
              PROVE  ~Dangling(i)'
            <4>1. history'[i].role = "tool"
                BY <3>2, <3>3 DEF ToolResults
            <4> QED
                BY <4>1 DEF Dangling
        <3>4. ASSUME NEW i \in DOMAIN history', i = Len(history)
              PROVE  ~Dangling(i)'
            <4>1. history'[i].ids = 1..idx
                BY <1>1, <2>4, <3>2, <3>4 DEF AssistantMessage
            <4>2. i + 1 \in DOMAIN history' /\ history'[i + 1] = ToolResults(1..idx)
                BY <1>1, <3>2, <3>4
            <4> QED
                BY <4>1, <4>2 DEF Dangling
        <3>5. \A i \in 1..(Len(history) - 1) : Dangling(i)' => BeforeAPrompt(i)'
            BY <1>1, <2>1, <2>4, <3>1, ConversationGrows
        <3>6. \A i \in DOMAIN history' : Dangling(i)' => BeforeAPrompt(i)'
            BY <1>1, <3>2, <3>3, <3>4, <3>5
        <3> QED
            BY <2>4, <3>6 DEF ConversationInv
    <2> QED
        BY <1>9, <2>2, <2>3, <2>4 DEF PushResult, NextCall
<1>10. CASE RefuseBeforeAsking \/ Decline \/ RecordNoCheck
            \/ \E passed \in BOOLEAN : RecordCheck(passed)
    BY <1>9, <1>10 DEF RefuseBeforeAsking, Decline, RecordNoCheck, RecordCheck
<1>11. ASSUME pc \in {"gate", "ask", "tool"}, pc' \in {"ask", "tool", "post"},
              UNCHANGED <<history, calls, idx, answered>>
       PROVE  ConversationInv'
    BY <1>11 DEF ConversationInv, Dangling, BeforeAPrompt, AssistantMessage
<1>12. CASE (\E e \in Effects : ClearUnasked(e) \/ Ask(e))
            \/ (\E d \in Decisions : Approve(d)) \/ (\E ok \in BOOLEAN : RunTool(ok))
    BY <1>11, <1>12 DEF ClearUnasked, Ask, Approve, RunTool, locals
<1>13. CASE UNCHANGED vars
    BY <1>13 DEF vars, locals, ConversationInv, Dangling, BeforeAPrompt, AssistantMessage
<1> QED
    BY <1>4, <1>5, <1>6, <1>8, <1>10, <1>12, <1>13
    DEF Next, AgentStep, GateStep, ToolStep

(* A run never sends a request in which one of its own tool calls has no   *)
(* result: the calls an earlier run left open all lie before its prompt.   *)
THEOREM RunAnswersHolds == Spec => []RunAnswersItsCalls
<1>1. Init => ConversationInv
    BY DEF Init, ConversationInv
<1>2. ConversationInv => RunAnswersItsCalls
    BY DEF ConversationInv, RunAnswersItsCalls, BeforeAPrompt
<1> QED
    BY <1>1, <1>2, TypeCorrect, ConversationPreserved, PTL DEF Spec

-----------------------------------------------------------------------------
(* Headless: the invariant. *)

(* The events that the command turns into an exit code other than 0. *)
Unhappy == {"Declined", "Alarm", "Stopped", "Failed"}

Has(s) == \E i \in DOMAIN s : s[i] \in Unhappy

(* The exit code is not 0, or an event on its way will see to it. *)
Noticed == exit # 0 \/ Has(channel) \/ Has(outbox)

(* The run of the one prompt has ended. *)
Over == prompts = 1 /\ pc = "idle"

TextsIn(s) == Occurrences(s, "Text")

(* Whatever went wrong is noticed, at the latest by the panel of the run's  *)
(* end, and no piece of the text is lost on its way.                        *)
HeadlessInv ==
    /\ prompts \in {0, 1}
    /\ prompts = 0 => pc = "idle" /\ mishaps = {}
    /\ "declined" \in mishaps => Noticed
    /\ "failed" \in mishaps => \E k \in proof.checks : ~k.passed
    /\ Over => outcome = "Completed" \/ Noticed
    /\ Over => panel = proof /\ (Verdict(proof) \in {"Failing", "Unverified"} => Noticed)
    /\ worker = "ended" => Over /\ outbox = <<>>
    /\ texts = printed + TextsIn(channel) + TextsIn(outbox)
    /\ code = 0 => exit = 0 /\ channel = <<>> /\ worker = "ended"

-----------------------------------------------------------------------------
(* Sequences of events. *)

(* An event that is appended occurs once more. *)
LEMMA AppendEvent ==
    ASSUME NEW s \in Seq(Events), NEW x \in Events
    PROVE  /\ Append(s, x) \in Seq(Events) /\ Len(Append(s, x)) = Len(s) + 1
           /\ TextsIn(s) \in Nat
           /\ TextsIn(Append(s, x)) = IF x = "Text" THEN TextsIn(s) + 1 ELSE TextsIn(s)
           /\ Has(Append(s, x)) <=> Has(s) \/ x \in Unhappy
<1> DEFINE At(u) == {i \in DOMAIN u : u[i] = "Text"}
           u == Append(s, x)
<1>1. /\ u \in Seq(Events) /\ Len(u) = Len(s) + 1
      /\ \A i \in 1..Len(s) : u[i] = s[i]
      /\ u[Len(s) + 1] = x
    BY AppendProperties
<1>2. /\ DOMAIN s = 1..Len(s) /\ Len(s) \in Nat
      /\ DOMAIN u = 1..(Len(s) + 1)
    BY <1>1, LenProperties
<1> HIDE DEF u
<1>3. IsFiniteSet(At(s)) /\ Cardinality(At(s)) \in Nat
    <2>1. IsFiniteSet(1..Len(s)) /\ At(s) \subseteq 1..Len(s)
        BY <1>2, FS_Interval
    <2> QED
        BY <2>1, FS_Subset, FS_CardinalityType
<1>4. At(u) = IF x = "Text" THEN At(s) \cup {Len(s) + 1} ELSE At(s)
    BY <1>1, <1>2
<1>5. Len(s) + 1 \notin At(s)
    BY <1>2
<1>6. Cardinality(At(u)) = IF x = "Text" THEN Cardinality(At(s)) + 1 ELSE Cardinality(At(s))
    <2> HIDE DEF At
    <2> QED
        BY <1>3, <1>4, <1>5, FS_AddElement
<1>7. Has(u) <=> Has(s) \/ x \in Unhappy
    BY <1>1, <1>2 DEF Has
<1> QED
    BY <1>1, <1>3, <1>6, <1>7 DEF TextsIn, Occurrences, u

(* The first event is the one that the rest of a sequence has not. *)
LEMMA FirstEvent ==
    ASSUME NEW s \in Seq(Events), s # <<>>
    PROVE  /\ Head(s) \in Events /\ Tail(s) \in Seq(Events) /\ Len(Tail(s)) = Len(s) - 1
           /\ TextsIn(Tail(s)) \in Nat
           /\ TextsIn(s) = IF Head(s) = "Text" THEN TextsIn(Tail(s)) + 1 ELSE TextsIn(Tail(s))
           /\ Has(s) <=> Head(s) \in Unhappy \/ Has(Tail(s))
<1> DEFINE At(u) == {i \in DOMAIN u : u[i] = "Text"}
           u == Tail(s)
           Rest == At(s) \ {1}
           f == [i \in At(u) |-> i + 1]
<1>1. /\ Head(s) \in Events /\ u \in Seq(Events) /\ Len(u) = Len(s) - 1 /\ Head(s) = s[1]
      /\ \A i \in 1..Len(u) : u[i] = s[i + 1]
    BY HeadTailProperties
<1>2. /\ DOMAIN s = 1..Len(s) /\ Len(s) \in Nat /\ Len(s) >= 1
      /\ DOMAIN u = 1..(Len(s) - 1)
    BY <1>1, LenProperties, EmptySeq
<1> HIDE DEF u
<1>3. IsFiniteSet(At(u)) /\ Cardinality(At(u)) \in Nat
    <2>1. IsFiniteSet(1..(Len(s) - 1)) /\ At(u) \subseteq 1..(Len(s) - 1)
        BY <1>2, FS_Interval
    <2> QED
        BY <2>1, FS_Subset, FS_CardinalityType
<1>4. f \in Bijection(At(u), Rest)
    <2>1. f \in [At(u) -> Rest]
        BY <1>1, <1>2
    <2>2. \A i, j \in At(u) : f[i] = f[j] => i = j
        BY <1>2
    <2>3. ASSUME NEW j \in Rest PROVE \E i \in At(u) : f[i] = j
        <3>1. j - 1 \in At(u) /\ (j - 1) + 1 = j
            BY <1>1, <1>2
        <3> QED
            BY <3>1
    <2> HIDE DEF f, At, Rest
    <2> QED
        BY <2>1, <2>2, <2>3 DEF Bijection, Injection, IsInjective, Surjection
<1>5. IsFiniteSet(Rest) /\ Cardinality(Rest) = Cardinality(At(u))
    <2> HIDE DEF f, At, Rest
    <2> QED
        BY <1>3, <1>4, FS_Bijection DEF ExistsBijection
<1>6. At(s) = IF Head(s) = "Text" THEN Rest \cup {1} ELSE Rest
    BY <1>1, <1>2
<1>7. Cardinality(At(s)) = IF Head(s) = "Text" THEN Cardinality(At(u)) + 1 ELSE Cardinality(At(u))
    <2>1. 1 \notin Rest
        OBVIOUS
    <2> HIDE DEF At, Rest
    <2> QED
        BY <1>3, <1>5, <1>6, <2>1, FS_AddElement
<1>8. Has(s) <=> Head(s) \in Unhappy \/ Has(u)
    <2>1. ASSUME NEW i \in DOMAIN s, i # 1 PROVE i - 1 \in DOMAIN u /\ u[i - 1] = s[i]
        BY <1>1, <1>2, <2>1
    <2>2. ASSUME NEW i \in DOMAIN u PROVE i + 1 \in DOMAIN s /\ u[i] = s[i + 1]
        BY <1>1, <1>2
    <2> QED
        BY <1>1, <1>2, <2>1, <2>2 DEF Has
<1> QED
    BY <1>1, <1>3, <1>7, <1>8 DEF TextsIn, Occurrences, u

(* One event is a sequence of events. *)
LEMMA OneEvent ==
    ASSUME NEW x \in Events
    PROVE  /\ <<x>> \in Seq(Events)
           /\ TextsIn(<<x>>) = IF x = "Text" THEN 1 ELSE 0
           /\ Has(<<x>>) <=> x \in Unhappy
<1>1. <<>> \in Seq(Events) /\ <<x>> = Append(<<>>, x)
    BY EmptySeq
<1>2. {i \in DOMAIN <<>> : <<>>[i] = "Text"} = {} /\ DOMAIN <<>> = {}
    OBVIOUS
<1>3. TextsIn(<<>>) = 0 /\ ~Has(<<>>)
    BY <1>2, FS_EmptySet DEF TextsIn, Occurrences, Has
<1> DEFINE none == <<>>
<1>4. none \in Seq(Events) /\ TextsIn(none) = 0 /\ ~Has(none) /\ <<x>> = Append(none, x)
    BY <1>1, <1>3
<1> HIDE DEF none
<1>5. /\ Append(none, x) \in Seq(Events)
      /\ TextsIn(Append(none, x)) = IF x = "Text" THEN TextsIn(none) + 1 ELSE TextsIn(none)
      /\ Has(Append(none, x)) <=> Has(none) \/ x \in Unhappy
    BY <1>4, AppendEvent
<1>6. TextsIn(<<x>>) = IF x = "Text" THEN 0 + 1 ELSE 0
    BY <1>4, <1>5
<1>7. Has(<<x>>) <=> x \in Unhappy
    BY <1>4, <1>5
<1> QED
    BY <1>4, <1>5, <1>6, <1>7

(* The events of a step are events; only a piece of text is a text.         *)
LEMMA EventsOfSteps ==
    /\ TextsIn(<<>>) = 0 /\ ~Has(<<>>)
    /\ TextsIn(<<"Text">>) = 1 /\ ~Has(<<"Text">>)
    /\ TextsIn(<<"Shown">>) = 0
    /\ TextsIn(<<"Declined", "Shown">>) = 0 /\ Has(<<"Declined", "Shown">>)
    /\ <<>> \in Seq(Events) /\ <<"Text">> \in Seq(Events) /\ <<"Shown">> \in Seq(Events)
    /\ <<"Declined", "Shown">> \in Seq(Events)
<1>1. <<>> \in Seq(Events) /\ "Text" \in Events /\ "Shown" \in Events /\ "Declined" \in Events
    BY EmptySeq DEF Events
<1>2. {i \in DOMAIN <<>> : <<>>[i] = "Text"} = {} /\ DOMAIN <<>> = {}
    OBVIOUS
<1>3. TextsIn(<<>>) = 0 /\ ~Has(<<>>)
    BY <1>2, FS_EmptySet DEF TextsIn, Occurrences, Has
<1>4. TextsIn(<<"Text">>) = 1 /\ <<"Text">> \in Seq(Events) /\ ~Has(<<"Text">>)
    BY <1>1, OneEvent DEF Unhappy
<1>5. TextsIn(<<"Shown">>) = 0 /\ <<"Shown">> \in Seq(Events)
    BY <1>1, OneEvent
<1>6. TextsIn(<<"Declined">>) = 0 /\ <<"Declined">> \in Seq(Events) /\ Has(<<"Declined">>)
    BY <1>1, OneEvent DEF Unhappy
<1>7. /\ TextsIn(<<"Declined", "Shown">>) = 0 /\ Has(<<"Declined", "Shown">>)
      /\ <<"Declined", "Shown">> \in Seq(Events)
    <2> DEFINE one == <<"Declined">>
    <2>1. <<"Declined", "Shown">> = Append(one, "Shown")
        OBVIOUS
    <2>2. TextsIn(one) = 0 /\ one \in Seq(Events) /\ Has(one)
        BY <1>6
    <2> HIDE DEF one
    <2> QED
        BY <1>1, <2>1, <2>2, AppendEvent
<1> QED
    BY <1>1, <1>3, <1>4, <1>5, <1>7

(* What the end of a run sends says that there is something wrong with the  *)
(* evidence, or with the way the run ended.                                 *)
LEMMA EventsOfTheEnd ==
    ASSUME NEW last \in {"Completed", "Stopped", "Failed"}
    PROVE  /\ PanelEvent \o <<last>> \in Seq(Events)
           /\ TextsIn(PanelEvent \o <<last>>) = 0
           /\ last # "Completed" => Has(PanelEvent \o <<last>>)
           /\ proof # NoEvidence /\ Verdict(proof) \in {"Failing", "Unverified"} =>
                Has(PanelEvent \o <<last>>)
<1>0. last \in Events /\ last # "Text" /\ "Alarm" \in Events /\ "Panel" \in Events
    BY DEF Events
<1>1. /\ PanelEvent \in Seq(Events) /\ TextsIn(PanelEvent) = 0
      /\ proof # NoEvidence /\ Verdict(proof) \in {"Failing", "Unverified"} => Has(PanelEvent)
    <2>2. TextsIn(<<"Alarm">>) = 0 /\ <<"Alarm">> \in Seq(Events) /\ Has(<<"Alarm">>)
        BY <1>0, OneEvent DEF Unhappy
    <2>3. TextsIn(<<"Panel">>) = 0 /\ <<"Panel">> \in Seq(Events)
        BY <1>0, OneEvent
    <2> QED
        BY <2>2, <2>3, EventsOfSteps DEF PanelEvent
<1>2. PanelEvent \o <<last>> = Append(PanelEvent, last)
    BY <1>0, <1>1, AppendIsConcat
<1>3. last # "Completed" => last \in Unhappy
    BY DEF Unhappy
<1> DEFINE p == PanelEvent
<1> HIDE DEF p
<1>4. /\ Append(p, last) \in Seq(Events) /\ TextsIn(Append(p, last)) = TextsIn(p)
      /\ Has(Append(p, last)) <=> Has(p) \/ last \in Unhappy
    BY <1>0, <1>1, AppendEvent DEF p
<1> QED
    BY <1>1, <1>2, <1>3, <1>4 DEF p

-----------------------------------------------------------------------------
(* The agent of the command is the agent of AgentLoop. *)

(* Every step of the command is a step of the agent or leaves it alone. *)
LEMMA AgentSteps == HeadlessNext => [Next]_vars
<1> SUFFICES ASSUME HeadlessNext PROVE Next \/ UNCHANGED vars
    OBVIOUS
<1>1. CASE Agent
    <2>1. CASE Quietly
        BY <2>1 DEF Quietly, Next, AgentStep, ToolStep
    <2>2. CASE Write
        BY <2>2 DEF Write
    <2>3. CASE \E cost \in Costs : EndTurn(cost) \/ LoseTurn(cost)
        BY <2>3 DEF EndTurn, LoseTurn, Next, AgentStep, StreamStep
    <2>4. CASE Proceed
        BY <2>4, PromptAssumption DEF Proceed, Next, AgentStep, GateStep
    <2>5. CASE Refuse
        BY <2>5 DEF Refuse, Next, AgentStep, GateStep
    <2>6. CASE Report
        BY <2>6 DEF Report, Next, AgentStep, ToolStep
    <2>7. CASE EndRun
        BY <2>7 DEF EndRun, Next, AgentStep, FinishStep
    <2> QED
        BY <1>1, <2>1, <2>2, <2>3, <2>4, <2>5, <2>6, <2>7 DEF Agent
<1>2. CASE Send \/ WorkerEnds \/ Printer
    BY <1>2 DEF Send, WorkerEnds, Printer, Receive, PrintFails, Exit
<1> QED
    BY <1>1, <1>2 DEF HeadlessNext

(* headless::run drives the same Agent as the TUI: what is proved of        *)
(* AgentLoop holds for the agent behind `truecode -p`.                      *)
THEOREM HeadlessRunsTheAgent == HeadlessSpec => Spec
<1>1. HeadlessInit => Init
    BY DEF HeadlessInit
<1>2. [HeadlessNext]_headlessVars => [Next]_vars
    BY AgentSteps DEF headlessVars
<1> QED
    BY <1>1, <1>2, PTL DEF HeadlessSpec, Spec

-----------------------------------------------------------------------------
(* The invariant is inductive. *)

(* What the agent knows does not get lost, and outside of the gate it knows *)
(* which call it handles.                                                   *)
LEMMA ChecksOnlyGrow ==
    ASSUME TypeOK, NEW e \in Effects, NEW c \in Calls, NEW b \in BOOLEAN
    PROVE  /\ WithChange(WithViolation(proof, e), c, e).checks = proof.checks
           /\ WithViolation(proof, e).checks = proof.checks
           /\ WithChange(proof, c, e).checks = proof.checks
           /\ proof.checks \subseteq WithCheck(proof, c, b).checks
           /\ CheckOf[c] # "other" /\ ~b => \E k \in WithCheck(proof, c, b).checks : ~k.passed
<1>1. proof \in Evidence
    BY DEF TypeOK
<1>2. WithViolation(proof, e) \in Evidence
    BY <1>1, EvidenceType
<1>3. CASE CheckOf[c] # "other"
    <2> DEFINE new == [kind |-> CheckOf[c], passed |-> b]
    <2>1. WithCheck(proof, c, b).checks = proof.checks \cup {new}
        BY <1>1, <1>3 DEF WithCheck, Evidence
    <2>2. new.passed = b
        OBVIOUS
    <2> HIDE DEF new
    <2> QED
        BY <1>1, <1>2, <2>1, <2>2, ChangesGrow
<1>4. CASE CheckOf[c] = "other"
    BY <1>1, <1>2, <1>4, ChangesGrow DEF WithCheck
<1> QED
    BY <1>3, <1>4

Known == HeadlessTypeOK /\ EvidenceInv /\ HeadlessInv

(* The types that the arithmetic needs. *)
LEMMA Locals ==
    ASSUME Known
    PROVE  /\ TypeOK /\ HeadlessTypeOK /\ EvidenceInv /\ HeadlessInv
           /\ MaxTexts \in Nat /\ texts \in 0..MaxTexts /\ texts \in Nat
           /\ printed \in Nat /\ printed <= texts
           /\ ChannelSize \in Nat /\ channel \in Seq(Events) /\ outbox \in Seq(Events)
           /\ Len(channel) \in Nat /\ Len(channel) <= ChannelSize
           /\ exit \in {0, 1, 2} /\ mishaps \subseteq {"declined", "failed"}
           /\ TextsIn(channel) \in Nat /\ TextsIn(outbox) \in Nat
           /\ texts = printed + TextsIn(channel) + TextsIn(outbox)
<1>1. HeadlessTypeOK /\ EvidenceInv /\ HeadlessInv
    BY DEF Known
<1>2. /\ TypeOK /\ texts \in 0..MaxTexts /\ printed \in 0..texts
      /\ channel \in Seq(Events) /\ outbox \in Seq(Events) /\ Len(channel) <= ChannelSize
      /\ exit \in {0, 1, 2} /\ mishaps \subseteq {"declined", "failed"}
    BY <1>1 DEF HeadlessTypeOK
<1>3. MaxTexts \in Nat /\ ChannelSize \in Nat
    BY ChannelAssumption
<1> HIDE DEF Known
<1>4. texts \in Nat
    BY <1>2, <1>3
<1>5. printed \in Nat /\ printed <= texts
    BY <1>2, <1>4
<1>6. Len(channel) \in Nat
    BY <1>2, LenProperties
<1>7. TextsIn(channel) \in Nat /\ TextsIn(outbox) \in Nat
    <2>1. "Text" \in Events
        BY DEF Events
    <2> QED
        BY <1>2, <2>1, AppendEvent
<1>8. texts = printed + TextsIn(channel) + TextsIn(outbox)
    BY <1>1 DEF HeadlessInv
<1> QED
    BY <1>1, <1>2, <1>3, <1>4, <1>5, <1>6, <1>7, <1>8

(* What every step of the agent keeps, whatever it sends. *)
LEMMA AgentSends ==
    ASSUME Known, worker = "runs", outbox = <<>>,
           UNCHANGED <<yes, worker, channel, exit, code, printed>>,
           outbox' \in Seq(Events), texts' \in 0..MaxTexts, texts' = texts + TextsIn(outbox'),
           mishaps' \subseteq {"declined", "failed"}, TypeOK'
    PROVE  /\ HeadlessTypeOK'
           /\ Noticed => Noticed'
           /\ Has(outbox') => Noticed'
           /\ texts' = printed' + TextsIn(channel') + TextsIn(outbox')
           /\ worker' = "ended" => Over' /\ outbox' = <<>>
           /\ code' = 0 => exit' = 0 /\ channel' = <<>> /\ worker' = "ended"
<1>1. Noticed => Noticed'
    BY EventsOfSteps DEF Noticed, Has
<1>2. Has(outbox') => Noticed'
    BY DEF Noticed
<1>3. code' # 0 /\ worker' # "ended"
    BY DEF Known, HeadlessInv
<1>4. /\ texts \in Nat /\ printed \in Nat /\ MaxTexts \in Nat /\ HeadlessTypeOK
      /\ TextsIn(channel) \in Nat /\ texts = printed + TextsIn(channel) + TextsIn(outbox)
    BY Locals
<1>5. TextsIn(outbox) = 0
    BY EventsOfSteps
<1>6. TextsIn(outbox') \in Nat
    <2>1. "Text" \in Events
        BY DEF Events
    <2> QED
        BY <2>1, AppendEvent
<1>7. texts' = printed' + TextsIn(channel') + TextsIn(outbox')
    <2>1. texts = printed + TextsIn(channel)
        BY <1>4, <1>5
    <2>2. texts' = printed + TextsIn(channel) + TextsIn(outbox')
        BY <2>1
    <2> QED
        BY <2>2
<1>8. printed' \in 0..texts'
    <2>1. texts' = texts + TextsIn(outbox') /\ printed <= texts
        BY <1>4, <1>5
    <2>2. printed \in 0..texts'
        BY <1>4, <1>6, <2>1
    <2> QED
        BY <2>2
<1>9. HeadlessTypeOK'
    BY <1>4, <1>8 DEF HeadlessTypeOK
<1> QED
    BY <1>1, <1>2, <1>3, <1>7, <1>9

(* A step of the agent keeps the invariant. *)
LEMMA AgentKeeps ==
    ASSUME Known, Agent, TypeOK'
    PROVE  HeadlessTypeOK' /\ HeadlessInv'
<1>0. /\ worker = "runs" /\ outbox = <<>> /\ TypeOK /\ HeadlessTypeOK
      /\ UNCHANGED <<yes, worker, channel, exit, code, printed>>
      /\ texts \in 0..MaxTexts /\ mishaps \subseteq {"declined", "failed"}
      /\ MaxTexts \in Nat
    BY ChannelAssumption DEF Agent, Known, HeadlessTypeOK
<1>1. ASSUME pc \in {"gate", "ask", "tool", "post"} PROVE calls[idx] \in Calls
    BY <1>0, <1>1, ElementOfSeq, LenProperties DEF TypeOK
<1>2. prompts \in {0, 1} /\ (pc # "idle" => prompts = 1)
    BY DEF Known, HeadlessInv
<1>3. ASSUME TextsIn(outbox') = 0, outbox' \in Seq(Events), UNCHANGED texts,
             mishaps' \subseteq {"declined", "failed"},
             prompts' = 1, pc' # "idle",
             "declined" \in mishaps' => "declined" \in mishaps \/ Has(outbox'),
             "failed" \in mishaps' =>
                \/ "failed" \in mishaps /\ proof.checks \subseteq proof'.checks
                \/ \E k \in proof'.checks : ~k.passed
      PROVE  HeadlessTypeOK' /\ HeadlessInv'
    <2>1. texts' = texts + TextsIn(outbox')
        BY <1>0, <1>3
    <2>2. /\ HeadlessTypeOK' /\ (Noticed => Noticed') /\ (Has(outbox') => Noticed')
          /\ texts' = printed' + TextsIn(channel') + TextsIn(outbox')
          /\ worker' = "ended" => Over' /\ outbox' = <<>>
          /\ code' = 0 => exit' = 0 /\ channel' = <<>> /\ worker' = "ended"
        BY <1>0, <1>3, <2>1, AgentSends
    <2>3. "declined" \in mishaps' => Noticed'
        BY <1>3, <2>2 DEF Known, HeadlessInv
    <2>4. "failed" \in mishaps' => \E k \in proof'.checks : ~k.passed
        BY <1>3 DEF Known, HeadlessInv
    <2>5. ~Over'
        BY <1>3 DEF Over
    <2>6. (TextsIn(channel))' = TextsIn(channel') /\ (TextsIn(outbox))' = TextsIn(outbox')
        BY DEF TextsIn, Occurrences
    <2> QED
        BY <1>3, <2>2, <2>3, <2>4, <2>5, <2>6 DEF HeadlessInv
<1>4. CASE Quietly
    <2>1. CASE StartRun
        <3>1. prompts = 0 /\ prompts' = 1 /\ pc' = "turn" /\ mishaps' = {}
            BY <1>2, <1>4, <2>1, PromptAssumption DEF StartRun, Quietly, Known, HeadlessInv
        <3> QED
            BY <1>0, <1>3, <1>4, <3>1, EventsOfSteps DEF Quietly
    <2>2. CASE StopAtTurnLimit \/ StopAtBudget \/ SendRequest \/ \E ok \in BOOLEAN : RunTool(ok)
        <3>1. pc # "idle" /\ pc' # "idle" /\ UNCHANGED <<prompts, proof>>
            BY <2>2 DEF StopAtTurnLimit, StopAtBudget, SendRequest, RunTool
        <3> QED
            BY <1>0, <1>2, <1>3, <1>4, <3>1, EventsOfSteps DEF Quietly
    <2> QED
        BY <1>4, <2>1, <2>2 DEF Quietly
<1>5. CASE Write
    <2>1. /\ pc = "stream" /\ texts' = texts + 1 /\ texts < MaxTexts /\ outbox' = <<"Text">>
          /\ UNCHANGED <<pc, prompts, proof, panel, outcome, mishaps>>
        BY <1>5 DEF Write, vars
    <2>2. /\ texts' \in 0..MaxTexts /\ TextsIn(outbox') = 1 /\ outbox' \in Seq(Events)
        BY <1>0, <2>1, EventsOfSteps
    <2>3. /\ HeadlessTypeOK' /\ (Noticed => Noticed')
          /\ texts' = printed' + TextsIn(channel') + TextsIn(outbox')
          /\ worker' = "ended" => Over' /\ outbox' = <<>>
          /\ code' = 0 => exit' = 0 /\ channel' = <<>> /\ worker' = "ended"
        BY <1>0, <2>1, <2>2, AgentSends
    <2>4. prompts = 1 /\ ~Over'
        BY <1>2, <2>1 DEF Over
    <2>5. (TextsIn(channel))' = TextsIn(channel') /\ (TextsIn(outbox))' = TextsIn(outbox')
        BY DEF TextsIn, Occurrences
    <2> QED
        BY <2>1, <2>3, <2>4, <2>5 DEF HeadlessInv, Known
<1>6. ASSUME NEW cost \in Costs, EndTurn(cost) PROVE HeadlessTypeOK' /\ HeadlessInv'
    <2>1. /\ pc # "idle" /\ pc' # "idle" /\ UNCHANGED <<prompts, proof, texts, mishaps>>
          /\ outbox' = <<"Shown">>
        BY <1>6 DEF EndTurn, EndAnswer, StopAtLoop, StartTools
    <2> QED
        BY <1>0, <1>2, <1>3, <2>1, EventsOfSteps
<1>7. ASSUME NEW last \in {"Completed", "Stopped", "Failed"}, outbox' = PanelEvent \o <<last>>,
             UNCHANGED <<texts, mishaps, prompts, proof>>, prompts = 1, panel' = proof,
             last = "Completed" => outcome' = "Completed"
      PROVE  HeadlessTypeOK' /\ HeadlessInv'
    <2>1. /\ outbox' \in Seq(Events) /\ TextsIn(outbox') = 0
          /\ last # "Completed" => Has(outbox')
          /\ proof # NoEvidence /\ Verdict(proof) \in {"Failing", "Unverified"} => Has(outbox')
        BY <1>7, EventsOfTheEnd
    <2>2. texts' = texts + TextsIn(outbox')
        BY <1>0, <1>7, <2>1
    <2>3. /\ HeadlessTypeOK' /\ (Noticed => Noticed') /\ (Has(outbox') => Noticed')
          /\ texts' = printed' + TextsIn(channel') + TextsIn(outbox')
          /\ worker' = "ended" => Over' /\ outbox' = <<>>
          /\ code' = 0 => exit' = 0 /\ channel' = <<>> /\ worker' = "ended"
        BY <1>0, <1>7, <2>1, <2>2, AgentSends
    <2>4. Verdict(proof) \in {"Failing", "Unverified"} => proof # NoEvidence
        BY DEF Verdict, NoEvidence
    <2>5. (TextsIn(channel))' = TextsIn(channel') /\ (TextsIn(outbox))' = TextsIn(outbox')
          /\ Verdict(proof)' = Verdict(proof)
        BY <1>7 DEF TextsIn, Occurrences, Verdict
    <2> QED
        BY <1>7, <2>1, <2>3, <2>4, <2>5 DEF HeadlessInv, Known
<1>8. ASSUME NEW cost \in Costs, LoseTurn(cost) PROVE HeadlessTypeOK' /\ HeadlessInv'
    <2>1. /\ pc = "stream" /\ UNCHANGED <<prompts, proof, texts, mishaps>>
          /\ outbox' = PanelEvent \o <<"Failed">> /\ panel' = proof
        BY <1>8 DEF LoseTurn, FailTurn
    <2> QED
        BY <1>2, <1>7, <2>1
<1>9. CASE EndRun
    <2>1. /\ pc = "finish" /\ UNCHANGED <<prompts, proof, texts, mishaps, outcome>>
          /\ outbox' = PanelEvent \o FinishedEvent /\ panel' = proof
        BY <1>9 DEF EndRun, Finish
    <2>2. \/ FinishedEvent = <<"Completed">> /\ outcome' = "Completed"
          \/ FinishedEvent = <<"Stopped">>
        BY <2>1 DEF FinishedEvent
    <2> QED
        BY <1>2, <1>7, <2>1, <2>2
<1>10. CASE Proceed
    <2>1. outbox' = <<"Shown">> /\ UNCHANGED <<texts, mishaps>>
        BY <1>10 DEF Proceed
    <2>2. pc # "idle" /\ pc' # "idle" /\ UNCHANGED prompts /\ proof'.checks = proof.checks
        <3>1. CASE RefuseBeforeAsking
            BY <3>1 DEF RefuseBeforeAsking, PushResult, NextCall
        <3>2. ASSUME NEW e \in Effects, ClearUnasked(e) \/ Ask(e)
              PROVE  pc # "idle" /\ pc' # "idle" /\ UNCHANGED prompts /\ proof'.checks = proof.checks
            <4>1. pc = "gate" /\ pc' # "idle" /\ UNCHANGED prompts
                BY <3>2 DEF ClearUnasked, Ask
            <4>2. calls[idx] \in Calls
                BY <1>1, <4>1
            <4>3. /\ WithChange(WithViolation(proof, e), calls[idx], e).checks = proof.checks
                  /\ WithViolation(proof, e).checks = proof.checks
                  /\ WithChange(proof, calls[idx], e).checks = proof.checks
                BY <1>0, <4>2, ChecksOnlyGrow
            <4> QED
                BY <3>2, <4>1, <4>3 DEF ClearUnasked, Ask
        <3>3. CASE Approve("approve")
            <4>1. effect \in Effects
                BY <1>0 DEF TypeOK
            <4> QED
                BY <1>0, <1>1, <3>3, <4>1, ChecksOnlyGrow DEF Approve
        <3> QED
            BY <1>10, <3>1, <3>2, <3>3 DEF Proceed
    <2> QED
        BY <1>0, <1>2, <1>3, <2>1, <2>2, EventsOfSteps
<1>11. CASE Refuse
    <2>1. /\ outbox' = <<"Declined", "Shown">> /\ mishaps' = mishaps \cup {"declined"}
          /\ UNCHANGED <<texts, prompts, proof>> /\ pc # "idle" /\ pc' # "idle"
        BY <1>11 DEF Refuse, Decline, PushResult, NextCall
    <2> QED
        BY <1>0, <1>2, <1>3, <2>1, EventsOfSteps
<1>12. CASE Report
    <2>1. outbox' = <<"Shown">> /\ UNCHANGED texts
        BY <1>12 DEF Report
    <2>2. CASE RecordNoCheck /\ UNCHANGED mishaps
        <3>1. UNCHANGED <<prompts, proof>> /\ pc # "idle" /\ pc' # "idle"
            BY <2>2 DEF RecordNoCheck, PushResult, NextCall
        <3> QED
            BY <1>0, <1>2, <1>3, <2>1, <2>2, <3>1, EventsOfSteps
    <2>3. ASSUME NEW passed \in BOOLEAN, RecordCheck(passed),
                 mishaps' = IF passed \/ CheckOf[calls[idx]] = "other" THEN mishaps
                            ELSE mishaps \cup {"failed"}
          PROVE  HeadlessTypeOK' /\ HeadlessInv'
        <3>1. /\ pc = "post" /\ pc' # "idle" /\ UNCHANGED prompts
              /\ proof' = WithCheck(proof, calls[idx], passed)
            BY <2>3 DEF RecordCheck, PushResult, NextCall
        <3>2. /\ proof.checks \subseteq proof'.checks
              /\ CheckOf[calls[idx]] # "other" /\ ~passed => \E k \in proof'.checks : ~k.passed
            <4>1. effect \in Effects /\ calls[idx] \in Calls
                BY <1>0, <1>1, <3>1 DEF TypeOK
            <4> QED
                BY <1>0, <3>1, <4>1, ChecksOnlyGrow
        <3> QED
            BY <1>0, <1>2, <1>3, <2>1, <2>3, <3>1, <3>2, EventsOfSteps
    <2> QED
        BY <1>12, <2>2, <2>3 DEF Report
<1> QED
    BY <1>4, <1>5, <1>6, <1>8, <1>9, <1>10, <1>11, <1>12 DEF Agent

(* The channel and the command keep the invariant. *)
LEMMA ChannelKeeps ==
    ASSUME Known, Send \/ WorkerEnds \/ Printer, TypeOK'
    PROVE  HeadlessTypeOK' /\ HeadlessInv'
<1>0. /\ channel \in Seq(Events) /\ outbox \in Seq(Events) /\ texts \in Nat /\ MaxTexts \in Nat
      /\ printed \in Nat /\ HeadlessTypeOK /\ HeadlessInv /\ ChannelSize \in Nat
      /\ Len(channel) \in Nat
    BY ChannelAssumption, LenProperties DEF Known, HeadlessTypeOK
<1>1. TextsIn(channel) \in Nat /\ TextsIn(outbox) \in Nat /\ texts = printed + TextsIn(channel) + TextsIn(outbox)
    <2>1. "Text" \in Events
        BY DEF Events
    <2> QED
        BY <1>0, <2>1, AppendEvent DEF HeadlessInv
<1>2. (TextsIn(channel))' = TextsIn(channel') /\ (TextsIn(outbox))' = TextsIn(outbox')
      /\ (Has(channel))' = Has(channel') /\ (Has(outbox))' = Has(outbox')
    BY DEF TextsIn, Occurrences, Has
<1>3. ASSUME UNCHANGED vars
      PROVE  Over' = Over /\ Verdict(proof)' = Verdict(proof) /\ UNCHANGED <<prompts, pc, proof, panel, outcome>>
    BY <1>3 DEF vars, Over, Verdict
<1>4. CASE Send
    <2> DEFINE x == Head(outbox)
    <2>0. /\ worker = "runs" /\ outbox # <<>> /\ Len(channel) < ChannelSize
          /\ channel' = Append(channel, x) /\ outbox' = Tail(outbox)
          /\ UNCHANGED <<vars, yes, worker, exit, code, texts, printed, mishaps>>
        BY <1>4 DEF Send
    <2>1. /\ x \in Events /\ outbox' \in Seq(Events)
          /\ TextsIn(outbox') \in Nat
          /\ TextsIn(outbox) = IF x = "Text" THEN TextsIn(outbox') + 1 ELSE TextsIn(outbox')
          /\ Has(outbox) <=> x \in Unhappy \/ Has(outbox')
        BY <1>0, <2>0, FirstEvent
    <2> HIDE DEF x
    <2>2. /\ channel' \in Seq(Events) /\ Len(channel') = Len(channel) + 1
          /\ TextsIn(channel') = IF x = "Text" THEN TextsIn(channel) + 1 ELSE TextsIn(channel)
          /\ Has(channel') <=> Has(channel) \/ x \in Unhappy
        BY <1>0, <2>0, <2>1, AppendEvent
    <2>3. Noticed' <=> Noticed
        BY <1>2, <2>0, <2>1, <2>2 DEF Noticed
    <2>4. TextsIn(channel') + TextsIn(outbox') = TextsIn(channel) + TextsIn(outbox)
        <3>1. CASE x = "Text"
            BY <1>1, <2>1, <2>2, <3>1
        <3>2. CASE x # "Text"
            BY <1>1, <2>1, <2>2, <3>2
        <3> QED
            BY <3>1, <3>2
    <2>5. texts' = printed' + TextsIn(channel') + TextsIn(outbox')
        <3>1. TextsIn(channel') \in Nat
            BY <1>1, <2>2
        <3>2. texts' = texts /\ printed' = printed
            BY <2>0
        <3> HIDE DEF x
        <3>3. texts = printed + (TextsIn(channel') + TextsIn(outbox'))
            BY <1>0, <1>1, <2>4
        <3> QED
            BY <1>0, <2>1, <3>1, <3>2, <3>3
    <2>6. HeadlessTypeOK'
        <3>1. Len(channel') <= ChannelSize
            BY <1>0, <2>0, <2>2
        <3> QED
            BY <1>0, <2>0, <2>1, <2>2, <3>1 DEF HeadlessTypeOK
    <2>7. code' # 0
        BY <1>0, <2>0 DEF HeadlessInv
    <2>8. HeadlessInv'
        BY <1>0, <1>2, <1>3, <2>0, <2>3, <2>5, <2>7 DEF HeadlessInv
    <2> QED
        BY <2>6, <2>8
<1>5. CASE WorkerEnds
    <2>1. /\ worker = "runs" /\ prompts = 1 /\ pc = "idle" /\ outbox = <<>> /\ worker' = "ended"
          /\ UNCHANGED <<vars, yes, outbox, channel, exit, code, texts, printed, mishaps>>
        BY <1>5 DEF WorkerEnds
    <2>2. (Noticed' <=> Noticed) /\ Over /\ code # 0
        BY <1>0, <2>1 DEF Noticed, Has, Over, HeadlessInv
    <2> QED
        BY <1>0, <1>2, <1>3, <2>1, <2>2 DEF HeadlessTypeOK, HeadlessInv
<1>6. CASE Receive
    <2> DEFINE x == Head(channel)
    <2>0. /\ code = -1 /\ channel # <<>> /\ exit' = ExitAfter(x) /\ channel' = Tail(channel)
          /\ printed' = printed + (IF x = "Text" THEN 1 ELSE 0)
          /\ UNCHANGED <<vars, yes, worker, outbox, code, texts, mishaps>>
        BY <1>6 DEF Receive
    <2>1. /\ x \in Events /\ channel' \in Seq(Events) /\ Len(channel') = Len(channel) - 1
          /\ TextsIn(channel') \in Nat
          /\ TextsIn(channel) = IF x = "Text" THEN TextsIn(channel') + 1 ELSE TextsIn(channel')
          /\ Has(channel) <=> x \in Unhappy \/ Has(channel')
        BY <1>0, <2>0, FirstEvent
    <2> HIDE DEF x
    <2>2. exit' \in {0, 1, 2} /\ (x \in Unhappy => exit' # 0) /\ (exit # 0 => exit' # 0)
        BY <1>0, <2>0, <2>1 DEF ExitAfter, Events, Unhappy, HeadlessTypeOK
    <2>3. Noticed => Noticed'
        BY <1>2, <2>0, <2>1, <2>2 DEF Noticed
    <2>4. /\ texts' = printed' + TextsIn(channel') + TextsIn(outbox')
          /\ printed' \in 0..texts'
        <3>1. CASE x = "Text"
            BY <1>0, <1>1, <2>0, <2>1, <3>1
        <3>2. CASE x # "Text"
            BY <1>0, <1>1, <2>0, <2>1, <3>2
        <3> QED
            BY <3>1, <3>2
    <2>5. HeadlessTypeOK'
        <3>1. Len(channel') <= ChannelSize
            BY <1>0, <2>1 DEF HeadlessTypeOK
        <3> QED
            BY <1>0, <2>0, <2>1, <2>2, <2>4, <3>1 DEF HeadlessTypeOK
    <2>6. HeadlessInv'
        BY <1>0, <1>2, <1>3, <2>0, <2>3, <2>4 DEF HeadlessInv
    <2> QED
        BY <2>5, <2>6
<1>7. CASE PrintFails \/ Exit
    <2>1. /\ UNCHANGED <<vars, yes, outbox, channel, exit, texts, printed, mishaps>>
          /\ \/ code' = 1 /\ worker' = "dropped"
             \/ code' = exit /\ worker = "ended" /\ channel = <<>> /\ UNCHANGED worker
        BY <1>7 DEF PrintFails, Exit
    <2>2. Noticed' <=> Noticed
        BY <2>1 DEF Noticed, Has
    <2> QED
        BY <1>0, <1>2, <1>3, <2>1, <2>2 DEF HeadlessTypeOK, HeadlessInv
<1> QED
    BY <1>4, <1>5, <1>6, <1>7 DEF Printer

(* Nothing is known to be wrong at the start. *)
LEMMA KnownInit == HeadlessInit => Known
<1> SUFFICES ASSUME HeadlessInit PROVE Known
    OBVIOUS
<1>1. Init
    BY DEF HeadlessInit
<1>2. TypeOK
    BY <1>1, InitType
<1>3. EvidenceInv
    BY <1>1 DEF Init, EvidenceInv, PanelCoversWrites, NoEvidence
<1>4. Len(<<>>) = 0 /\ <<>> \in Seq(Events) /\ TextsIn(<<>>) = 0
    BY EventsOfSteps
<1>5. HeadlessTypeOK
    BY <1>2, <1>4, ChannelAssumption DEF HeadlessInit, HeadlessTypeOK
<1>6. HeadlessInv
    BY <1>1, <1>4 DEF HeadlessInit, HeadlessInv, Init, Over
<1> QED
    BY <1>3, <1>5, <1>6 DEF Known

(* The invariant is inductive. *)
LEMMA KnownAlways == HeadlessSpec => []Known
<1>1. Known /\ [HeadlessNext]_headlessVars => Known'
    <2>1. ASSUME Known, HeadlessNext PROVE Known'
        <3>1. TypeOK /\ EvidenceInv /\ [Next]_vars
            BY <2>1, AgentSteps DEF Known, HeadlessTypeOK
        <3>2. TypeOK' /\ EvidenceInv'
            BY <3>1, TypePreserved, EvidencePreserved
        <3>3. HeadlessTypeOK' /\ HeadlessInv'
            BY <2>1, <3>2, AgentKeeps, ChannelKeeps DEF HeadlessNext
        <3> QED
            BY <3>2, <3>3 DEF Known
    <2>2. ASSUME Known, UNCHANGED headlessVars PROVE Known'
        <3>1. TypeOK /\ EvidenceInv /\ [Next]_vars /\ UNCHANGED <<vars, command>>
            BY <2>2 DEF Known, HeadlessTypeOK, headlessVars
        <3>2. TypeOK' /\ EvidenceInv'
            BY <3>1, TypePreserved, EvidencePreserved
        <3>3. HeadlessTypeOK' /\ HeadlessInv'
            BY <2>2, <3>1, <3>2
            DEF Known, HeadlessTypeOK, HeadlessInv, command, vars, Noticed, Has, Over, TextsIn,
                Occurrences, Verdict
        <3> QED
            BY <3>2, <3>3 DEF Known
    <2> QED
        BY <2>1, <2>2
<1> QED
    BY <1>1, KnownInit, PTL DEF HeadlessSpec

-----------------------------------------------------------------------------
(* Theorems. *)

(* The locals of headless::run have their types, and the channel never      *)
(* holds more than its capacity.                                            *)
THEOREM HeadlessTypeCorrect == HeadlessSpec => []HeadlessTypeOK
<1>1. Known => HeadlessTypeOK
    BY DEF Known
<1> QED
    BY <1>1, KnownAlways, PTL

(* headless::run: a script that sees exit code 0 may rely on it.  The model *)
(* came to an end by itself, no change was declined, no check failed, what  *)
(* was written was built or tested, and every piece of the answer was       *)
(* printed.                                                                 *)
THEOREM ZeroExitHolds == HeadlessSpec => []ZeroExitIsEarned
<1>1. ASSUME Known, code = 0
      PROVE  /\ outcome = "Completed"
             /\ mishaps = {}
             /\ written # {} => panel.checks # {}
             /\ printed = texts
    <2>0. HeadlessTypeOK /\ HeadlessInv /\ EvidenceInv /\ TypeOK
        BY <1>1 DEF Known, HeadlessTypeOK
    <2>1. exit = 0 /\ channel = <<>> /\ outbox = <<>> /\ Over
        BY <1>1, <2>0 DEF HeadlessInv
    <2>2. ~Noticed
        BY <2>1, EventsOfSteps DEF Noticed
    <2>3. outcome = "Completed" /\ panel = proof /\ Verdict(proof) \notin {"Failing", "Unverified"}
        BY <2>0, <2>1, <2>2 DEF HeadlessInv
    <2>4. "declined" \notin mishaps
        BY <2>0, <2>2 DEF HeadlessInv
    <2>5. "failed" \notin mishaps
        BY <2>0, <2>3 DEF HeadlessInv, Verdict
    <2>6. mishaps = {}
        BY <2>0, <2>4, <2>5 DEF HeadlessTypeOK
    <2>7. written # {} => panel.checks # {}
        <3>1. written \subseteq panel.changed
            BY <2>0, <2>1, <2>3 DEF EvidenceInv, PanelCoversWrites, Over
        <3> QED
            BY <2>3, <3>1 DEF Verdict
    <2>8. printed = texts
        BY <2>0, <2>1, EventsOfSteps DEF HeadlessInv, HeadlessTypeOK
    <2> QED
        BY <2>3, <2>6, <2>7, <2>8
<1>2. Known => ZeroExitIsEarned
    BY <1>1 DEF ZeroExitIsEarned
<1> QED
    BY <1>2, KnownAlways, PTL

=============================================================================
