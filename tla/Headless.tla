------------------------------- MODULE Headless -------------------------------
(***************************************************************************)
(* `truecode -p`: one prompt in, one answer out (crates/tc-cli/src/        *)
(* headless.rs).  The agent of AgentLoop runs in a task of its own and     *)
(* sends its events over a bounded channel; the command prints them and    *)
(* turns them into an exit code.  Nobody is asked: --yes approves          *)
(* everything, without it everything is declined.                          *)
(*                                                                         *)
(* A step of the agent hands its events to `outbox`; the agent goes on     *)
(* when the channel has taken them all, as send(..).await makes it wait.   *)
(* An event is one of the kinds the command tells apart: "Text" goes to    *)
(* stdout, which may be closed; "Shown" stands for the events that are     *)
(* only written to stderr or ignored.                                      *)
(***************************************************************************)
EXTENDS AgentLoop

CONSTANTS
    ChannelSize,    \* 256
    MaxTexts        \* bound: pieces of text the model writes

ASSUME ChannelAssumption == ChannelSize \in Nat \ {0} /\ MaxTexts \in Nat

(* One prompt, no questions, nobody at the keyboard; ApproveAll and        *)
(* DenyAll are the approvers.                                              *)
ASSUME PromptAssumption ==
    /\ MaxPrompts = 1
    /\ ~Teaching /\ ~CanAbort
    /\ {"approve", "deny"} \subseteq Decisions

Events == {"Text", "Shown", "Declined", "Alarm", "Panel", "Completed", "Stopped",
           "Failed"}

VARIABLES
    yes,        \* --yes was given
    worker,     \* the spawned task: "runs", "ended" or "dropped"
    outbox,     \* events the agent is about to send
    channel,    \* events sent and not yet received
    exit,       \* `exit` of headless::run
    code,       \* the exit code of the process; -1 while it runs
    texts,      \* history variable: pieces of text sent
    printed,    \* history variable: pieces of text written to stdout
    mishaps     \* history variable: "declined" calls and checks that "failed"

command == <<yes, worker, outbox, channel, exit, code, texts, printed, mishaps>>
headlessVars == <<vars, command>>

-----------------------------------------------------------------------------

HeadlessInit ==
    /\ Init
    /\ yes \in BOOLEAN
    /\ worker = "runs"
    /\ outbox = <<>>
    /\ channel = <<>>
    /\ exit = 0
    /\ code = -1
    /\ texts = 0
    /\ printed = 0
    /\ mishaps = {}

PanelEvent ==
    IF proof = NoEvidence THEN <<>>
    ELSE IF Verdict(proof) \in {"Failing", "Unverified"} THEN <<"Alarm">>
    ELSE <<"Panel">>

FinishedEvent == IF outcome = "Completed" THEN <<"Completed">> ELSE <<"Stopped">>

(* The steps of the agent that send nothing. *)
Quietly ==
    /\ StartRun \/ StopAtTurnLimit \/ StopAtBudget \/ SendRequest
       \/ \E ok \in BOOLEAN : RunTool(ok)
    /\ UNCHANGED <<outbox, texts, mishaps>>

(* The model writes a piece of the answer. *)
Write ==
    /\ pc = "stream"
    /\ texts < MaxTexts
    /\ texts' = texts + 1
    /\ outbox' = <<"Text">>
    /\ UNCHANGED <<vars, mishaps>>

EndTurn(cost) ==
    /\ \/ \E truncated \in BOOLEAN : EndAnswer(truncated, cost)
       \/ \E cs \in Turns : StopAtLoop(cs, cost) \/ StartTools(cs, cost)
    /\ outbox' = <<"Shown">>
    /\ UNCHANGED <<texts, mishaps>>

LoseTurn(cost) ==
    /\ FailTurn(cost)
    /\ outbox' = PanelEvent \o <<"Failed">>
    /\ UNCHANGED <<texts, mishaps>>

(* The calls that go ahead or fail by themselves; ApproveAll says yes. *)
Proceed ==
    /\ \/ RefuseBeforeAsking
       \/ \E e \in Effects :
            /\ pc = "gate"
            /\ e \in EffectsOf(calls[idx])
            /\ ClearUnasked(e) \/ Ask(e)
       \/ yes /\ Approve("approve")
    /\ outbox' = <<"Shown">>
    /\ UNCHANGED <<texts, mishaps>>

(* DenyAll says no. *)
Refuse ==
    /\ ~yes
    /\ Decline
    /\ outbox' = <<"Declined", "Shown">>
    /\ mishaps' = mishaps \cup {"declined"}
    /\ UNCHANGED texts

Report ==
    /\ \/ /\ RecordNoCheck
          /\ UNCHANGED mishaps
       \/ \E passed \in BOOLEAN :
            /\ RecordCheck(passed)
            /\ mishaps' = IF passed \/ CheckOf[calls[idx]] = "other" THEN mishaps
                          ELSE mishaps \cup {"failed"}
    /\ outbox' = <<"Shown">>
    /\ UNCHANGED texts

EndRun ==
    /\ Finish
    /\ outbox' = PanelEvent \o FinishedEvent
    /\ UNCHANGED <<texts, mishaps>>

Agent ==
    /\ worker = "runs"
    /\ outbox = <<>>
    /\ \/ Quietly
       \/ Write
       \/ \E cost \in Costs : EndTurn(cost) \/ LoseTurn(cost)
       \/ Proceed
       \/ Refuse
       \/ Report
       \/ EndRun
    /\ UNCHANGED <<yes, worker, channel, exit, code, printed>>

(* Mutant: an event for which there is no room is let go. *)
SendOrDrop ==
    /\ worker = "runs"
    /\ outbox # <<>>
    /\ outbox' = Tail(outbox)
    /\ channel' = IF Len(channel) < ChannelSize THEN Append(channel, Head(outbox))
                  ELSE channel
    /\ UNCHANGED <<vars, yes, worker, exit, code, texts, printed, mishaps>>

(* Mutant: the channel has no bound. *)
SendAlways ==
    /\ worker = "runs"
    /\ outbox # <<>>
    /\ channel' = Append(channel, Head(outbox))
    /\ outbox' = Tail(outbox)
    /\ UNCHANGED <<vars, yes, worker, exit, code, texts, printed, mishaps>>

Send ==
    /\ worker = "runs"
    /\ outbox # <<>>
    /\ Len(channel) < ChannelSize
    /\ channel' = Append(channel, Head(outbox))
    /\ outbox' = Tail(outbox)
    /\ UNCHANGED <<vars, yes, worker, exit, code, texts, printed, mishaps>>

(* Mutant: the command keeps a sender of its own, so the channel never     *)
(* closes.                                                                 *)
WorkerEndsUnseen ==
    /\ worker = "runs"
    /\ prompts = 1 /\ pc = "idle" /\ outbox = <<>>
    /\ UNCHANGED headlessVars

(* The task returns and its sender goes: the channel is closed. *)
WorkerEnds ==
    /\ worker = "runs"
    /\ prompts = 1 /\ pc = "idle" /\ outbox = <<>>
    /\ worker' = "ended"
    /\ UNCHANGED <<vars, yes, outbox, channel, exit, code, texts, printed, mishaps>>

-----------------------------------------------------------------------------
(* Mutant: a completed run resets what was noted before. *)
ExitAfterLast(event) ==
    CASE event \in {"Declined", "Alarm", "Stopped"} -> 2
      [] event = "Failed" -> 1
      [] event = "Completed" -> 0
      [] OTHER -> exit

(* What the event says about the exit code. *)
ExitAfter(event) ==
    CASE event \in {"Declined", "Alarm", "Stopped"} -> 2
      [] event = "Failed" -> 1
      [] OTHER -> exit

Receive ==
    /\ code = -1
    /\ channel # <<>>
    /\ exit' = ExitAfter(Head(channel))
    /\ channel' = Tail(channel)
    /\ printed' = printed + (IF Head(channel) = "Text" THEN 1 ELSE 0)
    /\ UNCHANGED <<vars, yes, worker, outbox, code, texts, mishaps>>

(* Stdout is closed: the error ends the command, the runtime goes and the  *)
(* agent with it, wherever it was.  The last newline can fail as well.     *)
PrintFails ==
    /\ code = -1
    /\ \/ channel # <<>> /\ Head(channel) = "Text"
       \/ channel = <<>> /\ worker = "ended"
    /\ code' = 1
    /\ worker' = "dropped"
    /\ UNCHANGED <<vars, yes, outbox, channel, exit, texts, printed, mishaps>>

Exit ==
    /\ code = -1
    /\ channel = <<>>
    /\ worker = "ended"
    /\ code' = exit
    /\ UNCHANGED <<vars, yes, worker, outbox, channel, exit, texts, printed, mishaps>>

Printer == Receive \/ PrintFails \/ Exit

HeadlessNext == Agent \/ Send \/ WorkerEnds \/ Printer

(* Both tasks are scheduled, and the provider and the tools answer. *)
HeadlessSpec ==
    /\ HeadlessInit
    /\ [][HeadlessNext]_headlessVars
    /\ WF_headlessVars(Agent)
    /\ WF_headlessVars(Send)
    /\ WF_headlessVars(WorkerEnds)
    /\ WF_headlessVars(Printer)

-----------------------------------------------------------------------------
(* The command's own state has the types of the locals of headless::run,   *)
(* and the channel stays within its capacity.                              *)
HeadlessTypeOK ==
    /\ TypeOK
    /\ yes \in BOOLEAN
    /\ worker \in {"runs", "ended", "dropped"}
    /\ outbox \in Seq(Events)
    /\ channel \in Seq(Events) /\ Len(channel) <= ChannelSize
    /\ exit \in {0, 1, 2}
    /\ code \in {-1, 0, 1, 2}
    /\ texts \in 0..MaxTexts
    /\ printed \in 0..texts
    /\ mishaps \subseteq {"declined", "failed"}

(* A script that sees exit code 0 may rely on it: the model came to an end *)
(* by itself, no change was declined, no check failed, and a file that was *)
(* written was at least built or tested.                                   *)
ZeroExitIsEarned ==
    code = 0 =>
        /\ outcome = "Completed"
        /\ mishaps = {}
        /\ written # {} => panel.checks # {}
        /\ printed = texts

(* The command comes back, with the channel full or not. *)
CommandEnds == <>(code # -1)

=============================================================================
