--------------------------------- MODULE Tui ---------------------------------
(***************************************************************************)
(* The interactive front end: the event loop of crates/tc-tui/src/lib.rs,  *)
(* the state it keeps (app.rs), and the tasks it spawns, which share the   *)
(* agent behind a mutex and report over one bounded channel.               *)
(*                                                                         *)
(* Events and approval requests carry no run in the code.  Here they do,   *)
(* for the properties; no handler of the loop looks at it.                 *)
(* A run is seen from outside: it waits for the mutex, sends events, asks  *)
(* for approvals, and sends one last event (AgentLoop is its inside).      *)
(* Aborting a task only marks it: it is dropped when the runtime gets to   *)
(* it, and a task that is being polled meanwhile can still send.           *)
(***************************************************************************)
EXTENDS Integers, Sequences, FiniteSets

CONSTANTS
    EventCap,       \* capacity of the event channel (256)
    ApprovalCap,    \* capacity of the approval channel (8)
    MaxRuns,        \* bound: prompts sent
    MaxEvents,      \* bound: events of a run besides its last ones
    MaxAsks,        \* bound: approvals a run asks for
    Jobs            \* bound: the other tasks (/undo, /handoff, /model, an answer)

ASSUME TuiAssumption ==
    /\ EventCap \in Nat \ {0} /\ ApprovalCap \in Nat \ {0}
    /\ MaxRuns \in Nat /\ MaxEvents \in Nat /\ MaxAsks \in Nat

Runs == 1..MaxRuns
NoRun == 0
Requests == [run : Runs, n : Nat]
NoRequest == [run |-> NoRun, n |-> 0]

VARIABLES
    open,       \* the event loop has not ended
    status,     \* app.status
    run,        \* the handle of the run under way, or NoRun
    pending,    \* app.pending: the change on the screen
    answer,     \* the reply channel a key will use
    question,   \* app.question is there
    events,     \* the event channel
    approvals,  \* the approval channel
    phase,      \* per run, where its task is
    aborted,    \* per run, whether its handle was aborted
    emitted,    \* per run, events sent
    asks,       \* per run, approvals asked for
    jobs        \* per other task, where it is

ui == <<open, status, run, pending, answer, question>>
tasks == <<phase, aborted, emitted, asks>>
vars == <<ui, events, approvals, tasks, jobs>>

Statuses == {"Idle", "Working", "BudgetExhausted"}
Endings == {"finished", "exhausted", "failed"}
EventKinds == {"started", "note", "asked"} \cup Endings
Phases == {"none", "spawned", "running", "asking", "closing", "done", "dropped"}

Alive(r) == phase[r] \in {"spawned", "running", "asking", "closing"}
HoldsAgent(r) == phase[r] \in {"running", "asking", "closing"}
AgentFree == \A r \in Runs : ~HoldsAgent(r)

Request(r) == [run |-> r, n |-> asks[r]]
Event(kind, r) == [kind |-> kind, run |-> r]
HasRoom == Len(events) < EventCap
Submitted == Cardinality({r \in Runs : phase[r] # "none"})

Init ==
    /\ open = TRUE
    /\ status = "Idle"
    /\ run = NoRun
    /\ pending = NoRequest
    /\ answer = NoRequest
    /\ question = FALSE
    /\ events = <<>>
    /\ approvals = <<>>
    /\ phase = [r \in Runs |-> "none"]
    /\ aborted = [r \in Runs |-> FALSE]
    /\ emitted = [r \in Runs |-> 0]
    /\ asks = [r \in Runs |-> 0]
    /\ jobs = [j \in Jobs |-> "none"]

-----------------------------------------------------------------------------
(* The event loop: channels. *)

(* Mutant: a failure leaves the status as it was. *)
StatusForgettingFailure(kind) ==
    CASE kind = "started" -> "Working"
      [] kind = "finished" -> "Idle"
      [] kind = "exhausted" -> "BudgetExhausted"
      [] OTHER -> status

(* App::apply.  "exhausted" is a Finished whose reason or whose cost shown *)
(* on the screen says that the budget is used up.                          *)
StatusAfter(kind) ==
    CASE kind = "started" -> "Working"
      [] kind \in {"finished", "failed"} -> "Idle"
      [] kind = "exhausted" -> "BudgetExhausted"
      [] OTHER -> status

ReceiveEvent ==
    /\ open
    /\ events # <<>>
    /\ LET kind == Head(events).kind IN
        /\ status' = StatusAfter(kind)
        /\ run' = IF kind \in Endings THEN NoRun ELSE run
        /\ question' = (question \/ kind = "asked")
    /\ events' = Tail(events)
    /\ UNCHANGED <<open, pending, answer, approvals, tasks, jobs>>

(* A reply channel that is dropped reads as a denial. *)
LosesReply(r) == phase[r] = "asking" /\ ~aborted[r] /\ answer = Request(r)

(* Mutant: an earlier reply channel stays in place. *)
ReceiveRequestKeepingReply ==
    /\ open
    /\ approvals # <<>>
    /\ pending' = Head(approvals)
    /\ answer' = IF answer = NoRequest THEN Head(approvals) ELSE answer
    /\ approvals' = Tail(approvals)
    /\ UNCHANGED <<open, status, run, question, events, tasks, jobs>>

(* Mutant: an earlier change stays on the screen. *)
ReceiveRequestKeepingScreen ==
    /\ open
    /\ approvals # <<>>
    /\ pending' = IF pending = NoRequest THEN Head(approvals) ELSE pending
    /\ answer' = Head(approvals)
    /\ approvals' = Tail(approvals)
    /\ UNCHANGED <<open, status, run, question, events, tasks, jobs>>

ReceiveRequest ==
    /\ open
    /\ approvals # <<>>
    /\ pending' = Head(approvals)
    /\ answer' = Head(approvals)
    /\ phase' = [r \in Runs |-> IF LosesReply(r) THEN "running" ELSE phase[r]]
    /\ approvals' = Tail(approvals)
    /\ UNCHANGED <<open, status, run, question, events, aborted, emitted, asks, jobs>>

-----------------------------------------------------------------------------
(* The event loop: keys.  A question owns the keyboard, then a change      *)
(* does, and only then handle_key sees the key.                            *)

SkipQuestion ==
    /\ open
    /\ question
    /\ question' = FALSE
    /\ UNCHANGED <<open, status, run, pending, answer, events, approvals, tasks, jobs>>

AnswerQuestion(j) ==
    /\ open
    /\ question
    /\ jobs[j] = "none"
    /\ question' = FALSE
    /\ jobs' = [jobs EXCEPT ![j] = "spawned"]
    /\ UNCHANGED <<open, status, run, pending, answer, events, approvals, tasks>>

(* y, a, n or Esc on a change.  The task hears it if it is still there;    *)
(* Ctrl+C also ends the loop, which aborts the run and drops the channels. *)
Decide(quit) ==
    /\ open
    /\ ~question
    /\ answer # NoRequest
    /\ phase' = [r \in Runs |-> IF LosesReply(r) THEN "running" ELSE phase[r]]
    /\ answer' = NoRequest
    /\ pending' = NoRequest
    /\ open' = ~quit
    /\ run' = IF quit THEN NoRun ELSE run
    /\ aborted' = [r \in Runs |-> aborted[r] \/ (quit /\ r = run)]
    /\ UNCHANGED <<status, question, events, approvals, emitted, asks, jobs>>

KeyboardFree == open /\ ~question /\ answer = NoRequest

Esc ==
    /\ KeyboardFree
    /\ run # NoRun \/ status = "Working"
    /\ aborted' = [r \in Runs |-> aborted[r] \/ r = run]
    /\ run' = NoRun
    /\ status' = IF status = "Working" THEN "Idle" ELSE status
    /\ UNCHANGED <<open, pending, answer, question, events, approvals, phase, emitted,
                   asks, jobs>>

Spawn(r) ==
    /\ phase' = [phase EXCEPT ![r] = "spawned"]
    /\ run' = r
    /\ status' = "Working"
    /\ UNCHANGED <<open, pending, answer, question, events, approvals, aborted, emitted,
                   asks, jobs>>

(* Mutant: the status is not looked at. *)
SubmitPromptAnyTime ==
    /\ KeyboardFree
    /\ Submitted < MaxRuns
    /\ Spawn(Submitted + 1)

SubmitPrompt ==
    /\ KeyboardFree
    /\ status = "Idle"
    /\ Submitted < MaxRuns
    /\ Spawn(Submitted + 1)

(* /undo, /handoff and /model are tasks of their own, with no handle. *)
SubmitCommand(j) ==
    /\ KeyboardFree
    /\ status = "Idle"
    /\ jobs[j] = "none"
    /\ jobs' = [jobs EXCEPT ![j] = "spawned"]
    /\ UNCHANGED <<ui, events, approvals, tasks>>

Quit ==
    /\ KeyboardFree
    /\ open' = FALSE
    /\ aborted' = [r \in Runs |-> aborted[r] \/ r = run]
    /\ run' = NoRun
    /\ UNCHANGED <<status, pending, answer, question, events, approvals, phase, emitted,
                   asks, jobs>>

-----------------------------------------------------------------------------
(* The tasks. *)

(* A task that was aborted while it waited is not polled again. *)
TakeAgent(r) ==
    /\ phase[r] = "spawned"
    /\ ~aborted[r]
    /\ AgentFree
    /\ phase' = [phase EXCEPT ![r] = "running"]
    /\ UNCHANGED <<ui, events, approvals, aborted, emitted, asks, jobs>>

(* Mutant: an event is pushed into a full channel. *)
EmitAnyway(r, kind) ==
    /\ phase[r] = "running"
    /\ emitted[r] < MaxEvents
    /\ emitted' = [emitted EXCEPT ![r] = @ + 1]
    /\ events' = Append(events, Event(kind, r))
    /\ UNCHANGED <<ui, approvals, phase, aborted, asks, jobs>>

Emit(r, kind) ==
    /\ phase[r] = "running"
    /\ HasRoom
    /\ emitted[r] < MaxEvents
    /\ emitted' = [emitted EXCEPT ![r] = @ + 1]
    /\ events' = Append(events, Event(kind, r))
    /\ UNCHANGED <<ui, approvals, phase, aborted, asks, jobs>>

(* TuiApprover::approve, up to the await of the reply. *)
Ask(r) ==
    /\ phase[r] = "running"
    /\ open
    /\ Len(approvals) < ApprovalCap
    /\ asks[r] < MaxAsks
    /\ asks' = [asks EXCEPT ![r] = @ + 1]
    /\ approvals' = Append(approvals, [run |-> r, n |-> asks[r] + 1])
    /\ phase' = [phase EXCEPT ![r] = "asking"]
    /\ UNCHANGED <<ui, events, aborted, emitted, jobs>>

(* The loop has ended: its end of every channel is gone. *)
ReplyLost(r) ==
    /\ phase[r] = "asking"
    /\ ~open
    /\ ~aborted[r]
    /\ phase' = [phase EXCEPT ![r] = "running"]
    /\ UNCHANGED <<ui, events, approvals, aborted, emitted, asks, jobs>>

(* The comprehension question comes right before the end of a run. *)
PoseQuestion(r) ==
    /\ phase[r] = "running"
    /\ HasRoom
    /\ events' = Append(events, Event("asked", r))
    /\ phase' = [phase EXCEPT ![r] = "closing"]
    /\ UNCHANGED <<ui, approvals, aborted, emitted, asks, jobs>>

(* The last event, and the agent is free again. *)
EndRun(r, kind) ==
    /\ phase[r] \in {"running", "closing"}
    /\ phase[r] = "closing" => kind # "failed"
    /\ HasRoom
    /\ events' = Append(events, Event(kind, r))
    /\ phase' = [phase EXCEPT ![r] = "done"]
    /\ UNCHANGED <<ui, approvals, aborted, emitted, asks, jobs>>

(* Mutant: cancellation is noticed between two events only. *)
DropBetweenEvents(r) ==
    /\ phase[r] \in {"running", "closing"}
    /\ aborted[r] \/ ~open
    /\ phase' = [phase EXCEPT ![r] = "dropped"]
    /\ UNCHANGED <<ui, events, approvals, aborted, emitted, asks, jobs>>

Drop(r) ==
    /\ Alive(r)
    /\ aborted[r] \/ ~open
    /\ phase' = [phase EXCEPT ![r] = "dropped"]
    /\ UNCHANGED <<ui, events, approvals, aborted, emitted, asks, jobs>>

(* The others hold the agent for one synchronous call, then send a notice. *)
DoJob(j) ==
    /\ jobs[j] = "spawned"
    /\ AgentFree
    /\ jobs' = [jobs EXCEPT ![j] = "telling"]
    /\ UNCHANGED <<ui, events, approvals, tasks>>

TellJob(j) ==
    /\ jobs[j] = "telling"
    /\ HasRoom
    /\ jobs' = [jobs EXCEPT ![j] = "done"]
    /\ events' = Append(events, Event("note", NoRun))
    /\ UNCHANGED <<ui, approvals, tasks>>

-----------------------------------------------------------------------------

Dialog == SkipQuestion \/ (\E j \in Jobs : AnswerQuestion(j)) \/ Decide(FALSE)

Keys ==
    \/ Decide(TRUE)
    \/ Esc
    \/ SubmitPrompt
    \/ \E j \in Jobs : SubmitCommand(j)
    \/ Quit

Work(r) ==
    \/ \E kind \in {"started", "note"} : Emit(r, kind)
    \/ Ask(r)
    \/ PoseQuestion(r)
    \/ \E kind \in Endings : EndRun(r, kind)

Progress(r) == TakeAgent(r) \/ Work(r) \/ ReplyLost(r)

JobStep == \E j \in Jobs : DoJob(j) \/ TellJob(j)

Next ==
    \/ ReceiveEvent
    \/ ReceiveRequest
    \/ Dialog
    \/ Keys
    \/ \E r \in Runs : Progress(r) \/ Drop(r)
    \/ JobStep

Spec == Init /\ [][Next]_vars

(* The loop polls both channels, the runtime polls its tasks and drops the *)
(* aborted ones, and a person who is shown a dialog answers it.  Nobody    *)
(* has to send prompts, press Esc or quit.                                 *)
FairSpec ==
    /\ Spec
    /\ WF_vars(ReceiveEvent)
    /\ WF_vars(ReceiveRequest)
    /\ WF_vars(Dialog)
    /\ \A r \in Runs : WF_vars(Progress(r)) /\ WF_vars(Drop(r))
    /\ WF_vars(JobStep)

-----------------------------------------------------------------------------

(* The types, and no channel holds more than its capacity. *)
TypeOK ==
    /\ open \in BOOLEAN
    /\ status \in Statuses
    /\ run \in Runs \cup {NoRun}
    /\ pending \in Requests \cup {NoRequest}
    /\ answer \in Requests \cup {NoRequest}
    /\ question \in BOOLEAN
    /\ events \in Seq([kind : EventKinds, run : Runs \cup {NoRun}])
    /\ Len(events) <= EventCap
    /\ approvals \in Seq(Requests)
    /\ Len(approvals) <= ApprovalCap
    /\ phase \in [Runs -> Phases]
    /\ aborted \in [Runs -> BOOLEAN]
    /\ emitted \in [Runs -> Nat]
    /\ asks \in [Runs -> Nat]
    /\ jobs \in [Jobs -> {"none", "spawned", "telling", "done"}]

(* A run that waits for a decision has its request on the screen or on its *)
(* way there, whatever requests aborted runs left in the channel.          *)
AskedIsHeard ==
    \A r \in Runs :
        open /\ phase[r] = "asking" /\ ~aborted[r] =>
            \/ answer = Request(r)
            \/ \E i \in DOMAIN approvals : approvals[i] = Request(r)

(* A run goes on after an approval only when the change that was on the    *)
(* screen was its own.                                                     *)
DecisionsAreAboutTheShownChange ==
    [][\A r \in Runs :
        open /\ phase[r] = "asking" /\ phase'[r] = "running" => pending = Request(r)]_vars

(* Every prompt comes to an end: its run finishes, fails or is dropped.    *)
EveryRunEnds == \A r \in Runs : Alive(r) ~> ~Alive(r)

(* Esc is where the UI loses track, because events carry no run.  Until it *)
(* has been pressed on a run, what the UI knows about the tasks is right.  *)
Undisturbed == open /\ \A r \in Runs : ~aborted[r]

InFlight ==
    \/ \E r \in Runs : Alive(r)
    \/ \E i \in DOMAIN events : events[i].kind \in Endings

(* "Working: a turn is in flight", or its last event is still to be read;  *)
(* a turn in flight is never taken for an idle prompt line, and the handle *)
(* that Esc takes is the one of that turn.                                 *)
StatusIsRight ==
    Undisturbed =>
        /\ status = "Working" <=> InFlight
        /\ run # NoRun <=> InFlight
        /\ \A r \in Runs : Alive(r) => run = r

(* The UI refuses a second prompt while one runs. *)
OneRunAtATime ==
    \A r, s \in Runs : Alive(r) /\ ~aborted[r] /\ Alive(s) /\ ~aborted[s] => r = s

=============================================================================
