------------------------------ MODULE Tui_proofs ------------------------------
(* Proofs about Tui, for every capacity of the channels and every number of *)
(* prompts, events, approvals and jobs.                                     *)
EXTENDS Tui, SequenceTheorems, FiniteSetTheorems, TLAPS

-----------------------------------------------------------------------------
(* The invariants. *)

(* The reply channel a key will use is the one of the change on the screen. *)
ScreenInv == pending = answer

(* One turn at a time: it is alive, or its last event is in the channel,    *)
(* and nothing of it comes after that event.  A "started" in the channel is *)
(* the one of that turn.                                                    *)
Flight ==
    /\ status = "Working" <=> InFlight
    /\ run # NoRun <=> InFlight
    /\ \A r \in Runs : Alive(r) => run = r
    /\ \A i \in DOMAIN events : events[i].kind \in Endings =>
          /\ \A r \in Runs : ~Alive(r)
          /\ \A j \in DOMAIN events : j > i => events[j].kind \notin Endings \cup {"started"}
    /\ (\E i \in DOMAIN events : events[i].kind = "started") => InFlight

FlightInv == Undisturbed => Flight

-----------------------------------------------------------------------------
(* Channels. *)

(* What is sent comes after everything that is in the channel.              *)
LEMMA SendingAppends ==
    ASSUME NEW S, NEW s \in Seq(S), NEW x \in S
    PROVE  /\ Append(s, x) \in Seq(S) /\ Len(Append(s, x)) = Len(s) + 1
           /\ Len(s) \in Nat
           /\ DOMAIN Append(s, x) = DOMAIN s \cup {Len(s) + 1}
           /\ \A i \in DOMAIN s : Append(s, x)[i] = s[i] /\ i < Len(s) + 1 /\ i \in Nat
           /\ Append(s, x)[Len(s) + 1] = x
BY AppendProperties, LenProperties

(* What is received is the first of the channel; the rest moves up.         *)
LEMMA ReceivingShifts ==
    ASSUME NEW S, NEW s \in Seq(S), s # <<>>
    PROVE  /\ Head(s) \in S /\ 1 \in DOMAIN s /\ Head(s) = s[1]
           /\ Tail(s) \in Seq(S) /\ Len(Tail(s)) = Len(s) - 1
           /\ Len(s) \in Nat
           /\ \A i \in DOMAIN s : i \in Nat /\ (i # 1 => i - 1 \in DOMAIN Tail(s) /\ Tail(s)[i - 1] = s[i])
           /\ \A i \in DOMAIN Tail(s) : i \in Nat /\ i + 1 \in DOMAIN s /\ i + 1 > 1 /\ Tail(s)[i] = s[i + 1]
<1>1. /\ Head(s) \in S /\ Head(s) = s[1] /\ Tail(s) \in Seq(S) /\ Len(Tail(s)) = Len(s) - 1
      /\ \A i \in 1..Len(Tail(s)) : Tail(s)[i] = s[i + 1]
    BY HeadTailProperties
<1>2. DOMAIN s = 1..Len(s) /\ Len(s) \in Nat /\ Len(s) # 0 /\ DOMAIN Tail(s) = 1..(Len(s) - 1)
    BY <1>1, LenProperties, EmptySeq
<1> QED
    BY <1>1, <1>2

-----------------------------------------------------------------------------
(* Types. *)

(* The prompts sent can be counted.                                         *)
LEMMA SubmittedIsNat == Submitted \in Nat
<1>1. IsFiniteSet(Runs) /\ {r \in Runs : phase[r] # "none"} \subseteq Runs
    BY TuiAssumption, FS_Interval DEF Runs
<1> QED
    BY <1>1, FS_Subset, FS_CardinalityType DEF Submitted

(* The first state has the types. *)
LEMMA InitType == Init => TypeOK
<1> SUFFICES ASSUME Init PROVE TypeOK
    OBVIOUS
<1>1. <<>> \in Seq([kind : EventKinds, run : Runs \cup {NoRun}]) /\ <<>> \in Seq(Requests) /\ Len(<<>>) = 0
    BY EmptySeq
<1>2. Len(events) <= EventCap /\ Len(approvals) <= ApprovalCap
    BY <1>1, TuiAssumption DEF Init
<1> QED
    BY <1>1, <1>2 DEF Init, TypeOK, Statuses, Phases

(* A step of the loop or of a task keeps the types, and no channel gets     *)
(* more than it can hold.                                                   *)
LEMMA TypePreserved == TypeOK /\ [Next]_vars => TypeOK'
<1> SUFFICES ASSUME TypeOK, [Next]_vars PROVE TypeOK'
    OBVIOUS
<1> USE TuiAssumption
<1> DEFINE Sent == [kind : EventKinds, run : Runs \cup {NoRun}]
<1>0. /\ events \in Seq(Sent) /\ approvals \in Seq(Requests)
      /\ Len(events) \in Nat /\ Len(approvals) \in Nat
    BY LenProperties DEF TypeOK
<1>1. ASSUME NEW x \in Sent, HasRoom, events' = Append(events, x)
      PROVE  events' \in Seq(Sent) /\ Len(events') <= EventCap
    <2>1. Append(events, x) \in Seq(Sent) /\ Len(Append(events, x)) = Len(events) + 1
        BY <1>0, <1>1, SendingAppends
    <2> QED
        BY <1>0, <1>1, <2>1 DEF HasRoom
<1>2. CASE ReceiveEvent
    <2>1. Tail(events) \in Seq(Sent) /\ Len(Tail(events)) = Len(events) - 1 /\ Head(events) \in Sent
        BY <1>0, <1>2, ReceivingShifts DEF ReceiveEvent
    <2>2. StatusAfter(Head(events).kind) \in Statuses
        BY <2>1 DEF StatusAfter, Statuses, EventKinds, TypeOK
    <2>3. Len(events') <= EventCap
        BY <1>0, <1>2, <2>1 DEF ReceiveEvent, TypeOK
    <2> QED
        BY <1>2, <2>1, <2>2, <2>3 DEF ReceiveEvent, TypeOK, tasks
<1>3. CASE ReceiveRequest
    <2>1. /\ Tail(approvals) \in Seq(Requests) /\ Len(Tail(approvals)) = Len(approvals) - 1
          /\ Head(approvals) \in Requests
        BY <1>0, <1>3, ReceivingShifts DEF ReceiveRequest
    <2>2. Len(approvals') <= ApprovalCap
        BY <1>0, <1>3, <2>1 DEF ReceiveRequest, TypeOK
    <2>3. phase' \in [Runs -> Phases]
        BY <1>3 DEF ReceiveRequest, TypeOK, Phases
    <2> QED
        BY <1>3, <2>1, <2>2, <2>3 DEF ReceiveRequest, TypeOK
<1>4. CASE SkipQuestion \/ \E j \in Jobs : AnswerQuestion(j)
    BY <1>4 DEF SkipQuestion, AnswerQuestion, TypeOK, tasks
<1>5. ASSUME NEW quit \in BOOLEAN, Decide(quit) PROVE TypeOK'
    BY <1>5 DEF Decide, TypeOK, Phases
<1>6. CASE Esc
    BY <1>6 DEF Esc, TypeOK, Statuses
<1>7. CASE SubmitPrompt
    <2>1. Submitted + 1 \in Runs
        BY <1>7, SubmittedIsNat DEF SubmitPrompt, Runs
    <2> QED
        BY <1>7, <2>1 DEF SubmitPrompt, Spawn, TypeOK, Statuses, Phases
<1>8. CASE \E j \in Jobs : SubmitCommand(j)
    BY <1>8 DEF SubmitCommand, TypeOK, ui, tasks
<1>9. CASE Quit
    BY <1>9 DEF Quit, TypeOK
<1>10. ASSUME NEW r \in Runs, NEW kind \in EventKinds, Emit(r, kind) PROVE TypeOK'
    BY <1>1, <1>10 DEF Emit, Event, TypeOK, ui
<1>11. ASSUME NEW r \in Runs, Ask(r) PROVE TypeOK'
    <2>1. asks[r] \in Nat /\ [run |-> r, n |-> asks[r] + 1] \in Requests
        BY DEF TypeOK, Requests
    <2>2. /\ Append(approvals, [run |-> r, n |-> asks[r] + 1]) \in Seq(Requests)
          /\ Len(Append(approvals, [run |-> r, n |-> asks[r] + 1])) = Len(approvals) + 1
        BY <1>0, <2>1, SendingAppends
    <2>3. approvals' \in Seq(Requests) /\ Len(approvals') <= ApprovalCap
        BY <1>0, <1>11, <2>2 DEF Ask
    <2> QED
        BY <1>11, <2>1, <2>3 DEF Ask, TypeOK, Phases, ui
<1>12. ASSUME NEW r \in Runs, TakeAgent(r) \/ ReplyLost(r) \/ Drop(r) PROVE TypeOK'
    BY <1>12 DEF TakeAgent, ReplyLost, Drop, TypeOK, Phases, ui
<1>13. ASSUME NEW r \in Runs, PoseQuestion(r) PROVE TypeOK'
    <2>1. Event("asked", r) \in Sent
        BY DEF Event, EventKinds
    <2> QED
        BY <1>1, <1>13, <2>1 DEF PoseQuestion, TypeOK, Phases, ui
<1>14. ASSUME NEW r \in Runs, NEW kind \in Endings, EndRun(r, kind) PROVE TypeOK'
    <2>1. Event(kind, r) \in Sent
        BY DEF Event, EventKinds
    <2> QED
        BY <1>1, <1>14, <2>1 DEF EndRun, TypeOK, Phases, ui
<1>15. ASSUME NEW j \in Jobs, DoJob(j) PROVE TypeOK'
    BY <1>15 DEF DoJob, TypeOK, ui, tasks
<1>16. ASSUME NEW j \in Jobs, TellJob(j) PROVE TypeOK'
    <2>1. Event("note", NoRun) \in Sent
        BY DEF Event, EventKinds
    <2> QED
        BY <1>1, <1>16, <2>1 DEF TellJob, TypeOK, ui, tasks
<1>17. CASE UNCHANGED vars
    BY <1>17 DEF TypeOK, vars, ui, tasks
<1>18. {"started", "note"} \subseteq EventKinds
    BY DEF EventKinds
<1> QED
    BY <1>2, <1>3, <1>4, <1>5, <1>6, <1>7, <1>8, <1>9, <1>10, <1>11, <1>12, <1>13, <1>14,
       <1>15, <1>16, <1>17, <1>18
    DEF Next, Dialog, Keys, Progress, Work, JobStep

-----------------------------------------------------------------------------
(* Approvals. *)

(* A request in the channel is found there until it comes out.              *)
LEMMA AskedInit == Init => AskedIsHeard /\ ScreenInv
BY DEF Init, AskedIsHeard, ScreenInv

(* Each step keeps requests where they are heard. *)
LEMMA AskedPreserved ==
    ASSUME TypeOK, AskedIsHeard, ScreenInv, [Next]_vars
    PROVE  AskedIsHeard' /\ ScreenInv'
<1>0. approvals \in Seq(Requests) /\ asks \in [Runs -> Nat] /\ phase \in [Runs -> Phases]
      /\ aborted \in [Runs -> BOOLEAN]
    BY DEF TypeOK
<1>1. CASE ReceiveRequest
    <2>1. /\ Head(approvals) = approvals[1]
          /\ \A i \in DOMAIN approvals :
                i # 1 => i - 1 \in DOMAIN Tail(approvals) /\ Tail(approvals)[i - 1] = approvals[i]
        BY <1>0, <1>1, ReceivingShifts DEF ReceiveRequest
    <2>2. ASSUME NEW r \in Runs, open', phase'[r] = "asking", ~aborted'[r]
          PROVE  \/ answer' = Request(r)'
                 \/ \E i \in DOMAIN approvals' : approvals'[i] = Request(r)'
        <3>1. open /\ phase[r] = "asking" /\ ~aborted[r] /\ answer # Request(r)
            BY <1>0, <1>1, <2>2 DEF ReceiveRequest, LosesReply
        <3>2. PICK i \in DOMAIN approvals : approvals[i] = Request(r)
            BY <3>1 DEF AskedIsHeard
        <3>3. Request(r)' = Request(r)
            BY <1>1 DEF ReceiveRequest, Request
        <3> QED
            BY <1>1, <2>1, <3>2, <3>3 DEF ReceiveRequest
    <2> QED
        BY <1>1, <2>2 DEF ReceiveRequest, AskedIsHeard, ScreenInv
<1>2. ASSUME NEW quit \in BOOLEAN, Decide(quit) PROVE AskedIsHeard' /\ ScreenInv'
    BY <1>0, <1>2 DEF Decide, LosesReply, AskedIsHeard, ScreenInv, Request
<1>3. ASSUME NEW s \in Runs, Ask(s) PROVE AskedIsHeard' /\ ScreenInv'
    <2> DEFINE new == [run |-> s, n |-> asks[s] + 1]
    <2>1. new \in Requests
        BY <1>0 DEF Requests
    <2>2. /\ approvals' = Append(approvals, new) /\ open /\ UNCHANGED <<answer, pending, aborted>>
          /\ asks' = [asks EXCEPT ![s] = @ + 1] /\ phase' = [phase EXCEPT ![s] = "asking"]
        BY <1>3 DEF Ask, ui
    <2>3. /\ DOMAIN approvals' = DOMAIN approvals \cup {Len(approvals) + 1}
          /\ \A i \in DOMAIN approvals : approvals'[i] = approvals[i]
          /\ approvals'[Len(approvals) + 1] = new
        BY <1>0, <2>1, <2>2, SendingAppends
    <2>4. Request(s)' = new
        BY <1>0, <2>2 DEF Request
    <2> HIDE DEF new
    <2>5. ASSUME NEW r \in Runs, phase'[r] = "asking", ~aborted'[r]
          PROVE  \/ answer' = Request(r)'
                 \/ \E i \in DOMAIN approvals' : approvals'[i] = Request(r)'
        <3>1. CASE r = s
            BY <2>3, <2>4, <3>1
        <3>2. CASE r # s
            <4>1. phase[r] = "asking" /\ ~aborted[r] /\ Request(r)' = Request(r)
                BY <1>0, <2>2, <2>5, <3>2 DEF Request
            <4> QED
                BY <2>2, <2>3, <4>1 DEF AskedIsHeard
        <3> QED
            BY <3>1, <3>2
    <2> QED
        BY <2>2, <2>5 DEF AskedIsHeard, ScreenInv
<1>4. CASE ReceiveEvent \/ SkipQuestion \/ (\E j \in Jobs : AnswerQuestion(j) \/ SubmitCommand(j))
           \/ JobStep
    BY <1>4 DEF ReceiveEvent, SkipQuestion, AnswerQuestion, SubmitCommand, JobStep, DoJob,
                TellJob, ui, tasks, AskedIsHeard, ScreenInv, Request
<1>5. CASE Esc \/ Quit
    BY <1>0, <1>5 DEF Esc, Quit, AskedIsHeard, ScreenInv, Request
<1>6. CASE SubmitPrompt
    BY <1>0, <1>6 DEF SubmitPrompt, Spawn, AskedIsHeard, ScreenInv, Request
<1>7. ASSUME NEW r \in Runs, NEW kind, Emit(r, kind) \/ EndRun(r, kind)
      PROVE  AskedIsHeard' /\ ScreenInv'
    BY <1>0, <1>7 DEF Emit, EndRun, ui, AskedIsHeard, ScreenInv, Request
<1>8. ASSUME NEW r \in Runs, TakeAgent(r) \/ ReplyLost(r) \/ Drop(r) \/ PoseQuestion(r)
      PROVE  AskedIsHeard' /\ ScreenInv'
    BY <1>0, <1>8 DEF TakeAgent, ReplyLost, Drop, PoseQuestion, ui, AskedIsHeard, ScreenInv, Request
<1>9. CASE UNCHANGED vars
    BY <1>9 DEF vars, ui, tasks, AskedIsHeard, ScreenInv, Request
<1> QED
    BY <1>1, <1>2, <1>3, <1>4, <1>5, <1>6, <1>7, <1>8, <1>9
    DEF Next, Dialog, Keys, Progress, Work

(* A task that waits goes on only by the decision about its own change.     *)
LEMMA ShownIsDecided ==
    ASSUME TypeOK, ScreenInv, [Next]_vars, NEW r \in Runs,
           open, phase[r] = "asking", phase'[r] = "running"
    PROVE  pending = Request(r)
<1>0. phase \in [Runs -> Phases]
    BY DEF TypeOK
<1>1. CASE ReceiveRequest \/ \E quit \in BOOLEAN : Decide(quit)
    BY <1>0, <1>1 DEF ReceiveRequest, Decide, LosesReply, ScreenInv
<1>2. CASE ReceiveEvent \/ SkipQuestion \/ (\E j \in Jobs : AnswerQuestion(j) \/ SubmitCommand(j))
           \/ JobStep \/ Esc \/ Quit \/ UNCHANGED vars
    BY <1>2 DEF ReceiveEvent, SkipQuestion, AnswerQuestion, SubmitCommand, JobStep, DoJob,
                TellJob, Esc, Quit, vars, tasks
<1>3. CASE SubmitPrompt
    BY <1>0, <1>3 DEF SubmitPrompt, Spawn
<1>4. ASSUME NEW s \in Runs, Progress(s) \/ Drop(s) PROVE FALSE
    BY <1>0, <1>4 DEF Progress, Work, TakeAgent, Emit, Ask, PoseQuestion, EndRun, ReplyLost, Drop
<1> QED
    BY <1>1, <1>2, <1>3, <1>4 DEF Next, Dialog, Keys

-----------------------------------------------------------------------------
(* The turn under way. *)

(* No turn is under way at the start.                                       *)
LEMMA FlightInit == Init => FlightInv
<1> SUFFICES ASSUME Init PROVE Flight
    BY DEF FlightInv
<1>1. \A r \in Runs : ~Alive(r)
    BY DEF Init, Alive
<1>2. DOMAIN events = {}
    BY DEF Init
<1> QED
    BY <1>1, <1>2 DEF Init, Flight, InFlight

(* An event that is neither a start nor an end changes nothing; a start is  *)
(* sent by a turn that is alive; the end of a turn is its last event.       *)
LEMMA SendKeepsFlight ==
    ASSUME TypeOK, Flight, UNCHANGED <<status, run>>,
           NEW x \in [kind : EventKinds, run : Runs \cup {NoRun}], events' = Append(events, x),
           \/ /\ \A r \in Runs : Alive(r)' = Alive(r)
              /\ x.kind \notin Endings
              /\ x.kind = "started" => \E r \in Runs : Alive(r)
           \/ /\ x.kind \in Endings
              /\ \E r \in Runs : Alive(r) /\ ~Alive(r)' /\ \A s \in Runs \ {r} : Alive(s)' = Alive(s)
    PROVE  Flight'
<1> DEFINE Sent == [kind : EventKinds, run : Runs \cup {NoRun}]
           n == Len(events) + 1
<1>1. /\ DOMAIN events' = DOMAIN events \cup {n}
      /\ \A i \in DOMAIN events : events'[i] = events[i] /\ i < n /\ i \in Nat
      /\ events'[n] = x
      /\ n \in Nat
    <2>1. events \in Seq(Sent)
        BY DEF TypeOK
    <2> QED
        BY <2>1, SendingAppends
<1> HIDE DEF n
<1>2. "started" \notin Endings
    BY DEF Endings
<1>3. ASSUME x.kind \notin Endings, \A r \in Runs : Alive(r)' = Alive(r),
             x.kind = "started" => \E r \in Runs : Alive(r)
      PROVE  Flight'
    <2>1. InFlight' <=> InFlight
        BY <1>1, <1>3 DEF InFlight
    <2>2. ASSUME NEW i \in DOMAIN events', events'[i].kind \in Endings
          PROVE  /\ \A r \in Runs : ~Alive(r)'
                 /\ \A j \in DOMAIN events' : j > i => events'[j].kind \notin Endings \cup {"started"}
        <3>1. i \in DOMAIN events /\ events[i].kind \in Endings
            BY <1>1, <1>3, <2>2
        <3>2. /\ \A r \in Runs : ~Alive(r)
              /\ \A j \in DOMAIN events : j > i => events[j].kind \notin Endings \cup {"started"}
            BY <3>1 DEF Flight
        <3>3. x.kind # "started"
            BY <1>3, <3>2
        <3> QED
            BY <1>1, <1>3, <3>2, <3>3
    <2>3. (\E i \in DOMAIN events' : events'[i].kind = "started") => InFlight
        BY <1>1, <1>3 DEF Flight, InFlight
    <2> QED
        BY <1>3, <2>1, <2>2, <2>3 DEF Flight
<1>4. ASSUME x.kind \in Endings,
             NEW r \in Runs, Alive(r), ~Alive(r)', \A s \in Runs \ {r} : Alive(s)' = Alive(s)
      PROVE  Flight'
    <2>1. \A s \in Runs : ~Alive(s)'
        BY <1>4 DEF Flight
    <2>2. InFlight /\ InFlight'
        BY <1>1, <1>4 DEF InFlight
    <2>3. \A i \in DOMAIN events : events[i].kind \notin Endings
        BY <1>4 DEF Flight
    <2>4. ASSUME NEW i \in DOMAIN events', events'[i].kind \in Endings, NEW j \in DOMAIN events', j > i
          PROVE  FALSE
        <3>1. i = n
            BY <1>1, <2>3, <2>4
        <3> QED
            BY <1>1, <2>4, <3>1
    <2> QED
        BY <2>1, <2>2, <2>4 DEF Flight
<1> QED
    BY <1>3, <1>4

(* What is received was the first: an ending leaves nothing behind that     *)
(* speaks of a turn.                                                        *)
LEMMA ReceiveKeepsFlight ==
    ASSUME TypeOK, Flight, ReceiveEvent
    PROVE  Flight'
<1> DEFINE Sent == [kind : EventKinds, run : Runs \cup {NoRun}]
           kind == Head(events).kind
<1>1. /\ 1 \in DOMAIN events /\ Head(events) = events[1] /\ Head(events) \in Sent
      /\ \A i \in DOMAIN events : i # 1 => i - 1 \in DOMAIN events' /\ events'[i - 1] = events[i]
      /\ \A i \in DOMAIN events' :
            i \in Nat /\ i + 1 \in DOMAIN events /\ i + 1 > 1 /\ events'[i] = events[i + 1]
    <2>1. events \in Seq(Sent) /\ events # <<>> /\ events' = Tail(events)
        BY DEF TypeOK, ReceiveEvent
    <2> QED
        BY <2>1, ReceivingShifts
<1>2. /\ \A r \in Runs : Alive(r)' = Alive(r)
      /\ status' = StatusAfter(kind) /\ run' = IF kind \in Endings THEN NoRun ELSE run
      /\ kind = events[1].kind
    BY <1>1 DEF ReceiveEvent, tasks, Alive
<1>3. kind \in EventKinds
    BY <1>1
<1> HIDE DEF kind
<1>4. ASSUME NEW i \in DOMAIN events', events'[i].kind \in Endings
      PROVE  /\ \A r \in Runs : ~Alive(r)'
             /\ \A j \in DOMAIN events' : j > i => events'[j].kind \notin Endings \cup {"started"}
    <2>1. i + 1 \in DOMAIN events /\ events[i + 1].kind \in Endings
        BY <1>1, <1>4
    <2>2. ASSUME NEW j \in DOMAIN events', j > i PROVE events'[j].kind \notin Endings \cup {"started"}
        <3>1. j + 1 \in DOMAIN events /\ j + 1 > i + 1
            BY <1>1, <1>4, <2>2
        <3> QED
            BY <1>1, <2>1, <3>1 DEF Flight
    <2> QED
        BY <1>2, <2>1, <2>2 DEF Flight
<1>5. CASE kind \in Endings
    <2>1. /\ \A r \in Runs : ~Alive(r)'
          /\ \A i \in DOMAIN events' : events'[i].kind \notin Endings \cup {"started"}
        BY <1>1, <1>2, <1>5 DEF Flight
    <2>2. ~InFlight'
        BY <2>1 DEF InFlight
    <2>3. status' # "Working" /\ run' = NoRun
        BY <1>2, <1>5 DEF StatusAfter, Endings
    <2> QED
        BY <2>1, <2>2, <2>3 DEF Flight
<1>6. CASE kind \notin Endings
    <2>1. InFlight' <=> InFlight
        <3>1. ASSUME NEW i \in DOMAIN events, events[i].kind \in Endings
              PROVE  \E k \in DOMAIN events' : events'[k].kind \in Endings
            BY <1>1, <1>2, <1>6, <3>1
        <3> QED
            BY <1>1, <1>2, <3>1 DEF InFlight
    <2>2. run' = run
        BY <1>2, <1>6
    <2>3. status' = "Working" <=> InFlight
        <3>1. CASE kind = "started"
            BY <1>1, <1>2, <3>1 DEF Flight, StatusAfter
        <3>2. CASE kind \in {"note", "asked"}
            BY <1>2, <3>2 DEF Flight, StatusAfter
        <3> QED
            BY <1>3, <1>6, <3>1, <3>2 DEF EventKinds
    <2>4. (\E i \in DOMAIN events' : events'[i].kind = "started") => InFlight
        BY <1>1 DEF Flight
    <2> QED
        BY <1>2, <1>4, <2>1, <2>2, <2>3, <2>4 DEF Flight
<1> QED
    BY <1>5, <1>6

(* While nobody presses Esc, every step keeps the turn in sight.            *)
LEMMA FlightPreserved ==
    ASSUME TypeOK, FlightInv, [Next]_vars
    PROVE  FlightInv'
<1> SUFFICES ASSUME Undisturbed' PROVE Flight'
    BY DEF FlightInv
<1>0. /\ phase \in [Runs -> Phases] /\ aborted \in [Runs -> BOOLEAN]
      /\ run \in Runs \cup {NoRun} /\ open \in BOOLEAN
    BY DEF TypeOK
<1> DEFINE Sent == [kind : EventKinds, run : Runs \cup {NoRun}]
<1>1. ASSUME Undisturbed PROVE Flight
    BY <1>1 DEF FlightInv
<1>2. ASSUME UNCHANGED <<open, aborted>> PROVE Undisturbed /\ Flight
    BY <1>1, <1>2 DEF Undisturbed
<1>3. ASSUME UNCHANGED <<status, run, events>>, \A r \in Runs : Alive(r)' = Alive(r), Flight
      PROVE  Flight'
    <2>1. InFlight' = InFlight
        BY <1>3 DEF InFlight
    <2> QED
        BY <1>3, <2>1 DEF Flight
<1>4. CASE ReceiveEvent
    BY <1>2, <1>4, ReceiveKeepsFlight DEF ReceiveEvent, tasks
<1>5. CASE ReceiveRequest
    <2>1. /\ UNCHANGED <<open, aborted, status, run, events>>
          /\ \A r \in Runs : Alive(r)' = Alive(r)
        BY <1>0, <1>5 DEF ReceiveRequest, LosesReply, Alive
    <2> QED
        BY <1>2, <1>3, <2>1
<1>6. CASE \/ SkipQuestion \/ (\E j \in Jobs : AnswerQuestion(j) \/ SubmitCommand(j) \/ DoJob(j))
           \/ UNCHANGED vars
    <2>1. UNCHANGED <<open, aborted, status, run, events, phase>>
        BY <1>6 DEF SkipQuestion, AnswerQuestion, SubmitCommand, DoJob, vars, ui, tasks
    <2>2. \A r \in Runs : Alive(r)' = Alive(r)
        BY <2>1 DEF Alive
    <2> QED
        BY <1>2, <1>3, <2>1, <2>2
<1>7. ASSUME NEW quit \in BOOLEAN, Decide(quit) PROVE Flight'
    <2>1. quit = FALSE
        BY <1>7 DEF Decide, Undisturbed
    <2>2. UNCHANGED <<status, run, events>> /\ open'
        BY <1>7, <2>1 DEF Decide
    <2>3. \A r \in Runs : aborted'[r] = aborted[r]
        BY <1>0, <1>7, <2>1 DEF Decide
    <2>4. \A r \in Runs : Alive(r)' = Alive(r)
        BY <1>0, <1>7 DEF Decide, LosesReply, Alive
    <2>5. Flight
        BY <1>1, <1>7, <2>3 DEF Decide, Undisturbed
    <2> QED
        BY <1>3, <2>2, <2>4, <2>5
<1>8. CASE Esc
    <2>1. /\ \A r \in Runs : aborted'[r] = (aborted[r] \/ r = run)
          /\ open' = open /\ (run # NoRun \/ status = "Working")
        BY <1>8 DEF Esc
    <2>2. Undisturbed
        BY <1>0, <2>1 DEF Undisturbed
    <2>3. run \in Runs
        BY <1>0, <1>1, <2>1, <2>2 DEF Flight
    <2> QED
        BY <2>1, <2>3 DEF Undisturbed
<1>9. CASE SubmitPrompt
    <2> DEFINE new == Submitted + 1
    <2>1. /\ UNCHANGED <<open, aborted, events>> /\ status = "Idle" /\ status' = "Working" /\ run' = new
          /\ phase' = [phase EXCEPT ![new] = "spawned"] /\ new \in Nat \ {0} /\ new \in Runs
        BY <1>9, SubmittedIsNat, TuiAssumption DEF SubmitPrompt, Spawn, Runs
    <2> HIDE DEF new
    <2>2. Flight /\ ~InFlight
        BY <1>2, <2>1 DEF Flight
    <2>3. \A r \in Runs : Alive(r)' <=> r = new
        BY <1>0, <2>1, <2>2 DEF InFlight, Alive
    <2>4. InFlight' /\ run' # NoRun
        BY <2>1, <2>3 DEF InFlight, NoRun
    <2>5. \A i \in DOMAIN events' : events'[i].kind \notin Endings
        BY <2>1, <2>2 DEF InFlight
    <2> QED
        BY <2>1, <2>3, <2>4, <2>5 DEF Flight
<1>10. CASE Quit
    BY <1>10 DEF Quit, Undisturbed
<1>11. ASSUME NEW r \in Runs, TakeAgent(r) \/ ReplyLost(r) \/ Ask(r) PROVE Flight'
    <2>1. /\ UNCHANGED <<open, aborted, status, run, events>>
          /\ \A s \in Runs : Alive(s)' = Alive(s)
        BY <1>0, <1>11 DEF TakeAgent, ReplyLost, Ask, ui, Alive
    <2> QED
        BY <1>2, <1>3, <2>1
<1>12. ASSUME NEW r \in Runs, Drop(r) PROVE FALSE
    BY <1>12 DEF Drop, ui, Undisturbed
<1>13. ASSUME NEW r \in Runs, NEW kind \in {"started", "note"}, Emit(r, kind) PROVE Flight'
    <2> DEFINE x == Event(kind, r)
    <2>1. x \in Sent /\ x.kind = kind /\ kind \notin Endings
        BY DEF Event, EventKinds, Endings
    <2>2. /\ UNCHANGED <<open, aborted, status, run>> /\ events' = Append(events, x)
          /\ \A s \in Runs : Alive(s)' = Alive(s)
          /\ Alive(r)
        BY <1>13 DEF Emit, ui, Alive
    <2> HIDE DEF x
    <2> QED
        BY <1>2, <2>1, <2>2, SendKeepsFlight
<1>14. ASSUME NEW r \in Runs, PoseQuestion(r) PROVE Flight'
    <2> DEFINE x == Event("asked", r)
    <2>1. x \in Sent /\ x.kind = "asked" /\ "asked" \notin Endings
        BY DEF Event, EventKinds, Endings
    <2>2. /\ UNCHANGED <<open, aborted, status, run>> /\ events' = Append(events, x)
          /\ \A s \in Runs : Alive(s)' = Alive(s)
        BY <1>0, <1>14 DEF PoseQuestion, ui, Alive
    <2> HIDE DEF x
    <2> QED
        BY <1>2, <2>1, <2>2, SendKeepsFlight
<1>15. ASSUME NEW r \in Runs, NEW kind \in Endings, EndRun(r, kind) PROVE Flight'
    <2> DEFINE x == Event(kind, r)
    <2>1. x \in Sent /\ x.kind = kind
        BY DEF Event, EventKinds
    <2>2. /\ UNCHANGED <<open, aborted, status, run>> /\ events' = Append(events, x)
          /\ \A s \in Runs \ {r} : Alive(s)' = Alive(s)
          /\ Alive(r) /\ ~Alive(r)'
        BY <1>0, <1>15 DEF EndRun, ui, Alive
    <2> HIDE DEF x
    <2> QED
        BY <1>2, <2>1, <2>2, SendKeepsFlight
<1>16. ASSUME NEW j \in Jobs, TellJob(j) PROVE Flight'
    <2> DEFINE x == Event("note", NoRun)
    <2>1. x \in Sent /\ x.kind = "note" /\ "note" \notin Endings
        BY DEF Event, EventKinds, Endings
    <2>2. /\ UNCHANGED <<open, aborted, status, run>> /\ events' = Append(events, x)
          /\ \A s \in Runs : Alive(s)' = Alive(s)
        BY <1>16 DEF TellJob, ui, tasks, Alive
    <2> HIDE DEF x
    <2> QED
        BY <1>2, <2>1, <2>2, SendKeepsFlight
<1> QED
    BY <1>4, <1>5, <1>6, <1>7, <1>8, <1>9, <1>10, <1>11, <1>12, <1>13, <1>14, <1>15, <1>16
    DEF Next, Dialog, Keys, Progress, Work, JobStep

-----------------------------------------------------------------------------
(* Theorems. *)

TuiInv == TypeOK /\ AskedIsHeard /\ ScreenInv /\ FlightInv

(* The inductive invariant holds in every state. *)
LEMMA InvAlways == Spec => []TuiInv
<1>1. Init => TuiInv
    BY InitType, AskedInit, FlightInit DEF TuiInv
<1>2. TuiInv /\ [Next]_vars => TuiInv'
    BY TypePreserved, AskedPreserved, FlightPreserved DEF TuiInv
<1> QED
    BY <1>1, <1>2, PTL DEF Spec

(* The state of App and of the tasks has its types, and neither of the two  *)
(* channels ever holds more than it was created for.                        *)
THEOREM TypeCorrect == Spec => []TypeOK
<1>1. TuiInv => TypeOK
    BY DEF TuiInv
<1> QED
    BY <1>1, InvAlways, PTL

(* TuiApprover::approve: a task that waits for a decision is not forgotten. *)
(* Its request is on the screen or in the channel to it, behind whatever    *)
(* aborted tasks left there.                                                *)
THEOREM NobodyWaitsUnheard == Spec => []AskedIsHeard
<1>1. TuiInv => AskedIsHeard
    BY DEF TuiInv
<1> QED
    BY <1>1, InvAlways, PTL

(* A key decides about the change on the screen and about no other one.     *)
THEOREM DecidedAsShown == Spec => DecisionsAreAboutTheShownChange
<1>1. TuiInv /\ [Next]_vars =>
          [\A r \in Runs :
              open /\ phase[r] = "asking" /\ phase'[r] = "running" => pending = Request(r)]_vars
    BY ShownIsDecided DEF TuiInv
<1> QED
    BY <1>1, InvAlways, PTL DEF Spec, DecisionsAreAboutTheShownChange

(* Until Esc is pressed on a run, the status line and the handle that the   *)
(* UI keeps are right: it says that it works exactly while a turn is in     *)
(* flight, and what Esc would abort is that turn.                           *)
THEOREM StatusHolds == Spec => []StatusIsRight
<1>1. TuiInv => StatusIsRight
    BY DEF TuiInv, FlightInv, Flight, StatusIsRight
<1> QED
    BY <1>1, InvAlways, PTL

(* Two prompts are never under way together unless a run was aborted or     *)
(* the loop has ended: the second run of the run TuiSecondRun needs Esc.    *)
THEOREM OneRunUntilEsc == Spec => [](Undisturbed => OneRunAtATime)
<1>1. TuiInv => (Undisturbed => OneRunAtATime)
    BY DEF TuiInv, FlightInv, Flight, OneRunAtATime
<1> QED
    BY <1>1, InvAlways, PTL

=============================================================================
