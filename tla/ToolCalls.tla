------------------------------ MODULE ToolCalls ------------------------------
(***************************************************************************)
(* What happens to a tool call, in detail: Agent::authorise, checkpoint    *)
(* and run_tools of crates/tc-agent/src/lib.rs with the hooks of hooks.rs  *)
(* and the tools of crates/tc-tools.  AgentLoop has the same calls as a    *)
(* few steps whose effects are chosen; here they meet the files.           *)
(*                                                                         *)
(* The agent is not alone: an editor, a command it started or a hook that  *)
(* outlived its timeout may change a file at any moment (Edit), and the    *)
(* process may die at any moment (Die).  A snapshot is what the agent read *)
(* of the file of the current call: when it previewed the call, when it    *)
(* saved the copy for undo, and when the tool itself ran.                  *)
(***************************************************************************)
EXTENDS Edits, Ledger

CONSTANTS
    Requests,       \* calls the model can make
    Texts,          \* texts somebody else can leave in a file
    Hooks,          \* hooks.toml: a sequence of [event, tools]
    ProjectRules,   \* the rules of the ledger
    Catastrophic,   \* commands shell.rs refuses
    CheckOf,        \* what verify::classify makes of a command
    ExitLinesIn,    \* lines of a command that read "exit code: ..."
    InitialDisks,   \* what the files may contain at first
    MaxCalls,       \* bound: calls in the run
    MaxEdits,       \* bound: changes made by somebody else
    Absent,         \* no such file
    Binary,         \* a file that is not UTF-8
    Half,           \* a file that is only partly written
    Garbled         \* an "exit code: " line without a number

ASSUME BoundsAssumption == MaxCalls \in Nat /\ MaxEdits \in Nat

ASSUME RulesAssumption == ProjectRules \subseteq Rules

VARIABLES
    pc,         \* what the agent task does next
    call,       \* the call being handled
    made,       \* calls so far
    hooks,      \* hooks of the current event that have not run yet
    event,      \* the event they run for
    outcomes,   \* what the hooks of this event did
    effect,     \* the preview: `Effect`
    broken,     \* rules the preview breaks
    allowed,    \* approved_tools
    result,     \* the result of the tool: is_error and its "exit code:" lines
    changed,    \* Proof.changed
    checks,     \* Proof.checks
    saved,      \* the copy taken for undo
    plan,       \* the content the running tool has computed
    disk,       \* the files
    temp,       \* the temporary file beside each
    edits,      \* changes made by somebody else
    stale,      \* history variable: snapshots that are out of date
    exits,      \* history variable: commands that ended, with their exit code
    left        \* history variable: hooks that were left running

agent == <<call, made, hooks, event, outcomes, effect, broken, allowed, result, plan>>
evidence == <<changed, checks, exits>>
files == <<disk, temp, saved, stale, edits>>
vars == <<pc, agent, evidence, files, left>>

-----------------------------------------------------------------------------
(* Calls and effects. *)

Events == {"pre-tool", "post-tool", "stop"}
Tools == {"read_file", "write_file", "patch", "shell", "unknown"}
WriteTools == {"write_file", "patch"}

Read(f) == [tool |-> "read_file", file |-> f]
WriteFile(f, s) == [tool |-> "write_file", file |-> f, content |-> s]
Patch(f, old, new, all) ==
    [tool |-> "patch", file |-> f, old |-> old, new |-> new, all |-> all]
Shell(c) == [tool |-> "shell", command |-> c]
Unknown == [tool |-> "unknown"]

(* What a file can hold, somebody else's text included. *)
Contents == Seq(Lines) \cup {Absent, Binary}

ASSUME HooksAssumption == Hooks \in Seq([event : Events, tools : SUBSET Tools])

(* The inputs have the types of their schemas; the name Unknown stands for *)
(* a tool the set does not have.                                           *)
ASSUME RequestsAssumption ==
    \A r \in Requests :
        \/ r = Unknown
        \/ r.tool = "read_file" /\ r.file \in Files
        \/ r.tool = "write_file" /\ r.file \in Files /\ r.content \in Seq(Lines)
        \/ /\ r.tool = "patch" /\ r.file \in Files
           /\ r.old \in Seq(Lines) /\ r.new \in Seq(Lines) /\ r.all \in BOOLEAN
        \/ r.tool = "shell" /\ r.command \in Commands

ASSUME ContentsAssumption ==
    /\ Half \notin Contents
    /\ Absent \notin Seq(Lines) /\ Binary \notin Seq(Lines) /\ Absent # Binary
    /\ Texts \subseteq Contents
    /\ \A d \in InitialDisks : d \in [Files -> Contents]

ASSUME OutputAssumption ==
    /\ Garbled \notin Int
    /\ \A c \in Commands : ExitLinesIn[c] \in Seq(Int \cup {Garbled})

NoResult == [error |-> FALSE, lines |-> <<>>]
Failure(lines) == [error |-> TRUE, lines |-> lines]
Success(lines) == [error |-> FALSE, lines |-> lines]

ReadOnly == [kind |-> "read"]
Execute == [kind |-> "exec"]
Write(before, after, d) ==
    [kind |-> "write", before |-> before, after |-> after, diff |-> d]

IsText(x) == x \notin {Absent, Binary, Half}
TextOr(x) == IF x = Absent THEN <<>> ELSE x

(* A file tool can compute its change from what it finds: read_existing    *)
(* takes no file for None and refuses one that is not text.                *)
CanWrite(r, found) ==
    CASE r.tool = "write_file" -> found = Absent \/ IsText(found)
      [] r.tool = "patch" -> IsText(found) /\ Computable(found, r.old, r.all)

ContentAfter(r, found) ==
    CASE r.tool = "write_file" -> r.content
      [] r.tool = "patch" -> Patched(found, r.old, r.new, r.all)

(* Mutant: the preview shows the first replacement only. *)
WritePreviewsOfFirst(r) ==
    LET found == disk[r.file]
        after == IF r.tool = "patch" THEN Patched(found, r.old, r.new, FALSE)
                 ELSE ContentAfter(r, found)
    IN IF CanWrite(r, found)
       THEN {Write(found, after, d) : d \in Diffs(TextOr(found), after)}
       ELSE {}

(* What write_file and patch say they would do to the file as it is. *)
WritePreviews(r) ==
    LET found == disk[r.file] IN
    IF CanWrite(r, found)
    THEN {Write(found, ContentAfter(r, found), d) :
            d \in Diffs(TextOr(found), ContentAfter(r, found))}
    ELSE {}

(* Some commands are refused, approved or not. *)
Refuses(command) == command \in Catastrophic

(* ToolSet::preview; empty when the preview fails. *)
Previews(r) ==
    CASE r.tool = "read_file" -> {ReadOnly}
      [] r.tool \in WriteTools -> WritePreviews(r)
      [] r.tool = "shell" -> IF Refuses(r.command) THEN {} ELSE {Execute}
      [] OTHER -> {}

Violations(r, e) ==
    CASE e.kind = "write" -> CheckDiff(ProjectRules, r.file, e.diff.added)
      [] e.kind = "exec" -> CheckCommand(ProjectRules, r.command)
      [] OTHER -> {}

RunsUnasked(r, e, rules) ==
    \/ e.kind = "read"
    \/ e.kind = "write" /\ IsEmptyDiff(e.diff)
    \/ r.tool \in allowed /\ rules = {}

-----------------------------------------------------------------------------
(* Hooks: hooks.rs. *)

(* Mutant: the event of a hook is not looked at. *)
MatchingAnyEvent(ev, tool) ==
    Picked(Hooks, {i \in DOMAIN Hooks : ev = "stop" \/ tool \in Hooks[i].tools})

(* HookSet::matching: the tool does not matter to a stop hook. *)
Matching(ev, tool) ==
    Picked(Hooks, {i \in DOMAIN Hooks :
                    Hooks[i].event = ev /\ (ev = "stop" \/ tool \in Hooks[i].tools)})

REFUSE == 2

(* What a hook that ended says: only REFUSE, and only before the tool,     *)
(* refuses; every other failure is reported.                               *)
Outcome(ev, code) ==
    IF code = 0 THEN "Passed"
    ELSE IF ev = "pre-tool" /\ code = REFUSE THEN "Refused"
    ELSE "Failed"

Refused == Contains(outcomes, "Refused")

(* The exit code read out of a result: the first line that has the prefix, *)
(* and nothing when that line has no number.                               *)
ParseExitCode(lines) ==
    IF lines = <<>> \/ Head(lines) = Garbled THEN {} ELSE {Head(lines)}

-----------------------------------------------------------------------------

Init ==
    /\ pc = "idle"
    /\ call = Unknown
    /\ made = 0
    /\ hooks = <<>>
    /\ event = "pre-tool"
    /\ outcomes = <<>>
    /\ effect = ReadOnly
    /\ broken = {}
    /\ allowed \in {{}, {"patch"}}    \* as the calls before have left it
    /\ result = NoResult
    /\ changed = {}
    /\ checks = {}
    /\ saved = Absent
    /\ plan = <<>>
    /\ disk \in InitialDisks
    /\ temp = [f \in Files |-> Absent]
    /\ edits = 0
    /\ stale = {}
    /\ exits = {}
    /\ left = 0

(* The next call of the turn: its pre-tool hooks come first. *)
StartCall(r) ==
    /\ pc = "idle"
    /\ made < MaxCalls
    /\ call' = r
    /\ made' = made + 1
    /\ event' = "pre-tool"
    /\ hooks' = Matching("pre-tool", r.tool)
    /\ outcomes' = <<>>
    /\ effect' = ReadOnly
    /\ broken' = {}
    /\ result' = NoResult
    /\ plan' = <<>>
    /\ pc' = "hooks"
    /\ UNCHANGED <<allowed, evidence, files, left>>

(* Mutant: the hooks go on after a refusal. *)
HookSaysAndOthersGoOn(o) ==
    /\ pc = "hooks"
    /\ hooks # <<>>
    /\ outcomes' = Append(outcomes, o)
    /\ hooks' = Tail(hooks)
    /\ UNCHANGED <<pc, call, made, event, effect, broken, allowed, result, plan, evidence,
                   files>>

(* The first hook is done: the others follow, unless it refused. *)
HookSays(o) ==
    /\ pc = "hooks"
    /\ hooks # <<>>
    /\ outcomes' = Append(outcomes, o)
    /\ hooks' = IF o = "Refused" THEN <<>> ELSE Tail(hooks)
    /\ UNCHANGED <<pc, call, made, event, effect, broken, allowed, result, plan, evidence,
                   files>>

HookExits(code) == HookSays(Outcome(event, code)) /\ UNCHANGED left

HookCannotStart == HookSays("Failed") /\ UNCHANGED left

(* Mutant: nobody watches the clock. *)
HookNeverTimesOut == FALSE /\ HookSays("Failed") /\ left' = left + 1

(* HOOK_TIMEOUT: the wait ends, the process does not. *)
HookTimesOut == HookSays("Failed") /\ left' = left + 1

(* The hooks of the event are through. *)
HooksDone ==
    /\ pc = "hooks"
    /\ hooks = <<>>
    /\ \/ /\ event = "pre-tool" /\ ~Refused
          /\ pc' = "preview"
          /\ UNCHANGED result
       \/ /\ event = "pre-tool" /\ Refused
          /\ pc' = "answer"
          /\ result' = Failure(<<>>)
       \/ /\ event = "post-tool"
          /\ pc' = "answer"
          /\ UNCHANGED result
       \/ /\ event = "stop"
          /\ pc' = "over"
          /\ UNCHANGED result
    /\ UNCHANGED <<call, made, hooks, event, outcomes, effect, broken, allowed, plan,
                   evidence, files, left>>

-----------------------------------------------------------------------------
(* The gate: preview, ledger, approval, copy. *)

(* A preview that fails is the call failing.  The text of a refused        *)
(* command is not parsed for an exit code: the call never ran.             *)
PreviewFails ==
    /\ pc = "preview"
    /\ Previews(call) = {}
    /\ result' = Failure(<<>>)
    /\ pc' = "answer"
    /\ UNCHANGED <<call, made, hooks, event, outcomes, effect, broken, allowed, plan,
                   evidence, files, left>>

Preview(e) ==
    /\ pc = "preview"
    /\ effect' = e
    /\ broken' = Violations(call, e)
    /\ pc' = IF RunsUnasked(call, e, Violations(call, e)) THEN "copy" ELSE "ask"
    /\ stale' = stale \ {"preview"}
    /\ UNCHANGED <<call, made, hooks, event, outcomes, allowed, result, plan, evidence,
                   disk, temp, saved, edits, left>>

Approve(always) ==
    /\ pc = "ask"
    /\ pc' = "copy"
    /\ allowed' = IF always THEN allowed \cup {call.tool} ELSE allowed
    /\ UNCHANGED <<call, made, hooks, event, outcomes, effect, broken, result, plan,
                   evidence, files, left>>

Deny ==
    /\ pc = "ask"
    /\ pc' = "answer"
    /\ result' = Failure(<<>>)
    /\ UNCHANGED <<call, made, hooks, event, outcomes, effect, broken, allowed, plan,
                   evidence, files, left>>

(* Mutant: the copy holds what the preview read. *)
CheckpointOfPreview(ok) ==
    /\ pc = "copy"
    /\ pc' = "run"
    /\ IF effect.kind = "write"
       THEN /\ changed' = changed \cup {call.file}
            /\ saved' = IF ok THEN effect.before ELSE Half
            /\ stale' = stale \ {"copy"}
       ELSE UNCHANGED <<changed, saved, stale>>
    /\ UNCHANGED <<agent, checks, exits, disk, temp, edits, left>>

(* Agent::checkpoint: a copy that cannot be written (Half) does not hold   *)
(* up the change.                                                          *)
Checkpoint(ok) ==
    /\ pc = "copy"
    /\ pc' = "run"
    /\ IF effect.kind = "write"
       THEN /\ changed' = changed \cup {call.file}
            /\ saved' = IF ok THEN disk[call.file] ELSE Half
            /\ stale' = stale \ {"copy"}
       ELSE UNCHANGED <<changed, saved, stale>>
    /\ UNCHANGED <<agent, checks, exits, disk, temp, edits, left>>

-----------------------------------------------------------------------------
(* The tools. *)

(* A result: the post-tool hooks follow a success. *)
Results(r) ==
    /\ result' = r
    /\ event' = "post-tool"
    /\ outcomes' = <<>>
    /\ hooks' = IF r.error THEN <<>> ELSE Matching("post-tool", call.tool)
    /\ pc' = "hooks"
    /\ UNCHANGED <<call, made, effect, broken, allowed>>

RunRead ==
    /\ pc = "run"
    /\ call.tool = "read_file"
    /\ Results([NoResult EXCEPT !.error = ~IsText(disk[call.file])])
    /\ UNCHANGED <<plan, evidence, files, left>>

(* Mutant: the tool writes what was previewed. *)
ComputeFromPreview ==
    /\ pc = "run"
    /\ call.tool \in WriteTools
    /\ plan' = effect.after
    /\ pc' = "temp"
    /\ stale' = stale \ {"run"}
    /\ UNCHANGED <<call, made, hooks, event, outcomes, effect, broken, allowed, result,
                   evidence, disk, temp, saved, edits, left>>

(* write_file and patch read the file again and compute their change anew. *)
Compute ==
    /\ pc = "run"
    /\ call.tool \in WriteTools
    /\ CanWrite(call, disk[call.file])
    /\ plan' = ContentAfter(call, disk[call.file])
    /\ pc' = "temp"
    /\ stale' = stale \ {"run"}
    /\ UNCHANGED <<call, made, hooks, event, outcomes, effect, broken, allowed, result,
                   evidence, disk, temp, saved, edits, left>>

CannotCompute ==
    /\ pc = "run"
    /\ call.tool \in WriteTools
    /\ ~CanWrite(call, disk[call.file])
    /\ Results(Failure(<<>>))
    /\ UNCHANGED <<plan, evidence, files, left>>

(* Mutant: the file itself is written, not a copy beside it. *)
WriteInPlace ==
    /\ pc = "temp"
    /\ disk' = [disk EXCEPT ![call.file] = Half]
    /\ temp' = [temp EXCEPT ![call.file] = plan]
    /\ pc' = "rename"
    /\ UNCHANGED <<agent, evidence, saved, stale, edits, left>>

(* write_atomically, up to the rename. *)
WriteTemporary ==
    /\ pc = "temp"
    /\ temp' = [temp EXCEPT ![call.file] = plan]
    /\ pc' = "rename"
    /\ UNCHANGED <<agent, evidence, disk, saved, stale, edits, left>>

(* The directory or the temporary file cannot be written; what was written *)
(* of it stays.                                                            *)
CannotWrite(remains) ==
    /\ pc = "temp"
    /\ temp' = [temp EXCEPT ![call.file] = IF remains THEN Half ELSE @]
    /\ Results(Failure(<<>>))
    /\ UNCHANGED <<plan, evidence, disk, saved, stale, edits, left>>

Rename ==
    /\ pc = "rename"
    /\ disk' = [disk EXCEPT ![call.file] = temp[call.file]]
    /\ temp' = [temp EXCEPT ![call.file] = Absent]
    /\ Results(Success(<<>>))
    /\ UNCHANGED <<plan, evidence, saved, stale, edits, left>>

CannotRename ==
    /\ pc = "rename"
    /\ temp' = [temp EXCEPT ![call.file] = Absent]
    /\ Results(Failure(<<>>))
    /\ UNCHANGED <<plan, evidence, disk, saved, stale, edits, left>>

(* The output of a command names it first, line by line, then the exit     *)
(* code.                                                                   *)
Rendered(command, code) == Append(ExitLinesIn[command], code)

(* Shell::run.  The errors of a command that cannot start or is killed     *)
(* name the command too.                                                   *)
StartCommand ==
    /\ pc = "run"
    /\ call.tool = "shell"
    /\ pc' = "child"
    /\ UNCHANGED <<agent, evidence, files, left>>

CannotStart ==
    /\ pc = "run"
    /\ call.tool = "shell"
    /\ Results(Failure(ExitLinesIn[call.command]))
    /\ UNCHANGED <<plan, evidence, files, left>>

CommandExits(code) ==
    /\ pc = "child"
    /\ exits' = exits \cup {[command |-> call.command, code |-> code]}
    /\ Results(Success(Rendered(call.command, code)))
    /\ UNCHANGED <<plan, changed, checks, files, left>>

CommandTimesOut ==
    /\ pc = "child"
    /\ Results(Failure(ExitLinesIn[call.command]))
    /\ UNCHANGED <<plan, evidence, files, left>>

(* Mutant: a command that brought no exit code back counts as passed. *)
NewChecksByDefault(r) ==
    IF r.tool = "shell" /\ CheckOf[r.command] # "other"
    THEN {[command |-> r.command, code |-> k] :
            k \in IF result.lines = <<>> THEN {0} ELSE ParseExitCode(result.lines)}
    ELSE {}

(* Proof::record_check of what parse_exit_code finds in the result, error  *)
(* or not; verify::classify picks the commands that are checks.            *)
NewChecks(r) ==
    IF r.tool = "shell" /\ CheckOf[r.command] # "other"
    THEN {[command |-> r.command, code |-> k] : k \in ParseExitCode(result.lines)}
    ELSE {}

(* The call gets its result.  Only a call that went through its gate is    *)
(* looked at for evidence.                                                 *)
Answer ==
    /\ pc = "answer"
    /\ checks' = IF event = "post-tool" THEN checks \cup NewChecks(call) ELSE checks
    /\ pc' = "idle"
    /\ UNCHANGED <<agent, changed, exits, files, left>>

(* The run is over, or the person ends it at the prompt: the stop hooks. *)
Stop ==
    /\ pc \in {"idle", "ask"}
    /\ event' = "stop"
    /\ hooks' = Matching("stop", "")
    /\ outcomes' = <<>>
    /\ pc' = "hooks"
    /\ UNCHANGED <<call, made, effect, broken, allowed, result, plan, evidence, files, left>>

-----------------------------------------------------------------------------
(* The environment. *)

(* Somebody else changes the file of the call: every snapshot of it is out *)
(* of date.  An edit of another file would meet no step of this call.      *)
Edit(f, text) ==
    /\ pc \notin {"over", "dead"}
    /\ call.tool \in WriteTools \cup {"read_file"}
    /\ f = call.file
    /\ edits < MaxEdits
    /\ text # disk[f]
    /\ disk' = [disk EXCEPT ![f] = text]
    /\ edits' = edits + 1
    /\ stale' = {"preview", "copy", "run"}
    /\ UNCHANGED <<pc, agent, evidence, temp, saved, left>>

(* Esc drops the task where it waits: the command dies with it, a hook     *)
(* does not.                                                               *)
Drop ==
    /\ \/ pc = "hooks" /\ hooks # <<>> /\ left' = left + 1
       \/ pc \in {"ask", "child"} /\ UNCHANGED left
    /\ pc' = "over"
    /\ UNCHANGED <<agent, evidence, files>>

(* The process dies; a temporary file it was writing stays as it is. *)
Die ==
    /\ pc \notin {"over", "dead"}
    /\ pc' = "dead"
    /\ \/ pc = "temp" /\ temp' = [temp EXCEPT ![call.file] = Half]
       \/ UNCHANGED temp
    /\ UNCHANGED <<agent, evidence, disk, saved, stale, edits, left>>

-----------------------------------------------------------------------------

ExitCodes == {0, 1, REFUSE}

HookStep ==
    \/ \E code \in ExitCodes : HookExits(code)
    \/ HookCannotStart

CommandStep == \E code \in ExitCodes : CommandExits(code)

GateStep ==
    \/ PreviewFails
    \/ pc = "preview" /\ \E e \in Previews(call) : Preview(e)
    \/ \E ok \in BOOLEAN : Checkpoint(ok)

PersonStep == (\E always \in BOOLEAN : Approve(always)) \/ Deny

RunStep ==
    \/ RunRead
    \/ Compute
    \/ CannotCompute
    \/ WriteTemporary
    \/ \E remains \in BOOLEAN : CannotWrite(remains)
    \/ Rename
    \/ CannotRename
    \/ StartCommand
    \/ CannotStart

(* What the agent does without waiting for anybody, the timers included. *)
AgentStep ==
    \/ HookTimesOut
    \/ HooksDone
    \/ GateStep
    \/ RunStep
    \/ CommandTimesOut
    \/ Answer

Next ==
    \/ \E r \in Requests : StartCall(r)
    \/ HookStep
    \/ AgentStep
    \/ CommandStep
    \/ PersonStep
    \/ Stop
    \/ \E f \in Files, text \in Texts : Edit(f, text)
    \/ Drop
    \/ Die

(* Hooks and commands may hang and the person may be away; the task itself *)
(* and its timers are always scheduled.                                    *)
Spec == Init /\ [][Next]_vars /\ WF_vars(AgentStep)

-----------------------------------------------------------------------------

Places == {"idle", "hooks", "preview", "ask", "copy", "run", "temp", "rename", "child",
           "answer", "over", "dead"}

(* The state has the types of the fields and locals it stands for. *)
TypeOK ==
    /\ pc \in Places
    /\ call \in Requests \cup {Unknown}
    /\ made \in 0..MaxCalls
    /\ event \in Events
    /\ hooks \in Seq([event : {event}, tools : SUBSET Tools])
    /\ outcomes \in Seq({"Passed", "Refused", "Failed"})
    /\ effect.kind \in {"read", "exec", "write"}
    /\ broken \subseteq ProjectRules
    /\ allowed \subseteq Tools
    /\ result \in [error : BOOLEAN, lines : Seq(Int \cup {Garbled})]
    /\ changed \subseteq Files
    /\ checks \subseteq [command : Commands, code : Int]
    /\ exits \subseteq [command : Commands, code : ExitCodes]
    /\ saved \in Contents \cup {Half}
    /\ plan \in Seq(Lines)
    /\ disk \in [Files -> Contents \cup {Half}]
    /\ temp \in [Files -> Contents \cup {Half}]
    /\ edits \in 0..MaxEdits
    /\ stale \subseteq {"preview", "copy", "run"}
    /\ left \in Nat

(* Whatever dies and whenever, no file of the project is left half written *)
(* (edit.rs, write_atomically).                                            *)
FileIsWhole == \A f \in Files : disk[f] # Half

Occurs(l, text) == Cardinality({i \in DOMAIN text : text[i] = l})

Applied == pc = "rename" /\ pc' = "hooks" /\ ~result'.error

(* A patch applied to a file that somebody changed after the preview takes *)
(* away none of the lines outside its snippet, as long as nobody writes    *)
(* between its own reading and its rename (edit.rs, Patch::run).           *)
PatchKeepsOthersLines ==
    [][Applied /\ call.tool = "patch" /\ "run" \notin stale =>
        \A l \in Lines :
            l \notin ToSet(call.old) =>
                Occurs(l, TextOr(disk[call.file])) <= Occurs(l, disk'[call.file])]_vars

(* If nobody touched the file since the preview, what is applied is what   *)
(* was shown, from the text it was shown on.                               *)
ApprovedIsApplied ==
    [][Applied /\ "preview" \notin stale =>
        /\ disk[call.file] = effect.before
        /\ disk'[call.file] = effect.after]_vars

(* The copy for undo is what the change replaced, unless it could not be   *)
(* saved or somebody wrote after it was taken (checkpoint, run_tools).     *)
CopyIsWhatWasReplaced ==
    [][Applied => saved \in {disk[call.file], Half} \/ "copy" \in stale]_vars

(* No change brings a forbidden line, or any change to a forbidden file,   *)
(* into the project without the rule being reported, unless the file was   *)
(* touched after the preview (constraints.rs, authorise).                  *)
BrokenRulesAreReported ==
    [][Applied /\ "preview" \notin stale /\ disk'[call.file] # disk[call.file] =>
        \A rule \in ProjectRules :
            \/ rule \in broken
            \/ /\ rule.files = Unset \/ call.file \notin rule.files
               /\ \A l \in Lines :
                    \/ rule.added = Unset \/ l \notin rule.added
                    \/ rule.scope # Unset /\ call.file \notin rule.scope
                    \/ rule.except # Unset /\ call.file \in rule.except
                    \/ Occurs(l, disk'[call.file]) <= Occurs(l, TextOr(disk[call.file]))]_vars

BeyondHooks == {"preview", "ask", "copy", "run", "temp", "rename", "child"}

(* The hooks decide as documented: a call goes on when every pre-tool hook *)
(* for its tool was heard and none refused, however broken they are; it is *)
(* stopped right at the first refusal (hooks.rs, run and execute).         *)
HooksDecide ==
    /\ pc \in BeyondHooks =>
        LET mine == {i \in DOMAIN Hooks :
                        Hooks[i].event = "pre-tool" /\ call.tool \in Hooks[i].tools}
        IN event = "pre-tool" => Len(outcomes) = Cardinality(mine) /\ ~Refused
    /\ \A i \in DOMAIN outcomes : outcomes[i] = "Refused" =>
            i = Len(outcomes) /\ event = "pre-tool" /\ pc \notin BeyondHooks

(* Evidence is exactly what the harness watched: a check is recorded if    *)
(* and only if its command ended with that exit code, whatever timed out,  *)
(* could not start or was refused.  Commands whose own text has a line     *)
(* that reads like an exit code are left aside here.                       *)
EvidenceIsWatched ==
    LET plain(S) == {k \in S : ExitLinesIn[k.command] = <<>>}
        watched == {k \in plain(exits) : CheckOf[k.command] # "other"}
    IN /\ plain(checks) \subseteq watched
       /\ pc = "idle" => plain(checks) = watched

(* A hook or a command that hangs does not hang the agent: every call ends *)
(* or waits for the person.                                                *)
CallsEnd == pc \notin {"idle", "ask"} ~> pc \in {"idle", "ask", "over", "dead"}

-----------------------------------------------------------------------------
(* What the documentation says and the code does not keep. *)

(* "an exit code the harness watched, not a sentence the model wrote" *)
OnlyWatchedCodesCount == checks \subseteq exits

=============================================================================
