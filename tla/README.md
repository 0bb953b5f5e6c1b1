# true-code: a verification project

true-code is an agentic coding harness: a model proposes tool calls, the harness
previews them, asks a person, runs what was cleared, pays for every turn, keeps a
log that can be undone, and ends each run with a panel of evidence. These modules
model the parts of it that carry state over time, check them with TLC and prove
the central invariants with TLAPS. Paths below are relative to the repository;
line numbers are in `PROJECT.json` ("map"), definition by definition.

## Contents

| file | what it is |
|---|---|
| `AgentLoop.tla`, `MCAgentLoop.tla`, `AgentLoop_proofs.tla` | the agent loop with gate, evidence and budget; constants for TLC; proofs, those about Headless included |
| `Edits.tla`, `Ledger.tla`, `ToolCalls.tla`, `MCToolCalls.tla`, `ToolCalls_proofs.tla` | diffs and patches; rules; one tool call from its hooks to its result, against files that others change; proofs, those about FileTools included |
| `FileTools.tla`, `MCFileTools.tla` | the workspace boundary, and the tools that read, with their limits; proofs in `ToolCalls_proofs.tla` |
| `UndoStack.tla`, `UndoStack_proofs.tla` | what undo promises: an abstract stack; proofs |
| `UndoLog.tla`, `MCUndoLog.tla`, `UndoLog_proofs.tla` | undo as the code does it: log, backups, two processes, deaths; the proof that it is the stack |
| `Tui.tla`, `MCTui.tla`, `Tui_proofs.tla` | the event loop of the terminal UI, its channels and its tasks; proofs |
| `ProviderStream.tla`, `MCProviderStream.tla`, `ProviderStream_proofs.tla` | one model turn: the two stream parsers and the loop that collects what they emit; proofs |
| `Headless.tla`, `MCHeadless.tla` | `truecode -p`: AgentLoop behind a bounded channel, and the exit code |
| `Catalog.tla`, `Commands.tla`, `Startup.tla`, `MCStartup.tla`, `Startup_proofs.tla` | models; prompt commands; from the command line to a session: configuration, setup screen, keys, MCP servers, doctor; proofs |
| `Learning.tla`, `MCLearning.tla`, `Learning_proofs.tla` | questions about a change and the profile that sessions share; proofs |
| `*.cfg` | one configuration per run; seven more show a refuted claim each (section 3) |

## 1. Inventory

### Agent loop (`crates/tc-agent/src/lib.rs`)
State: `history`, `spent`, `approved_tools`, `proof` in `Agent`, which lives as long
as the session; the turn counter and `repeats` as locals of `run`; `calls` and
`results` as locals of `run_tools`. Operations: `run`, `one_turn`, `authorise`,
`checkpoint`, `run_tools`, `ask_about_the_change`, `finish`, `undo_last`.
It calls the provider (a stream of deltas), the hooks, the tools (preview, run), the
approver, the ledger, the log and the front end's event channel, and awaits most of
them. Hard: eight exits, all of which have to leave a sound conversation, a panel and
the right cost; results collected in a local while the request they answer is already
in the history; Esc, which drops the task at any await. It is correct when no change
reaches a tool unapproved, the panel covers what was written and never overstates it,
repetition and overspending are cut, and every request is one a provider accepts.

### Approval gate (`approval.rs`, `tc-tools/src/diff.rs`)
A `Decision` per change and a set of tools that "always" covers. Correct when a
blanket approval never covers a change that breaks a rule and "nothing to approve"
means that nothing changes.

### Proof panel (`proof.rs`, `tc-tools/src/verify.rs`)
Changes, checks with exit codes, violations; a verdict. Correct when a green tick is
earned by a test that this run watched, and no changed file is missing.

### Budget and cost (`tc-config/src/lib.rs`, `tc-core/src/cost.rs`)
A session limit, checked before each turn, against what the provider reports.

### Session log, checkpoints, undo (`session.rs`, `checkpoint.rs`, `tc-cli/src/lib.rs`)
State: `.truecode/sessions/<id>/events.jsonl`, appended line by line with a sequence
number, and `backups/`. `capture` copies a file, a `Checkpointed` event follows, then
the tool writes; undo finds the newest checkpoint no `Reverted` event refers to,
copies the backup back and appends a `Reverted` event. Two processes do this: the
session (`/undo`) and `true-code undo`. Hard: death between any two of these steps,
a line torn by it, a full disk, both processes at once. Correct when what is left
undoable leads back to where the session started.

### Terminal UI (`tc-tui/src/lib.rs`, `app.rs`)
State: `status`, the pending change and its reply channel, the question, the handle of
the run; two bounded channels; the agent in a mutex shared with spawned tasks. Hard:
events carry no run, so those of an aborted run meet the state of the next one;
dialogs stop the reading of keys but not of channels; a bounded channel under a task
that holds the mutex. Correct when a key decides what is on the screen, Esc reaches
the run, a run that asks is heard, and every run ends.

### Provider streams (`tc-providers/src/anthropic.rs`, `openai.rs`, `one_turn`)
State of one stream: `pending_tools`, the calls under construction by their index; of
one turn: its content, its stop reason and what was billed. One operation per event of
the wire. Hard: parallel calls come in pieces, mixed; on one protocol a block says that
it is complete, on the other only the finish reason does, and the usage may follow it
in a chunk of its own; a stream may stop or break at any event. Correct when no call is
lost, split, mixed or sent on twice, a whole stream is billed once, and the ending that
the user is told is the one the model had.

### A tool call (`hooks.rs`, `tc-tools/src/edit.rs`, `shell.rs`, `constraints.rs`, `verify.rs`)
State: the hooks still to run and their outcomes, the preview, the rules it breaks, the
copy for undo, the content computed, the temporary file, the child process. The file is
read three times: for the preview, for the copy and by the tool. Hard: an editor, a
command or a hook that outlived its timeout writes in between; the process dies;
processes hang. Correct when what is applied is what was approved, unless somebody else
changed the file, and then nobody's lines are lost to a patch; the copy is what was
replaced; refusals stop the call and failures do not; evidence is what was watched.

### Workspace boundary and reading tools (`path.rs`, `fs.rs`, `search.rs`)
No state but the file system. Hard: links, `..` behind names that do not exist, limits
inside limits, a separator at the end of a path. Correct when nothing outside the workspace
is shown or written, which the code does not quite keep (section 3), and what
was left out is said to be.

### Headless mode (`tc-cli/src/headless.rs`)
State: the channel, the worker, `exit`. Correct when exit code 0 is earned and the command ends.

### Configuration, catalogue, secrets, setup screen, MCP client, commands (`tc-config`, `tc-mcp`, `commands.rs`, `setup.rs`, `tc-cli/src/lib.rs`)
State: configuration files in layers, environment, keyring, the form, the servers and
their tools, the model shown and the one in use. Operations: load, setup and remember,
look up a model and a key, connect, open, `/model`, tool calls to servers, doctor, login,
logout, init. Hard: the same question answered in two places (doctor and start; the
layer of the provider and the layer of the model), a form that goes back and forth,
servers that fail one by one, a death in the middle of a rewrite. Correct when a choice
that was saved lasts, key and model belong together, doctor tells the truth, and no
server is lost without a word.

### Learning profile (`learn.rs`)
State: a file of counts, read once by each session and rewritten whole after each answer.
Hard: overlapping sessions, deaths while writing, what a cut leaves of a number. Correct
when no answer is counted that nobody gave, and none lost without cause.

Components call one another directly (agent → tools, log, hooks), over channels (agent
→ UI: `AgentEvent`, capacity 256; approver → UI: requests, capacity 8; UI → approver:
one reply each), over child processes (hooks, commands, MCP servers) and through the file
system (session ↔ `true-code undo`, setup ↔ next start, session ↔ session by the profile).

## 2. Modules and code

### AgentLoop
`pc` is the await at which the task of a run stands; `"idle"` is the time between
runs, when nobody holds the agent.

| action | code |
|---|---|
| `StartRun` | the head of `run`: fresh evidence, the prompt into the history |
| `StopAtTurnLimit`, `StopAtBudget`, `SendRequest` | the loop over turns, up to the request |
| `FailTurn`, `EndAnswer`, `StopAtLoop`, `StartTools` | what the stream turned out to be, with its bill |
| `RefuseBeforeAsking`, `ClearUnasked`, `Ask`, `Approve`, `Decline`, `DeclineAndStop` | `authorise`, with the checkpoint that follows it |
| `RunTool`, `RecordCheck`, `RecordNoCheck` | the tool, the post-tool hooks, evidence, and the result |
| `Finish`, `FinishWithQuestion`, `Question` | `finish` and the comprehension question |
| `AbortTask` | the UI drops the task: Esc |

`executed`, `written` and `tested` are history variables: what really happened, to be
compared with the counters and the evidence the code keeps. Abstracted: a call is its
fingerprint (for writes, also its file); a message is a role and positions of calls;
money is natural units; the deltas of a stream are one step; the three kinds of
checks besides tests are one (`"build"`), which the verdict treats alike; hooks, tools,
model and person choose freely.

### UndoStack and UndoLog
`UndoStack` says what undo promises: numbered entries, a file is touched only under
the newest entry, an entry goes when its file is back. `Recall` admits that a dropped
entry can return, at a place where it does no harm; a torn line causes this. `UndoLog`
is the code: one action per step between which a process can die
(`Capture`, `LogCheckpoint`, `WriteFile`; `Find`, `Remove` or `BeginCopy`/`EndCopy`,
`LogRevert` or `ReopenAndLogRevert`), `SessionDies` and `CliDies` with the part of the
line they leave, and failing writes. A line can be cut off before its newline, in its
middle, or inside a character: the log is then not UTF-8, and `last_undoable`, which
reads it as a whole, ends in an error (`FindFails`). `Stack == INSTANCE UndoStack` maps the checkpoints
no revert refers to onto the entries of the stack. `was` and `origin` are
history variables.

### Tui
The select loop (`ReceiveEvent`, `ReceiveRequest`, the dialogs, the keys), the tasks
(`TakeAgent`, `Emit`, `Ask`, `PoseQuestion`, `EndRun`) and the runtime (`Drop`). A run
is the outside of AgentLoop. Events and requests carry their run only for the
properties. An aborted task is dropped some time later; while it is being polled it may
still send.

### ProviderStream
A run of this module is one step `FailTurn`, `EndAnswer` or `StartTools` of AgentLoop.

| action | code |
|---|---|
| `ContentBlockStart`, `ContentBlockDelta`, `ContentBlockStop`, `MessageDelta` | the events of `anthropic.rs`, each with what `one_turn` does with the delta it yields |
| `FirstFragment`, `NextFragment`, `FinishChunk`, `UsageChunk` | the chunks of `openai.rs`, likewise |
| `StreamEnds`, `StreamBreaks` | the end of the loop in `one_turn`; an error item |

The provider (`reply`, `Open`, `SendPiece`, `RawReason`) is external. It opens and closes
the blocks of an answer in order, and may send their pieces mixed; the first fragments of
OpenAI calls come in any order, as the tests of the repository have them. A piece is
`<<block, number>>`, so that a lost, doubled or misplaced piece can be seen; the JSON of a
call parses when all its pieces are there and the limit did not cut it, or when nothing
is there. `Started`, text and token counts are left out.

### Edits, Ledger, ToolCalls
A call of this module is the steps `RefuseBeforeAsking` … `RecordCheck` of AgentLoop,
where its effect is a choice; here it is computed from files.

| action | code |
|---|---|
| `StartCall`, the hook steps | the head of `run_tools`; `Hooks::run`, `execute` before and after the tool |
| `PreviewFails`, `Preview`, `Approve`, `Deny`, `Checkpoint` | `authorise`, the previews of `write_file` and `patch`, `Ledger::check_diff` and `check_command`, `checkpoint` |
| `RunRead`, `Compute`, `CannotCompute`, `WriteTemporary`, `CannotWrite` and the rename | the tools' `run`, `Patch::compute`, `write_atomically` |
| `CommandExits`, `CommandTimesOut` | `shell.rs`, with the exit code read back from the text |
| `Edit`, `Drop`, `Die` | somebody else writes a file; Esc; the process dies |

A file is a short sequence of lines, or absent, not UTF-8, or half written. A diff is
any pair of removed and added lines that a longest-common-subsequence diff may yield
(`Diffs`; the library is external). A pattern of a rule is the set of lines, files or
commands it matches. `stale`, `exits` and `left` are history variables.

### FileTools
A place is a sequence of names, a file system (`FileSystem`) a function from places, in
which everything lies in a directory that is there. `Walked` is the system's walk along a
path and `Canonical` its end, `DeepestExisting` the code's, and `Opened` what the system
makes of the code's answer. `ReadFile`, `ListDir`, `Grep`, `Glob` and `CreateFile` are
calls, `MakeEntry` is a directory or link made by somebody else. A line is a unit of
output; a read numbers its lines from 1. A path may end in a separator, for which the
system takes one more step (`Whole`) that only a directory allows; behind a link to a file
the code's resolution therefore begins at the parent and leaves the last name as it is.
One thing is left out: a link leads to a place, not to another link or through one
(`Straight`), so that chains and loops of links are not covered.

### Headless
`Quietly`, `Write`, `EndTurn`, `LoseTurn`, `Proceed` … are steps of AgentLoop together with
the events they send; `Send` waits for room in the channel; `Printer` is the loop of
`headless::run`, whose stdout may be closed; `WorkerEnds` closes the channel.

### Catalog, Commands, Startup
`Starting` chooses a command line and loads the configuration. `Setup` is the form, key by
key, with the login and `Remember` (`RememberDies` leaves a cut file). `Loading` resolves
model and key, starts servers one by one and opens the session. `InSession` has `/model`
(`SwitchModel` and the task `SetProvider`), calls to servers and prompt commands.
`Elsewhere` is what a person does in another terminal. An identifier is a sequence of
segments (`<<"openai", "gpt-4.1">>`); a key is the sequence of providers that were on
the screen when its characters were typed. A server goes by its position in `mcp.toml`, as
`connect` takes them in the order of their names; a name of a server or tool is the
sequence of the pieces it is made of, an underscore being one, so that two names can make
one qualified name in two ways. A text of a command is a sequence of pieces as well: `$`,
a digit or `ARGUMENTS`, white space, anything else. A placeholder is two of them, and can
come about when one replacement puts two together that were apart; that is why `Filled`
is ten passes over the text and not one.

### Learning
`Start` loads, `Ask` validates what a model wrote, `Skip` and `Press` are the keys,
`Answer` records and empties the file, `Save` fills it, `Leave` ends or kills the
session. `Cut` says what an interrupted write leaves: whole tables, of the last one
perhaps fewer digits of its count of right answers, text that is no profile, or half a
character. `Over` is a write on top of what another process has written since the file was
emptied, of which the end can stick out behind, and `CutOver` one that is interrupted
besides; there a number or a name can go on with the end of another, and the table that
this makes is one of `Mixes`, of which nothing is assumed but the type. `given`,
`disturbed`, `cutShort` and `mixed` are history variables.

## 3. Runs

| run | checks | shows |
|---|---|---|
| `AgentTurns` | `ChangeIsConfirmed`, `PanelCoversWrites`, `RepetitionIsCut`, `RunEnds` | one prompt with every kind of tool and decision, repetitions over two turns, failures, Esc, teaching |
| `AgentSession` | `GreenTickIsEarned`, `OverspendBounded`, `RunAnswersItsCalls` | three prompts, earlier ones stopped, failed or past the limit: nothing earned or owed by one counts in the next |
| `ToolCalls` | `HooksDecide`, `FileIsWhole`, `EvidenceIsWatched`, `PatchKeepsOthersLines`, `ApprovedIsApplied`, `CopyIsWhatWasReplaced`, `BrokenRulesAreReported`, `CallsEnd` | every kind of call, hook and rule while somebody else writes the file at any step |
| `FileTools` | `ReadsStayInside`, `WritesStayInside`, `FragmentsAreMarked` | paths in, out and around the workspace, with and without a separator at their end, over links that come and go; every limit reached |
| `UndoRefines` | `StackIsImplemented`, `UndoAdvances`, `NothingToUndoIsTrue` | deaths at every step with every kind of torn line: the code implements the stack |
| `UndoFullDisk` | `SavedCopiesAreGenuine` | failing copies and lines, both processes at once: what can be restored is genuine |
| `TuiSession` | `AskedIsHeard`, `DecisionsAreAboutTheShownChange`, `StatusIsRight`, `EveryRunEnds` | dialogs, full channels, Esc, quitting, another task at the mutex |
| `ProviderTurn` | `CallsAreWhole`, `CallsKeepTheirOrder`, `WholeStreamIsAccountedFor`, `NamedEndingIsTrue` | every answer on both protocols, mixed, cut off, ended early or broken |
| `Headless` | `ZeroExitIsEarned`, `CommandEnds` | the channel full, stdout closed, changes declined, checks failing |
| `Startup` | `SetupLasts`, `KeyMeetsItsProvider`, `KeysAreFiledWhereTyped`, `DoctorIsRight`, `EveryServerIsAccountedFor`, `ArgumentsArrive` | two starts over layers, flags, keys, servers, commands and broken files |
| `Learning` | `CountsAreEarned`, `NothingIsForgotten` | two sessions, deaths, full disks, overlapping writes |
| `AgentUnanswered` | `EveryRequestIsValid` | **violated**, finding 1 |

The type invariants (`TypeOK` and the like) are stated in the modules and proved.
`UndoLeadsBack` and `SeqIsUnique` of UndoLog are proved (`ChangesLeadBack`,
`NumbersAreUnique`); TLC finds both to hold with `UndoRefines.cfg`, too.

### Bounds
* Agent: two turns of at most two calls are enough for a repetition inside a turn, over
  turns, and for a threshold of 3 that needs both; two write calls to two files, one
  read and one test give every path of the gate. A limit of 2 with turns that cost 0
  or 1 is reached within a run, between runs, and by the question. Three prompts
  let a third run start after the limit was crossed by the second.
  The code's 25 turns and threshold of 3 are constants; the proofs are for all values.
* Undo: two files and two contents tell a restored file from any other; two changes to
  one file give an entry below an entry; three undos walk past the last one, once by
  each process; two sessions let the second start from what a death has left. One other
  event is enough to put a line behind a torn one.
* ProviderStream: three blocks let two calls interleave around or after a text, and an
  order of two be wrong; two pieces let a call be half there. Every answer within these
  bounds is an initial state. The violated run needs one block and one protocol.
* Tui: channels of 2 instead of 256 and 8, so that both fill up; two runs and the events
  between them; two requests per run, so that an aborted run's and a live one's
  lie in the channel together; one further task at the mutex.

* ToolCalls: one call is the unit, as nothing but the blanket approval outlasts it, and
  AgentLoop has several; two edits by others can fall into any two of the gaps between the
  three readings and the rename; two files, of which one is exempt from a rule; two lines,
  so that texts of up to three lines have repeated ones. Three hooks let one be refused
  after another has passed.
* FileTools: limits of 3 where the code has 500, 200 and a size in bytes: a read reaches
  the size alone, and a search its limit of matches together with the size, which then
  cuts off the mark of the search; three steps let something change between two calls.
  Links to a file of the workspace and to one outside of it, each asked for with and
  without a separator.
* Headless: a channel of 2 for 256; two turns of two calls; one piece of text.
* Startup: two processes, since what a start leaves is found by the next; one edit from
  elsewhere; a key of one character, blank or not; one call of a tool or use of a
  command per session, as neither changes anything that lasts; three servers, one of them
  disabled, two with a tool of the same name and with another that makes one qualified name
  (`web` with `new__get`, `web__new` with `get`). One body with placeholders apart, one with
  `$` before a placeholder; words with a digit, a `$`, a placeholder.
* Learning: two sessions that overlap in every way, three starts and three questions
  over two concepts, one of them spelled in two ways; one weak spot fits into the prompt
  instead of five. Counts have digits of base 2, so that a count of two has a digit to
  lose. Two tables stand for what mixed texts can read as, one of them of a concept that
  nobody was asked about.

Deadlock is not checked: the models stop when their prompts, undos or runs are used up or
the turn is over, and the system may well stop there.

### Fairness
`AgentLoop!FairSpec` has weak fairness on the steps of the task: the runtime polls it,
and the provider, tools, hooks (which have timeouts) and the person eventually answer.
A person who walks away from a diff stops the run, and so does the code. No fairness
on prompts or Esc. `Tui!FairSpec` has weak fairness on the loop's two
receivers, on the dialogs (a person shown one answers), on each task and on the drop of
an aborted one; none on prompts, Esc, commands or quitting. `UndoLog` has no liveness:
every undo is a straight line. `ToolCalls` is fair to the steps and timers of the agent's
task only: hooks and commands may hang for ever and the person may be away, and
`CallsEnd` holds all the same. `Headless` is fair to both tasks, to the model and to
the tools. `Startup` and `Learning` have no liveness: a server that never answers does hold up
a start for good.

### Findings
1. *Unanswered calls.* A declined turn (`Gate::Aborted`), a loop stop or Esc leaves
   an assistant message with tool calls and no results; the next prompt follows it.
   The code's own comment says that such a request is invalid for every provider.
   What holds instead is `RunAnswersItsCalls`: no run does this to itself.

Claims of the documentation that the modules state and TLC refutes, without a run of
their own; the configuration named, or a run's with the definition added to it, gives
the counterexample:

| definition | how | what happens |
|---|---|---|
| `AgentLoop!NothingChangesUnseen` | `AgentUnseenChange.cfg` | a new empty file has a diff without lines, which reads as "no change", so it is created unasked |
| `UndoLog!UndoNeverRepeats` | `UndoRepeats.cfg` | an append after a torn line is lost with it: an undo reports success and is offered again; `Recall` of UndoStack shows why this does the files no harm |
| `UndoLog!TornLineIsHarmless` | `UndoTornLine.cfg` | a last line cut inside a character makes `read_to_string` fail (`checkpoint.rs:124`), so nothing of the session can be undone any more: "a truncated final line is expected after a crash and must not make the whole log unreadable" (`checkpoint.rs:134`, whose test cuts between characters) |
| `Tui!OneRunAtATime` | `TuiSecondRun.cfg` | the last event of an aborted run ends the next one in the eyes of the UI: a third prompt is accepted beside it |
| `ProviderStream!TruncationIsVisible` | `ProviderTruncation.cfg` | on the OpenAI protocol the reason is taken from the chunk with the usage, which has no choices when it comes by itself: an answer of text that hit the limit ends as `Completed` |
| `ToolCalls!OnlyWatchedCodesCount` | `ToolEvidence.cfg` | the result of a shell call starts with the command itself, so a line `exit code: 0` in the text of the command is read as its exit code (`shell.rs:217` and `parse_exit_code`) |
| `FileTools!ReadsNeverLeave` | `FileReads.cfg` | of `to/`, where `to` is a link to a file outside, only the parent can be resolved, so the result is the place of the link; it passes the check, and `read_file` and `grep` read what the link leads to. A resolved path is "symlink-resolved, guaranteed to be inside `root`" (`path.rs:39`). `ReadsStayInside` shows that this is the only way out; nothing is written that way, since the rename replaces the link |
| `FileTools!ListingsAreMarked` | `FileTools.cfg` | `list_dir` and `glob` stop at 500 entries without a word, and before they sort |
| `Startup!ReadyMeansStarts` | `Startup.cfg` | doctor does not look at `mcp.toml`, hooks, commands or the profile, and says "ready" when one of them ends every start |
| `Startup!ShownModelIsUsed` | `Startup.cfg` with a second identifier in `MCWantedModels` | two quick `/model` switches are two tasks that may get the agent in the other order |
| `Startup!ToolNamesAreUnique` | `Startup.cfg` | `new__get` of server `web` and `get` of `web__new` are both `mcp__web__new__get`; a call goes to the first, and the second cannot be reached. The name is made "so two servers offering a `search` tool stay distinguishable" (`tool.rs:10`), which `EveryServerIsAccountedFor` shows of tools of one name |
| `Startup!PlaceholdersBecomeWords` | `Startup.cfg` | each replacement works on what the ones before have left: of `under $$1` and the word `50` the first makes `under $50`, in which `$5` is then replaced by nothing. "`$1`…`$9` are the whitespace-separated words" (`commands.rs:49`) |
| `Learning!MissesAreReal` | `Learning.cfg` | a save that ends inside `correct = 12` leaves `correct = 1`, which is valid: with `seen = 12` the profile counts eleven misses that nobody had, and prompts name the concept. A cut file is treated as a fresh start only when it does not parse (`learn.rs:193`) |
| `Learning!CorruptStartsFresh` | `Learning.cfg` | a profile cut inside a character is not UTF-8, which is an error of the read, not of the parser: no session starts any more, with or without `--learn`. "A corrupt profile is not worth failing a session over" (`learn.rs:193`) |
| `Learning!SomeKeyIsRight` | `Learning.cfg` | of a question with ten options the tenth cannot be chosen: what `learn.rs:104` calls "worse than not asking at all" |

Further places where the code does something else than its documentation suggests,
seen while modelling and not kept as runs:
* `true-code undo` "reverts the most recent change recorded in this project"
  (`tc-cli/src/lib.rs:391`) but looks only at the newest log; starting a session that
  changes nothing hides everything before it.
* A body that ends early without an error, or after an error event (which is ignored), ends
  the turn as `Completed` without a cost. `WholeStreamIsAccountedFor` therefore speaks of
  streams that reached their last event.
* A turn whose arguments do not parse fails before its usage is read, and is not billed.
* A call cut off before the first piece of its arguments is run with `{}`.
* "Verified" needs a passed test in the run, not after its last change
  (`proof.rs`, `verdict`): tests first, then an edit, gives a green tick.
* "Stopped: you declined the change. Nothing was written." is sent also when an earlier
  change of the same run was approved and written.
* Esc ends a run without a panel, although every exit of `run` shows one, and drops
  results of tools that have already run.
* The comprehension question is added to the session's cost on the screen, but no
  event with this cost is written to the log.
* After a failed write the log is off and `/undo` says that the session changed nothing.
  `NothingToUndoIsTrue` is therefore checked for disks that do not fail.
* `true-code undo` next to a live session can give one sequence number to two events.
  `SeqIsUnique` is proved for processes one after the other.
* A `Started` event read after Esc leaves the UI "Working" with nothing in flight; Esc
  clears it.
* With the budget used up, the UI accepts no input any more, `/undo` included.
* "Most-missed first" (`learn.rs:230`) sorts by right answers, not by wrong ones: a
  concept missed once in its only question comes before one missed ten times out of twelve.
* What a stop hook runs is never evidence (`finish`), though its comment says it can be.
* A hook that "was killed" after its timeout is not: its future is dropped, its process
  goes on. `left` of ToolCalls counts such processes.
* An `exit code:` line that is no number, when it comes first, hides the real one.
* Exit code 0 of `-p` does not exclude that a hook refused a call, that `--yes` approved a
  broken rule, or that a change came after the last test.
* `list_dir` of a file or of nothing says that it is empty. `new/../x`, with no `new`, is
  `new/x` to the tools, as `..` has no file name to put back: never outside, as
  `WritesStayInside` shows, but not the file that was named.
* A key in the environment is not enough where no keyring can be opened: `key_for` fails on
  the keyring first, and its message advises to set the variable.
* The key that setup promises to use "for this session only" is never used: the
  session asks the keyring again.
* A blank `TRUE_CODE_MODEL` is a blank `--model`; the configuration would have ignored it.
  Setup can save it.
* `--model` is dropped when another provider is chosen in setup; when the provider is
  right and only the model foreign, setup ends in the same error each time.
* `remember_provider` drops lines of a multi-line string that read like one of its two
  settings, and rewrites the file in place, so a death can leave a provider without its model.
* Ctrl+C types a `c` into the key of the setup screen.
* Words typed after a command that read `$1` are expanded again, as
  `PlaceholdersBecomeWords` admits; `$10` is `$1` and a `0`.
  Commands called `undo`, `handoff`, `help` or `model` are listed and cannot be reached.
* `checkpoint` returns before it records the change when the path cannot be resolved any
  more (`lib.rs:757`). It was resolved for the preview, and normally the tool, which resolves
  it once more, fails then as well. Should somebody take a directory on the way away and
  bring it back between the two, the file is changed without being in the panel or in the
  undo log. AgentLoop and ToolCalls keep the directories on the way to a file as they are
  from the preview to the tool, so their `WithChange` and `Checkpoint` always record.
* A start that fails after the log was opened leaves a session that hides undo.
* A model without a price costs nothing, so the budget never stops it.

## 4. Proofs

TLC checks the small instances of section 3; the theorems below hold for every value of
the constants that the named assumptions admit: any number of calls, prompts, sessions,
servers or concepts, channels of any size, and each bound of section 3 at any height. Every
inductive invariant was checked by TLC on the instance of its run, or on a smaller one,
before it was proved. TLC evaluates the assumptions in every run.

| theorems | properties | assumptions |
|---|---|---|
| `AgentLoop_proofs` `TypeCorrect`, `BudgetHolds`, `ConsentHolds`, `PanelIsComplete`, `GreenTickHolds`, `RepetitionHolds`, `RunAnswersHolds` | types, `OverspendBounded`, `ChangeIsConfirmed`, `PanelCoversWrites`, `GreenTickIsEarned`, `RepetitionIsCut`, `RunAnswersItsCalls` | the three of AgentLoop |
| `AgentLoop_proofs` `HeadlessRunsTheAgent`, `HeadlessTypeCorrect`, `ZeroExitHolds` | Headless implements AgentLoop; types; `ZeroExitIsEarned` | those, `ChannelAssumption`, `PromptAssumption` (one prompt, an approver that always answers the same, as `headless::run` sets them up) |
| `ToolCalls_proofs` `TypeCorrect`, `FilesStayWhole`, `PatchesKeepOthersLines`, `WhatWasApprovedIsApplied`, `CopiesAreWhatWasReplaced`, `RulesAreReported`, `HooksDecideAsDocumented`, `EvidenceWasWatched` | types, `FileIsWhole`, `PatchKeepsOthersLines`, `ApprovedIsApplied`, `CopyIsWhatWasReplaced`, `BrokenRulesAreReported`, `HooksDecide`, `EvidenceIsWatched` | the inputs of a call are those of its tool's schema; a file that is half written is none of the contents; hooks are a sequence |
| `ToolCalls_proofs` `FileTypesHold`, `WritesAreInside`, `ReadsAreInside`, `FragmentsMarked` | types and the cap on output, `WritesStayInside`, `ReadsStayInside`, `FragmentsAreMarked` | the four of FileTools: limits are positive, trees are file systems with straight links, paths have one way to be written |
| `UndoStack_proofs` `StackTypeCorrect`, `StackLeadsBack` | types, `LeadsBack` | none |
| `UndoLog_proofs` `TypeCorrect`, `SavedCopiesHold` | types, `SavedCopiesAreGenuine` | `UndoAssumption` |
| `UndoLog_proofs` `NumbersAreUnique` | `SeqIsUnique` | the same, and one process at a time; the disk may fail |
| `UndoLog_proofs` `UndoIsTheStack`, `UndosAdvance`, `ChangesLeadBack`, `NothingIsLeft` | `StackIsImplemented`, `UndoAdvances`, `UndoLeadsBack`, `NothingToUndoIsTrue` | `UndoAssumption`, and `Sound`: the disk takes what is written, and one process works at a time |
| `Tui_proofs` `TypeCorrect`, `NobodyWaitsUnheard`, `DecidedAsShown`, `StatusHolds`, `OneRunUntilEsc` | types with the bounds of both channels, `AskedIsHeard`, `DecisionsAreAboutTheShownChange`, `StatusIsRight`, no second run before Esc | `TuiAssumption`: channels have room for one |
| `ProviderStream_proofs` `TypeCorrect`, `CallsArriveWhole`, `CallsArriveInOrder`, `WholeStreamHolds`, `NamedEndingHolds` | types, `CallsAreWhole`, `CallsKeepTheirOrder`, `WholeStreamIsAccountedFor`, `NamedEndingIsTrue` | `ReplyAssumption`: only the last block can be cut off, by the limit |
| `Learning_proofs` `TypeCorrect`, `CountsHold`, `NothingLost` | types, `CountsAreEarned`, `NothingIsForgotten` | `LearningAssumption`, `RawAssumption`, and `MixesAssumption`: what mixed texts read as is a table |
| `Startup_proofs` `StartupTypeCorrect`, `KeysMeetTheirProviders`, `NoKeyIsMisfiled`, `SavedSetupLasts`, `DoctorTellsTheTruth` | types, `KeyMeetsItsProvider`, `KeysAreFiledWhereTyped`, `SetupLasts`, `DoctorIsRight` | `StartupAssumption`, `LayersAssumption`: what is not given is no provider and no model |
| `Startup_proofs` `ServersAreAccountedFor` | `EveryServerIsAccountedFor` | `ServersAssumption`: no two tables of `mcp.toml` have one name |
| `Startup_proofs` `ArgumentsReachTheModel` | `ArgumentsArrive` | `CommandsAssumption`: bodies and words are made of pieces; the property itself speaks of bodies that are `Separate` and words that are `Plain` |

### The arguments

*AgentLoop.* Besides the types, the type invariant says that a call is being handled only
while there is one, which `calls[idx]` needs. At most `Limit - 1 + 2 * MaxCost` is ever
spent: `BudgetInv` adds that a request in flight started below the limit, and that once
more than one turn's worth is over the limit, a run has changed nothing and so asks
nothing; that is why prompt after prompt cannot add a question each. `EvidenceInv` adds
that a change is in the proof before its tool runs and that a green test in the proof or
in the panel was watched by this run. `RepetitionInv` relates what has run, what this turn
still has to run (`Pending`, a cardinality) and `repeats`, which counts a turn before it
runs. `ConversationInv` says that while tools run the last message is the assistant's, the
results collected are those of the calls before the current one, and nothing else dangles
after the last prompt. `ChangeIsConfirmed` is inductive as it stands.

*Headless.* Each step is a step of AgentLoop or leaves the agent alone
(`HeadlessRunsTheAgent`), so what is proved of the agent holds here too. `ZeroExitIsEarned` is about
an exit code that the printer sets late: the invariant says that whatever went wrong is
`Noticed`, in the exit code, in the channel, or in what the worker still has to send, and
that the pieces of text printed, sent and to be sent are all the pieces there were.

*ToolCalls.* `FileInv` has the order of a call (`InOrder`), a disk on which nothing is half
written, with the content to be renamed in the temporary file (`DiskIsWhole`), a preview
that is the change of the content it was made from and has been judged by the rules
(`PreviewHolds`), and for each of the three readings of the file that it still is what the file
holds unless it was made stale (`SnapshotsHold`). The four properties of an applied
change compare one step of `Rename` with it. That a patch loses no line of others and that a
new line is among the added ones are arguments by counting occurrences, from the definition of
a diff. `HooksInv` counts: hooks heard and hooks left are the hooks of the call, until one
refuses. `EvidenceInv` puts what the result in hand will add (`Pending`) beside
the evidence.

*FileTools.* What is needed of the state is only that the tree is a file system
(`FileSystem`), which a file created in it and an entry made by somebody else preserve.
The rest is about one resolution in any such tree. As far as a walk gets, it stands at a
real place, one without a link on its way; from the point where it gets no further, the
code appends names, and below a place without that name there is nothing. So a resolved
place is real, new below a real one, or, for a path with a separator at its end, what
lies there unresolved (`DeepestFacts`); if that is no link it is the place the system opens,
and to begin with the names of the root is to lie below it. A search that begins at such a
place goes on below it and follows no link (`SearchInside`). `FragmentsAreMarked` follows the
collection of matches file by file: each that is in a file is in the list, with its
number, and a cut leaves a mark or leaves the list whole.

*UndoStack.* The oldest entry of every file holds what it held when the session began,
whatever is saved, touched, dropped or recalled. The strengthening is `Numbered`: no two
entries share a number.

*UndoLog.* `CopiesInv` needs no assumption on failures: it follows a copy from its capture
through its line in the log, of which a death can leave a part, to the undo that reads
it. The refinement needs `StackInv`: the place of a line is its number (`Numbered`),
a live session has a whole log (`LiveInv`), what is being changed or undone is under the
newest entry (`NewestInv`), and a revert that can still be lost is the last line of the
log, older than it is all that is left to undo, and its file is covered by such an entry
or back (`TornInv`); this last part is what makes the `Recall` of the stack possible when
the next append takes the torn line with it. Every step of the code is then a step
of the stack or none, and `ChangesLeadBack` is `StackLeadsBack` carried over by it.
`NothingIsLeft` follows from that theorem: with no entry left, all files are back.
`SeqInv`, for `NumbersAreUnique`: the numbers that can be read rise, a session that still
logs is ahead of them, and who continues the log of another has read all of it
(`ReopenedIsAbove`). The last part is needed since `reopen` starts at 0 in a log that it
cannot read; that never does harm, as `last_undoable` has failed before.

*Tui.* `ScreenInv` ties the reply channel to the change on the screen. `Flight` holds until Esc
is pressed or the loop ends: at most one turn is alive, its handle is the one the UI has,
and its last event is the last of its kind in the channel. `OneRunUntilEsc` is what remains
true of the claim that `TuiSecondRun.cfg` refutes.

*ProviderStream.* The calls that have reached the agent are whole and are ordered by their
rank among the calls of the reply (`ContentInv`). On one protocol the closed blocks are
closed under "earlier", those that are open are under construction, with the pieces sent
so far (`AnthropicInv`); on the other all calls are under construction until the finish
reason and none after it (`OpenAiInv`). `EndingInv` ties the bill and the ending to the last event.

*Learning.* `EarnedInv`: what a record counts and what a session still has in hand for it was
answered; it holds for every session's own copy, so overlapping sessions and deaths can
only lose counts. What a cut leaves of a text counts no more than the text (a shorter number
is a smaller one), but a count of right answers can shrink where the one of all answers
does not; so the part about misses, and about prompts, holds while no save is cut off, and
none of it once a cut text is mixed with another. `KeptInv`: without a disturbance one session is open at most, and its
copy together with its answers in hand is everything.

*Startup.* `ModelInv` says that what was resolved, is shown or is on its way fits the
configured provider, which no later step changes; `KeysInv` that a key in the form was
typed under one heading, because the heading moves only while there is none, and that a
filed one begins and ends with a character. `PromiseInv` follows a saved choice through the project's
file into the next configuration, where a promised key keeps the setup away. `ReportInv` says that
a report is about the present setup, and that a headless start which nothing disturbed
uses the present setup, too; both are needed, as either may come first. `Accounted` says of
the servers of a session that each is to come, up or failed, and no two of these; that
the tools on offer are built in or of a server, and of one that is up all of
them; and which tools can share a name. The first piece of a qualified name tells it
from the built-in ones (`QualifiedBegins`). When two servers' tools have one, the servers
have the same name exactly when the tools have (`SameParts`, from the lengths), and as
no name is in the table twice, the two tools are the same or differ in both (`SameNames`).
`CallInv` ties a call's result to the tool it went to.

*Commands.* `Substitute` and `Filled` are recursions over a length; `RecursionExists` says
that such a function exists, so that what was put together after each step can be named
(`SubstituteSteps`, `FillingSteps`). The ten passes are shown to be one (`FilledFacts`) by
taking on one number after the other (`OneMore`): a pass changes only the placeholders of
the body, since what earlier passes have put in holds none of a word (`PlainIsSettled`), and
a `$` at the end of what was put together so far is one of the body that begins no
placeholder replaced before (`DollarsOfBody`), so nothing new comes about where two parts
meet (`SubstituteBoth`). Both conditions are needed, as `PlaceholdersBecomeWords` shows.

Arguments by induction over numbers, such as the least entry of a file or the rank of a
call, go through the least number of a set.

### Only model-checked

* Liveness: `RunEnds`, `CallsEnd`, `EveryRunEnds`, `CommandEnds`. They rest on the fairness
  above, that is, on when an action is enabled, which these provers cannot handle.
* With both processes at once only the copies are proved, with failing writes only these
  and the numbers: then undo is not the stack, as the findings above show.

## 5. Not modelled, and why

Drawing, wording, scrolling and editing of the prompt line: no state that others depend on.
Building of requests, HTTP, and the wire protocols below the events of a stream and the
results of an MCP call: libraries, or data no property tells apart. Prices, context
windows and the warning threshold: money is abstract here. Commands that print what they
read (`models`, `config`, `constraints`, `hooks`, `update`, `verify`). Line endings, and the
JSON of arguments and results. Regular expressions and globs, which are sets of what they
match. Two sessions live in one workspace at the same time, except for their profile: the log
of the older one is never read again while the newer one exists; their edits of
the same file are edits by somebody else. Edits by hand between a change and its undo: undo
overwrites them, as the README of the repository says. A backup deleted by hand.

## 6. Plan

Done: the agent loop, undo and its abstraction, the terminal UI, provider streams, tool
calls, reading tools, headless mode, startup and learning, with their runs; all type
invariants and all safety properties of the runs proved, but for those that are violated.
What is left: of `Tui` and `AgentLoop`, that a run as the UI sees it is an abstraction of
a run of the agent.
