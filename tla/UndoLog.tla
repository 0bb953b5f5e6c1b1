------------------------------- MODULE UndoLog -------------------------------
(***************************************************************************)
(* Undo as the code does it: crates/tc-agent/src/session.rs (the event     *)
(* log), checkpoint.rs (backups, last_undoable, restore), the checkpoint   *)
(* and the undo of the agent (lib.rs), and `true-code undo`, which is      *)
(* another process (crates/tc-cli/src/lib.rs, undo_last).                  *)
(*                                                                         *)
(* One workspace with the log of its newest session; only the newest is    *)
(* ever read.  Each action is what one process does between two points at  *)
(* which it can die or the other one can run.  A line of the log is        *)
(* reduced to what undo reads; a line that does not parse is "garbage".    *)
(* Both kinds of undo go through the same steps, so an undoer is a         *)
(* parameter: the session itself (/undo) or the command line.              *)
(***************************************************************************)
EXTENDS Integers, Sequences, FiniteSets

CONSTANTS
    Files,          \* files of the workspace
    Contents,       \* what the tools write into a file
    Absent,         \* the file does not exist
    Partial,        \* the file was cut off in the middle of a copy
    NoFile,         \* stands where a line or a change names no file
    MaxSessions,    \* bound: sessions started in the workspace
    MaxChanges,     \* bound: changes in a session
    MaxUndos,       \* bound: undos started on a session
    MaxNotes,       \* bound: other events a session logs
    CanCrash,       \* a process can die between two steps
    TornExtents,    \* ... and how much of the line it was writing it leaves
    CanFail,        \* writing a backup or a line can fail (a full disk)
    Concurrent      \* `true-code undo` can run next to a live session

(* How much of a line reaches the file: "unterminated" lacks the newline,  *)
(* "character" ends inside a character, so that the file is not UTF-8.     *)
Extents == {"whole", "unterminated", "part", "character", "nothing"}

ASSUME UndoAssumption ==
    /\ NoFile \notin Files
    /\ Absent \notin Contents /\ Partial \notin Contents /\ Absent # Partial
    /\ MaxSessions \in Nat /\ MaxChanges \in Nat /\ MaxUndos \in Nat /\ MaxNotes \in Nat
    /\ CanCrash \in BOOLEAN /\ TornExtents \subseteq Extents
    /\ CanFail \in BOOLEAN /\ Concurrent \in BOOLEAN

Values == Contents \cup {Absent, Partial}
Undoers == {"session", "cli"}

VARIABLES
    disk,       \* the files of the workspace
    log,        \* lines of events.jsonl
    cut,        \* its last line has no newline
    backups,    \* files of the backups directory, numbered from 1
    started,    \* sessions started so far
    live,       \* the newest session is still running
    logging,    \* its SessionLog still has a file
    seq,        \* its SessionLog::seq
    change,     \* its change under way: where it is, its file, its backup
    undo,       \* per undoer, the undo under way: where it is and its entry
    answer,     \* what the last undo told its user
    changes,    \* changes begun in this session
    undos,      \* undos begun in this session
    notes,      \* other events logged in this session
    origin      \* history variable: the workspace when this session started

bounds == <<changes, undos, notes>>
sessionVars == <<started, live, logging, seq>>
vars == <<disk, log, cut, backups, sessionVars, change, undo, answer, bounds, origin>>

-----------------------------------------------------------------------------
(* The log. *)

(* A checkpoint's backup is 0 when the file did not exist; `was` is only   *)
(* for the properties: what the file held when it was captured.            *)
Lines ==
    [kind : {"checkpoint", "reverted", "other", "garbage", "undecodable"}, seq : Nat,
     file : Files \cup {NoFile}, backup : Nat, undoes : Nat, was : Values]

Line(kind, n) ==
    [kind |-> kind, seq |-> n, file |-> NoFile, backup |-> 0, undoes |-> 0, was |-> Absent]

Garbage == Line("garbage", 0)
Undecodable == Line("undecodable", 0)
Checkpointed(n) ==
    [Line("checkpoint", n) EXCEPT !.file = change.file, !.backup = change.backup,
                                  !.was = change.was]

(* Mutant: the revert names the event before the checkpoint. *)
RevertedOneBefore(n, target) == [Line("reverted", n) EXCEPT !.undoes = target - 1]

Reverted(n, target) == [Line("reverted", n) EXCEPT !.undoes = target]

(* What follows a line without its newline becomes part of that line,      *)
(* which then parses no more.                                              *)
Appended(line, extent) ==
    LET torn == IF extent = "character" \/ (cut /\ log[Len(log)] = Undecodable)
                THEN Undecodable ELSE Garbage
    IN  IF extent = "nothing" THEN log
        ELSE IF cut THEN [log EXCEPT ![Len(log)] = torn]
        ELSE Append(log, IF extent \in {"part", "character"} THEN torn ELSE line)

AppendLine(line, extent) ==
    /\ log' = Appended(line, extent)
    /\ cut' = IF extent = "nothing" THEN cut ELSE extent # "whole"

RevertedSeqs == {log[i].undoes : i \in {j \in DOMAIN log : log[j].kind = "reverted"}}

(* Where the log has checkpoints that no revert refers to. *)
Undoables ==
    {i \in DOMAIN log : log[i].kind = "checkpoint" /\ log[i].seq \notin RevertedSeqs}

Oldest == CHOOSE i \in Undoables : \A j \in Undoables : i <= j
Newest == CHOOSE i \in Undoables : \A j \in Undoables : j <= i

(* The log is read as a whole, and refused if a line of it is not UTF-8.   *)
Legible == \A i \in DOMAIN log : log[i].kind # "undecodable"

(* The sequence number SessionLog::reopen continues with. *)
Readable == {i \in DOMAIN log : log[i].kind \notin {"garbage", "undecodable"}}

ReopenedSeq ==
    IF ~Legible \/ Readable = {} THEN 0
    ELSE 1 + (CHOOSE n \in {log[i].seq : i \in Readable} :
                \A i \in Readable : log[i].seq <= n)

Saved(line) == IF line.backup = 0 THEN Absent ELSE backups[line.backup]

-----------------------------------------------------------------------------

NoChange == [at |-> "idle", file |-> NoFile, backup |-> 0, was |-> Absent]
NoUndo == [at |-> "idle", entry |-> Garbage]
Idle(u) == undo[u].at = "idle"

Init ==
    /\ disk \in [Files -> Contents \cup {Absent}]
    /\ log = <<>>
    /\ cut = FALSE
    /\ backups = <<>>
    /\ started = 0
    /\ live = FALSE
    /\ logging = FALSE
    /\ seq = 0
    /\ change = NoChange
    /\ undo = [u \in Undoers |-> NoUndo]
    /\ answer = "none"
    /\ changes = 0
    /\ undos = 0
    /\ notes = 0
    /\ origin = disk

(* SessionLog::create and Checkpoints::new: an empty log, which is the     *)
(* newest from now on.  Nobody starts a session in the middle of an undo.  *)
StartSession ==
    /\ ~live
    /\ Idle("cli")
    /\ started < MaxSessions
    /\ started' = started + 1
    /\ live' = TRUE
    /\ logging' = TRUE
    /\ seq' = 0
    /\ log' = <<>>
    /\ cut' = FALSE
    /\ backups' = <<>>
    /\ answer' = "none"
    /\ changes' = 0
    /\ undos' = 0
    /\ notes' = 0
    /\ origin' = disk
    /\ UNCHANGED <<disk, change, undo>>

EndSession ==
    /\ live
    /\ change.at = "idle"
    /\ Idle("session")
    /\ live' = FALSE
    /\ UNCHANGED <<disk, log, cut, backups, started, logging, seq, change, undo, answer,
                   bounds, origin>>

(* SessionLog::append in the live session: the number advances, a failed   *)
(* write turns the log off for good.                                       *)
SessionAppends(line, extent) ==
    /\ seq' = seq + 1
    /\ IF logging
       THEN /\ extent = "whole" \/ CanFail
            /\ AppendLine(line, extent)
            /\ logging' = (extent = "whole")
       ELSE extent = "nothing" /\ UNCHANGED <<log, cut, logging>>

(* Any event that undo does not read. *)
Note(extent) ==
    /\ live
    /\ Idle("session")
    /\ notes < MaxNotes
    /\ notes' = notes + 1
    /\ SessionAppends(Line("other", seq), extent)
    /\ UNCHANGED <<disk, backups, started, live, change, undo, answer, changes, undos,
                   origin>>

-----------------------------------------------------------------------------
(* A change: the copy, then the event, then the tool. *)

(* Mutant: one backup slot, whatever the number of changes. *)
CaptureInOneSlot(f) ==
    /\ live
    /\ change.at = "idle"
    /\ Idle("session")
    /\ changes < MaxChanges
    /\ changes' = changes + 1
    /\ IF disk[f] = Absent
       THEN /\ change' = [at |-> "captured", file |-> f, backup |-> 0, was |-> Absent]
            /\ UNCHANGED backups
       ELSE /\ change' = [at |-> "captured", file |-> f, backup |-> 1, was |-> disk[f]]
            /\ backups' = <<disk[f]>>
    /\ UNCHANGED <<disk, log, cut, sessionVars, undo, answer, undos, notes, origin>>

(* Checkpoints::capture: the file's content under a new number. *)
Capture(f) ==
    /\ live
    /\ change.at = "idle"
    /\ Idle("session")
    /\ changes < MaxChanges
    /\ changes' = changes + 1
    /\ IF disk[f] = Absent
       THEN /\ change' = [at |-> "captured", file |-> f, backup |-> 0, was |-> Absent]
            /\ UNCHANGED backups
       ELSE /\ change' = [at |-> "captured", file |-> f, backup |-> Len(backups) + 1,
                          was |-> disk[f]]
            /\ backups' = Append(backups, disk[f])
    /\ UNCHANGED <<disk, log, cut, sessionVars, undo, answer, undos, notes, origin>>

(* The copy fails.  The number may be used up; the change goes ahead.      *)
CaptureFails(f) ==
    /\ CanFail
    /\ live
    /\ change.at = "idle"
    /\ Idle("session")
    /\ disk[f] # Absent
    /\ changes < MaxChanges
    /\ changes' = changes + 1
    /\ change' = [at |-> "logged", file |-> f, backup |-> 0, was |-> disk[f]]
    /\ backups' \in {backups, Append(backups, Partial)}
    /\ UNCHANGED <<disk, log, cut, sessionVars, undo, answer, undos, notes, origin>>

LogCheckpoint(extent) ==
    /\ change.at = "captured"
    /\ change' = [change EXCEPT !.at = "logged"]
    /\ SessionAppends(Checkpointed(seq), extent)
    /\ UNCHANGED <<disk, backups, started, live, undo, answer, bounds, origin>>

(* The tool renames its temporary file over the target. *)
WriteFile(c) ==
    /\ change.at = "logged"
    /\ disk' = [disk EXCEPT ![change.file] = c]
    /\ change' = NoChange
    /\ UNCHANGED <<log, cut, backups, sessionVars, undo, answer, bounds, origin>>

(* The tool fails, or Esc drops the run before it starts. *)
SkipWrite ==
    /\ change.at = "logged"
    /\ change' = NoChange
    /\ UNCHANGED <<disk, log, cut, backups, sessionVars, undo, answer, bounds, origin>>

-----------------------------------------------------------------------------
(* An undo. *)

(* The agent's own undo holds the agent, so it never overlaps a change of  *)
(* its session; the command line knows nothing of a running session.       *)
MayUndo(u) ==
    /\ Idle(u)
    /\ undos < MaxUndos
    /\ IF u = "session" THEN live /\ change.at = "idle" ELSE started > 0
    /\ u = "cli" /\ live => Concurrent

(* A session whose log was turned off has no path to read. *)
NothingFound(u) == (Legible /\ Undoables = {}) \/ (u = "session" /\ ~logging)

Refuse(u) ==
    /\ MayUndo(u)
    /\ NothingFound(u)
    /\ undos' = undos + 1
    /\ answer' = "nothing"
    /\ UNCHANGED <<disk, log, cut, backups, sessionVars, change, undo, changes, notes,
                   origin>>

(* Mutant: the oldest change is undone first. *)
FindOldest(u) ==
    /\ MayUndo(u)
    /\ ~NothingFound(u) /\ Legible
    /\ undos' = undos + 1
    /\ undo' = [undo EXCEPT ![u] = [at |-> "found", entry |-> log[Oldest]]]
    /\ answer' = "none"
    /\ UNCHANGED <<disk, log, cut, backups, sessionVars, change, changes, notes, origin>>

Find(u) ==
    /\ MayUndo(u)
    /\ ~NothingFound(u) /\ Legible
    /\ undos' = undos + 1
    /\ undo' = [undo EXCEPT ![u] = [at |-> "found", entry |-> log[Newest]]]
    /\ answer' = "none"
    /\ UNCHANGED <<disk, log, cut, backups, sessionVars, change, changes, notes, origin>>

(* The log cannot be read: an error. *)
FindFails(u) ==
    /\ MayUndo(u)
    /\ ~NothingFound(u) /\ ~Legible
    /\ undos' = undos + 1
    /\ answer' = "failed"
    /\ UNCHANGED <<disk, log, cut, backups, sessionVars, change, undo, changes, notes,
                   origin>>

(* restore of a file that the change had created. *)
Remove(u) ==
    /\ undo[u].at = "found"
    /\ undo[u].entry.backup = 0
    /\ disk' = [disk EXCEPT ![undo[u].entry.file] = Absent]
    /\ undo' = [undo EXCEPT ![u].at = "restored"]
    /\ UNCHANGED <<log, cut, backups, sessionVars, change, answer, bounds, origin>>

(* restore of any other: std::fs::copy truncates the file, then fills it. *)
BeginCopy(u) ==
    /\ undo[u].at = "found"
    /\ undo[u].entry.backup # 0
    /\ disk' = [disk EXCEPT ![undo[u].entry.file] = Partial]
    /\ undo' = [undo EXCEPT ![u].at = "copying"]
    /\ UNCHANGED <<log, cut, backups, sessionVars, change, answer, bounds, origin>>

EndCopy(u) ==
    /\ undo[u].at = "copying"
    /\ disk' = [disk EXCEPT ![undo[u].entry.file] = Saved(undo[u].entry)]
    /\ undo' = [undo EXCEPT ![u].at = "restored"]
    /\ UNCHANGED <<log, cut, backups, sessionVars, change, answer, bounds, origin>>

(* The copy fails, before or after it began: an error, and no event. *)
GiveUp(u) ==
    /\ undo[u].at \in {"found", "copying"}
    /\ undo' = [undo EXCEPT ![u] = NoUndo]
    /\ answer' = "failed"
    /\ UNCHANGED <<disk, log, cut, backups, sessionVars, change, bounds, origin>>

(* The revert is logged: through the session's own log, or through the log *)
(* reopened by the command line, which reports success whatever happens.   *)
LogRevert(extent) ==
    /\ undo["session"].at = "restored"
    /\ SessionAppends(Reverted(seq, undo["session"].entry.seq), extent)
    /\ undo' = [undo EXCEPT !["session"] = NoUndo]
    /\ answer' = "reverted"
    /\ UNCHANGED <<disk, backups, started, live, change, bounds, origin>>

(* Mutant: the revert names its own event. *)
ReopenAndLogOwnSeq(extent) ==
    /\ undo["cli"].at = "restored"
    /\ extent = "whole" \/ CanFail
    /\ AppendLine(Reverted(ReopenedSeq, ReopenedSeq), extent)
    /\ undo' = [undo EXCEPT !["cli"] = NoUndo]
    /\ answer' = "reverted"
    /\ UNCHANGED <<disk, backups, sessionVars, change, bounds, origin>>

ReopenAndLogRevert(extent) ==
    /\ undo["cli"].at = "restored"
    /\ extent = "whole" \/ CanFail
    /\ AppendLine(Reverted(ReopenedSeq, undo["cli"].entry.seq), extent)
    /\ undo' = [undo EXCEPT !["cli"] = NoUndo]
    /\ answer' = "reverted"
    /\ UNCHANGED <<disk, backups, sessionVars, change, bounds, origin>>

-----------------------------------------------------------------------------
(* Death of a process, perhaps in the middle of the line it was writing. *)

LineUnderWay ==
    IF change.at = "captured" THEN Checkpointed(seq)
    ELSE IF undo["session"].at = "restored" THEN Reverted(seq, undo["session"].entry.seq)
    ELSE Line("other", seq)

SessionDies(extent) ==
    /\ CanCrash
    /\ live
    /\ logging \/ extent = "nothing"
    /\ AppendLine(LineUnderWay, extent)
    /\ live' = FALSE
    /\ change' = NoChange
    /\ undo' = [undo EXCEPT !["session"] = NoUndo]
    /\ UNCHANGED <<disk, backups, started, logging, seq, answer, bounds, origin>>

CliDies(extent) ==
    /\ CanCrash
    /\ ~Idle("cli")
    /\ undo["cli"].at = "restored" \/ extent = "nothing"
    /\ AppendLine(Reverted(ReopenedSeq, undo["cli"].entry.seq), extent)
    /\ undo' = [undo EXCEPT !["cli"] = NoUndo]
    /\ UNCHANGED <<disk, backups, sessionVars, change, answer, bounds, origin>>

-----------------------------------------------------------------------------

SessionStep ==
    \/ StartSession
    \/ EndSession
    \/ SkipWrite
    \/ \E extent \in Extents : Note(extent) \/ LogCheckpoint(extent)
    \/ \E f \in Files : Capture(f) \/ CaptureFails(f)
    \/ \E c \in Contents : WriteFile(c)

UndoStep ==
    \/ \E u \in Undoers :
        \/ Refuse(u) \/ Find(u) \/ FindFails(u)
        \/ Remove(u) \/ BeginCopy(u) \/ EndCopy(u) \/ GiveUp(u)
    \/ \E extent \in Extents : LogRevert(extent) \/ ReopenAndLogRevert(extent)

Death == \E extent \in TornExtents : SessionDies(extent) \/ CliDies(extent)

Next == SessionStep \/ UndoStep \/ Death

Spec == Init /\ [][Next]_vars

-----------------------------------------------------------------------------

Changes == [at : {"idle", "captured", "logged"}, file : Files \cup {NoFile},
            backup : Nat, was : Values]
Undos == [at : {"idle", "found", "copying", "restored"}, entry : Lines]

(* The state has the types of SessionLog, Checkpoints and the locals of    *)
(* the two undos.                                                          *)
TypeOK ==
    /\ disk \in [Files -> Values]
    /\ log \in Seq(Lines)
    /\ cut \in BOOLEAN
    /\ cut => log # <<>>
    /\ backups \in Seq(Values)
    /\ started \in Nat
    /\ live \in BOOLEAN
    /\ logging \in BOOLEAN
    /\ seq \in Nat
    /\ change \in Changes
    /\ undo \in [Undoers -> Undos]
    /\ answer \in {"none", "nothing", "failed", "reverted"}
    /\ changes \in Nat /\ undos \in Nat /\ notes \in Nat
    /\ origin \in [Files -> Values]

(* The abstract stack: the undoable checkpoints with what they saved,      *)
(* numbered by their place in the log.                                     *)
EntriesOfLog ==
    {[n |-> i, file |-> log[i].file, before |-> Saved(log[i])] : i \in Undoables}

Stack == INSTANCE UndoStack WITH files <- disk, entries <- EntriesOfLog

(* Deaths of either process at any step, torn lines and half-copied files  *)
(* included, undo is the stack of UndoStack: nothing is written that the   *)
(* newest entry does not protect, nothing is dropped that is not restored. *)
StackIsImplemented == Stack!StackSpec

(* However often a process dies, the changes of a session can still be     *)
(* undone back to the files it started from.                               *)
UndoLeadsBack == Stack!LeadsBack

(* Every checkpoint that can be restored finds the bytes that its file     *)
(* held when it was captured, full disks and a second process included.    *)
SavedCopiesAreGenuine ==
    \A i \in Undoables :
        /\ log[i].backup <= Len(backups)
        /\ Saved(log[i]) = log[i].was

(* Unless a line is torn, an undo that reports success takes the newest    *)
(* change, and no other, off those that can be undone.                     *)
UndoAdvances ==
    [][answer' = "reverted" /\ answer # "reverted" /\ ~cut =>
            Undoables' = Undoables \ {Newest}]_vars

(* "The revert is itself an event: a second `undo` walks one step further  *)
(* back rather than repeating itself" (crates/tc-cli/src/lib.rs, undo).    *)
UndoNeverRepeats ==
    [][answer' = "reverted" /\ answer # "reverted" => Newest \notin Undoables']_vars

(* "A truncated final line is expected after a crash and must not make the *)
(* whole log unreadable" (crates/tc-agent/src/checkpoint.rs).              *)
TornLineIsHarmless == [][undos' # undos => answer' # "failed"]_vars

(* "`seq` addresses an event uniquely" (crates/tc-agent/src/session.rs),   *)
(* through deaths, torn lines and a process that continues the log of      *)
(* another: with two events of one number, one revert takes off two        *)
(* changes.                                                                *)
SeqIsUnique ==
    \A i, j \in Readable : log[i].seq = log[j].seq => i = j

(* "nothing to undo" is said only when no change of this session is left. *)
NothingToUndoIsTrue ==
    [][answer' = "nothing" /\ undos' # undos => disk = origin]_vars

=============================================================================
