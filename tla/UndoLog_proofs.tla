---------------------------- MODULE UndoLog_proofs ----------------------------
(* Proofs about UndoLog, for every number of sessions, changes and undos,    *)
(* and every set of files and contents.                                     *)
EXTENDS UndoLog, SequenceTheorems, WellFoundedInduction, TLAPS

-----------------------------------------------------------------------------
(* The invariants. *)

(* A copy is there, and is what the file held when it was captured. *)
Genuine(line) ==
    /\ line.backup <= Len(backups)
    /\ Saved(line) = line.was

(* So are the copies of all checkpoints, also of those already undone. *)
Certified(line) == line.kind = "checkpoint" => line.file \in Files /\ Genuine(line)

LogInv == \A i \in DOMAIN log : Certified(log[i])

(* A change and an undo of the session exclude each other and die with it;  *)
(* a checkpoint that is about to be logged has its copy.                    *)
ChangeInv ==
    change.at # "idle" =>
        /\ live /\ Idle("session")
        /\ change.file \in Files
        /\ change.at = "captured" => Genuine(change)

(* What is being restored is the copy of a file. *)
UndoInv ==
    /\ ~Idle("session") => live
    /\ \A u \in Undoers : ~Idle(u) =>
        undo[u].entry.file \in Files /\ undo[u].entry.backup <= Len(backups)

CopiesInv == TypeOK /\ LogInv /\ ChangeInv /\ UndoInv

(* Checkpoints are numbered by their places, and reverts name earlier ones. *)
Numbered(s) ==
    /\ \A i \in DOMAIN s : s[i].kind = "checkpoint" => s[i].seq = i - 1
    /\ \A i \in DOMAIN s : s[i].kind = "reverted" => s[i].undoes < i - 1

(* While a session lives, its log is whole, and nobody else undoes.         *)
LiveInv ==
    /\ live => logging /\ ~cut /\ seq = Len(log)
    /\ ~Idle("cli") => ~live

(* A change that has been logged is under the newest entry, one that has    *)
(* not been has not begun; and what is being undone is the newest entry.    *)
NewestInv ==
    /\ change.at = "captured" => disk[change.file] = change.was
    /\ change.at = "logged" => Undoables # {} /\ log[Newest].file = change.file
    /\ \A u \in Undoers : ~Idle(u) =>
        /\ Undoables # {} /\ undo[u].entry = log[Newest]
        /\ undo[u].at = "restored" => disk[undo[u].entry.file] = Saved(undo[u].entry)

(* A revert that can still be lost is the last line.  All that is left to   *)
(* undo is older than what it took off, whose file is covered or back.      *)
TornInv ==
    cut /\ log[Len(log)].kind = "reverted" =>
        LET e == log[Len(log)].undoes + 1 IN
        /\ e \in DOMAIN log /\ log[e].kind = "checkpoint"
        /\ \A i \in Undoables : i < e
        /\ (\A i \in Undoables : log[i].file # log[e].file) =>
                disk[log[e].file] = Saved(log[e])

StackInv == Numbered(log) /\ LiveInv /\ NewestInv /\ TornInv

-----------------------------------------------------------------------------
(* Numbers. *)

(* A set of natural numbers that is not empty has a least element. *)
LEMMA LeastNumber ==
    ASSUME NEW T \in SUBSET Nat, T # {}
    PROVE  \E m \in T : \A k \in T : m <= k
<1>1. PICK m \in T : \A k \in T : ~(<<k, m>> \in OpToRel(<, Nat))
    BY NatLessThanWellFounded, WFMin
<1>2. \A k \in T : ~(k < m)
    BY <1>1 DEF OpToRel
<1> QED
    BY <1>2

(* A set of numbers that has a bound has a greatest element. *)
LEMMA GreatestNumber ==
    ASSUME NEW n \in Nat, NEW T \in SUBSET (0..n), T # {}
    PROVE  \E m \in T : \A k \in T : k <= m
<1> DEFINE above == {b \in Nat : \A k \in T : k <= b}
<1>1. n \in above /\ above \in SUBSET Nat
    OBVIOUS
<1>2. PICK m \in above : \A b \in above : m <= b
    <2> HIDE DEF above
    <2> QED
        BY <1>1, LeastNumber
<1>3. m \in T
    <2> SUFFICES ASSUME m \notin T PROVE FALSE
        OBVIOUS
    <2>1. m \in Nat /\ \A k \in T : k \in Nat /\ k < m
        BY <1>2
    <2>2. m - 1 \in Nat /\ \A k \in T : k <= m - 1
        <3>1. PICK k \in T : TRUE
            OBVIOUS
        <3> QED
            BY <2>1, <3>1
    <2>3. m - 1 \in above /\ ~(m <= m - 1)
        BY <2>1, <2>2
    <2> HIDE DEF above
    <2> QED
        BY <1>2, <2>3
<1> QED
    BY <1>2, <1>3

(* A line has the fields of a line. *)
LEMMA LineFields ==
    ASSUME NEW s \in Seq(Lines)
    PROVE  /\ Len(s) \in Nat /\ DOMAIN s = 1..Len(s)
           /\ \A i \in DOMAIN s : s[i] \in Lines
           /\ \A i \in DOMAIN s : /\ s[i].seq \in Nat /\ s[i].backup \in Nat
                                  /\ s[i].undoes \in Nat /\ s[i].was \in Values
                                  /\ s[i].file \in Files \cup {NoFile}
<1>1. Len(s) \in Nat /\ DOMAIN s = 1..Len(s) /\ \A i \in DOMAIN s : s[i] \in Lines
    BY LenProperties
<1>2. \A x \in Lines : /\ x.seq \in Nat /\ x.backup \in Nat /\ x.undoes \in Nat /\ x.was \in Values
                       /\ x.file \in Files \cup {NoFile}
    BY DEF Lines
<1> QED
    BY <1>1, <1>2

(* The numbers of the lines of a log have a bound. *)
LEMMA NumbersHaveBound ==
    ASSUME NEW s \in Seq(Lines)
    PROVE  \E b \in Nat : \A i \in DOMAIN s : s[i].seq <= b
<1> DEFINE Bounded(m) == \E b \in Nat : \A i \in DOMAIN s : i <= m => s[i].seq <= b
           Missing == {m \in 0..Len(s) : ~Bounded(m)}
<1>0. Len(s) \in Nat /\ DOMAIN s = 1..Len(s) /\ \A i \in DOMAIN s : s[i].seq \in Nat
    BY LineFields
<1> SUFFICES ASSUME Missing # {} PROVE FALSE
    <2>1. Len(s) \in 0..Len(s) /\ \A i \in DOMAIN s : i <= Len(s)
        BY <1>0
    <2>2. Bounded(Len(s))
        <3> HIDE DEF Bounded
        <3> QED
            BY <2>1 DEF Missing
    <2> QED
        BY <2>1, <2>2
<1>1. PICK m \in Missing : \A k \in Missing : m <= k
    <2>1. Missing \in SUBSET Nat
        BY <1>0
    <2> HIDE DEF Missing
    <2> QED
        BY <2>1, LeastNumber
<1>2. m \in Nat /\ m <= Len(s) /\ ~Bounded(m)
    BY <1>0, <1>1
<1>3. m # 0
    <2>1. 0 \in Nat /\ \A i \in DOMAIN s : ~(i <= 0)
        BY <1>0
    <2> QED
        BY <1>2, <2>1
<1>4. Bounded(m - 1)
    <2>1. m - 1 \in 0..Len(s) /\ ~(m <= m - 1)
        BY <1>0, <1>2, <1>3
    <2>2. m - 1 \notin Missing
        <3> HIDE DEF Missing
        <3> QED
            BY <1>1, <2>1
    <2> QED
        BY <2>1, <2>2
<1>5. PICK b \in Nat : \A i \in DOMAIN s : i <= m - 1 => s[i].seq <= b
    BY <1>4
<1>6. m \in DOMAIN s /\ s[m].seq \in Nat
    <2> HIDE DEF Bounded, Missing
    <2>1. m \in 1..Len(s)
        BY <1>0, <1>2, <1>3
    <2> QED
        BY <1>0, <2>1
<1>7. PICK c \in Nat : b <= c /\ s[m].seq <= c
    <2> HIDE DEF Bounded, Missing
    <2> DEFINE v == s[m].seq
    <2>0. v \in Nat
        BY <1>6
    <2> HIDE DEF v
    <2>1. b + v \in Nat /\ b <= b + v /\ v <= b + v
        BY <2>0
    <2> QED
        BY <2>1 DEF v
<1>8. \A i \in DOMAIN s : i <= m => s[i].seq <= c
    <2> SUFFICES ASSUME NEW i \in DOMAIN s, i <= m PROVE s[i].seq <= c
        OBVIOUS
    <2>1. CASE i = m
        BY <1>7, <2>1
    <2>2. CASE i # m
        <3> HIDE DEF Bounded, Missing
        <3>1. i <= m - 1
            BY <1>0, <1>2, <2>2
        <3> DEFINE v == s[i].seq
        <3>2. v <= b /\ v \in Nat
            BY <1>0, <1>5, <3>1
        <3> HIDE DEF v
        <3>3. v <= c
            BY <1>7, <3>2
        <3> QED
            BY <3>3 DEF v
    <2> QED
        BY <2>1, <2>2
<1> QED
    BY <1>2, <1>8

-----------------------------------------------------------------------------
(* The log. *)

(* The newest entry is the last of those that can be undone. *)
LEMMA NewestIsLast ==
    ASSUME log \in Seq(Lines), Undoables # {}
    PROVE  Newest \in Undoables /\ \A j \in Undoables : j <= Newest
<1>1. Len(log) \in Nat /\ Undoables \in SUBSET (0..Len(log))
    BY LenProperties DEF Undoables
<1>2. \E m \in Undoables : \A k \in Undoables : k <= m
    BY <1>1, GreatestNumber
<1> QED
    BY <1>2 DEF Newest

(* The number that reopen continues with is a number. *)
LEMMA ReopenedType ==
    ASSUME log \in Seq(Lines)
    PROVE  ReopenedSeq \in Nat
<1> DEFINE S == {log[i].seq : i \in Readable}
<1>1. CASE ~Legible \/ Readable = {}
    BY <1>1 DEF ReopenedSeq
<1>2. CASE Legible /\ Readable # {}
    <2>1. PICK b \in Nat : \A i \in DOMAIN log : log[i].seq <= b
        BY NumbersHaveBound
    <2>2. \A i \in DOMAIN log : log[i].seq \in Nat
        BY LineFields
    <2>3. S \in SUBSET (0..b) /\ S # {}
        BY <1>2, <2>1, <2>2 DEF Readable
    <2>4. PICK m \in S : \A k \in S : k <= m
        <3> HIDE DEF S
        <3> QED
            BY <2>3, GreatestNumber
    <2>5. \E n \in S : \A i \in Readable : log[i].seq <= n
        BY <2>4
    <2> DEFINE top == CHOOSE n \in S : \A i \in Readable : log[i].seq <= n
    <2>6. top \in S
        BY <2>5
    <2>7. ReopenedSeq = 1 + top
        BY <1>2 DEF ReopenedSeq
    <2> HIDE DEF S, top
    <2>8. top \in Nat
        BY <2>3, <2>6
    <2> QED
        BY <2>7, <2>8
<1> QED
    BY <1>1, <1>2

(* Lines have the type of lines. *)
LEMMA LineTypes ==
    ASSUME NEW n \in Nat, TypeOK
    PROVE  /\ Line("other", n) \in Lines /\ Garbage \in Lines /\ Undecodable \in Lines
           /\ change.at # "idle" => Checkpointed(n) \in Lines
           /\ \A t \in Nat : Reverted(n, t) \in Lines
<1>1. \A k \in {"checkpoint", "reverted", "other", "garbage", "undecodable"}, j \in Nat : Line(k, j) \in Lines
    BY DEF Line, Lines, Values
<1>2. change.file \in Files \cup {NoFile} /\ change.backup \in Nat /\ change.was \in Values
    BY DEF TypeOK, Changes
<1>3. Checkpointed(n) \in Lines
    BY <1>2 DEF Checkpointed, Line, Lines
<1>4. \A t \in Nat : Reverted(n, t) \in Lines
    BY DEF Reverted, Line, Lines, Values
<1> QED
    BY <1>1, <1>3, <1>4 DEF Garbage, Undecodable

(* What an append may do to the log: it spoils the line before it, or it    *)
(* adds a line.                                                             *)
Spoilt ==
    /\ cut /\ Len(log') = Len(log) /\ DOMAIN log' = DOMAIN log
    /\ Len(log) \in DOMAIN log /\ log'[Len(log)] \in {Garbage, Undecodable}
    /\ \A i \in DOMAIN log : i # Len(log) => log'[i] = log[i]

Added(line) ==
    /\ ~cut /\ Len(log') = Len(log) + 1 /\ DOMAIN log' = DOMAIN log \cup {Len(log) + 1}
    /\ log'[Len(log) + 1] = line
    /\ \A i \in DOMAIN log : log'[i] = log[i]

(* Every append is one of these. *)
LEMMA Appends ==
    ASSUME log \in Seq(Lines), cut \in BOOLEAN, cut => log # <<>>,
           NEW line \in Lines, NEW extent \in Extents, AppendLine(line, extent)
    PROVE  /\ log' \in Seq(Lines) /\ cut' \in BOOLEAN /\ (cut' => log' # <<>>)
           /\ Len(log) \in Nat /\ DOMAIN log = 1..Len(log)
           /\ \/ extent = "nothing" /\ log' = log /\ cut' = cut
              \/ extent # "nothing" /\ cut' = (extent # "whole") /\ Spoilt
              \/ extent \in {"part", "character"} /\ cut' /\ \E x \in {Garbage, Undecodable} : Added(x)
              \/ extent \in {"whole", "unterminated"} /\ cut' = (extent # "whole") /\ Added(line)
<1>1. Len(log) \in Nat /\ DOMAIN log = 1..Len(log)
    BY LenProperties
<1>2. Garbage \in Lines /\ Undecodable \in Lines
    BY DEF Garbage, Undecodable, Line, Lines, Values
<1>3. CASE extent = "nothing"
    BY <1>1, <1>3 DEF AppendLine, Appended
<1>4. CASE extent # "nothing" /\ cut
    <2>1. PICK x \in {Garbage, Undecodable} :
            log' = [log EXCEPT ![Len(log)] = x] /\ cut' = (extent # "whole")
        BY <1>4 DEF AppendLine, Appended
    <2>2. Len(log) # 0
        BY <1>4, EmptySeq
    <2>3. Len(log) \in DOMAIN log
        BY <1>1, <2>2
    <2>4. log' \in Seq(Lines) /\ Len(log') = Len(log) /\ DOMAIN log' = DOMAIN log
        BY <1>1, <1>2, <2>1, <2>3, ExceptSeq
    <2>5. log' # <<>>
        BY <2>2, <2>4, EmptySeq
    <2>6. Spoilt
        BY <1>4, <2>1, <2>3, <2>4 DEF Spoilt
    <2> QED
        BY <1>1, <1>4, <2>1, <2>4, <2>5, <2>6
<1>5. CASE extent # "nothing" /\ ~cut
    <2>1. PICK x \in {Garbage, Undecodable, line} :
            /\ log' = Append(log, x) /\ cut' = (extent # "whole")
            /\ extent \notin {"part", "character"} => x = line
            /\ extent \in {"part", "character"} => x \in {Garbage, Undecodable}
        BY <1>5 DEF AppendLine, Appended
    <2>2. x \in Lines
        BY <1>2
    <2>3. /\ log' \in Seq(Lines) /\ Len(log') = Len(log) + 1
          /\ \A i \in 1..Len(log) : log'[i] = log[i]
          /\ log'[Len(log) + 1] = x
        BY <2>1, <2>2, AppendProperties
    <2>4. DOMAIN log' = DOMAIN log \cup {Len(log) + 1} /\ log' # <<>>
        <3>1. DOMAIN log' = 1..(Len(log) + 1) /\ Len(log') # 0
            BY <1>1, <2>3, LenProperties
        <3> QED
            BY <1>1, <3>1, EmptySeq
    <2>5. Added(x)
        BY <1>1, <1>5, <2>3, <2>4 DEF Added
    <2>6. extent \in {"whole", "unterminated", "part", "character"}
        BY <1>5 DEF Extents
    <2> QED
        BY <1>1, <2>1, <2>3, <2>4, <2>5, <2>6
<1> QED
    BY <1>3, <1>4, <1>5

(* The lines that are appended. *)
LEMMA LineKinds ==
    ASSUME NEW n, NEW t
    PROVE  /\ Garbage.kind = "garbage" /\ Undecodable.kind = "undecodable"
           /\ Line("other", n).kind = "other"
           /\ Reverted(n, t).kind = "reverted" /\ Reverted(n, t).undoes = t
           /\ Checkpointed(n).kind = "checkpoint" /\ Checkpointed(n).seq = n
           /\ Checkpointed(n).file = change.file /\ Checkpointed(n).backup = change.backup
           /\ Checkpointed(n).was = change.was
BY DEF Garbage, Undecodable, Line, Reverted, Checkpointed

(* The line that a session is writing is a line of the log. *)
LEMMA LineUnderWayType ==
    ASSUME TypeOK, ChangeInv
    PROVE  /\ LineUnderWay \in Lines
           /\ LineUnderWay.kind = "checkpoint" => change.at = "captured" /\ LineUnderWay = Checkpointed(seq)
<1>1. seq \in Nat /\ undo["session"].entry \in Lines /\ undo["session"].entry.seq \in Nat
    BY DEF TypeOK, Undos, Undoers, Lines
<1>2. CASE change.at = "captured"
    BY <1>1, <1>2, LineTypes DEF LineUnderWay
<1>3. CASE change.at # "captured" /\ undo["session"].at = "restored"
    BY <1>1, <1>3, LineTypes, LineKinds DEF LineUnderWay
<1>4. CASE change.at # "captured" /\ undo["session"].at # "restored"
    BY <1>1, <1>4, LineTypes, LineKinds DEF LineUnderWay
<1> QED
    BY <1>2, <1>3, <1>4

(* The session's own append is an append, or none when its log is off. *)
LEMMA SessionAppend ==
    ASSUME NEW line, NEW extent, TypeOK, SessionAppends(line, extent)
    PROVE  /\ AppendLine(line, extent) /\ seq' = seq + 1 /\ seq' \in Nat
           /\ logging' \in BOOLEAN
           /\ logging /\ ~CanFail => extent = "whole" /\ logging'
           /\ extent = "whole" => logging
<1>0. seq \in Nat /\ logging \in BOOLEAN
    BY DEF TypeOK
<1>1. CASE logging
    <2>1. /\ seq' = seq + 1 /\ AppendLine(line, extent)
          /\ extent = "whole" \/ CanFail
          /\ logging' = (extent = "whole")
        BY <1>1, Zenon DEF SessionAppends
    <2>2. logging' \in BOOLEAN /\ (extent = "whole" => logging')
        BY <2>1
    <2> QED
        BY <1>0, <1>1, <2>1, <2>2
<1>2. CASE ~logging
    BY <1>0, <1>2 DEF SessionAppends, AppendLine, Appended
<1> QED
    BY <1>1, <1>2

(* After an append, the log is typed and its checkpoints have their copies. *)
LEMMA AppendKeeps ==
    ASSUME TypeOK, LogInv, NEW line \in Lines, NEW extent \in Extents, AppendLine(line, extent),
           Certified(line), backups' = backups
    PROVE  /\ log' \in Seq(Lines) /\ cut' \in BOOLEAN /\ (cut' => log' # <<>>)
           /\ LogInv'
<1>1. log \in Seq(Lines) /\ cut \in BOOLEAN /\ (cut => log # <<>>)
    BY DEF TypeOK
<1>2. \A i \in DOMAIN log' : \/ i \in DOMAIN log /\ log'[i] = log[i]
                             \/ log'[i] \in {Garbage, Undecodable}
                             \/ log'[i] = line
    BY <1>1, Appends DEF Spoilt, Added
<1>3. Certified(Garbage) /\ Certified(Undecodable)
    BY LineKinds DEF Certified
<1>4. ASSUME NEW x, Certified(x) PROVE Certified(x)'
    BY <1>4 DEF Certified, Genuine, Saved
<1>5. LogInv'
    <2>1. \A i \in DOMAIN log' : Certified(log'[i])
        BY <1>2, <1>3 DEF LogInv
    <2>2. \A i \in DOMAIN log' : Certified(log[i])'
        BY <2>1 DEF Certified, Genuine, Saved
    <2> QED
        BY <2>2 DEF LogInv
<1> QED
    BY <1>1, <1>5, Appends

-----------------------------------------------------------------------------
(* Copies. *)

(* A further copy leaves the others as they are. *)
LEMMA CopyAdded ==
    ASSUME backups \in Seq(Values), NEW v \in Values, backups' = Append(backups, v)
    PROVE  /\ backups' \in Seq(Values) /\ Len(backups) \in Nat /\ Len(backups') = Len(backups) + 1
           /\ backups'[Len(backups) + 1] = v
           /\ \A x : x.backup \in Nat /\ x.backup <= Len(backups) =>
                x.backup <= Len(backups') /\ Saved(x)' = Saved(x)
<1>1. /\ backups' \in Seq(Values) /\ Len(backups) \in Nat /\ Len(backups') = Len(backups) + 1
      /\ backups'[Len(backups) + 1] = v
      /\ \A i \in 1..Len(backups) : backups'[i] = backups[i]
    BY AppendProperties, LenProperties
<1>2. ASSUME NEW x, x.backup \in Nat, x.backup <= Len(backups)
      PROVE  x.backup <= Len(backups') /\ Saved(x)' = Saved(x)
    <2>1. x.backup <= Len(backups')
        BY <1>1, <1>2
    <2>2. CASE x.backup = 0
        BY <2>1, <2>2 DEF Saved
    <2>3. CASE x.backup # 0
        <3>1. x.backup \in 1..Len(backups)
            BY <1>1, <1>2, <2>3
        <3> QED
            BY <1>1, <2>1, <2>3, <3>1 DEF Saved
    <2> QED
        BY <2>2, <2>3
<1> QED
    BY <1>1, <1>2

(* What a copy restores is a content. *)
LEMMA SavedType ==
    ASSUME backups \in Seq(Values), NEW x, x.backup \in Nat, x.backup <= Len(backups)
    PROVE  Saved(x) \in Values
<1>1. CASE x.backup = 0
    BY <1>1 DEF Saved, Values
<1>2. CASE x.backup # 0
    <2>1. x.backup \in 1..Len(backups)
        BY <1>2, LenProperties
    <2>2. backups[x.backup] \in Values
        BY <2>1, LenProperties
    <2> QED
        BY <1>2, <2>2 DEF Saved
<1> QED
    BY <1>1, <1>2

(* An empty log and an empty workspace history. *)
LEMMA CopiesInit == Init => CopiesInv
<1> SUFFICES ASSUME Init PROVE CopiesInv
    OBVIOUS
<1>1. <<>> \in Seq(Lines) /\ <<>> \in Seq(Values) /\ DOMAIN <<>> = {}
    BY EmptySeq
<1>2. disk \in [Files -> Values]
    BY DEF Init, Values
<1>3. NoChange \in Changes /\ NoUndo \in Undos
    <2>1. Garbage \in Lines
        BY DEF Garbage, Line, Lines, Values
    <2> QED
        BY <2>1 DEF NoChange, NoUndo, Changes, Undos, Values
<1>4. TypeOK
    BY <1>1, <1>2, <1>3 DEF Init, TypeOK
<1>5. LogInv
    BY <1>1 DEF Init, LogInv
<1>6. ChangeInv /\ UndoInv
    BY DEF Init, ChangeInv, UndoInv, NoChange, NoUndo, Idle, Undoers
<1> QED
    BY <1>4, <1>5, <1>6 DEF CopiesInv

(* Where log and copies stay, so does what is known of them. *)
LEMMA LogStays ==
    ASSUME LogInv, UNCHANGED <<log, backups>>
    PROVE  LogInv'
BY DEF LogInv, Certified, Genuine, Saved

(* An undo under way knows a file and has its copy. *)
LEMMA UndoFields ==
    ASSUME TypeOK, UndoInv, NEW u \in Undoers
    PROVE  /\ undo[u] \in Undos /\ undo[u].entry \in Lines
           /\ undo[u].entry.backup \in Nat /\ undo[u].entry.seq \in Nat
           /\ ~Idle(u) => Saved(undo[u].entry) \in Values /\ undo[u].entry.file \in Files
<1>1. undo[u] \in Undos /\ undo[u].entry \in Lines
    BY DEF TypeOK, Undos
<1>2. undo[u].entry.backup \in Nat /\ undo[u].entry.seq \in Nat
    BY <1>1 DEF Lines
<1>3. ~Idle(u) => Saved(undo[u].entry) \in Values /\ undo[u].entry.file \in Files
    BY <1>2, SavedType DEF UndoInv, TypeOK
<1> QED
    BY <1>1, <1>2, <1>3

(* A step of a session keeps the copies. *)
LEMMA SessionKeepsCopies == CopiesInv /\ SessionStep => CopiesInv'
<1> SUFFICES ASSUME CopiesInv, SessionStep PROVE CopiesInv'
    OBVIOUS
<1> USE DEF CopiesInv
<1>0. /\ disk \in [Files -> Values] /\ log \in Seq(Lines) /\ backups \in Seq(Values)
      /\ seq \in Nat /\ change \in Changes /\ undo \in [Undoers -> Undos]
      /\ started \in Nat /\ changes \in Nat /\ notes \in Nat /\ Len(backups) \in Nat
    BY LenProperties DEF TypeOK
<1>1. CASE StartSession
    <2>1. <<>> \in Seq(Lines) /\ <<>> \in Seq(Values) /\ DOMAIN <<>> = {}
        BY EmptySeq
    <2>2. TypeOK'
        <3>1. /\ started' \in Nat /\ log' = <<>> /\ backups' = <<>> /\ cut' = FALSE
              /\ UNCHANGED <<disk, change, undo>> /\ origin' = disk
              /\ live' = TRUE /\ logging' = TRUE /\ seq' = 0 /\ answer' = "none"
              /\ changes' = 0 /\ undos' = 0 /\ notes' = 0
            BY <1>0, <1>1 DEF StartSession
        <3> QED
            BY <1>0, <2>1, <3>1 DEF TypeOK
    <2>3. LogInv'
        BY <1>1, <2>1 DEF StartSession, LogInv
    <2>4. change.at = "idle" /\ Idle("session") /\ Idle("cli") /\ UNCHANGED <<change, undo>>
        BY <1>1 DEF StartSession, ChangeInv, UndoInv
    <2>5. ChangeInv' /\ UndoInv'
        BY <2>4 DEF ChangeInv, UndoInv, Idle, Undoers
    <2> QED
        BY <2>2, <2>3, <2>5
<1>2. CASE EndSession
    <2>1. TypeOK' /\ LogInv'
        BY <1>2, LogStays DEF EndSession, TypeOK, bounds
    <2>2. ChangeInv' /\ UndoInv'
        BY <1>2 DEF EndSession, ChangeInv, UndoInv, Idle, Undoers
    <2> QED
        BY <2>1, <2>2
<1>3. CASE SkipWrite
    <2>1. NoChange \in Changes
        BY DEF NoChange, Changes, Values
    <2>2. TypeOK' /\ LogInv'
        BY <1>3, <2>1, LogStays DEF SkipWrite, TypeOK, bounds, sessionVars
    <2>3. ChangeInv' /\ UndoInv'
        BY <1>3 DEF SkipWrite, ChangeInv, UndoInv, Idle, Undoers, NoChange, sessionVars
    <2> QED
        BY <2>2, <2>3
<1>4. ASSUME NEW extent \in Extents, Note(extent) PROVE CopiesInv'
    <2>1. /\ AppendLine(Line("other", seq), extent) /\ seq' \in Nat /\ logging' \in BOOLEAN
          /\ Line("other", seq) \in Lines /\ Line("other", seq).kind = "other"
        BY <1>0, <1>4, SessionAppend, LineTypes, LineKinds DEF Note
    <2>2. /\ log' \in Seq(Lines) /\ cut' \in BOOLEAN /\ (cut' => log' # <<>>)
          /\ LogInv'
        <3>1. PICK line \in Lines : line = Line("other", seq)
            BY <2>1
        <3>2. AppendLine(line, extent)
            BY <2>1, <3>1 DEF AppendLine, Appended
        <3>3. Certified(line) /\ backups' = backups
            BY <1>4, <2>1, <3>1 DEF Note, Certified
        <3> QED
            BY <3>2, <3>3, AppendKeeps
    <2>3. TypeOK'
        BY <1>0, <1>4, <2>1, <2>2 DEF Note, TypeOK
    <2>4. ChangeInv' /\ UndoInv'
        BY <1>4 DEF Note, ChangeInv, UndoInv, Idle, Undoers, Genuine, Saved
    <2> QED
        BY <2>2, <2>3, <2>4
<1>5. ASSUME NEW extent \in Extents, LogCheckpoint(extent) PROVE CopiesInv'
    <2>1. /\ AppendLine(Checkpointed(seq), extent) /\ seq' \in Nat /\ logging' \in BOOLEAN
          /\ Checkpointed(seq) \in Lines
        BY <1>0, <1>5, SessionAppend, LineTypes DEF LogCheckpoint
    <2>2. /\ log' \in Seq(Lines) /\ cut' \in BOOLEAN /\ (cut' => log' # <<>>)
          /\ LogInv'
        <3>1. PICK line \in Lines : line = Checkpointed(seq)
            BY <2>1
        <3>2. AppendLine(line, extent)
            BY <2>1, <3>1 DEF AppendLine, Appended
        <3>3. Certified(line) /\ backups' = backups
            BY <1>5, <3>1, LineKinds DEF LogCheckpoint, ChangeInv, Certified, Genuine, Saved
        <3> QED
            BY <3>2, <3>3, AppendKeeps
    <2>3. change' \in Changes /\ change'.at = "logged" /\ change'.file = change.file
        BY <1>0, <1>5 DEF LogCheckpoint, Changes
    <2>4. TypeOK'
        BY <1>0, <1>5, <2>1, <2>2, <2>3 DEF LogCheckpoint, TypeOK, bounds
    <2>5. ChangeInv' /\ UndoInv'
        BY <1>5, <2>3 DEF LogCheckpoint, ChangeInv, UndoInv, Idle, Undoers
    <2> QED
        BY <2>2, <2>4, <2>5
<1>6. ASSUME NEW f \in Files, Capture(f) PROVE CopiesInv'
    <2>1. CASE disk[f] = Absent
        <3>1. change' = [at |-> "captured", file |-> f, backup |-> 0, was |-> Absent] /\ backups' = backups
            BY <1>6, <2>1 DEF Capture
        <3>2. change' \in Changes
            BY <3>1 DEF Changes, Values
        <3>3. TypeOK' /\ LogInv'
            BY <1>0, <1>6, <3>1, <3>2, LogStays DEF Capture, TypeOK, sessionVars
        <3>4. Genuine(change)'
            BY <1>0, <3>1 DEF Genuine, Saved
        <3>5. ChangeInv' /\ UndoInv'
            BY <1>6, <3>1, <3>4 DEF Capture, ChangeInv, UndoInv, Idle, Undoers, sessionVars
        <3> QED
            BY <3>3, <3>5
    <2>2. CASE disk[f] # Absent
        <3>1. /\ change' = [at |-> "captured", file |-> f, backup |-> Len(backups) + 1, was |-> disk[f]]
              /\ backups' = Append(backups, disk[f]) /\ disk[f] \in Values
            BY <1>0, <1>6, <2>2 DEF Capture
        <3>2. /\ backups' \in Seq(Values) /\ Len(backups') = Len(backups) + 1
              /\ backups'[Len(backups) + 1] = disk[f]
              /\ \A x : x.backup \in Nat /\ x.backup <= Len(backups) =>
                    x.backup <= Len(backups') /\ Saved(x)' = Saved(x)
            BY <1>0, <3>1, CopyAdded
        <3>3. change' \in Changes
            BY <1>0, <3>1 DEF Changes
        <3>4. TypeOK'
            BY <1>0, <1>6, <3>2, <3>3 DEF Capture, TypeOK, sessionVars
        <3>5. log' = log /\ undo' = undo /\ live' = live /\ live /\ Idle("session")
            BY <1>6 DEF Capture, sessionVars
        <3>6. LogInv'
            <4>1. \A i \in DOMAIN log : log[i].backup \in Nat
                BY <1>0, LineFields
            <4> QED
                BY <3>2, <3>5, <4>1 DEF LogInv, Certified, Genuine
        <3>7. Genuine(change)'
            <4>1. change'.backup = Len(backups) + 1 /\ change'.backup # 0 /\ change'.was = disk[f]
                BY <1>0, <3>1
            <4> QED
                BY <1>0, <3>2, <4>1 DEF Genuine, Saved
        <3>8. ChangeInv'
            BY <3>1, <3>5, <3>7 DEF ChangeInv, Idle
        <3>9. UndoInv'
            <4>1. \A u \in Undoers : undo[u].entry.backup \in Nat
                BY UndoFields
            <4> QED
                BY <1>0, <3>2, <3>5, <4>1 DEF UndoInv, Idle
        <3> QED
            BY <3>4, <3>6, <3>8, <3>9
    <2> QED
        BY <2>1, <2>2
<1>7. ASSUME NEW f \in Files, CaptureFails(f) PROVE CopiesInv'
    <2>1. /\ change' = [at |-> "logged", file |-> f, backup |-> 0, was |-> disk[f]]
          /\ disk[f] \in Values /\ Partial \in Values
          /\ log' = log /\ undo' = undo /\ live' = live /\ live /\ Idle("session")
        BY <1>0, <1>7 DEF CaptureFails, sessionVars, Values
    <2>2. change' \in Changes
        BY <2>1 DEF Changes
    <2>3. /\ backups' \in Seq(Values) /\ Len(backups') \in Nat
          /\ \A x : x.backup \in Nat /\ x.backup <= Len(backups) =>
                x.backup <= Len(backups') /\ Saved(x)' = Saved(x)
        <3>1. CASE backups' = backups
            BY <1>0, <3>1 DEF Saved
        <3>2. CASE backups' = Append(backups, Partial)
            BY <1>0, <2>1, <3>2, CopyAdded
        <3> QED
            BY <1>7, <3>1, <3>2 DEF CaptureFails
    <2>4. TypeOK'
        BY <1>0, <1>7, <2>2, <2>3 DEF CaptureFails, TypeOK, sessionVars
    <2>5. LogInv'
        <3>1. \A i \in DOMAIN log : log[i].backup \in Nat
            BY <1>0, LineFields
        <3> QED
            BY <2>1, <2>3, <3>1 DEF LogInv, Certified, Genuine
    <2>6. ChangeInv'
        BY <2>1 DEF ChangeInv, Idle
    <2>7. UndoInv'
        <3>1. \A u \in Undoers : undo[u].entry.backup \in Nat
            BY UndoFields
        <3> QED
            BY <1>0, <2>1, <2>3, <3>1 DEF UndoInv, Idle
    <2> QED
        BY <2>4, <2>5, <2>6, <2>7
<1>8. ASSUME NEW c \in Contents, WriteFile(c) PROVE CopiesInv'
    <2>1. NoChange \in Changes /\ c \in Values
        BY DEF NoChange, Changes, Values
    <2>2. TypeOK' /\ LogInv'
        BY <1>0, <1>8, <2>1, LogStays DEF WriteFile, TypeOK, bounds, sessionVars
    <2>3. ChangeInv' /\ UndoInv'
        BY <1>8 DEF WriteFile, ChangeInv, UndoInv, Idle, Undoers, NoChange, sessionVars
    <2> QED
        BY <2>2, <2>3
<1> QED
    BY <1>1, <1>2, <1>3, <1>4, <1>5, <1>6, <1>7, <1>8 DEF SessionStep

(* A step of an undo keeps the copies. *)
LEMMA UndoKeepsCopies == CopiesInv /\ UndoStep => CopiesInv'
<1> SUFFICES ASSUME CopiesInv, UndoStep PROVE CopiesInv'
    OBVIOUS
<1> USE DEF CopiesInv
<1>0. /\ disk \in [Files -> Values] /\ log \in Seq(Lines) /\ backups \in Seq(Values)
      /\ seq \in Nat /\ change \in Changes /\ undo \in [Undoers -> Undos]
      /\ undos \in Nat /\ Len(backups) \in Nat
    BY LenProperties DEF TypeOK
<1>1. ASSUME NEW u \in Undoers, Refuse(u) \/ FindFails(u) PROVE CopiesInv'
    <2>1. TypeOK' /\ LogInv'
        BY <1>0, <1>1, LogStays DEF Refuse, FindFails, TypeOK, sessionVars
    <2>2. ChangeInv' /\ UndoInv'
        BY <1>1 DEF Refuse, FindFails, ChangeInv, UndoInv, Idle, Undoers, Genuine, Saved, sessionVars
    <2> QED
        BY <2>1, <2>2
<1>2. ASSUME NEW u \in Undoers, Find(u) PROVE CopiesInv'
    <2>1. /\ undo' = [undo EXCEPT ![u] = [at |-> "found", entry |-> log[Newest]]]
          /\ UNCHANGED <<disk, log, cut, backups, sessionVars, change, changes, notes, origin>>
          /\ undos' = undos + 1 /\ answer' = "none"
          /\ Undoables # {} /\ MayUndo(u)
        BY <1>2 DEF Find, NothingFound
    <2>2. Newest \in DOMAIN log /\ log[Newest].kind = "checkpoint"
        BY <1>0, <2>1, NewestIsLast DEF Undoables
    <2>3. log[Newest] \in Lines /\ log[Newest].file \in Files /\ log[Newest].backup <= Len(backups)
        BY <1>0, <2>2, LineFields DEF LogInv, Certified, Genuine
    <2>4. undo' \in [Undoers -> Undos]
        BY <1>0, <2>1, <2>3 DEF Undos
    <2>5. TypeOK' /\ LogInv'
        BY <1>0, <2>1, <2>4, LogStays DEF TypeOK, sessionVars
    <2>6. ChangeInv'
        BY <2>1 DEF ChangeInv, MayUndo, Idle, Undoers, Genuine, Saved, sessionVars
    <2>7. UndoInv'
        <3>1. /\ live' = live /\ backups' = backups
              /\ u = "session" => live
              /\ undo'[u].entry = log[Newest]
              /\ \A v \in Undoers : v # u => undo'[v] = undo[v]
            BY <1>0, <2>1 DEF MayUndo, sessionVars
        <3>2. "session" \in Undoers
            BY DEF Undoers
        <3> QED
            BY <2>3, <3>1, <3>2 DEF UndoInv, Idle
    <2> QED
        BY <2>5, <2>6, <2>7
<1>3. ASSUME NEW u \in Undoers, Remove(u) \/ BeginCopy(u) \/ EndCopy(u) PROVE CopiesInv'
    <2>1. /\ UNCHANGED <<log, cut, backups, sessionVars, change, answer, bounds, origin>>
          /\ ~Idle(u)
          /\ undo' = [undo EXCEPT ![u].at = "restored"] \/ undo' = [undo EXCEPT ![u].at = "copying"]
          /\ \E v \in {Absent, Partial, Saved(undo[u].entry)} :
                disk' = [disk EXCEPT ![undo[u].entry.file] = v]
        BY <1>3 DEF Remove, BeginCopy, EndCopy, Idle
    <2>2. disk' \in [Files -> Values]
        <3>1. {Absent, Partial, Saved(undo[u].entry)} \subseteq Values
            BY <2>1, UndoFields DEF Values
        <3> QED
            BY <1>0, <2>1, <3>1
    <2>3. undo' \in [Undoers -> Undos]
        <3>1. undo[u] \in Undos
            BY <1>0
        <3> QED
            BY <1>0, <2>1, <3>1 DEF Undos
    <2>4. TypeOK' /\ LogInv'
        BY <2>1, <2>2, <2>3, LogStays DEF TypeOK, bounds, sessionVars
    <2>5. ASSUME NEW v \in Undoers
          PROVE  undo'[v].entry = undo[v].entry /\ (Idle(v)' <=> Idle(v))
        <3>1. CASE v = u
            <4>1. undo[u] \in Undos
                BY <1>0
            <4>2. undo[u].entry = undo'[u].entry /\ undo'[u].at \in {"restored", "copying"}
                BY <1>0, <2>1, <4>1 DEF Undos
            <4> QED
                BY <2>1, <3>1, <4>2 DEF Idle
        <3>2. CASE v # u
            BY <1>0, <2>1, <3>2 DEF Idle
        <3> QED
            BY <3>1, <3>2
    <2>6. ChangeInv' /\ UndoInv'
        BY <2>1, <2>5 DEF ChangeInv, UndoInv, Undoers, Genuine, Saved, sessionVars
    <2> QED
        BY <2>4, <2>6
<1>4. ASSUME NEW u \in Undoers, GiveUp(u) PROVE CopiesInv'
    <2>1. NoUndo \in Undos
        <3>1. Garbage \in Lines
            BY DEF Garbage, Line, Lines, Values
        <3> QED
            BY <3>1 DEF NoUndo, Undos
    <2>2. TypeOK' /\ LogInv'
        BY <1>0, <1>4, <2>1, LogStays DEF GiveUp, TypeOK, bounds, sessionVars
    <2>3. UNCHANGED <<change, backups, live>> /\ \A v \in Undoers : undo'[v] = undo[v] \/ undo'[v].at = "idle"
        BY <1>0, <1>4 DEF GiveUp, NoUndo, sessionVars
    <2>4. ChangeInv' /\ UndoInv'
        BY <2>3 DEF ChangeInv, UndoInv, Idle, Undoers, Genuine, Saved
    <2> QED
        BY <2>2, <2>4
<1>5. ASSUME NEW extent \in Extents, LogRevert(extent) \/ ReopenAndLogRevert(extent)
      PROVE  CopiesInv'
    <2>1. PICK line \in Lines : /\ line.kind = "reverted" /\ AppendLine(line, extent)
                                /\ seq' \in Nat /\ logging' \in BOOLEAN
        <3>1. CASE LogRevert(extent)
            <4>1. undo["session"].entry.seq \in Nat
                BY UndoFields DEF Undoers
            <4>2. SessionAppends(Reverted(seq, undo["session"].entry.seq), extent)
                BY <3>1 DEF LogRevert
            <4>3. /\ Reverted(seq, undo["session"].entry.seq) \in Lines
                  /\ Reverted(seq, undo["session"].entry.seq).kind = "reverted"
                BY <1>0, <4>1, LineTypes, LineKinds
            <4>4. /\ AppendLine(Reverted(seq, undo["session"].entry.seq), extent)
                  /\ seq' \in Nat /\ logging' \in BOOLEAN
                BY <4>2, SessionAppend
            <4> QED
                BY <4>3, <4>4
        <3>2. CASE ReopenAndLogRevert(extent)
            <4>1. undo["cli"].entry.seq \in Nat /\ ReopenedSeq \in Nat
                BY <1>0, UndoFields, ReopenedType DEF Undoers
            <4>2. /\ Reverted(ReopenedSeq, undo["cli"].entry.seq) \in Lines
                  /\ Reverted(ReopenedSeq, undo["cli"].entry.seq).kind = "reverted"
                BY <4>1, LineTypes, LineKinds
            <4>3. /\ AppendLine(Reverted(ReopenedSeq, undo["cli"].entry.seq), extent)
                  /\ seq' = seq /\ logging' = logging
                BY <3>2 DEF ReopenAndLogRevert, sessionVars
            <4> QED
                BY <4>2, <4>3 DEF TypeOK
        <3> QED
            BY <1>5, <3>1, <3>2
    <2>2. /\ UNCHANGED <<disk, backups, started, live, change, bounds, origin>>
          /\ answer' = "reverted"
          /\ \E u \in Undoers : undo' = [undo EXCEPT ![u] = NoUndo]
        BY <1>5 DEF LogRevert, ReopenAndLogRevert, Undoers, sessionVars
    <2>3. /\ log' \in Seq(Lines) /\ cut' \in BOOLEAN /\ (cut' => log' # <<>>)
          /\ LogInv'
        <3>1. Certified(line)
            BY <2>1 DEF Certified
        <3> QED
            BY <2>1, <2>2, <3>1, AppendKeeps
    <2>4. NoUndo \in Undos
        <3>1. Garbage \in Lines
            BY DEF Garbage, Line, Lines, Values
        <3> QED
            BY <3>1 DEF NoUndo, Undos
    <2>5. TypeOK'
        <3>1. undo' \in [Undoers -> Undos]
            BY <1>0, <2>2, <2>4
        <3> QED
            BY <2>1, <2>2, <2>3, <3>1 DEF TypeOK, bounds
    <2>6. \A v \in Undoers : undo'[v] = undo[v] \/ undo'[v].at = "idle"
        BY <1>0, <2>2 DEF NoUndo
    <2>7. ChangeInv' /\ UndoInv'
        BY <2>2, <2>6 DEF ChangeInv, UndoInv, Idle, Undoers, Genuine, Saved
    <2> QED
        BY <2>3, <2>5, <2>7
<1> QED
    BY <1>1, <1>2, <1>3, <1>4, <1>5 DEF UndoStep

(* A death keeps the copies. *)
LEMMA DeathKeepsCopies == CopiesInv /\ Death => CopiesInv'
<1> SUFFICES ASSUME CopiesInv, NEW extent \in TornExtents, SessionDies(extent) \/ CliDies(extent)
             PROVE  CopiesInv'
    BY DEF Death
<1> USE DEF CopiesInv
<1>0. extent \in Extents /\ undo \in [Undoers -> Undos] /\ log \in Seq(Lines)
    BY UndoAssumption DEF TypeOK
<1>1. NoUndo \in Undos /\ NoChange \in Changes
    <2>1. Garbage \in Lines
        BY DEF Garbage, Line, Lines, Values
    <2> QED
        BY <2>1 DEF NoUndo, Undos, NoChange, Changes, Values
<1>2. CASE SessionDies(extent)
    <2>1. PICK line \in Lines : line = LineUnderWay
        BY LineUnderWayType
    <2>2. AppendLine(line, extent)
        BY <1>2, <2>1 DEF SessionDies, AppendLine, Appended
    <2>3. Certified(line)
        BY <2>1, LineUnderWayType, LineKinds DEF Certified, ChangeInv, Genuine, Saved
    <2>4. /\ UNCHANGED <<disk, backups, started, logging, seq, answer, bounds, origin>>
          /\ live' = FALSE /\ change' = NoChange
          /\ undo' = [undo EXCEPT !["session"] = NoUndo]
        BY <1>2 DEF SessionDies
    <2>5. /\ log' \in Seq(Lines) /\ cut' \in BOOLEAN /\ (cut' => log' # <<>>)
          /\ LogInv'
        BY <1>0, <2>2, <2>3, <2>4, AppendKeeps
    <2>6. TypeOK'
        BY <1>0, <1>1, <2>4, <2>5 DEF TypeOK, bounds
    <2>7. "session" \in Undoers /\ Idle("session")'
          /\ \A v \in Undoers : undo'[v] = undo[v] \/ undo'[v].at = "idle"
        BY <1>0, <2>4 DEF NoUndo, Idle, Undoers
    <2>8. ChangeInv'
        BY <2>4 DEF ChangeInv, NoChange
    <2>9. UndoInv'
        BY <2>4, <2>7 DEF UndoInv, Idle
    <2> QED
        BY <2>5, <2>6, <2>8, <2>9
<1>3. CASE CliDies(extent)
    <2>1. undo["cli"].entry.seq \in Nat /\ ReopenedSeq \in Nat
        BY <1>0, UndoFields, ReopenedType DEF Undoers
    <2>2. PICK line \in Lines : line = Reverted(ReopenedSeq, undo["cli"].entry.seq)
        BY <2>1, LineTypes
    <2>3. AppendLine(line, extent)
        BY <1>3, <2>2 DEF CliDies, AppendLine, Appended
    <2>4. Certified(line)
        BY <2>2, LineKinds DEF Certified
    <2>5. /\ UNCHANGED <<disk, backups, sessionVars, change, answer, bounds, origin>>
          /\ undo' = [undo EXCEPT !["cli"] = NoUndo]
        BY <1>3 DEF CliDies
    <2>6. /\ log' \in Seq(Lines) /\ cut' \in BOOLEAN /\ (cut' => log' # <<>>)
          /\ LogInv'
        BY <1>0, <2>3, <2>4, <2>5, AppendKeeps
    <2>7. TypeOK'
        BY <1>0, <1>1, <2>5, <2>6 DEF TypeOK, bounds, sessionVars
    <2>8. \A v \in Undoers : undo'[v] = undo[v] \/ undo'[v].at = "idle"
        BY <1>0, <2>5 DEF NoUndo
    <2>9. ChangeInv' /\ UndoInv'
        BY <2>5, <2>8 DEF ChangeInv, UndoInv, Idle, Undoers, Genuine, Saved, sessionVars
    <2> QED
        BY <2>6, <2>7, <2>9
<1> QED
    BY <1>2, <1>3

(* Copies are genuine in every state. *)
LEMMA CopiesAlways == Spec => []CopiesInv
<1>1. CopiesInv /\ [Next]_vars => CopiesInv'
    <2>1. CopiesInv /\ UNCHANGED vars => CopiesInv'
        <3> SUFFICES ASSUME CopiesInv, UNCHANGED vars PROVE CopiesInv'
            OBVIOUS
        <3>1. TypeOK' /\ LogInv'
            BY LogStays DEF CopiesInv, vars, bounds, sessionVars, TypeOK
        <3>2. ChangeInv' /\ UndoInv'
            BY DEF CopiesInv, vars, sessionVars, ChangeInv, UndoInv, Idle, Undoers, Genuine, Saved
        <3> QED
            BY <3>1, <3>2 DEF CopiesInv
    <2> QED
        BY <2>1, SessionKeepsCopies, UndoKeepsCopies, DeathKeepsCopies DEF Next
<1> QED
    BY CopiesInit, <1>1, PTL DEF Spec

(* SessionLog, Checkpoints and both undos keep their types. *)
THEOREM TypeCorrect == Spec => []TypeOK
<1>1. CopiesInv => TypeOK
    BY DEF CopiesInv
<1> QED
    BY <1>1, CopiesAlways, PTL

(* capture and restore: whatever fails, dies or runs at the same time, an   *)
(* undo finds the bytes that the file held before the change.               *)
THEOREM SavedCopiesHold == Spec => []SavedCopiesAreGenuine
<1>1. CopiesInv => SavedCopiesAreGenuine
    BY DEF CopiesInv, LogInv, Certified, Genuine, SavedCopiesAreGenuine, Undoables
<1> QED
    BY <1>1, CopiesAlways, PTL

-----------------------------------------------------------------------------
(* Sequence numbers. *)

(* The numbers of the lines that can be read rise.                          *)
Rising == \A i, j \in Readable : i < j => log[i].seq < log[j].seq

Below(n) == \A i \in Readable : log[i].seq < n

(* A session that still logs is ahead of its log.  Who continues the log of *)
(* another has it to itself, and has read all of it.                        *)
SeqInv ==
    /\ Rising
    /\ live /\ logging => Below(seq)
    /\ ~Idle("cli") => ~live /\ Legible

(* The number that reopen continues with is above those of a log that can   *)
(* be read; in one that cannot, the numbers would start again.              *)
LEMMA ReopenedIsAbove ==
    ASSUME log \in Seq(Lines), Legible
    PROVE  Below(ReopenedSeq)
<1> DEFINE S == {log[i].seq : i \in Readable}
<1>1. CASE Readable = {}
    BY <1>1 DEF Below
<1>2. CASE Readable # {}
    <2>1. PICK b \in Nat : \A i \in DOMAIN log : log[i].seq <= b
        BY NumbersHaveBound
    <2>2. \A i \in DOMAIN log : log[i].seq \in Nat
        BY LineFields
    <2>3. S \in SUBSET (0..b) /\ S # {} /\ \A i \in Readable : log[i].seq \in Nat
        BY <1>2, <2>1, <2>2 DEF Readable
    <2>4. PICK m \in S : \A k \in S : k <= m
        <3> HIDE DEF S
        <3> QED
            BY <2>3, GreatestNumber
    <2>5. \E n \in S : \A i \in Readable : log[i].seq <= n
        BY <2>4
    <2> DEFINE top == CHOOSE n \in S : \A i \in Readable : log[i].seq <= n
    <2>6. top \in S /\ \A i \in Readable : log[i].seq <= top
        BY <2>5
    <2>7. ReopenedSeq = 1 + top
        BY <1>2 DEF ReopenedSeq
    <2> HIDE DEF S, top
    <2>8. top \in Nat
        BY <2>3, <2>6
    <2> QED
        BY <2>3, <2>6, <2>7, <2>8 DEF Below
<1> QED
    BY <1>1, <1>2

(* After an append, what can be read could be read before, or is the line.  *)
LEMMA ReadableAfterAppend ==
    ASSUME log \in Seq(Lines), cut \in BOOLEAN, cut => log # <<>>,
           NEW line \in Lines, NEW extent \in Extents, AppendLine(line, extent)
    PROVE  \A i \in Readable' :
                \/ i \in Readable /\ log'[i] = log[i]
                \/ extent # "nothing" /\ i = Len(log) + 1 /\ log'[i] = line
<1>1. \/ extent = "nothing" /\ log' = log
      \/ Spoilt
      \/ \E x \in {Garbage, Undecodable} : Added(x)
      \/ extent # "nothing" /\ Added(line)
    BY Appends
<1>2. CASE extent = "nothing" /\ log' = log
    BY <1>2 DEF Readable
<1>3. CASE Spoilt
    BY <1>3, LineKinds DEF Spoilt, Readable
<1>4. CASE \E x \in {Garbage, Undecodable} : Added(x)
    BY <1>4, LineKinds DEF Added, Readable
<1>5. CASE extent # "nothing" /\ Added(line)
    BY <1>5 DEF Added, Readable
<1> QED
    BY <1>1, <1>2, <1>3, <1>4, <1>5

(* A line above all others keeps the numbers rising.                        *)
LEMMA AppendRises ==
    ASSUME TypeOK, Rising, NEW line \in Lines, NEW extent \in Extents,
           AppendLine(line, extent), extent = "nothing" \/ Below(line.seq)
    PROVE  /\ Rising'
           /\ Below(line.seq) => \A i \in Readable' : log'[i].seq < line.seq + 1
<1>0. log \in Seq(Lines) /\ cut \in BOOLEAN /\ (cut => log # <<>>)
    BY DEF TypeOK
<1>1. \A i \in Readable' :
        \/ i \in Readable /\ log'[i] = log[i]
        \/ extent # "nothing" /\ i = Len(log) + 1 /\ log'[i] = line
    BY <1>0, ReadableAfterAppend
<1>2. /\ Len(log) \in Nat /\ line.seq \in Nat
      /\ \A i \in Readable : i \in Nat /\ i < Len(log) + 1 /\ log[i].seq \in Nat
    <2>1. line.seq \in Nat
        BY DEF Lines
    <2>2. /\ Len(log) \in Nat /\ DOMAIN log = 1..Len(log)
          /\ \A i \in DOMAIN log : log[i].seq \in Nat
        BY <1>0, LineFields
    <2>3. Readable \subseteq DOMAIN log
        BY DEF Readable
    <2> QED
        BY <2>1, <2>2, <2>3
<1>3. Rising'
    <2> SUFFICES ASSUME NEW i \in Readable', NEW j \in Readable', i < j
                 PROVE  log'[i].seq < log'[j].seq
        BY DEF Rising
    <2>1. CASE j \in Readable /\ log'[j] = log[j]
        <3>1. i \in Readable /\ log'[i] = log[i]
            BY <1>1, <1>2, <2>1
        <3> QED
            BY <2>1, <3>1 DEF Rising
    <2>2. CASE extent # "nothing" /\ j = Len(log) + 1 /\ log'[j] = line
        <3>1. i \in Readable /\ log'[i] = log[i]
            BY <1>1, <1>2, <2>2
        <3> QED
            BY <2>2, <3>1 DEF Below
    <2> QED
        BY <1>1, <2>1, <2>2
<1>4. ASSUME Below(line.seq), NEW i \in Readable' PROVE log'[i].seq < line.seq + 1
    <2>1. CASE i \in Readable /\ log'[i] = log[i]
        <3>1. log[i].seq < line.seq /\ log[i].seq \in Nat
            BY <1>2, <1>4, <2>1 DEF Below
        <3> QED
            BY <1>2, <2>1, <3>1
    <2>2. CASE log'[i] = line
        BY <1>2, <2>2
    <2> QED
        BY <1>1, <2>1, <2>2
<1> QED
    BY <1>3, <1>4

(* The lines carry the number they are given.                               *)
LEMMA LineNumbers ==
    /\ \A n : Line("other", n).seq = n /\ Checkpointed(n).seq = n
    /\ \A n, t : Reverted(n, t).seq = n
    /\ LineUnderWay.seq = seq
BY DEF Line, Checkpointed, Reverted, LineUnderWay

(* An append of the session keeps the numbers.                              *)
LEMMA SessionRises ==
    ASSUME TypeOK, SeqInv, NEW line \in Lines, line.seq = seq, NEW extent \in Extents,
           SessionAppends(line, extent), live, live' = live,
           Idle("cli")' = Idle("cli")
    PROVE  SeqInv'
<1>1. /\ AppendLine(line, extent) /\ seq' = seq + 1
      /\ Idle("cli") /\ Idle("cli")'
    BY SessionAppend DEF SeqInv
<1>2. CASE logging
    <2>1. Rising' /\ \A i \in Readable' : log'[i].seq < line.seq + 1
        BY <1>1, <1>2, AppendRises DEF SeqInv
    <2> QED
        BY <1>1, <2>1 DEF SeqInv, Below
<1>3. CASE ~logging
    <2>1. log' = log /\ logging' = logging
        BY <1>3 DEF SessionAppends
    <2>2. Rising'
        BY <2>1 DEF SeqInv, Rising, Readable
    <2> QED
        BY <1>1, <1>3, <2>1, <2>2 DEF SeqInv
<1> QED
    BY <1>2, <1>3

(* Where the log stays, so do its numbers.                                  *)
LEMMA NumbersStay ==
    ASSUME SeqInv, UNCHANGED <<log, logging, seq>>, live' => live,
           ~Idle("cli")' => ~Idle("cli") \/ (~live /\ Legible)
    PROVE  SeqInv'
<1>1. Readable' = Readable /\ Legible' = Legible
    BY DEF Readable, Legible
<1> QED
    BY <1>1 DEF SeqInv, Rising, Below

(* Every step keeps the numbers, on any disk.                               *)
LEMMA StepRises ==
    ASSUME ~Concurrent, CopiesInv, SeqInv, [Next]_vars
    PROVE  SeqInv'
<1>0. /\ TypeOK /\ ChangeInv /\ seq \in Nat /\ log \in Seq(Lines)
      /\ undo \in [Undoers -> Undos] /\ "cli" \in Undoers /\ "session" \in Undoers
    BY DEF CopiesInv, TypeOK, Undoers
<1>1. CASE StartSession
    <2>1. Readable' = {} /\ Idle("cli") /\ undo' = undo
        <3>1. log' = <<>> /\ DOMAIN <<>> = {}
            BY <1>1, EmptySeq DEF StartSession
        <3> QED
            BY <1>1, <3>1 DEF Readable, StartSession
    <2> QED
        BY <2>1 DEF SeqInv, Rising, Below, Idle
<1>2. CASE EndSession \/ SkipWrite \/ \E c \in Contents : WriteFile(c)
    <2>1. UNCHANGED <<log, logging, seq, undo>> /\ (live' => live)
        BY <1>2 DEF EndSession, SkipWrite, WriteFile, sessionVars
    <2> QED
        BY <2>1, NumbersStay DEF Idle
<1>3. CASE \E f \in Files : Capture(f) \/ CaptureFails(f)
    <2>1. UNCHANGED <<log, logging, seq, undo, live>>
        BY <1>3 DEF Capture, CaptureFails, sessionVars
    <2> QED
        BY <2>1, NumbersStay DEF Idle
<1>4. ASSUME NEW extent \in Extents, Note(extent) PROVE SeqInv'
    <2>1. PICK line \in Lines : line = Line("other", seq)
        BY <1>0, LineTypes
    <2>2. SessionAppends(line, extent) /\ live /\ live' = live /\ undo' = undo /\ line.seq = seq
        BY <1>4, <2>1, LineNumbers DEF Note
    <2> QED
        BY <1>0, <2>2, SessionRises DEF Idle
<1>5. ASSUME NEW extent \in Extents, LogCheckpoint(extent) PROVE SeqInv'
    <2>1. PICK line \in Lines : line = Checkpointed(seq)
        BY <1>0, <1>5, LineTypes DEF LogCheckpoint
    <2>2. SessionAppends(line, extent) /\ live /\ live' = live /\ undo' = undo /\ line.seq = seq
        BY <1>0, <1>5, <2>1, LineNumbers DEF LogCheckpoint, ChangeInv
    <2> QED
        BY <1>0, <2>2, SessionRises DEF Idle
<1>6. ASSUME NEW u \in Undoers, Refuse(u) \/ FindFails(u) PROVE SeqInv'
    <2>1. UNCHANGED <<log, logging, seq, undo, live>>
        BY <1>6 DEF Refuse, FindFails, sessionVars
    <2> QED
        BY <2>1, NumbersStay DEF Idle
<1>7. ASSUME NEW u \in Undoers, Find(u) PROVE SeqInv'
    <2>1. /\ UNCHANGED <<log, logging, seq, live>> /\ Legible
          /\ u = "cli" => ~live
          /\ u # "cli" => undo'["cli"] = undo["cli"]
        BY <1>0, <1>7 DEF Find, MayUndo, sessionVars
    <2> QED
        BY <2>1, NumbersStay DEF Idle
<1>8. ASSUME NEW u \in Undoers, Remove(u) \/ BeginCopy(u) \/ EndCopy(u) \/ GiveUp(u) PROVE SeqInv'
    <2>1. /\ UNCHANGED <<log, logging, seq, live>> /\ ~Idle(u)
          /\ u # "cli" => undo'["cli"] = undo["cli"]
        BY <1>0, <1>8 DEF Remove, BeginCopy, EndCopy, GiveUp, Idle, sessionVars
    <2> QED
        BY <2>1, NumbersStay DEF Idle
<1>9. ASSUME NEW extent \in Extents, LogRevert(extent) PROVE SeqInv'
    <2>1. undo["session"].entry.seq \in Nat /\ live
        BY <1>0, <1>9, UndoFields DEF LogRevert, CopiesInv, UndoInv, Idle
    <2>2. PICK line \in Lines : line = Reverted(seq, undo["session"].entry.seq)
        BY <1>0, <2>1, LineTypes
    <2>3. /\ SessionAppends(line, extent) /\ live' = live /\ undo'["cli"] = undo["cli"]
          /\ line.seq = seq
        BY <1>0, <1>9, <2>2, LineNumbers DEF LogRevert
    <2> QED
        BY <1>0, <2>1, <2>3, SessionRises DEF Idle
<1>10. ASSUME NEW extent \in Extents, AppendLine(Reverted(ReopenedSeq, undo["cli"].entry.seq), extent),
              ~Idle("cli"), undo' = [undo EXCEPT !["cli"] = NoUndo], live' = live
       PROVE  SeqInv'
    <2>1. ReopenedSeq \in Nat /\ undo["cli"].entry.seq \in Nat /\ Below(ReopenedSeq)
        BY <1>0, <1>10, ReopenedType, ReopenedIsAbove, UndoFields DEF CopiesInv, SeqInv
    <2>2. PICK line \in Lines : line = Reverted(ReopenedSeq, undo["cli"].entry.seq)
        BY <1>0, <2>1, LineTypes
    <2>3. AppendLine(line, extent) /\ Below(line.seq)
        BY <1>10, <2>1, <2>2, LineNumbers
    <2>4. Rising' /\ Idle("cli")' /\ ~live'
        BY <1>0, <1>10, <2>3, AppendRises DEF SeqInv, Idle, NoUndo
    <2> QED
        BY <2>4 DEF SeqInv
<1>11. ASSUME NEW extent \in Extents, ReopenAndLogRevert(extent) PROVE SeqInv'
    <2>1. /\ AppendLine(Reverted(ReopenedSeq, undo["cli"].entry.seq), extent)
          /\ ~Idle("cli") /\ undo' = [undo EXCEPT !["cli"] = NoUndo] /\ live' = live
        BY <1>11 DEF ReopenAndLogRevert, Idle, sessionVars
    <2> QED
        BY <1>10, <2>1
<1>12. ASSUME NEW extent \in TornExtents, CliDies(extent) PROVE SeqInv'
    <2>1. extent \in Extents
        BY UndoAssumption
    <2>2. /\ AppendLine(Reverted(ReopenedSeq, undo["cli"].entry.seq), extent)
          /\ ~Idle("cli") /\ undo' = [undo EXCEPT !["cli"] = NoUndo] /\ live' = live
        BY <1>12 DEF CliDies, sessionVars
    <2> QED
        BY <1>10, <2>1, <2>2
<1>13. ASSUME NEW extent \in TornExtents, SessionDies(extent) PROVE SeqInv'
    <2>1. extent \in Extents
        BY UndoAssumption
    <2>2. PICK line \in Lines : line = LineUnderWay
        BY <1>0, LineUnderWayType
    <2>3. /\ AppendLine(line, extent) /\ line.seq = seq /\ live /\ ~live'
          /\ logging \/ extent = "nothing"
          /\ undo'["cli"] = undo["cli"]
        BY <1>0, <1>13, <2>2, LineNumbers DEF SessionDies
    <2>4. Rising' /\ Idle("cli")'
        BY <1>0, <2>1, <2>3, AppendRises DEF SeqInv, Idle
    <2> QED
        BY <2>3, <2>4 DEF SeqInv
<1>14. CASE UNCHANGED vars
    BY <1>14, NumbersStay DEF vars, sessionVars, Idle
<1> QED
    BY <1>1, <1>2, <1>3, <1>4, <1>5, <1>6, <1>7, <1>8, <1>9, <1>11, <1>12, <1>13, <1>14
       DEF Next, SessionStep, UndoStep, Death

(* session.rs and `true-code undo`: as long as one process works at a time, *)
(* no two events that can be read have one number, whatever fails or dies   *)
(* and whoever continues the log.                                           *)
THEOREM NumbersAreUnique ==
    ASSUME ~Concurrent
    PROVE  Spec => []SeqIsUnique
<1>1. Init => SeqInv
    <2> SUFFICES ASSUME Init PROVE SeqInv
        OBVIOUS
    <2>1. log = <<>> /\ DOMAIN <<>> = {} /\ ~live /\ Idle("cli")
        BY EmptySeq DEF Init, Idle, NoUndo, Undoers
    <2> QED
        BY <2>1 DEF SeqInv, Rising, Readable
<1>2. CopiesInv /\ SeqInv /\ [Next]_vars => SeqInv'
    BY StepRises
<1>3. CopiesInv /\ SeqInv => SeqIsUnique
    <2> SUFFICES ASSUME CopiesInv, SeqInv, NEW i \in Readable, NEW j \in Readable,
                        log[i].seq = log[j].seq
                 PROVE  i = j
        BY DEF SeqIsUnique
    <2>1. i \in Nat /\ j \in Nat /\ log[i].seq \in Nat /\ log[j].seq \in Nat
        BY LineFields DEF CopiesInv, TypeOK, Readable
    <2>2. ~(i < j) /\ ~(j < i)
        BY <2>1 DEF SeqInv, Rising
    <2> QED
        BY <2>1, <2>2
<1> QED
    BY <1>1, <1>2, <1>3, CopiesAlways, PTL DEF Spec

-----------------------------------------------------------------------------
(* What can be undone. *)

(* The places of the checkpoints that no revert names by its place.         *)
Offered(s) ==
    {i \in DOMAIN s : s[i].kind = "checkpoint" /\
        \A j \in DOMAIN s : s[j].kind = "reverted" => s[j].undoes # i - 1}

(* In a numbered log these are the ones undo finds.                         *)
LEMMA OfferedAreUndoables ==
    ASSUME NEW s, Numbered(s)
    PROVE  {i \in DOMAIN s : s[i].kind = "checkpoint" /\
               s[i].seq \notin {s[k].undoes : k \in {j \in DOMAIN s : s[j].kind = "reverted"}}}
           = Offered(s)
BY DEF Numbered, Offered

(* So it is before a step and after it. *)
LEMMA UndoablesAreOffered ==
    /\ Numbered(log) => Undoables = Offered(log)
    /\ Numbered(log') => Undoables' = Offered(log')
BY OfferedAreUndoables DEF Undoables, RevertedSeqs

(* A line is added to a log.                                                *)
Grows(s, t, line) ==
    /\ DOMAIN t = DOMAIN s \cup {Len(s) + 1} /\ t[Len(s) + 1] = line
    /\ \A i \in DOMAIN s : t[i] = s[i]

(* A checkpoint adds itself, a revert takes its checkpoint off, and nothing *)
(* else changes what is offered.                                            *)
LEMMA OfferedGrows ==
    ASSUME NEW s \in Seq(Lines), NEW t, NEW line \in Lines, Numbered(s), Grows(s, t, line),
           line.kind = "checkpoint" => line.seq = Len(s),
           line.kind = "reverted" => line.undoes + 1 \in DOMAIN s
    PROVE  /\ Numbered(t)
           /\ line.kind \in {"other", "garbage", "undecodable"} => Offered(t) = Offered(s)
           /\ line.kind = "checkpoint" => Offered(t) = Offered(s) \cup {Len(s) + 1}
           /\ line.kind = "reverted" => Offered(t) = Offered(s) \ {line.undoes + 1}
<1>1. /\ Len(s) \in Nat /\ DOMAIN s = 1..Len(s)
      /\ \A i \in DOMAIN s : i \in Nat /\ i < Len(s) + 1 /\ s[i].seq \in Nat /\ s[i].undoes \in Nat
    BY LineFields
<1>2. line.undoes \in Nat /\ line.seq \in Nat
    BY DEF Lines
<1>3. Numbered(t)
    BY <1>1, <1>2 DEF Numbered, Grows
<1>4. CASE line.kind \in {"other", "garbage", "undecodable"}
    <2>1. Offered(t) = Offered(s)
        BY <1>1, <1>4 DEF Offered, Grows
    <2> QED
        BY <1>3, <1>4, <2>1
<1>5. CASE line.kind = "checkpoint"
    <2>1. \A i \in DOMAIN s : s[i].kind = "reverted" => s[i].undoes # Len(s)
        BY <1>1 DEF Numbered
    <2>2. Offered(t) = Offered(s) \cup {Len(s) + 1}
        BY <1>1, <1>5, <2>1 DEF Offered, Grows
    <2> QED
        BY <1>3, <1>5, <2>2
<1>6. CASE line.kind = "reverted"
    <2>1. Offered(t) = Offered(s) \ {line.undoes + 1}
        BY <1>1, <1>2, <1>6 DEF Offered, Grows
    <2> QED
        BY <1>3, <1>6, <2>1
<1>7. line.kind \in {"checkpoint", "reverted", "other", "garbage", "undecodable"}
    BY DEF Lines
<1> QED
    BY <1>4, <1>5, <1>6, <1>7

(* The last line of a log is spoilt.                                        *)
Loses(s, t) ==
    /\ DOMAIN t = DOMAIN s /\ Len(s) \in DOMAIN s 
    /\ t[Len(s)].kind \in {"garbage", "undecodable"}
    /\ \A i \in DOMAIN s : i # Len(s) => t[i] = s[i]

(* With a checkpoint goes its entry, and a lost revert may bring one back.  *)
LEMMA OfferedLoses ==
    ASSUME NEW s \in Seq(Lines), NEW t, Numbered(s), Loses(s, t)
    PROVE  /\ Numbered(t)
           /\ s[Len(s)].kind \in {"other", "garbage", "undecodable"} => Offered(t) = Offered(s)
           /\ s[Len(s)].kind = "checkpoint" =>
                Len(s) \in Offered(s) /\ Offered(t) = Offered(s) \ {Len(s)}
           /\ s[Len(s)].kind = "reverted" =>
                Offered(t) = Offered(s) \/ Offered(t) = Offered(s) \cup {s[Len(s)].undoes + 1}
<1>1. /\ Len(s) \in Nat /\ DOMAIN s = 1..Len(s)
      /\ \A i \in DOMAIN s : i \in Nat /\ i <= Len(s) /\ s[i].seq \in Nat /\ s[i].undoes \in Nat
    BY LineFields
<1>2. Numbered(t)
    BY <1>1 DEF Numbered, Loses
<1>3. CASE s[Len(s)].kind \in {"other", "garbage", "undecodable"}
    <2>1. Offered(t) = Offered(s)
        BY <1>1, <1>3 DEF Offered, Loses
    <2> QED
        BY <1>2, <1>3, <2>1
<1>4. CASE s[Len(s)].kind = "checkpoint"
    <2>1. \A i \in DOMAIN s : s[i].kind = "reverted" => s[i].undoes # Len(s) - 1
        BY <1>1 DEF Numbered
    <2>2. Len(s) \in Offered(s) /\ Offered(t) = Offered(s) \ {Len(s)}
        BY <1>1, <1>4, <2>1 DEF Offered, Loses
    <2> QED
        BY <1>2, <1>4, <2>2
<1>5. CASE s[Len(s)].kind = "reverted"
    <2>1. Offered(s) \subseteq Offered(t)
        BY <1>1, <1>5 DEF Offered, Loses
    <2>2. Offered(t) \subseteq Offered(s) \cup {s[Len(s)].undoes + 1}
        BY <1>1, <1>5 DEF Offered, Loses
    <2>3. Offered(t) = Offered(s) \/ Offered(t) = Offered(s) \cup {s[Len(s)].undoes + 1}
        BY <2>1, <2>2
    <2> QED
        BY <1>2, <1>5, <2>3
<1>6. s[Len(s)].kind \in {"checkpoint", "reverted", "other", "garbage", "undecodable"}
    <2>1. s[Len(s)] \in Lines
        BY LineFields DEF Loses
    <2> QED
        BY <2>1 DEF Lines
<1> QED
    BY <1>3, <1>4, <1>5, <1>6

-----------------------------------------------------------------------------
(* Steps of the abstract stack. *)

(* The abstract entry of a line.                                            *)
EntryOf(i) == [n |-> i, file |-> log[i].file, before |-> Saved(log[i])]

(* The places of the entries, and what they are.                            *)
LEMMA EntryTypes ==
    ASSUME CopiesInv
    PROVE  /\ EntriesOfLog = {EntryOf(i) : i \in Undoables}
           /\ \A i \in Undoables : /\ i \in DOMAIN log /\ i \in Nat /\ EntryOf(i) \in Stack!Entries
                                   /\ log[i].kind = "checkpoint" /\ log[i].file \in Files
                                   /\ log[i].backup \in Nat /\ log[i].backup <= Len(backups)
                                   /\ Saved(log[i]) \in Values
<1>1. log \in Seq(Lines) /\ backups \in Seq(Values)
    BY DEF CopiesInv, TypeOK
<1>2. ASSUME NEW i \in Undoables
      PROVE  /\ i \in DOMAIN log /\ i \in Nat /\ log[i].kind = "checkpoint"
             /\ log[i].file \in Files /\ log[i].backup \in Nat /\ log[i].backup <= Len(backups)
    <2>1. i \in DOMAIN log /\ log[i].kind = "checkpoint"
        BY DEF Undoables
    <2>2. Certified(log[i])
        BY <2>1 DEF CopiesInv, LogInv
    <2>3. i \in Nat /\ log[i].backup \in Nat
        BY <1>1, <2>1, LineFields
    <2> QED
        BY <2>1, <2>2, <2>3 DEF Certified, Genuine
<1>3. ASSUME NEW i \in Undoables PROVE Saved(log[i]) \in Values /\ EntryOf(i) \in Stack!Entries
    <2>1. Saved(log[i]) \in Values
        BY <1>1, <1>2, SavedType
    <2> QED
        BY <1>2, <2>1 DEF EntryOf, Stack!Entries
<1> QED
    BY <1>2, <1>3 DEF EntriesOfLog, EntryOf

(* Entries stay what they are.                                              *)
LEMMA EntriesStay ==
    ASSUME NEW i, log'[i] = log[i], Saved(log[i])' = Saved(log[i])
    PROVE  EntryOf(i)' = EntryOf(i)
BY DEF EntryOf

(* Nothing that undo promises changes.                                      *)
LEMMA StackStays ==
    ASSUME CopiesInv, UNCHANGED <<disk, origin>>, Undoables' = Undoables,
           \A i \in Undoables : log'[i] = log[i] /\ Saved(log[i])' = Saved(log[i])
    PROVE  UNCHANGED Stack!stackVars
<1>1. EntriesOfLog' = {EntryOf(i)' : i \in Undoables'}
    BY DEF EntriesOfLog, EntryOf
<1>2. \A i \in Undoables : EntryOf(i)' = EntryOf(i)
    BY EntriesStay
<1>3. EntriesOfLog' = EntriesOfLog
    BY <1>1, <1>2, EntryTypes
<1> QED
    BY <1>3 DEF Stack!stackVars

(* A change is made, or undone in part, under the newest entry.             *)
LEMMA StackTouched ==
    ASSUME CopiesInv, Undoables # {}, NEW v \in Values,
           disk' = [disk EXCEPT ![log[Newest].file] = v],
           UNCHANGED <<log, backups, origin>>
    PROVE  Stack!StackNext
<1>1. Newest \in Undoables /\ \A j \in Undoables : j <= Newest
    BY NewestIsLast DEF CopiesInv, TypeOK
<1>2. EntryOf(Newest) \in EntriesOfLog
    BY <1>1, EntryTypes
<1>3. \A x \in EntriesOfLog : x.n <= EntryOf(Newest).n
    BY <1>1, EntryTypes DEF EntryOf
<1>4. EntriesOfLog' = EntriesOfLog
    BY DEF EntriesOfLog, Undoables, RevertedSeqs, Saved
<1>5. Stack!Touch(EntryOf(Newest), v)
    BY <1>2, <1>3, <1>4 DEF Stack!Touch, Stack!Newest, EntryOf
<1> QED
    BY <1>2, <1>5 DEF Stack!StackNext

(* The newest entry is taken off.                                           *)
LEMMA StackDropped ==
    ASSUME CopiesInv, Undoables # {}, disk[log[Newest].file] = Saved(log[Newest]),
           Undoables' = Undoables \ {Newest}, UNCHANGED <<disk, backups, origin>>,
           \A i \in Undoables' : log'[i] = log[i]
    PROVE  Stack!StackNext
<1>1. Newest \in Undoables /\ \A j \in Undoables : j <= Newest
    BY NewestIsLast DEF CopiesInv, TypeOK
<1>2. EntryOf(Newest) \in EntriesOfLog
    BY <1>1, EntryTypes
<1>3. \A x \in EntriesOfLog : x.n <= EntryOf(Newest).n
    BY <1>1, EntryTypes DEF EntryOf
<1>4. EntriesOfLog' = EntriesOfLog \ {EntryOf(Newest)}
    <2>1. EntriesOfLog' = {EntryOf(i)' : i \in Undoables'}
        BY DEF EntriesOfLog, EntryOf
    <2>2. \A i \in Undoables' : EntryOf(i)' = EntryOf(i)
        BY DEF EntryOf, Saved
    <2>3. EntriesOfLog' = {EntryOf(i) : i \in Undoables \ {Newest}}
        BY <2>1, <2>2
    <2>4. \A i \in Undoables : EntryOf(i) = EntryOf(Newest) => i = Newest
        BY DEF EntryOf
    <2>5. EntriesOfLog = {EntryOf(i) : i \in Undoables}
        BY EntryTypes
    <2> QED
        BY <1>1, <2>3, <2>4, <2>5
<1>5. Stack!Drop(EntryOf(Newest))
    BY <1>2, <1>3, <1>4 DEF Stack!Drop, Stack!Newest, EntryOf
<1> QED
    BY <1>2, <1>5 DEF Stack!StackNext

(* An entry is put on top: a new one, or one that was taken off before.     *)
LEMMA StackGrows ==
    ASSUME CopiesInv, NEW m \in Nat, NEW line \in Lines, log'[m] = line,
           line.file \in Files, line.backup <= Len(backups),
           Undoables' = Undoables \cup {m}, UNCHANGED <<disk, backups, origin>>,
           \A i \in Undoables : log'[i] = log[i] /\ i < m,
           \/ disk[line.file] = Saved(line)
           \/ \E i \in Undoables : log[i].file = line.file
    PROVE  Stack!StackNext
<1> DEFINE e == [n |-> m, file |-> line.file, before |-> Saved(line)]
<1>1. Saved(line) \in Values
    <2>1. line.backup \in Nat /\ backups \in Seq(Values)
        BY DEF Lines, CopiesInv, TypeOK
    <2> QED
        BY <2>1, SavedType
<1>2. e \in Stack!Entries
    BY <1>1 DEF Stack!Entries
<1>3. EntriesOfLog' = EntriesOfLog \cup {e}
    <2>1. EntriesOfLog' = {EntryOf(i)' : i \in Undoables'}
        BY DEF EntriesOfLog, EntryOf
    <2>2. \A i \in Undoables : EntryOf(i)' = EntryOf(i)
        BY DEF EntryOf, Saved
    <2>3. EntryOf(m)' = e
        BY DEF EntryOf, Saved
    <2>4. EntriesOfLog = {EntryOf(i) : i \in Undoables}
        BY EntryTypes
    <2> HIDE DEF e
    <2> QED
        BY <2>1, <2>2, <2>3, <2>4
<1>4. \A x \in EntriesOfLog : x.n < e.n /\ x.n # e.n
    BY EntryTypes DEF EntryOf
<1>5. CASE disk[line.file] = Saved(line)
    <2>1. Stack!Save(e)
        BY <1>3, <1>4, <1>5 DEF Stack!Save
    <2> QED
        BY <1>2, <1>3, <2>1 DEF Stack!StackNext
<1>6. CASE \E i \in Undoables : log[i].file = line.file
    <2>1. PICK i \in Undoables : log[i].file = line.file
        BY <1>6
    <2>2. EntryOf(i) \in EntriesOfLog /\ EntryOf(i).file = e.file /\ EntryOf(i).n < e.n
        BY <2>1, EntryTypes DEF EntryOf
    <2>3. Stack!Recall(e)
        BY <1>3, <1>4, <2>2 DEF Stack!Recall
    <2> QED
        BY <1>2, <1>3, <2>3 DEF Stack!StackNext
<1> QED
    BY <1>5, <1>6

-----------------------------------------------------------------------------
(* Appends and the stack. *)

(* What is appended: nothing that undo reads, the checkpoint of a file that *)
(* has not been touched yet, or the revert of the newest entry, whose file  *)
(* is back.  A cut line is only ever followed by a revert.                  *)
Fits(line) ==
    /\ line.kind \in {"other", "checkpoint", "reverted"}
    /\ cut => line.kind = "reverted"
    /\ line.kind = "checkpoint" =>
        /\ line.seq = Len(log) /\ line.file \in Files /\ Genuine(line)
        /\ disk[line.file] = line.was
    /\ line.kind = "reverted" =>
        /\ Undoables # {} /\ line.undoes = log[Newest].seq
        /\ disk[log[Newest].file] = Saved(log[Newest])

(* The newest entry is a checkpoint and has its place as its number.        *)
LEMMA NewestEntry ==
    ASSUME CopiesInv, Numbered(log), Undoables # {}
    PROVE  /\ Newest \in Undoables /\ Newest \in DOMAIN log /\ Newest \in Nat
           /\ log[Newest].kind = "checkpoint" /\ log[Newest].seq = Newest - 1
           /\ log[Newest].file \in Files /\ log[Newest] \in Lines
           /\ \A i \in Undoables : i <= Newest
<1>1. log \in Seq(Lines)
    BY DEF CopiesInv, TypeOK
<1>2. Newest \in Undoables /\ \A i \in Undoables : i <= Newest
    BY <1>1, NewestIsLast
<1>3. /\ Newest \in DOMAIN log /\ Newest \in Nat /\ log[Newest].kind = "checkpoint"
      /\ log[Newest].file \in Files
    BY <1>2, EntryTypes
<1>4. log[Newest] \in Lines /\ log[Newest].seq = Newest - 1
    BY <1>1, <1>3, LineFields DEF Numbered
<1> QED
    BY <1>2, <1>3, <1>4

(* The last line is spoilt by what follows it: a note of an undo is lost,   *)
(* with the line before it.                                                 *)
LEMMA SpoiltOnStack ==
    ASSUME CopiesInv, Numbered(log), TornInv, NEW line \in Lines, line.kind = "reverted",
           Fits(line), Spoilt, UNCHANGED <<disk, backups, origin>>
    PROVE  /\ Numbered(log') /\ TornInv'
           /\ Stack!StackNext \/ UNCHANGED Stack!stackVars
<1> DEFINE n == Len(log)
<1>1. /\ log \in Seq(Lines) /\ n \in Nat /\ n \in DOMAIN log /\ DOMAIN log = 1..n
      /\ \A i \in DOMAIN log : log[i] \in Lines
    BY LineFields DEF CopiesInv, TypeOK, Spoilt
<1>2. /\ Loses(log, log') /\ Len(log') = n
      /\ log'[n].kind \in {"garbage", "undecodable"}
    BY LineKinds DEF Spoilt, Loses
<1>3. /\ Numbered(log') /\ Undoables = Offered(log) /\ Undoables' = Offered(log')
      /\ log[n].kind \in {"other", "garbage", "undecodable"} => Undoables' = Undoables
      /\ log[n].kind = "checkpoint" => n \in Undoables /\ Undoables' = Undoables \ {n}
      /\ log[n].kind = "reverted" =>
            Undoables' = Undoables \/ Undoables' = Undoables \cup {log[n].undoes + 1}
    <2>1. Numbered(log')
        BY <1>1, <1>2, OfferedLoses
    <2>2. Undoables = Offered(log) /\ Undoables' = Offered(log')
        BY <2>1, UndoablesAreOffered
    <2> QED
        BY <1>1, <1>2, <2>1, <2>2, OfferedLoses
<1>4. TornInv'
    BY <1>2 DEF TornInv
<1>6. CASE Undoables' = Undoables /\ log[n].kind # "checkpoint"
    <2>1. \A i \in Undoables : log'[i] = log[i]
        BY <1>2, <1>6, EntryTypes DEF Loses
    <2>2. \A i \in Undoables : Saved(log[i])' = Saved(log[i])
        BY <2>1 DEF Saved
    <2> QED
        BY <1>3, <1>4, <1>6, <2>1, <2>2, StackStays
<1>7. CASE log[n].kind = "checkpoint"
    <2>1. /\ Newest \in Undoables /\ Newest \in DOMAIN log
          /\ \A i \in Undoables : i <= Newest
        BY <1>3, <1>7, NewestEntry
    <2>2. Newest = n
        BY <1>1, <1>3, <1>7, <2>1
    <2>3. Undoables # {} /\ disk[log[Newest].file] = Saved(log[Newest])
        BY DEF Fits
    <2>4. Undoables' = Undoables \ {Newest} /\ \A i \in Undoables' : log'[i] = log[i]
        BY <1>2, <1>3, <1>7, <2>2, EntryTypes DEF Loses
    <2> QED
        BY <1>3, <1>4, <2>3, <2>4, StackDropped
<1>8. CASE log[n].kind = "reverted" /\ Undoables' = Undoables \cup {log[n].undoes + 1}
    <2> DEFINE e == log[n].undoes + 1
    <2>1. /\ e \in DOMAIN log /\ log[e].kind = "checkpoint"
          /\ \A i \in Undoables : i < e
          /\ (\A i \in Undoables : log[i].file # log[e].file) => disk[log[e].file] = Saved(log[e])
        BY <1>8 DEF TornInv, Spoilt
    <2>2. e # n /\ log'[e] = log[e] /\ e \in Nat
        BY <1>1, <1>2, <1>8, <2>1 DEF Loses
    <2>3. log[e] \in Lines /\ log[e].file \in Files /\ log[e].backup <= Len(backups)
        BY <1>1, <2>1 DEF CopiesInv, LogInv, Certified, Genuine
    <2>4. \A i \in Undoables : log'[i] = log[i]
        BY <1>2, <1>8, EntryTypes DEF Loses
    <2> HIDE DEF e
    <2>5. Undoables' = Undoables \cup {e}
        BY <1>8 DEF e
    <2>6. PICK m \in Nat : m = e
        BY <2>2
    <2>7. PICK x \in Lines : x = log[e]
        BY <2>3
    <2>8. /\ log'[m] = x /\ x.file \in Files /\ x.backup <= Len(backups)
          /\ Undoables' = Undoables \cup {m}
          /\ \A i \in Undoables : log'[i] = log[i] /\ i < m
          /\ \/ disk[x.file] = Saved(x)
             \/ \E i \in Undoables : log[i].file = x.file
        BY <2>1, <2>2, <2>3, <2>4, <2>5, <2>6, <2>7 DEF Saved
    <2>9. Stack!StackNext
        BY <2>8, StackGrows
    <2> QED
        BY <1>3, <1>4, <2>9
<1>9. log[n].kind \in {"checkpoint", "reverted", "other", "garbage", "undecodable"}
    BY <1>1 DEF Lines
<1> QED
    BY <1>3, <1>6, <1>7, <1>8, <1>9

(* A line, or a part of one, is added to a log that is whole.               *)
LEMMA AddedOnStack ==
    ASSUME CopiesInv, Numbered(log), NEW line \in Lines, Added(line),
           line.kind \in {"garbage", "undecodable"} \/ Fits(line), UNCHANGED <<disk, backups, origin>>
    PROVE  /\ Numbered(log') /\ TornInv'
           /\ Stack!StackNext \/ UNCHANGED Stack!stackVars
           /\ line.kind = "checkpoint" => Undoables' # {} /\ Newest' = Len(log) + 1
           /\ line.kind = "reverted" => Undoables # {} /\ Undoables' = Undoables \ {Newest}
           /\ line.kind \in {"other", "garbage", "undecodable"} => Undoables' = Undoables
<1> DEFINE n == Len(log)
<1>1. /\ log \in Seq(Lines) /\ n \in Nat /\ DOMAIN log = 1..n
      /\ \A i \in DOMAIN log : log[i] \in Lines /\ i # n + 1 /\ i < n + 1
    BY LineFields DEF CopiesInv, TypeOK
<1>2. /\ Grows(log, log', line) /\ Len(log') = n + 1 /\ log'[n + 1] = line /\ ~cut
      /\ \A i \in Undoables : log'[i] = log[i] /\ i < n + 1
    BY <1>1, EntryTypes DEF Added, Grows
<1>3. /\ line.kind = "checkpoint" => line.seq = Len(log)
      /\ line.kind = "reverted" =>
            Undoables # {} /\ line.undoes + 1 = Newest /\ line.undoes + 1 \in DOMAIN log
    <2>1. CASE line.kind = "reverted"
        <3>1. Undoables # {} /\ line.undoes = log[Newest].seq
            BY <2>1 DEF Fits
        <3>2. Newest \in DOMAIN log /\ Newest \in Nat /\ log[Newest].seq = Newest - 1
            BY <3>1, NewestEntry
        <3>3. line.undoes + 1 = Newest
            BY <3>1, <3>2
        <3> QED
            BY <2>1, <3>1, <3>2, <3>3
    <2>2. CASE line.kind # "reverted"
        BY <2>2 DEF Fits
    <2> QED
        BY <2>1, <2>2
<1>4. /\ Numbered(log') /\ Undoables = Offered(log) /\ Undoables' = Offered(log')
      /\ line.kind \in {"other", "garbage", "undecodable"} => Undoables' = Undoables
      /\ line.kind = "checkpoint" => Undoables' = Undoables \cup {n + 1}
      /\ line.kind = "reverted" => Undoables' = Undoables \ {Newest}
    <2>1. /\ Numbered(log')
          /\ line.kind \in {"other", "garbage", "undecodable"} => Offered(log') = Offered(log)
          /\ line.kind = "checkpoint" => Offered(log') = Offered(log) \cup {n + 1}
          /\ line.kind = "reverted" => Offered(log') = Offered(log) \ {line.undoes + 1}
        BY <1>1, <1>2, <1>3, OfferedGrows
    <2>2. Undoables = Offered(log) /\ Undoables' = Offered(log')
        BY <2>1, UndoablesAreOffered
    <2> QED
        BY <1>3, <2>1, <2>2
<1>5. CASE line.kind \in {"other", "garbage", "undecodable"}
    <2>1. \A i \in Undoables : log'[i] = log[i] /\ Saved(log[i])' = Saved(log[i])
        BY <1>2 DEF Saved
    <2>2. UNCHANGED Stack!stackVars
        BY <1>4, <1>5, <2>1, StackStays
    <2>3. TornInv'
        BY <1>2, <1>5 DEF TornInv
    <2> QED
        BY <1>4, <1>5, <2>2, <2>3
<1>6. CASE line.kind = "checkpoint"
    <2>1. line.file \in Files /\ line.backup <= Len(backups) /\ disk[line.file] = Saved(line)
        BY <1>6 DEF Fits, Genuine
    <2>2. PICK m \in Nat : m = n + 1
        BY <1>1
    <2>3. /\ log'[m] = line /\ Undoables' = Undoables \cup {m}
          /\ \A i \in Undoables : log'[i] = log[i] /\ i < m
        BY <1>2, <1>4, <1>6, <2>2
    <2>4. Stack!StackNext
        BY <2>1, <2>3, StackGrows
    <2>5. TornInv'
        BY <1>2, <1>6 DEF TornInv
    <2>6. Undoables' # {} /\ Newest' = n + 1
        <3>1. m \in Undoables' /\ \A i \in Undoables' : i <= m /\ (m <= i => i = m)
            <4>1. \A i \in Undoables : i \in Nat
                BY EntryTypes
            <4> QED
                BY <2>3, <4>1
        <3> QED
            BY <2>2, <3>1 DEF Newest
    <2> QED
        BY <1>4, <1>6, <2>4, <2>5, <2>6
<1>7. CASE line.kind = "reverted"
    <2>1. /\ Undoables # {} /\ disk[log[Newest].file] = Saved(log[Newest])
          /\ Undoables' = Undoables \ {Newest} /\ \A i \in Undoables' : log'[i] = log[i]
        BY <1>2, <1>3, <1>4, <1>7 DEF Fits
    <2>2. Stack!StackNext
        BY <2>1, StackDropped
    <2>3. TornInv'
        <3> DEFINE e == line.undoes + 1
        <3>1. /\ e = Newest /\ Newest \in DOMAIN log /\ log[e].kind = "checkpoint" /\ e \in Nat
              /\ \A i \in Undoables : i <= e
            BY <1>3, <1>7, NewestEntry
        <3>2. e \in DOMAIN log' /\ log'[e] = log[e] /\ log'[Len(log')] = line
            BY <1>2, <3>1 DEF Grows
        <3> HIDE DEF e
        <3>3. \A i \in Undoables' : i < e
            <4>1. \A i \in Undoables : i \in Nat
                BY EntryTypes
            <4> QED
                BY <2>1, <3>1, <4>1
        <3>4. (disk[log[e].file] = Saved(log[e]))'
            BY <2>1, <3>1, <3>2 DEF Saved
        <3> QED
            BY <3>1, <3>2, <3>3, <3>4 DEF TornInv, e
    <2> QED
        BY <1>4, <1>7, <2>1, <2>2, <2>3
<1>8. line.kind \in {"checkpoint", "reverted", "other", "garbage", "undecodable"}
    BY DEF Lines
<1> QED
    BY <1>5, <1>6, <1>7, <1>8

(* Whatever of a fitting line reaches the log, the log goes on to           *)
(* implement the stack.                                                     *)
LEMMA AppendOnStack ==
    ASSUME CopiesInv, Numbered(log), TornInv, NEW line \in Lines, NEW extent \in Extents,
           AppendLine(line, extent), extent = "nothing" \/ Fits(line),
           UNCHANGED <<disk, backups, origin>>
    PROVE  /\ Numbered(log') /\ TornInv'
           /\ Stack!StackNext \/ UNCHANGED Stack!stackVars
<1>1. /\ log \in Seq(Lines) /\ cut \in BOOLEAN /\ (cut => log # <<>>)
      /\ Garbage \in Lines /\ Undecodable \in Lines
    BY DEF CopiesInv, TypeOK, Garbage, Undecodable, Line, Lines, Values
<1>2. CASE extent = "nothing" /\ log' = log /\ cut' = cut
    <2>1. Undoables' = Undoables /\ \A i \in Undoables : log'[i] = log[i] /\ Saved(log[i])' = Saved(log[i])
        BY <1>2 DEF Undoables, RevertedSeqs, Saved
    <2>2. UNCHANGED Stack!stackVars
        BY <2>1, StackStays
    <2>3. TornInv'
        BY <1>2, <2>1 DEF TornInv, Saved
    <2> QED
        BY <1>2, <2>2, <2>3
<1>3. CASE extent # "nothing" /\ Spoilt
    <2>1. Fits(line) /\ line.kind = "reverted"
        BY <1>3 DEF Fits, Spoilt
    <2> QED
        BY <1>3, <2>1, SpoiltOnStack
<1>4. CASE \E x \in {Garbage, Undecodable} : Added(x)
    <2>1. PICK x \in Lines : x \in {Garbage, Undecodable} /\ Added(x)
        BY <1>1, <1>4
    <2>2. x.kind \in {"garbage", "undecodable"}
        BY <2>1, LineKinds
    <2> QED
        BY <2>1, <2>2, AddedOnStack
<1>5. CASE extent \in {"whole", "unterminated"} /\ Added(line)
    <2>1. Fits(line)
        BY <1>5
    <2> QED
        BY <1>5, <2>1, AddedOnStack
<1>6. \/ extent = "nothing" /\ log' = log /\ cut' = cut
      \/ extent # "nothing" /\ Spoilt
      \/ \E x \in {Garbage, Undecodable} : Added(x)
      \/ extent \in {"whole", "unterminated"} /\ Added(line)
    BY <1>1, Appends
<1> QED
    BY <1>2, <1>3, <1>4, <1>5, <1>6

-----------------------------------------------------------------------------
(* The code implements the stack, on a disk that does not fail and with one *)
(* process at a time; deaths may strike anywhere.                           *)

Sound == ~CanFail /\ ~Concurrent

(* A step is one of the stack or none of its business.                      *)
StackStep == StackInv' /\ (Stack!StackNext \/ UNCHANGED Stack!stackVars)

(* Who is in the middle of something is alone.                              *)
LEMMA Alone ==
    ASSUME CopiesInv, StackInv
    PROVE  /\ live => Idle("cli")
           /\ change.at # "idle" => live /\ Idle("session") /\ Idle("cli")
           /\ \A u \in Undoers : ~Idle(u) =>
                change.at = "idle" /\ \A v \in Undoers : v # u => Idle(v)
BY DEF CopiesInv, ChangeInv, UndoInv, StackInv, LiveInv, Undoers

(* Steps that leave log, copies and files alone.                            *)
LEMMA NothingOnStack ==
    ASSUME CopiesInv, StackInv, UNCHANGED <<disk, log, backups, origin>>
    PROVE  /\ Undoables' = Undoables /\ Newest' = Newest /\ Numbered(log')
           /\ UNCHANGED Stack!stackVars
           /\ cut' = cut => TornInv'
           /\ \A x : Saved(x)' = Saved(x)
<1>1. Undoables' = Undoables /\ \A x : Saved(x)' = Saved(x)
    BY DEF Undoables, RevertedSeqs, Saved
<1>2. Newest' = Newest
    BY <1>1 DEF Newest
<1>3. UNCHANGED Stack!stackVars
    BY <1>1, StackStays
<1>4. cut' = cut => TornInv'
    BY <1>1 DEF StackInv, TornInv, Saved
<1> QED
    BY <1>1, <1>2, <1>3, <1>4 DEF StackInv

(* A new session starts with an empty stack.                                *)
LEMMA StartOnStack == CopiesInv /\ StackInv /\ StartSession => StackStep
<1> SUFFICES ASSUME CopiesInv, StackInv, StartSession PROVE StackStep
    OBVIOUS
<1>1. log' = <<>> /\ DOMAIN <<>> = {} /\ Len(<<>>) = 0
    BY EmptySeq DEF StartSession
<1>2. /\ change.at = "idle" /\ Idle("session") /\ Idle("cli") /\ UNCHANGED <<change, undo>>
      /\ logging' = TRUE /\ cut' = FALSE /\ seq' = 0 /\ origin' = disk /\ UNCHANGED disk
    BY DEF StartSession, CopiesInv, ChangeInv, UndoInv
<1>3. Undoables' = {} /\ EntriesOfLog' = {}
    BY <1>1 DEF Undoables, EntriesOfLog
<1>4. Stack!StackNext
    BY <1>2, <1>3 DEF Stack!StackNext, Stack!Begin
<1>5. Numbered(log')
    BY <1>1 DEF Numbered
<1>6. LiveInv' /\ NewestInv' /\ TornInv'
    BY <1>1, <1>2 DEF LiveInv, NewestInv, TornInv, Idle, Undoers
<1> QED
    BY <1>4, <1>5, <1>6 DEF StackStep, StackInv

(* An event that undo does not read changes nothing.                        *)
LEMMA NoteOnStack ==
    ASSUME Sound, CopiesInv, StackInv, NEW extent \in Extents, Note(extent)
    PROVE  StackStep
<1>1. /\ live /\ Idle("session") /\ Idle("cli") /\ ~cut /\ logging /\ seq = Len(log)
      /\ log \in Seq(Lines) /\ cut \in BOOLEAN /\ TypeOK /\ Numbered(log) /\ TornInv
    BY Alone DEF Note, StackInv, LiveInv, CopiesInv, TypeOK
<1>2. /\ AppendLine(Line("other", seq), extent) /\ seq' = seq + 1 /\ extent = "whole" /\ logging'
      /\ UNCHANGED <<disk, backups, started, live, change, undo, answer, changes, undos, origin>>
    BY <1>1, SessionAppend DEF Note, Sound
<1>3. PICK line \in Lines : line = Line("other", seq)
    BY <1>1, LineTypes DEF TypeOK
<1>4. line.kind = "other" /\ Fits(line) /\ AppendLine(line, extent)
    BY <1>1, <1>2, <1>3, LineKinds DEF Fits, AppendLine, Appended
<1>5. Added(line) /\ ~cut' /\ Len(log') = Len(log) + 1
    BY <1>1, <1>2, <1>4, Appends DEF Spoilt, Added
<1>6. /\ Numbered(log') /\ TornInv' /\ Undoables' = Undoables
      /\ Stack!StackNext \/ UNCHANGED Stack!stackVars
    BY <1>1, <1>2, <1>4, <1>5, AddedOnStack
<1>7. LiveInv'
    BY <1>1, <1>2, <1>5 DEF LiveInv, Idle
<1>8. NewestInv'
    <2>1. Newest' = Newest
        BY <1>6 DEF Newest
    <2>2. Undoables # {} => log'[Newest] = log[Newest]
        BY <1>1, <1>5, NewestEntry DEF Added
    <2>3. \A u \in Undoers : Idle(u)'
        BY <1>1, <1>2 DEF Idle, Undoers
    <2> QED
        BY <1>2, <1>6, <2>1, <2>2, <2>3 DEF StackInv, NewestInv
<1> QED
    BY <1>6, <1>7, <1>8 DEF StackStep, StackInv

(* A file is copied; nothing can be undone that could not before.           *)
LEMMA CaptureOnStack ==
    ASSUME CopiesInv, StackInv, NEW f \in Files, Capture(f)
    PROVE  StackStep
<1>1. /\ live /\ Idle("session") /\ Idle("cli")
      /\ UNCHANGED <<disk, log, cut, sessionVars, undo, answer, undos, notes, origin>>
      /\ change'.at = "captured" /\ change'.file = f /\ change'.was = disk[f]
    BY Alone DEF Capture
<1>2. \A i \in Undoables : Saved(log[i])' = Saved(log[i])
    <2>1. CASE disk[f] = Absent
        BY <1>1, <2>1 DEF Capture, Saved
    <2>2. CASE disk[f] # Absent
        <3>1. backups \in Seq(Values) /\ disk[f] \in Values /\ backups' = Append(backups, disk[f])
            BY <2>2 DEF Capture, CopiesInv, TypeOK
        <3>2. \A x : x.backup \in Nat /\ x.backup <= Len(backups) => Saved(x)' = Saved(x)
            BY <3>1, CopyAdded
        <3> QED
            BY <1>1, <3>2, EntryTypes
    <2> QED
        BY <2>1, <2>2
<1>3. Undoables' = Undoables
    BY <1>1 DEF Undoables, RevertedSeqs
<1>4. UNCHANGED Stack!stackVars
    BY <1>1, <1>2, <1>3, StackStays
<1>5. LiveInv' /\ TornInv' /\ Numbered(log')
    BY <1>1 DEF StackInv, LiveInv, TornInv, Idle, sessionVars
<1>6. NewestInv'
    BY <1>1 DEF NewestInv, Idle, Undoers
<1> QED
    BY <1>4, <1>5, <1>6 DEF StackStep, StackInv

(* A checkpoint is logged: the file is saved before it is touched.          *)
LEMMA CheckpointOnStack ==
    ASSUME Sound, CopiesInv, StackInv, NEW extent \in Extents, LogCheckpoint(extent)
    PROVE  StackStep
<1>1. /\ live /\ Idle("session") /\ Idle("cli") /\ ~cut /\ logging /\ seq = Len(log)
      /\ log \in Seq(Lines) /\ cut \in BOOLEAN /\ TypeOK /\ Numbered(log) /\ TornInv
      /\ change.at = "captured"
    BY Alone DEF LogCheckpoint, StackInv, LiveInv, CopiesInv, TypeOK
<1>2. /\ AppendLine(Checkpointed(seq), extent) /\ seq' = seq + 1 /\ extent = "whole" /\ logging'
      /\ UNCHANGED <<disk, backups, started, live, undo, answer, bounds, origin>>
      /\ change'.at = "logged" /\ change'.file = change.file
    <2>1. change \in Changes
        BY <1>1 DEF TypeOK
    <2> QED
        BY <1>1, <2>1, SessionAppend DEF LogCheckpoint, Sound, Changes
<1>3. PICK line \in Lines : line = Checkpointed(seq)
    BY <1>1, LineTypes DEF TypeOK
<1>4. line.kind = "checkpoint" /\ line.file = change.file /\ Fits(line) /\ AppendLine(line, extent)
    <2>1. AppendLine(line, extent)
        BY <1>2, <1>3 DEF AppendLine, Appended
    <2>2. /\ line.kind = "checkpoint" /\ line.seq = Len(log) /\ line.file = change.file
          /\ line.was = change.was /\ line.backup = change.backup
        BY <1>1, <1>3, LineKinds
    <2>3. Genuine(line) /\ line.file \in Files
        BY <1>1, <2>2 DEF CopiesInv, ChangeInv, Genuine, Saved
    <2>4. disk[line.file] = line.was
        BY <1>1, <2>2 DEF StackInv, NewestInv
    <2> QED
        BY <1>1, <2>1, <2>2, <2>3, <2>4 DEF Fits
<1>5. Added(line) /\ ~cut' /\ Len(log') = Len(log) + 1 /\ log'[Len(log) + 1] = line
    BY <1>1, <1>2, <1>4, Appends DEF Spoilt, Added
<1>6. /\ Numbered(log') /\ TornInv' /\ Undoables' # {} /\ Newest' = Len(log) + 1
      /\ Stack!StackNext \/ UNCHANGED Stack!stackVars
    BY <1>1, <1>2, <1>4, <1>5, AddedOnStack
<1>7. LiveInv'
    BY <1>1, <1>2, <1>5 DEF LiveInv, Idle
<1>8. NewestInv'
    <2>1. \A u \in Undoers : Idle(u)'
        BY <1>1, <1>2 DEF Idle, Undoers
    <2> QED
        BY <1>2, <1>4, <1>5, <1>6, <2>1 DEF NewestInv
<1> QED
    BY <1>6, <1>7, <1>8 DEF StackStep, StackInv

(* A step that only moves somebody on keeps what is known of the log.       *)
LEMMA QuietOnStack ==
    ASSUME CopiesInv, StackInv, UNCHANGED <<disk, log, cut, backups, origin>>, LiveInv', NewestInv'
    PROVE  StackStep
BY NothingOnStack DEF StackStep, StackInv

(* A session ends.                                                          *)
LEMMA EndOnStack == CopiesInv /\ StackInv /\ EndSession => StackStep
<1> SUFFICES ASSUME CopiesInv, StackInv, EndSession PROVE StackStep
    OBVIOUS
<1>1. /\ UNCHANGED <<disk, log, cut, backups, started, logging, seq, change, undo, answer,
                     bounds, origin>>
      /\ change.at = "idle" /\ Idle("session") /\ Idle("cli") /\ live' = FALSE
    BY Alone DEF EndSession
<1>2. LiveInv' /\ NewestInv'
    BY <1>1 DEF LiveInv, NewestInv, Idle, Undoers
<1> QED
    BY <1>1, <1>2, QuietOnStack

(* A change does not take place.                                            *)
LEMMA SkipOnStack == CopiesInv /\ StackInv /\ SkipWrite => StackStep
<1> SUFFICES ASSUME CopiesInv, StackInv, SkipWrite PROVE StackStep
    OBVIOUS
<1>1. /\ UNCHANGED <<disk, log, cut, backups, sessionVars, undo, answer, bounds, origin>>
      /\ live /\ Idle("session") /\ Idle("cli") /\ change'.at = "idle"
    BY Alone DEF SkipWrite, NoChange
<1>2. LiveInv' /\ NewestInv'
    BY <1>1 DEF StackInv, LiveInv, NewestInv, Idle, Undoers, sessionVars
<1> QED
    BY <1>1, <1>2, QuietOnStack

(* Under the newest entry, its file can be given any content.               *)
LEMMA TouchOnStack ==
    ASSUME CopiesInv, StackInv, Undoables # {}, NEW v \in Values,
           disk' = [disk EXCEPT ![log[Newest].file] = v],
           UNCHANGED <<log, cut, backups, sessionVars, origin>>
    PROVE  /\ Undoables' = Undoables /\ Newest' = Newest /\ Numbered(log') /\ TornInv'
           /\ disk'[log[Newest].file] = v
           /\ Stack!StackNext
<1>1. Undoables' = Undoables /\ \A x : Saved(x)' = Saved(x)
    BY DEF Undoables, RevertedSeqs, Saved
<1>2. Newest' = Newest
    BY <1>1 DEF Newest
<1>3. Numbered(log') /\ Stack!StackNext
    BY StackTouched DEF StackInv
<1>4. /\ Newest \in Undoables /\ log[Newest].file \in Files /\ disk \in [Files -> Values]
      /\ log \in Seq(Lines)
    BY NewestEntry DEF StackInv, CopiesInv, TypeOK
<1>5. TornInv'
    <2> SUFFICES ASSUME cut, log[Len(log)].kind = "reverted" PROVE TornInv'
        BY DEF TornInv
    <2> DEFINE e == log[Len(log)].undoes + 1
    <2>1. /\ e \in DOMAIN log /\ log[e].kind = "checkpoint"
          /\ \A i \in Undoables : i < e
          /\ (\A i \in Undoables : log[i].file # log[e].file) => disk[log[e].file] = Saved(log[e])
        BY DEF StackInv, TornInv
    <2>2. log[e].file \in Files
        BY <2>1 DEF CopiesInv, LogInv, Certified
    <2> HIDE DEF e
    <2>3. (\A i \in Undoables : log[i].file # log[e].file) => disk'[log[e].file] = Saved(log[e])
        BY <1>4, <2>1, <2>2
    <2>4. e = log[Len(log)].undoes + 1 /\ UNCHANGED <<log, cut>>
        BY DEF e
    <2> QED
        BY <1>1, <2>1, <2>3, <2>4 DEF TornInv
<1> QED
    BY <1>1, <1>2, <1>3, <1>4, <1>5

(* A change takes place: its checkpoint is the newest entry.                *)
LEMMA WriteOnStack ==
    ASSUME CopiesInv, StackInv, NEW c \in Contents, WriteFile(c)
    PROVE  StackStep
<1>1. /\ UNCHANGED <<log, cut, backups, sessionVars, undo, answer, bounds, origin>>
      /\ live /\ Idle("session") /\ Idle("cli") /\ change'.at = "idle" /\ c \in Values
      /\ disk' = [disk EXCEPT ![change.file] = c]
      /\ Undoables # {} /\ log[Newest].file = change.file
    BY Alone DEF WriteFile, NoChange, Values, StackInv, NewestInv
<1>2. /\ Undoables' = Undoables /\ Newest' = Newest /\ Numbered(log') /\ TornInv'
      /\ Stack!StackNext
    BY <1>1, TouchOnStack
<1>3. LiveInv' /\ NewestInv'
    BY <1>1 DEF StackInv, LiveInv, NewestInv, Idle, Undoers, sessionVars
<1> QED
    BY <1>2, <1>3 DEF StackStep, StackInv

(* A refused undo, or one that cannot read the log.                         *)
LEMMA RefuseOnStack ==
    ASSUME CopiesInv, StackInv, NEW u \in Undoers, Refuse(u) \/ FindFails(u)
    PROVE  StackStep
<1>1. UNCHANGED <<disk, log, cut, backups, sessionVars, change, undo, origin>>
    BY DEF Refuse, FindFails
<1>2. Undoables' = Undoables /\ Newest' = Newest /\ \A x : Saved(x)' = Saved(x)
    BY <1>1, NothingOnStack
<1>3. LiveInv' /\ NewestInv'
    BY <1>1, <1>2 DEF StackInv, LiveInv, NewestInv, Idle, sessionVars
<1> QED
    BY <1>1, <1>3, QuietOnStack

(* An undo finds the newest entry.                                          *)
LEMMA FindOnStack ==
    ASSUME Sound, CopiesInv, StackInv, NEW u \in Undoers, Find(u)
    PROVE  StackStep
<1>1. /\ UNCHANGED <<disk, log, cut, backups, sessionVars, change, origin>>
      /\ undo' = [undo EXCEPT ![u] = [at |-> "found", entry |-> log[Newest]]]
      /\ undo \in [Undoers -> Undos]
      /\ Undoables # {} /\ MayUndo(u)
    BY DEF Find, NothingFound, CopiesInv, TypeOK
<1>2. /\ change.at = "idle" /\ \A v \in Undoers : v # u => Idle(v)
      /\ u = "cli" => ~live
    <2>1. CASE u = "session"
        <3>1. live /\ change.at = "idle"
            BY <1>1, <2>1 DEF MayUndo
        <3> QED
            BY <2>1, <3>1, Alone DEF Undoers
    <2>2. CASE u = "cli"
        <3>1. ~live
            BY <1>1, <2>2 DEF MayUndo, Sound
        <3>2. change.at = "idle" /\ Idle("session")
            BY <3>1 DEF CopiesInv, ChangeInv, UndoInv
        <3> QED
            BY <2>2, <3>1, <3>2 DEF Undoers
    <2> QED
        BY <2>1, <2>2 DEF Undoers
<1>3. Undoables' = Undoables /\ Newest' = Newest /\ \A x : Saved(x)' = Saved(x)
    BY <1>1, NothingOnStack
<1>4. /\ undo'[u].at = "found" /\ undo'[u].entry = log[Newest]
      /\ \A v \in Undoers : v # u => Idle(v)'
    BY <1>1, <1>2 DEF Idle
<1>5. LiveInv'
    BY <1>1, <1>2, <1>4 DEF StackInv, LiveInv, Idle, Undoers, sessionVars
<1>6. NewestInv'
    BY <1>1, <1>2, <1>3, <1>4 DEF NewestInv, Idle
<1> QED
    BY <1>1, <1>5, <1>6, QuietOnStack

(* An undo fails before it has restored the file.                           *)
LEMMA GiveUpOnStack ==
    ASSUME CopiesInv, StackInv, NEW u \in Undoers, GiveUp(u)
    PROVE  StackStep
<1>1. /\ UNCHANGED <<disk, log, cut, backups, sessionVars, change, bounds, origin>>
      /\ undo' = [undo EXCEPT ![u] = NoUndo] /\ undo \in [Undoers -> Undos]
      /\ change.at = "idle" /\ \A v \in Undoers : v # u => Idle(v)
    BY Alone DEF GiveUp, CopiesInv, TypeOK, Idle
<1>2. \A v \in Undoers : Idle(v)'
    BY <1>1 DEF Idle, NoUndo
<1>3. LiveInv' /\ NewestInv'
    BY <1>1, <1>2 DEF StackInv, LiveInv, NewestInv, Idle, Undoers, sessionVars
<1> QED
    BY <1>1, <1>3, QuietOnStack

(* The file is put back, in one step or two.                                *)
LEMMA RestoreOnStack ==
    ASSUME CopiesInv, StackInv, NEW u \in Undoers, Remove(u) \/ BeginCopy(u) \/ EndCopy(u)
    PROVE  StackStep
<1>1. /\ UNCHANGED <<log, cut, backups, sessionVars, change, answer, bounds, origin>>
      /\ ~Idle(u) /\ undo \in [Undoers -> Undos] /\ disk \in [Files -> Values]
    BY DEF Remove, BeginCopy, EndCopy, Idle, CopiesInv, TypeOK
<1>2. /\ change.at = "idle" /\ \A v \in Undoers : v # u => Idle(v)
      /\ Undoables # {} /\ undo[u].entry = log[Newest]
    BY <1>1, Alone DEF StackInv, NewestInv
<1>3. PICK v \in Values, at \in {"copying", "restored"} :
        /\ disk' = [disk EXCEPT ![log[Newest].file] = v]
        /\ undo' = [undo EXCEPT ![u].at = at]
        /\ at = "restored" => v = Saved(log[Newest])
    <2>1. CASE Remove(u)
        <3>1. Absent \in Values /\ Saved(log[Newest]) = Absent
            BY <1>2, <2>1 DEF Remove, Saved, Values
        <3>2. /\ disk' = [disk EXCEPT ![log[Newest].file] = Absent]
              /\ undo' = [undo EXCEPT ![u].at = "restored"]
            BY <1>2, <2>1 DEF Remove
        <3> QED
            BY <3>1, <3>2
    <2>2. CASE BeginCopy(u)
        <3>1. Partial \in Values
            BY DEF Values
        <3>2. /\ disk' = [disk EXCEPT ![log[Newest].file] = Partial]
              /\ undo' = [undo EXCEPT ![u].at = "copying"]
            BY <1>2, <2>2 DEF BeginCopy
        <3> QED
            BY <3>1, <3>2
    <2>3. CASE EndCopy(u)
        <3>1. Saved(log[Newest]) \in Values
            BY <1>1, <1>2, UndoFields DEF CopiesInv
        <3>2. /\ disk' = [disk EXCEPT ![log[Newest].file] = Saved(log[Newest])]
              /\ undo' = [undo EXCEPT ![u].at = "restored"]
            BY <1>2, <2>3 DEF EndCopy
        <3> QED
            BY <3>1, <3>2
    <2> QED
        BY <2>1, <2>2, <2>3
<1>4. /\ Undoables' = Undoables /\ Newest' = Newest /\ Numbered(log') /\ TornInv'
      /\ disk'[log[Newest].file] = v
      /\ Stack!StackNext
    BY <1>1, <1>2, <1>3, TouchOnStack
<1>5. /\ undo'[u].at = at /\ undo'[u].entry = log[Newest]
      /\ \A w \in Undoers : w # u => Idle(w)'
    <2>1. undo[u] \in Undos
        BY <1>1
    <2> QED
        BY <1>1, <1>2, <1>3, <2>1 DEF Idle, Undos
<1>6. LiveInv'
    BY <1>1, <1>5 DEF StackInv, LiveInv, Idle, Undoers, sessionVars
<1>7. NewestInv'
    <2>1. at = "restored" => disk'[log[Newest].file] = Saved(log[Newest])'
        BY <1>1, <1>3, <1>4 DEF Saved
    <2>2. /\ change'.at = "idle" /\ log'[Newest'] = log[Newest] /\ Undoables' # {}
        BY <1>1, <1>2, <1>4
    <2>3. Saved(undo[u].entry)' = Saved(log[Newest])'
        BY <1>1, <1>4, <1>5 DEF Saved
    <2> QED
        BY <1>3, <1>5, <2>1, <2>2, <2>3 DEF NewestInv, Idle
<1> QED
    BY <1>4, <1>6, <1>7 DEF StackStep, StackInv

(* What a finished undo logs is the revert of the newest entry.             *)
LEMMA RevertFits ==
    ASSUME CopiesInv, StackInv, NEW u \in Undoers, undo[u].at = "restored", NEW n \in Nat
    PROVE  \E line \in Lines : /\ line = Reverted(n, undo[u].entry.seq)
                               /\ line.kind = "reverted" /\ Fits(line)
                               /\ line.undoes = log[Newest].seq
<1>1. ~Idle(u) /\ undo[u].entry.seq \in Nat /\ TypeOK
    BY UndoFields DEF Idle, CopiesInv
<1>2. /\ Undoables # {} /\ undo[u].entry = log[Newest]
      /\ disk[log[Newest].file] = Saved(log[Newest])
    BY <1>1 DEF StackInv, NewestInv
<1>3. PICK line \in Lines : line = Reverted(n, undo[u].entry.seq)
    BY <1>1, LineTypes
<1>4. line.kind = "reverted" /\ line.undoes = log[Newest].seq
    BY <1>2, <1>3, LineKinds
<1> QED
    BY <1>2, <1>3, <1>4 DEF Fits

(* The session's own undo is over: its revert is logged.                    *)
LEMMA RevertOnStack ==
    ASSUME Sound, CopiesInv, StackInv, NEW extent \in Extents, LogRevert(extent)
    PROVE  /\ StackStep
           /\ Undoables # {} /\ Undoables' = Undoables \ {Newest}
<1>1. /\ "session" \in Undoers /\ undo["session"].at = "restored" /\ ~Idle("session")
      /\ live /\ change.at = "idle" /\ Idle("cli") /\ ~cut /\ logging /\ seq = Len(log)
      /\ log \in Seq(Lines) /\ cut \in BOOLEAN /\ seq \in Nat /\ TypeOK /\ Numbered(log)
      /\ undo \in [Undoers -> Undos]
    BY Alone DEF LogRevert, Idle, Undoers, CopiesInv, UndoInv, StackInv, LiveInv, TypeOK
<1>2. /\ AppendLine(Reverted(seq, undo["session"].entry.seq), extent)
      /\ seq' = seq + 1 /\ extent = "whole" /\ logging'
      /\ UNCHANGED <<disk, backups, started, live, change, bounds, origin>>
      /\ undo' = [undo EXCEPT !["session"] = NoUndo]
    BY <1>1, SessionAppend DEF LogRevert, Sound
<1>3. PICK line \in Lines : /\ line = Reverted(seq, undo["session"].entry.seq)
                            /\ line.kind = "reverted" /\ Fits(line)
                            /\ line.undoes = log[Newest].seq
    BY <1>1, RevertFits
<1>4. AppendLine(line, extent)
    BY <1>2, <1>3 DEF AppendLine, Appended
<1>5. Added(line) /\ ~cut' /\ Len(log') = Len(log) + 1
    BY <1>1, <1>2, <1>4, Appends DEF Spoilt, Added
<1>6. /\ Numbered(log') /\ TornInv' /\ Undoables # {} /\ Undoables' = Undoables \ {Newest}
      /\ Stack!StackNext \/ UNCHANGED Stack!stackVars
    BY <1>1, <1>2, <1>3, <1>5, AddedOnStack DEF Fits
<1>7. \A v \in Undoers : Idle(v)'
    BY <1>1, <1>2 DEF Idle, NoUndo, Undoers
<1>8. LiveInv'
    BY <1>1, <1>2, <1>5, <1>7 DEF LiveInv, Undoers
<1>9. NewestInv'
    BY <1>1, <1>2, <1>7 DEF NewestInv
<1> QED
    BY <1>6, <1>8, <1>9 DEF StackStep, StackInv

(* The undo of the command line is over: the log was opened again.          *)
LEMMA ReopenOnStack ==
    ASSUME Sound, CopiesInv, StackInv, NEW extent \in Extents, ReopenAndLogRevert(extent)
    PROVE  /\ StackStep
           /\ ~cut => Undoables # {} /\ Undoables' = Undoables \ {Newest}
<1>1. /\ "cli" \in Undoers /\ undo["cli"].at = "restored" /\ ~Idle("cli")
      /\ ~live /\ change.at = "idle" /\ Idle("session")
      /\ log \in Seq(Lines) /\ cut \in BOOLEAN /\ (cut => log # <<>>)
      /\ ReopenedSeq \in Nat /\ Numbered(log) /\ TornInv
      /\ undo \in [Undoers -> Undos]
    BY Alone, ReopenedType DEF ReopenAndLogRevert, Idle, Undoers, CopiesInv, StackInv, LiveInv, TypeOK
<1>2. /\ AppendLine(Reverted(ReopenedSeq, undo["cli"].entry.seq), extent) /\ extent = "whole"
      /\ UNCHANGED <<disk, backups, sessionVars, change, bounds, origin>>
      /\ undo' = [undo EXCEPT !["cli"] = NoUndo]
    BY DEF ReopenAndLogRevert, Sound
<1>3. PICK line \in Lines : /\ line = Reverted(ReopenedSeq, undo["cli"].entry.seq)
                            /\ line.kind = "reverted" /\ Fits(line)
                            /\ line.undoes = log[Newest].seq
    BY <1>1, RevertFits
<1>4. AppendLine(line, extent)
    BY <1>2, <1>3 DEF AppendLine, Appended
<1>5. /\ Numbered(log') /\ TornInv'
      /\ Stack!StackNext \/ UNCHANGED Stack!stackVars
    BY <1>1, <1>2, <1>3, <1>4, AppendOnStack
<1>6. \A v \in Undoers : Idle(v)'
    BY <1>1, <1>2 DEF Idle, NoUndo, Undoers
<1>7. LiveInv' /\ NewestInv'
    BY <1>1, <1>2, <1>6 DEF LiveInv, NewestInv, Undoers, sessionVars
<1>8. ~cut => Undoables # {} /\ Undoables' = Undoables \ {Newest}
    <2> SUFFICES ASSUME ~cut PROVE Undoables # {} /\ Undoables' = Undoables \ {Newest}
        OBVIOUS
    <2>1. Added(line)
        BY <1>1, <1>2, <1>4, Appends DEF Spoilt
    <2> QED
        BY <1>2, <1>3, <2>1, <1>1, AddedOnStack DEF Fits
<1> QED
    BY <1>5, <1>7, <1>8 DEF StackStep, StackInv

(* Whatever of a line a death leaves, the stack takes it.                   *)
LEMMA DeathOnStack ==
    ASSUME CopiesInv, StackInv, NEW extent \in TornExtents, SessionDies(extent) \/ CliDies(extent)
    PROVE  StackStep
<1>0. /\ extent \in Extents /\ undo \in [Undoers -> Undos] /\ log \in Seq(Lines)
      /\ "cli" \in Undoers /\ "session" \in Undoers /\ Numbered(log) /\ TornInv /\ TypeOK
    BY UndoAssumption DEF CopiesInv, TypeOK, StackInv, Undoers
<1>1. CASE SessionDies(extent)
    <2>1. /\ AppendLine(LineUnderWay, extent)
          /\ UNCHANGED <<disk, backups, started, logging, seq, answer, bounds, origin>>
          /\ live /\ live' = FALSE /\ change' = NoChange /\ Idle("cli") /\ ~cut /\ seq = Len(log)
          /\ undo' = [undo EXCEPT !["session"] = NoUndo]
          /\ seq \in Nat
        BY <1>0, <1>1, Alone DEF SessionDies, StackInv, LiveInv, TypeOK
    <2>2. PICK line \in Lines : line = LineUnderWay
        BY LineUnderWayType DEF CopiesInv
    <2>3. AppendLine(line, extent)
        BY <2>1, <2>2 DEF AppendLine, Appended
    <2>4. Fits(line)
        <3>1. CASE change.at = "captured"
            <4>1. line = Checkpointed(seq)
                BY <2>2, <3>1 DEF LineUnderWay
            <4>2. /\ line.kind = "checkpoint" /\ line.seq = Len(log) /\ line.file = change.file
                  /\ line.was = change.was /\ line.backup = change.backup
                BY <2>1, <4>1, LineKinds
            <4>3. Genuine(line) /\ line.file \in Files
                BY <3>1, <4>2 DEF CopiesInv, ChangeInv, Genuine, Saved
            <4>4. disk[line.file] = line.was
                BY <3>1, <4>2 DEF StackInv, NewestInv
            <4> QED
                BY <2>1, <4>2, <4>3, <4>4 DEF Fits
        <3>2. CASE change.at # "captured" /\ undo["session"].at = "restored"
            <4>1. line = Reverted(seq, undo["session"].entry.seq)
                BY <2>2, <3>2 DEF LineUnderWay
            <4> QED
                BY <1>0, <2>1, <3>2, <4>1, RevertFits
        <3>3. CASE change.at # "captured" /\ undo["session"].at # "restored"
            <4>1. line.kind = "other"
                BY <2>2, <3>3, LineKinds DEF LineUnderWay
            <4> QED
                BY <2>1, <4>1 DEF Fits
        <3> QED
            BY <3>1, <3>2, <3>3
    <2>5. /\ Numbered(log') /\ TornInv'
          /\ Stack!StackNext \/ UNCHANGED Stack!stackVars
        BY <1>0, <2>1, <2>3, <2>4, AppendOnStack
    <2>6. \A v \in Undoers : Idle(v)'
        BY <1>0, <2>1 DEF Idle, NoUndo, Undoers
    <2>7. LiveInv' /\ NewestInv'
        BY <1>0, <2>1, <2>6 DEF LiveInv, NewestInv, NoChange
    <2> QED
        BY <2>5, <2>7 DEF StackStep, StackInv
<1>2. CASE CliDies(extent)
    <2>1. /\ AppendLine(Reverted(ReopenedSeq, undo["cli"].entry.seq), extent)
          /\ undo["cli"].at = "restored" \/ extent = "nothing"
          /\ UNCHANGED <<disk, backups, sessionVars, change, answer, bounds, origin>>
          /\ undo' = [undo EXCEPT !["cli"] = NoUndo]
          /\ ~Idle("cli") /\ ~live /\ change.at = "idle" /\ Idle("session")
          /\ ReopenedSeq \in Nat
        BY <1>0, <1>2, Alone, ReopenedType DEF CliDies, StackInv, LiveInv, Undoers
    <2>2. PICK line \in Lines : /\ line = Reverted(ReopenedSeq, undo["cli"].entry.seq)
                                /\ undo["cli"].at = "restored" => Fits(line)
        <3>1. undo["cli"].entry.seq \in Nat
            BY <1>0, UndoFields DEF CopiesInv
        <3>2. PICK line \in Lines : line = Reverted(ReopenedSeq, undo["cli"].entry.seq)
            BY <1>0, <2>1, <3>1, LineTypes
        <3>3. undo["cli"].at = "restored" => Fits(line)
            BY <1>0, <2>1, <3>2, RevertFits
        <3> QED
            BY <3>2, <3>3
    <2>3. AppendLine(line, extent)
        BY <2>1, <2>2 DEF AppendLine, Appended
    <2>4. /\ Numbered(log') /\ TornInv'
          /\ Stack!StackNext \/ UNCHANGED Stack!stackVars
        BY <1>0, <2>1, <2>2, <2>3, AppendOnStack
    <2>5. \A v \in Undoers : Idle(v)'
        BY <1>0, <2>1 DEF Idle, NoUndo, Undoers
    <2>6. LiveInv' /\ NewestInv'
        BY <1>0, <2>1, <2>5 DEF LiveInv, NewestInv, sessionVars
    <2> QED
        BY <2>4, <2>6 DEF StackStep, StackInv
<1> QED
    BY <1>1, <1>2

(* Every step of the code is a step of the stack, or none of its business.  *)
LEMMA StepOnStack == Sound /\ CopiesInv /\ StackInv /\ [Next]_vars => StackStep
<1> SUFFICES ASSUME Sound, CopiesInv, StackInv, [Next]_vars PROVE StackStep
    OBVIOUS
<1>1. CASE SessionStep
    <2>1. ASSUME NEW f \in Files, CaptureFails(f) PROVE StackStep
        BY <2>1 DEF CaptureFails, Sound
    <2> QED
        BY <1>1, <2>1, StartOnStack, EndOnStack, SkipOnStack, NoteOnStack, CheckpointOnStack,
           CaptureOnStack, WriteOnStack DEF SessionStep
<1>2. CASE UndoStep
    BY <1>2, RefuseOnStack, FindOnStack, RestoreOnStack, GiveUpOnStack, RevertOnStack,
       ReopenOnStack DEF UndoStep
<1>3. CASE Death
    BY <1>3, DeathOnStack DEF Death
<1>4. CASE UNCHANGED vars
    <2>1. UNCHANGED <<disk, log, cut, backups, sessionVars, change, undo, origin>>
        BY <1>4 DEF vars
    <2>2. Undoables' = Undoables /\ Newest' = Newest /\ \A x : Saved(x)' = Saved(x)
        BY <2>1, NothingOnStack
    <2>3. LiveInv' /\ NewestInv'
        BY <2>1, <2>2 DEF StackInv, LiveInv, NewestInv, Idle, sessionVars
    <2> QED
        BY <2>1, <2>3, QuietOnStack
<1> QED
    BY <1>1, <1>2, <1>3, <1>4 DEF Next

(* The stack is empty when nothing has happened yet.                        *)
LEMMA StackStarts == Init => StackInv /\ Stack!StackInit
<1> SUFFICES ASSUME Init PROVE StackInv /\ Stack!StackInit
    OBVIOUS
<1>1. log = <<>> /\ DOMAIN <<>> = {} /\ Len(<<>>) = 0
    BY EmptySeq DEF Init
<1>2. /\ change.at = "idle" /\ Idle("session") /\ Idle("cli") /\ ~live /\ cut = FALSE
      /\ origin = disk
    BY DEF Init, NoChange, NoUndo, Idle, Undoers
<1>3. Numbered(log) /\ LiveInv /\ NewestInv /\ TornInv
    BY <1>1, <1>2 DEF Numbered, LiveInv, NewestInv, TornInv, Undoers
<1>4. EntriesOfLog = {} /\ disk \in [Files -> Values]
    BY <1>1 DEF EntriesOfLog, Undoables, Init, Values
<1> QED
    BY <1>2, <1>3, <1>4 DEF StackInv, Stack!StackInit

(* What is known of log, files and copies holds in every state.             *)
LEMMA StackAlways ==
    ASSUME Sound
    PROVE  Spec => [](CopiesInv /\ StackInv)
<1>1. CopiesInv /\ StackInv /\ [Next]_vars => StackInv'
    BY StepOnStack DEF StackStep
<1> QED
    BY <1>1, CopiesAlways, StackStarts, PTL DEF Spec

(* checkpoint.rs, session.rs and both undos: as long as the disk takes what *)
(* is written and one process works at a time, undo is the stack that       *)
(* UndoStack describes, wherever a process dies and whatever of its last    *)
(* line reaches the log.                                                    *)
THEOREM UndoIsTheStack ==
    ASSUME Sound
    PROVE  Spec => StackIsImplemented
<1>1. CopiesInv /\ StackInv /\ [Next]_vars => [Stack!StackNext]_(Stack!stackVars)
    BY StepOnStack DEF StackStep
<1>2. Init => Stack!StackInit
    BY StackStarts
<1> QED
    BY <1>1, <1>2, StackAlways, PTL DEF Spec, StackIsImplemented, Stack!StackSpec

(* An undo that reports success takes the newest change off, and no other,  *)
(* unless the line before it is torn.                                       *)
THEOREM UndosAdvance ==
    ASSUME Sound
    PROVE  Spec => UndoAdvances
<1> DEFINE A == answer' = "reverted" /\ answer # "reverted" /\ ~cut =>
                    Undoables' = Undoables \ {Newest}
<1>1. CopiesInv /\ StackInv /\ [Next]_vars => [A]_vars
    <2> SUFFICES ASSUME CopiesInv, StackInv, Next, answer' = "reverted", answer # "reverted", ~cut
                 PROVE  Undoables' = Undoables \ {Newest}
        BY Zenon
    <2>1. \E extent \in Extents : LogRevert(extent) \/ ReopenAndLogRevert(extent)
        <3>1. ~SessionStep
            BY DEF SessionStep, StartSession, EndSession, SkipWrite, Note, LogCheckpoint, Capture,
                   CaptureFails, WriteFile
        <3>2. ~Death
            BY DEF Death, SessionDies, CliDies
        <3>3. ~\E u \in Undoers : Refuse(u) \/ Find(u) \/ FindFails(u) \/ Remove(u) \/ BeginCopy(u)
                                    \/ EndCopy(u) \/ GiveUp(u)
            BY DEF Refuse, Find, FindFails, Remove, BeginCopy, EndCopy, GiveUp
        <3> QED
            BY <3>1, <3>2, <3>3 DEF Next, UndoStep
    <2> QED
        BY <2>1, RevertOnStack, ReopenOnStack
<1> HIDE DEF A
<1>2. Spec => [][A]_vars
    BY <1>1, StackAlways, PTL DEF Spec
<1> QED
    BY <1>2 DEF UndoAdvances, A

-----------------------------------------------------------------------------
(* What the stack promises, the code keeps. *)

Proved == INSTANCE UndoStack_proofs WITH files <- disk, entries <- EntriesOfLog

(* Undoing what can be undone leads back to the files of the start.         *)
Promised == Proved!StackTypeOK /\ Proved!Numbered /\ Stack!LeadsBack

(* A step of the stack keeps its promise.                                   *)
LEMMA PromiseKept == Promised /\ StackStep => Promised'
<1> SUFFICES ASSUME Promised, StackStep PROVE Promised'
    OBVIOUS
<1>1. [Proved!StackNext]_(Proved!stackVars)
    BY DEF StackStep, Stack!StackNext, Proved!StackNext, Stack!stackVars, Proved!stackVars,
           Stack!Begin, Proved!Begin, Stack!Save, Proved!Save, Stack!Recall, Proved!Recall,
           Stack!Drop, Proved!Drop, Stack!Touch, Proved!Touch, Stack!Newest, Proved!Newest,
           Stack!Entries, Proved!Entries
<1>2. Stack!LeadsBack = Proved!LeadsBack
    BY DEF Stack!LeadsBack, Proved!LeadsBack
<1> QED
    BY <1>1, <1>2, Proved!StackTypePreserved, Proved!NumberedPreserved,
       Proved!LeadsBackPreserved DEF Promised, Stack!LeadsBack, Proved!LeadsBack

(* The promise holds in every state of the code.                            *)
LEMMA PromiseAlways ==
    ASSUME Sound
    PROVE  Spec => []Promised
<1>1. Init => Promised
    <2> SUFFICES ASSUME Init PROVE Promised
        OBVIOUS
    <2>1. EntriesOfLog = {} /\ origin = disk /\ disk \in [Files -> Values]
        BY StackStarts DEF Stack!StackInit, Init
    <2> QED
        BY <2>1 DEF Promised, Proved!StackTypeOK, Proved!Numbered, Stack!LeadsBack
<1>2. CopiesInv /\ StackInv /\ Promised /\ [Next]_vars => Promised'
    BY StepOnStack, PromiseKept
<1> QED
    BY <1>1, <1>2, StackAlways, PTL DEF Spec

(* However often a process dies, the changes of a session that are still    *)
(* offered lead back to the files it started from.                          *)
THEOREM ChangesLeadBack ==
    ASSUME Sound
    PROVE  Spec => []UndoLeadsBack
<1>1. Promised => UndoLeadsBack
    BY DEF Promised, UndoLeadsBack
<1> QED
    BY <1>1, PromiseAlways, PTL

(* `undo` says that there is nothing to undo only when the files are what   *)
(* they were when the session started.                                      *)
THEOREM NothingIsLeft ==
    ASSUME Sound
    PROVE  Spec => NothingToUndoIsTrue
<1> DEFINE A == answer' = "nothing" /\ undos' # undos => disk = origin
<1>1. CopiesInv /\ StackInv /\ Promised /\ [Next]_vars => [A]_vars
    <2> SUFFICES ASSUME CopiesInv, StackInv, Promised, Next, answer' = "nothing", undos' # undos
                 PROVE  disk = origin
        BY Zenon
    <2>1. PICK u \in Undoers : Refuse(u)
        <3>1. ~SessionStep
            BY DEF SessionStep, StartSession, EndSession, SkipWrite, Note, LogCheckpoint, Capture,
                   CaptureFails, WriteFile, bounds
        <3>2. ~Death
            BY DEF Death, SessionDies, CliDies, bounds
        <3>3. ~\E u \in Undoers : Find(u) \/ FindFails(u) \/ Remove(u) \/ BeginCopy(u)
                                    \/ EndCopy(u) \/ GiveUp(u)
            BY DEF Find, FindFails, Remove, BeginCopy, EndCopy, GiveUp, bounds
        <3>4. ~\E extent \in Extents : LogRevert(extent) \/ ReopenAndLogRevert(extent)
            BY DEF LogRevert, ReopenAndLogRevert, bounds
        <3> QED
            BY <3>1, <3>2, <3>3, <3>4 DEF Next, UndoStep
    <2>2. Undoables = {}
        <3>1. u = "session" => logging
            BY <2>1 DEF Refuse, MayUndo, StackInv, LiveInv
        <3> QED
            BY <2>1, <3>1 DEF Refuse, NothingFound
    <2>3. EntriesOfLog = {}
        BY <2>2 DEF EntriesOfLog
    <2>4. \A f \in Files : disk[f] = origin[f]
        BY <2>3 DEF Promised, Stack!LeadsBack
    <2>5. disk \in [Files -> Values] /\ origin \in [Files -> Values]
        BY DEF CopiesInv, TypeOK
    <2> QED
        BY <2>4, <2>5
<1> HIDE DEF A
<1>2. Spec => [][A]_vars
    BY <1>1, StackAlways, PromiseAlways, PTL DEF Spec
<1> QED
    BY <1>2 DEF NothingToUndoIsTrue, A

=============================================================================
