------------------------------ MODULE UndoStack ------------------------------
(***************************************************************************)
(* What undo promises (crates/tc-agent/src/checkpoint.rs), without the     *)
(* log, the backups and the processes that implement it: the changes of a  *)
(* session that can still be undone form a stack of numbered entries, the  *)
(* newest with the greatest number.  A file is touched only while the      *)
(* newest entry holds what it contained, an entry goes away only when its  *)
(* file is back to that, and one that comes back can do no harm.           *)
(***************************************************************************)
EXTENDS Integers

CONSTANTS
    Files,      \* files of the workspace
    Values      \* what a file can hold, "it does not exist" included

VARIABLES
    files,      \* the workspace
    entries,    \* undoable changes
    origin      \* the workspace when the session started

stackVars == <<files, entries, origin>>

Entries == [n : Nat, file : Files, before : Values]

Newest(e) == e \in entries /\ \A x \in entries : x.n <= e.n

StackInit ==
    /\ files \in [Files -> Values]
    /\ entries = {}
    /\ origin = files

(* A new session knows only its own changes. *)
Begin ==
    /\ entries' = {}
    /\ origin' = files
    /\ UNCHANGED files

(* The file is about to be changed. *)
Save(e) ==
    /\ \A x \in entries : x.n < e.n
    /\ e.before = files[e.file]
    /\ entries' = entries \cup {e}
    /\ UNCHANGED <<files, origin>>

(* A change, or any part of putting an older content back. *)
Touch(e, v) ==
    /\ Newest(e)
    /\ files' = [files EXCEPT ![e.file] = v]
    /\ UNCHANGED <<entries, origin>>

(* The newest change has been undone. *)
Drop(e) ==
    /\ Newest(e)
    /\ files[e.file] = e.before
    /\ entries' = entries \ {e}
    /\ UNCHANGED <<files, origin>>

(* The note that a change was undone is lost with a torn line: the change  *)
(* is offered again, though an older one covers its file or the file is    *)
(* back already.                                                           *)
Recall(e) ==
    /\ \A x \in entries : x.n # e.n
    /\ \/ \E x \in entries : x.file = e.file /\ x.n < e.n
       \/ (\A x \in entries : x.file # e.file) /\ e.before = files[e.file]
    /\ entries' = entries \cup {e}
    /\ UNCHANGED <<files, origin>>

StackNext ==
    \/ Begin
    \/ \E e \in entries' : e \in Entries /\ (Save(e) \/ Recall(e))
    \/ \E e \in entries : Drop(e) \/ \E v \in Values : Touch(e, v)

StackSpec == StackInit /\ [][StackNext]_stackVars

-----------------------------------------------------------------------------

StackTypeOK ==
    /\ files \in [Files -> Values]
    /\ entries \in SUBSET Entries
    /\ origin \in [Files -> Values]

(* Undoing everything leads back to where the session started: a file with *)
(* no entry is as it was then, and the oldest entry of any other holds     *)
(* what it was then.                                                       *)
LeadsBack ==
    \A f \in Files :
        \/ /\ \A e \in entries : e.file # f
           /\ files[f] = origin[f]
        \/ \E e \in entries :
            /\ e.file = f
            /\ e.before = origin[f]
            /\ \A x \in entries : x.file = f => e.n <= x.n

=============================================================================
