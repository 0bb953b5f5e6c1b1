------------------------------ MODULE FileTools ------------------------------
(***************************************************************************)
(* The workspace boundary of crates/tc-tools/src/path.rs and the tools     *)
(* that read: fs.rs and search.rs, with the limits on what they return.    *)
(*                                                                         *)
(* The file system is a function from places to what lies there.  A place  *)
(* is the sequence of names from the top, free of links and dots.  A       *)
(* requested path is a sequence of names, "." and "..", from the top when  *)
(* it is absolute and from the workspace root otherwise, and it may end in *)
(* a separator.  A link leads to a place.  A line of output is one unit of *)
(* its length.                                                             *)
(***************************************************************************)
EXTENDS Integers, Sequences, FiniteSets, SequencesExt

CONSTANTS
    Root,           \* the workspace root
    InitialTrees,   \* file systems to begin with
    Paths,          \* paths the model can ask for: [absolute, parts, slash]
    Globs,          \* glob patterns, as sets of names
    Ranges,         \* line ranges: [from, to], either may be Open
    Names,          \* names somebody else may give to a directory or link
    Targets,        \* places somebody else may link to
    Ignored,        \* names that .gitignore leaves out
    Hits,           \* lines the pattern of grep matches
    NewText,        \* what write_file writes
    MAX_ENTRIES,    \* entries a listing returns
    MAX_MATCHES,    \* matches grep returns
    MaxOutput,      \* max_output_bytes, in lines
    MaxSteps,       \* bound: steps of the run
    Open            \* an end of the range that is not given

ASSUME LimitsAssumption ==
    /\ MAX_ENTRIES \in Nat \ {0}
    /\ MAX_MATCHES \in Nat \ {0}
    /\ MaxOutput \in Nat \ {0}
    /\ MaxSteps \in Nat

VARIABLES
    tree,       \* the file system
    request,    \* the last call
    answer,     \* its result
    steps       \* steps so far

filesVars == <<tree, request, answer, steps>>

Dir == [kind |-> "dir"]
File(text) == [kind |-> "file", text |-> text]
Link(to) == [kind |-> "link", to |-> to]
Unreadable == [kind |-> "binary"]      \* not UTF-8, or too large to search

IsDir(t, p) == p \in DOMAIN t /\ t[p].kind = "dir"
IsFile(t, p) == p \in DOMAIN t /\ t[p].kind \in {"file", "binary"}
IsLink(t, p) == p \in DOMAIN t /\ t[p].kind = "link"

IsName(c) == c \notin {".", ".."}
TreePlaces == Seq(STRING \ {".", ".."})

(* Bound: no link leads to a link or through one.                          *)
Straight(t) ==
    \A p, q \in DOMAIN t : IsLink(t, p) /\ IsLink(t, q) => ~IsPrefix(p, t[q].to)

(* What a file system is: everything lies in a directory that is there.    *)
FileSystem(t) ==
    /\ IsFiniteSet(DOMAIN t)
    /\ DOMAIN t \subseteq TreePlaces
    /\ t \in [DOMAIN t -> {Dir, Unreadable} \cup [kind : {"file"}, text : Seq(STRING)]
                                            \cup [kind : {"link"}, to : TreePlaces]]
    /\ IsDir(t, <<>>)
    /\ IsDir(t, Root)
    /\ \A p \in DOMAIN t : p # <<>> => IsDir(t, Front(p))
    /\ Straight(t)

ASSUME TreesAssumption == Root \in TreePlaces /\ \A t \in InitialTrees : FileSystem(t)

(* A path that ends in a separator or in "." asks for a directory, and is  *)
(* written with slash: "." itself is relative, without parts and with      *)
(* slash.  The empty path has neither.                                     *)
ASSUME PathsAssumption ==
    /\ Paths \subseteq [absolute : BOOLEAN, parts : Seq(STRING), slash : BOOLEAN]
    /\ \A path \in Paths :
        /\ path.parts = <<>> \/ Last(path.parts) # "."
        /\ path.absolute /\ path.parts = <<>> => path.slash

ASSUME InputsAssumption ==
    /\ Open \notin Nat
    /\ Ranges \subseteq [from : Nat \cup {Open}, to : Nat \cup {Open}]
    /\ NewText \in Seq(STRING)
    /\ \A name \in Names : <<name>> \in TreePlaces
    /\ Targets \subseteq TreePlaces

-----------------------------------------------------------------------------
(* Path resolution. *)

Nowhere == <<"..">>

(* One component further, the way the system walks; a link in the last     *)
(* place counts as what it leads to.                                       *)
StepInto(t, at, c) ==
    LET next == Append(at, c) IN
    IF at = Nowhere \/ ~IsDir(t, at) THEN Nowhere
    ELSE IF c = "." THEN at
    ELSE IF c = ".." THEN (IF at = <<>> THEN at ELSE Front(at))
    ELSE IF next \notin DOMAIN t THEN Nowhere
    ELSE IF ~IsLink(t, next) THEN next
    ELSE IF t[next].to \in DOMAIN t THEN t[next].to
    ELSE Nowhere

(* Where each number of components leads.                                  *)
Walked(t, parts) ==
    LET at[k \in 0..Len(parts)] == IF k = 0 THEN <<>> ELSE StepInto(t, at[k - 1], parts[k])
    IN at

Canonical(t, parts) == Walked(t, parts)[Len(parts)]

Joined(path) == IF path.absolute THEN path.parts ELSE Root \o path.parts

(* What the system walks for the whole path: a separator at its end asks   *)
(* for one more step, which only a directory allows.                       *)
Whole(path) == Joined(path) \o (IF path.slash THEN <<".">> ELSE <<>>)

(* Mutant: only the textual form of the path is looked at. *)
TextualOnly(t, path) ==
    LET parts == Joined(path)
        at[k \in 0..Len(parts)] ==
            IF k = 0 THEN <<>>
            ELSE IF parts[k] = ".." THEN SubSeq(at[k - 1], 1, Len(at[k - 1]) - 1)
            ELSE IF parts[k] = "." THEN at[k - 1]
            ELSE Append(at[k - 1], parts[k])
    IN at[Len(parts)]

(* canonicalize_deepest_existing: a path that leads somewhere is resolved  *)
(* by the system.  Of any other the deepest beginning that exists is, the  *)
(* names of the rest are appended and its dots are lost; the rest has at   *)
(* least the last component, even if that exists and only the separator    *)
(* behind it leads nowhere.                                                *)
DeepestExisting(t, path) ==
    LET parts == Joined(path)
        found[k \in 0..Len(parts)] ==
            IF k = 0 THEN <<>>
            ELSE IF k < Len(parts) /\ Walked(t, parts)[k] # Nowhere THEN Walked(t, parts)[k]
            ELSE IF IsName(parts[k]) THEN Append(found[k - 1], parts[k])
            ELSE found[k - 1]
    IN IF Canonical(t, Whole(path)) # Nowhere THEN Canonical(t, Whole(path))
       ELSE found[Len(parts)]

(* resolve_in_workspace; Nowhere stands for its errors. *)
Resolve(t, path) ==
    LET empty == ~path.absolute /\ path.parts = <<>> /\ ~path.slash
        resolved == DeepestExisting(t, path)
    IN IF ~empty /\ IsPrefix(Root, resolved) THEN resolved ELSE Nowhere

(* What the system opens when a tool uses the resolved path. *)
Opened(t, path) ==
    IF Resolve(t, path) = Nowhere THEN Nowhere ELSE Canonical(t, Resolve(t, path))

-----------------------------------------------------------------------------
(* Limits. *)

(* Mutant: a result that ends with the mark of the search gets no other. *)
TruncateMarkedBefore(shown, notes) ==
    IF Len(shown) <= MaxOutput THEN [shown |-> shown, notes |-> notes]
    ELSE [shown |-> SubSeq(shown, 1, MaxOutput),
          notes |-> IF Last(shown) = [file |-> Nowhere, number |-> 0] THEN notes
                    ELSE notes \cup {"truncated"}]

(* truncate_to: a result that is too long is cut, and says so. *)
Truncate(shown, notes) ==
    IF Len(shown) <= MaxOutput THEN [shown |-> shown, notes |-> notes]
    ELSE [shown |-> SubSeq(shown, 1, MaxOutput), notes |-> notes \cup {"truncated"}]

Nothing(note) == [shown |-> <<>>, notes |-> {note}]
Refusal == Nothing("error")

-----------------------------------------------------------------------------
(* What is read where a link lies is what it leads to. *)
LeadsTo(t, p) == IF IsLink(t, p) THEN t[p].to ELSE p

IsTextFile(t, p) == IsFile(t, p) /\ t[p].kind = "file"
TextOf(t, p) == t[LeadsTo(t, p)].text

(* What the walker visits below a place, itself included: links are not    *)
(* followed and ignored names are left out.                                *)
WalkBelow(t, at) ==
    {p \in DOMAIN t :
        IsPrefix(at, p) /\ \A i \in (Len(at) + 1)..Len(p) : p[i] \notin Ignored}

(* number_lines: the lines of the range, both ends included. *)
NumberLines(text, range) ==
    LET first == IF range.from \in {Open, 0} THEN 1 ELSE range.from
        last == IF range.to = Open \/ range.to > Len(text) THEN Len(text) ELSE range.to
        size == IF last < first THEN 0 ELSE last - first + 1
    IN [i \in 1..size |-> [number |-> first + i - 1, line |-> text[first + i - 1]]]

ReadResult(t, at, range) ==
    IF ~IsTextFile(t, at) THEN Refusal
    ELSE LET lines == NumberLines(t[at].text, range)
         IN IF lines = <<>> THEN Nothing("no_lines") ELSE Truncate(lines, {})

(* The walk is cut before it is sorted, and its order is the system's: any *)
(* MAX_ENTRIES of the entries.                                             *)
Listings(entries, note) ==
    LET size == IF Cardinality(entries) <= MAX_ENTRIES THEN Cardinality(entries)
                ELSE MAX_ENTRIES
    IN IF entries = {} THEN {Nothing(note)}
       ELSE {Truncate(SetToSeq(S), {}) : S \in {E \in SUBSET entries : Cardinality(E) = size}}

(* A place that is no directory, or is not there, lists as empty. *)
ListResults(t, at) ==
    IF at = Nowhere THEN {Refusal}
    ELSE Listings({p \in WalkBelow(t, at) : Len(p) = Len(at) + 1}, "empty")

(* Only the files below the root are matched, by their path. *)
GlobResults(t, glob) ==
    Listings({p \in WalkBelow(t, Root) : IsFile(t, p) /\ Last(p) \in glob}, "no_files")

StopMark == [file |-> Nowhere, number |-> 0]

HitsIn(t, p) ==
    LET upTo[i \in 0..Len(TextOf(t, p))] ==
            IF i = 0 THEN <<>>
            ELSE IF TextOf(t, p)[i] \in Hits THEN Append(upTo[i - 1], [file |-> p, number |-> i])
            ELSE upTo[i - 1]
    IN upTo[Len(TextOf(t, p))]

MatchesIn(t, files) ==
    LET upTo[k \in 0..Len(files)] ==
            IF k = 0 THEN <<>> ELSE upTo[k - 1] \o HitsIn(t, files[k])
    IN upTo[Len(files)]

(* Mutant: the search stops at the limit without a word. *)
CutMatchesSilently(all) ==
    IF Len(all) < MAX_MATCHES THEN Truncate(all, {})
    ELSE Truncate(SubSeq(all, 1, MAX_MATCHES), {})

(* The search stops at the last match that fits and says so. *)
CutMatches(all) ==
    IF Len(all) < MAX_MATCHES THEN Truncate(all, {})
    ELSE Truncate(Append(SubSeq(all, 1, MAX_MATCHES), StopMark), {})

(* Files that are not text or too large are passed over.  Only the place   *)
(* the search starts at may be a link to a file.                           *)
Searched(t, at) == {p \in WalkBelow(t, at) : IsTextFile(t, IF p = at THEN LeadsTo(t, p) ELSE p)}

GrepResults(t, at) ==
    IF at = Nowhere THEN {Refusal}
    ELSE {IF MatchesIn(t, order) = <<>> THEN Nothing("no_matches")
          ELSE CutMatches(MatchesIn(t, order)) : order \in SetToSeqs(Searched(t, at))}

-----------------------------------------------------------------------------
(* Writing: the directories on the way are created, and the rename puts    *)
(* the file where the system's walk of the path ends.                      *)

Parent(t, at) == Canonical(t, Front(at))

Landing(t, at) ==
    IF Parent(t, at) # Nowhere THEN Append(Parent(t, at), Last(at)) ELSE at

(* read_existing: what is there is text, or nothing is there. *)
CanRead(t, p) ==
    /\ \A k \in 0..(Len(p) - 1) : SubSeq(p, 1, k) \in DOMAIN t => IsDir(t, SubSeq(p, 1, k))
    /\ p \in DOMAIN t => IsTextFile(t, p)

CanCreate(t, at) ==
    /\ at # Nowhere /\ at # <<>>
    /\ IF Parent(t, at) # Nowhere THEN IsDir(t, Parent(t, at))
       ELSE \A k \in 0..(Len(at) - 1) :
                SubSeq(at, 1, k) \in DOMAIN t => IsDir(t, SubSeq(at, 1, k))
    /\ ~IsDir(t, Landing(t, at))
    /\ CanRead(t, LeadsTo(t, Landing(t, at)))

NewDirs(t, at) ==
    IF Parent(t, at) # Nowhere THEN {}
    ELSE {SubSeq(at, 1, k) : k \in 0..(Len(at) - 1)} \ DOMAIN t

Created(t, at) ==
    [p \in DOMAIN t \cup NewDirs(t, at) \cup {Landing(t, at)} |->
        IF p = Landing(t, at) THEN File(NewText)
        ELSE IF p \in NewDirs(t, at) THEN Dir
        ELSE t[p]]

Made(t, name, what) ==
    [p \in DOMAIN t \cup {Append(Root, name)} |-> IF p \in DOMAIN t THEN t[p] ELSE what]

-----------------------------------------------------------------------------

FilesInit ==
    /\ tree \in InitialTrees
    /\ request = [tool |-> "none"]
    /\ answer = Nothing("none")
    /\ steps = 0

Step == steps < MaxSteps /\ steps' = steps + 1

ReadFile(path, range) ==
    /\ Step
    /\ request' = [tool |-> "read_file", path |-> path, range |-> range]
    /\ answer' = ReadResult(tree, Opened(tree, path), range)
    /\ UNCHANGED tree

ListDir(path) ==
    /\ Step
    /\ request' = [tool |-> "list_dir", path |-> path]
    /\ answer' \in ListResults(tree, Resolve(tree, path))
    /\ UNCHANGED tree

Glob(glob) ==
    /\ Step
    /\ request' = [tool |-> "glob", glob |-> glob]
    /\ answer' \in GlobResults(tree, glob)
    /\ UNCHANGED tree

Grep(path) ==
    /\ Step
    /\ request' = [tool |-> "grep", path |-> path]
    /\ answer' \in GrepResults(tree, Resolve(tree, path))
    /\ UNCHANGED tree

CreateFile(path) ==
    /\ Step
    /\ request' = [tool |-> "write_file", path |-> path]
    /\ IF CanCreate(tree, Resolve(tree, path))
       THEN /\ tree' = Created(tree, Resolve(tree, path))
            /\ answer' = Nothing("written")
       ELSE /\ UNCHANGED tree
            /\ answer' = Refusal

(* Somebody else makes a directory or a link in the workspace. *)
MakeEntry(name, what) ==
    /\ Step
    /\ Append(Root, name) \notin DOMAIN tree
    /\ tree' = Made(tree, name, what)
    /\ Straight(tree')
    /\ request' = [tool |-> "none"]
    /\ answer' = Nothing("none")

FilesNext ==
    \/ \E path \in Paths :
        \/ \E range \in Ranges : ReadFile(path, range)
        \/ ListDir(path)
        \/ Grep(path)
        \/ CreateFile(path)
    \/ \E glob \in Globs : Glob(glob)
    \/ \E name \in Names : \E what \in {Dir} \cup {Link(to) : to \in Targets} :
            MakeEntry(name, what)

FilesSpec == FilesInit /\ [][FilesNext]_filesVars

-----------------------------------------------------------------------------

Notes == {"none", "error", "no_lines", "empty", "no_files", "no_matches", "written",
          "truncated"}

ShownLines == [number : Nat, line : STRING]
ShownMatches == [file : TreePlaces \cup {Nowhere}, number : Nat]

(* The file system stays one: what is there lies in a directory that is    *)
(* there, and no result is longer than the cap.                            *)
FilesTypeOK ==
    /\ FileSystem(tree)
    /\ answer \in [shown : Seq(ShownLines \cup TreePlaces \cup ShownMatches), notes : SUBSET Notes]
    /\ Len(answer.shown) <= MaxOutput
    /\ steps \in 0..MaxSteps

(* Whatever path the model sends and whatever links there are, no tool     *)
(* changes anything outside of the workspace (path.rs).                    *)
WritesStayInside ==
    [][\A p \in DOMAIN tree \cup DOMAIN tree' :
        ~IsPrefix(Root, p) =>
            p \in DOMAIN tree /\ p \in DOMAIN tree' /\ tree'[p] = tree[p]]_filesVars

(* A path with a separator at its end that leads to a link, and not to a   *)
(* directory: the code leaves the link as it is.                           *)
UnresolvedLink(t, path) == path.slash /\ IsLink(t, Resolve(t, path))

(* The places whose text the last call showed.                             *)
PlacesRead ==
    CASE request.tool = "read_file" ->
            IF answer.shown = <<>> THEN {} ELSE {Opened(tree, request.path)}
      [] request.tool = "grep" ->
            {Canonical(tree, match.file) : match \in ToSet(answer.shown) \ {StopMark}}
      [] OTHER -> {}

(* Unless the path ends in a separator behind a link, what read_file and   *)
(* grep show lies in the workspace.  Where the path that was asked for     *)
(* leads somewhere, read_file shows what lies there, and it refuses no     *)
(* path that leads to a text file of the workspace (path.rs).              *)
ReadsStayInside ==
    /\ request.tool \in {"read_file", "grep"} /\ ~UnresolvedLink(tree, request.path) =>
            \A p \in PlacesRead : IsPrefix(Root, p)
    /\ request.tool = "read_file" =>
            LET asked == Canonical(tree, Whole(request.path)) IN
            /\ answer.shown # <<>> => asked \in {Opened(tree, request.path), Nowhere}
            /\ IsPrefix(Root, asked) /\ IsTextFile(tree, asked) => answer # Refusal

(* What the documentation says and the code does not keep: a resolved path *)
(* leads to a place in the workspace, whatever the path (path.rs:39).      *)
ReadsNeverLeave == \A p \in PlacesRead : IsPrefix(Root, p)

InRange(i, range) ==
    /\ range.from = Open \/ range.from <= i
    /\ range.to = Open \/ i <= range.to

(* A line of the range, or a match, that is not in the result is missing   *)
(* from a result that says it is a fragment (lib.rs: "Output is truncated  *)
(* with a visible marker").  Matches hidden in files that cannot be        *)
(* searched are not counted.                                               *)
FragmentsAreMarked ==
    LET shown == ToSet(answer.shown)
        marked == "truncated" \in answer.notes \/ StopMark \in shown
        read == Opened(tree, request.path)
        searched == Searched(tree, Resolve(tree, request.path))
    IN
    /\ request.tool = "read_file" /\ answer # Refusal /\ ~marked =>
            \A i \in DOMAIN tree[read].text :
                InRange(i, request.range) <=>
                    [number |-> i, line |-> tree[read].text[i]] \in shown
    /\ request.tool = "grep" /\ answer # Refusal /\ ~marked =>
            \A p \in searched : \A i \in DOMAIN TextOf(tree, p) :
                TextOf(tree, p)[i] \in Hits <=> [file |-> p, number |-> i] \in shown

(* What the documentation says and the code does not keep: a listing that  *)
(* was cut is marked as well.                                              *)
ListingsAreMarked ==
    request.tool = "glob" /\ "truncated" \notin answer.notes =>
        \A p \in WalkBelow(tree, Root) :
            IsFile(tree, p) /\ Last(p) \in request.glob => p \in ToSet(answer.shown)

=============================================================================
