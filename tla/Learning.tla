------------------------------- MODULE Learning -------------------------------
(***************************************************************************)
(* The comprehension question and the profile of what somebody has met     *)
(* (crates/tc-agent/src/learn.rs), shared through one file by the sessions *)
(* of a project.  A session reads the file once, when it starts, and       *)
(* writes all of it after every answer: the file is first emptied and then *)
(* filled, and a session can die, or the disk be full, in between.         *)
(*                                                                         *)
(* An answer of the model is a record: whether a JSON object can be read   *)
(* out of it, the concept as the model spells it, the number of options,   *)
(* the index of the right one, and whether question or explanation is      *)
(* blank.                                                                  *)
(***************************************************************************)
EXTENDS Integers, Sequences, FiniteSets, Functions

CONSTANTS
    Sessions,
    Order,          \* the concepts, in the order in which the map keeps them
    Names,          \* concepts as models spell them
    Concept,        \* a name, trimmed and in lower case
    Wide,           \* the concepts with a character of more than one byte
    RawQuestions,   \* the model's answers
    PromptLimit,    \* 5 weak spots go into the prompt
    Base,           \* counts are written in digits of this base, which is 10
    Mixes,          \* tables that two texts written over one another can read as
    MaxStarts,      \* bound: starts of sessions
    MaxQuestions    \* bound: questions of all sessions

Concepts == Range(Order)

ASSUME LearningAssumption ==
    /\ Concept \in [Names -> Concepts]
    /\ Wide \subseteq Concepts
    /\ {PromptLimit, MaxStarts, MaxQuestions} \subseteq Nat
    /\ Base \in Nat \ {0, 1}

(* `Raw` has no other fields, and its numbers are unsigned. *)
ASSUME RawAssumption ==
    RawQuestions \subseteq
        [json : BOOLEAN, concept : Names, options : Nat, correct : Nat, blank : BOOLEAN]

(* `Record` has these fields and no defaults for them. *)
IsTable(p) == DOMAIN p \subseteq Concepts /\ p \in [DOMAIN p -> [seen : Nat, correct : Nat]]

ASSUME MixesAssumption == \A m \in Mixes : IsTable(m)

NoQuestion == [usable |-> FALSE]
NoConcepts == [c \in {} |-> 0]

VARIABLES
    file,       \* .truecode/learning.toml: what it is, and the records in it
    phase,      \* of a session: "off", "on", or "saving" the profile
    profile,    \* Agent::profile of a session
    question,   \* App::question of a session
    tasks,      \* answers given whose task has not had the agent yet
    starts, asked,
    given,      \* history variable: the answers people have given
    disturbed,  \* history variable: a session has died with an answer in
                \* hand, a save has failed, or two sessions were open at once
    cutShort,   \* history variable: a save has ended before its text did
    mixed       \* history variable: and so did one that wrote over the text of
                \* another session, or a save wrote over what was no profile

vars == <<file, phase, profile, question, tasks, starts, asked, given,
          disturbed, cutShort, mixed>>

-----------------------------------------------------------------------------
(* Questions.                                                              *)

(* Question::parse and Question::validate. *)
Usable(raw) ==
    /\ raw.json
    /\ raw.options >= 2
    /\ raw.correct < raw.options
    /\ ~raw.blank

Asked(raw) == [usable |-> TRUE, concept |-> raw.concept,
               options |-> raw.options, correct |-> raw.correct]

IsCorrect(q, chosen) == chosen = q.correct

-----------------------------------------------------------------------------
(* The profile.                                                            *)

RecordOf(p, c) == IF c \in DOMAIN p THEN p[c] ELSE [seen |-> 0, correct |-> 0]

(* Mutant: an answer replaces the record of its concept. *)
RecordedAnew(p, name, right) ==
    [c \in DOMAIN p \cup {Concept[name]} |->
        IF c # Concept[name] THEN p[c]
        ELSE [seen |-> 1, correct |-> IF right THEN 1 ELSE 0]]

Recorded(p, name, right) ==
    LET concept == Concept[name]
        r == RecordOf(p, concept)
    IN  [c \in DOMAIN p \cup {concept} |->
            IF c # concept THEN p[c]
            ELSE [seen |-> r.seen + 1, correct |-> r.correct + (IF right THEN 1 ELSE 0)]]

LooksWeak(r) == r.seen > 0 /\ r.correct * 2 <= r.seen

(* Profile::weak_spots sorts by the right answers what comes in the order   *)
(* of the map, and the sort is stable.                                      *)
WeakSpots(p) == {c \in DOMAIN p : LooksWeak(p[c])}

ComesBefore(p, c, d) ==
    \/ p[c].correct < p[d].correct
    \/ /\ p[c].correct = p[d].correct
       /\ \E i, j \in DOMAIN Order : i < j /\ Order[i] = c /\ Order[j] = d

(* Mutant: what has ever been missed is brought up, however long ago. *)
PromptedAll(p) ==
    LET met == {c \in DOMAIN p : p[c].seen > 0}
    IN  {c \in met : Cardinality({d \in met : ComesBefore(p, d, c)}) < PromptLimit}

(* The concepts that Profile::prompt_section names: the first few. *)
Prompted(p) ==
    {c \in WeakSpots(p) :
        Cardinality({d \in WeakSpots(p) : ComesBefore(p, d, c)}) < PromptLimit}

-----------------------------------------------------------------------------
(* The file.                                                               *)

Missing == [kind |-> "missing", concepts |-> NoConcepts]
Garbled == [kind |-> "garbled", concepts |-> NoConcepts]
Unreadable == [kind |-> "unreadable", concepts |-> NoConcepts]
Toml(p) == [kind |-> "toml", concepts |-> p]

(* The tables of the first n concepts. *)
Kept(p, n) == Restrict(p, {Order[i] : i \in 1..n} \cap DOMAIN p)

(* The first digits of a number, fewer than all of them. *)
Leading(number) == {d \in 1..number : \E k \in 1..number : d = number \div Base^k}

(* Texts that end inside the last number: `correct` comes last in a table, *)
(* and a shorter number is a number.                                       *)
Shortened(p, n, count) == [Kept(p, n) EXCEPT ![Order[n]].correct = count]

CutNumbers(p) ==
    UNION {{Toml(Shortened(p, n, count)) : count \in Leading(p[Order[n]].correct)} :
               n \in {i \in DOMAIN Order : Order[i] \in DOMAIN p}}

(* A place between two bytes of one character, in a text with these names. *)
SplitIn(names) == IF names \cap Wide = {} THEN {} ELSE {Unreadable}

(* What is left of a text cut off while it is written into an empty file:  *)
(* some of its tables, the last of them perhaps with a shorter count, text *)
(* that is no profile, or bytes that are no text.                          *)
Cut(p) ==
    {Toml(Kept(p, n)) : n \in 0..Len(Order)}
    \cup CutNumbers(p) \cup {Garbled} \cup SplitIn(DOMAIN p)

Joined(p, q) ==
    [c \in DOMAIN p \cup DOMAIN q |-> IF c \in DOMAIN p THEN p[c] ELSE q[c]]

(* A profile written over what another process has written since this one  *)
(* emptied the file: the end of a longer text stays behind it, and some of *)
(* its tables are whole.  What the end of a text that is no profile adds   *)
(* can be any table.                                                       *)
Over(old, p) ==
    IF old = Toml(NoConcepts) THEN {Toml(p)}
    ELSE IF old.kind = "toml"
    THEN {Toml(p), Garbled} \cup SplitIn(DOMAIN old.concepts)
         \cup {Toml(Joined(p, Restrict(old.concepts, cs))) : cs \in SUBSET DOMAIN old.concepts}
    ELSE {Toml(p), Garbled} \cup SplitIn(Wide) \cup {Toml(m) : m \in Mixes}

(* The same for a text that is cut off: the digits of one number can go on *)
(* with those of another, a name with another.                             *)
CutOver(old, p) ==
    IF old = Toml(NoConcepts) THEN Cut(p)
    ELSE Cut(p) \cup {old, Garbled} \cup SplitIn(Wide) \cup {Toml(m) : m \in Mixes}

-----------------------------------------------------------------------------

Init ==
    /\ file = Missing
    /\ phase = [s \in Sessions |-> "off"]
    /\ profile = [s \in Sessions |-> NoConcepts]
    /\ question = [s \in Sessions |-> NoQuestion]
    /\ tasks = [s \in Sessions |-> <<>>]
    /\ starts = 0
    /\ asked = 0
    /\ given = [c \in Concepts |-> [right |-> 0, wrong |-> 0]]
    /\ disturbed = FALSE
    /\ cutShort = FALSE
    /\ mixed = FALSE

(* A session starts with the profile as it is in the file; one that cannot *)
(* be parsed, or is not there, is a fresh one.                             *)
Start(s) ==
    /\ phase[s] = "off"
    /\ starts < MaxStarts
    /\ file # Unreadable
    /\ starts' = starts + 1
    /\ profile' = [profile EXCEPT ![s] = file.concepts]
    /\ phase' = [phase EXCEPT ![s] = "on"]
    /\ disturbed' = (disturbed \/ \E t \in Sessions : phase[t] # "off")
    /\ UNCHANGED <<file, question, tasks, asked, given, cutShort, mixed>>

(* A file that is not UTF-8 ends the start with an error. *)
RefuseToStart(s) ==
    /\ phase[s] = "off"
    /\ starts < MaxStarts
    /\ file = Unreadable
    /\ starts' = starts + 1
    /\ UNCHANGED <<file, phase, profile, question, tasks, asked, given, disturbed, cutShort, mixed>>

(* A run that has changed something ends with a question, if the model's   *)
(* answer can be used as one.  The run has the agent.  The lines Asked and *)
(* Answered of the session log are among the other events of UndoLog.      *)
Ask(s, raw) ==
    /\ phase[s] = "on"
    /\ question[s] = NoQuestion
    /\ asked < MaxQuestions
    /\ asked' = asked + 1
    /\ question' = [question EXCEPT ![s] = IF Usable(raw) THEN Asked(raw) ELSE NoQuestion]
    /\ UNCHANGED <<file, phase, profile, tasks, starts, given, disturbed, cutShort, mixed>>

(* Mutant: a question that is skipped counts as a miss. *)
SkipAsMiss(s) ==
    /\ phase[s] # "off"
    /\ question[s] # NoQuestion
    /\ question' = [question EXCEPT ![s] = NoQuestion]
    /\ tasks' = [tasks EXCEPT ![s] = Append(@, [concept |-> question[s].concept, right |-> FALSE])]
    /\ UNCHANGED <<file, phase, profile, starts, asked, given, disturbed, cutShort, mixed>>

(* Esc. *)
Skip(s) ==
    /\ phase[s] # "off"
    /\ question[s] # NoQuestion
    /\ question' = [question EXCEPT ![s] = NoQuestion]
    /\ UNCHANGED <<file, phase, profile, tasks, starts, asked, given, disturbed, cutShort, mixed>>

(* A digit, which starts a task that waits for the agent. *)
Press(s, digit) ==
    LET q == question[s]
        right == IsCorrect(q, digit - 1)
    IN  /\ phase[s] # "off"
        /\ q # NoQuestion
        /\ digit \in 1..q.options
        /\ question' = [question EXCEPT ![s] = NoQuestion]
        /\ tasks' = [tasks EXCEPT ![s] = Append(@, [concept |-> q.concept, right |-> right])]
        /\ given' = IF right THEN [given EXCEPT ![Concept[q.concept]].right = @ + 1]
                    ELSE [given EXCEPT ![Concept[q.concept]].wrong = @ + 1]
        /\ UNCHANGED <<file, phase, profile, starts, asked, disturbed, cutShort, mixed>>

(* Agent::answer: the answer is recorded and the file emptied to be        *)
(* written anew, or it cannot be opened, which is logged and no more.      *)
Answer(s) ==
    LET answer == Head(tasks[s])
    IN  /\ phase[s] = "on"
        /\ tasks[s] # <<>>
        /\ profile' = [profile EXCEPT ![s] = Recorded(@, answer.concept, answer.right)]
        /\ tasks' = [tasks EXCEPT ![s] = Tail(@)]
        /\ \/ /\ file' = Toml(NoConcepts)
              /\ phase' = [phase EXCEPT ![s] = "saving"]
              /\ UNCHANGED disturbed
           \/ /\ disturbed' = TRUE
              /\ UNCHANGED <<file, phase>>
        /\ UNCHANGED <<question, starts, asked, given, cutShort, mixed>>

Save(s) ==
    /\ phase[s] = "saving"
    /\ phase' = [phase EXCEPT ![s] = "on"]
    /\ \/ /\ file' \in Over(file, profile[s])
          /\ mixed' = (mixed \/ file.kind # "toml")
          /\ UNCHANGED <<disturbed, cutShort>>
       \/ \* the disk is full
          /\ file' \in CutOver(file, profile[s])
          /\ mixed' = (mixed \/ file # Toml(NoConcepts))
          /\ disturbed' = TRUE
          /\ cutShort' = TRUE
    /\ UNCHANGED <<profile, question, tasks, starts, asked, given>>

(* The session is left or dies, with whatever it has in hand. *)
Leave(s) ==
    /\ phase[s] # "off"
    /\ phase' = [phase EXCEPT ![s] = "off"]
    /\ question' = [question EXCEPT ![s] = NoQuestion]
    /\ tasks' = [tasks EXCEPT ![s] = <<>>]
    /\ profile' = [profile EXCEPT ![s] = NoConcepts]
    /\ IF phase[s] = "saving"
       THEN /\ file' \in CutOver(file, profile[s])
            /\ mixed' = (mixed \/ file # Toml(NoConcepts))
            /\ cutShort' = TRUE
       ELSE UNCHANGED <<file, cutShort, mixed>>
    /\ disturbed' = (disturbed \/ phase[s] = "saving" \/ tasks[s] # <<>>)
    /\ UNCHANGED <<starts, asked, given>>

Next ==
    \E s \in Sessions :
        \/ Start(s)
        \/ RefuseToStart(s)
        \/ \E raw \in RawQuestions : Ask(s, raw)
        \/ Skip(s)
        \/ \E digit \in 1..9 : Press(s, digit)
        \/ Answer(s)
        \/ Save(s)
        \/ Leave(s)

Spec == Init /\ [][Next]_vars

-----------------------------------------------------------------------------

Questions == [usable : {TRUE}, concept : Names, options : Nat, correct : Nat]
Answers == [concept : Names, right : BOOLEAN]

(* The types; a session that is off has nothing in hand. *)
TypeOK ==
    /\ file.kind \in {"missing", "garbled", "unreadable", "toml"} /\ IsTable(file.concepts)
    /\ phase \in [Sessions -> {"off", "on", "saving"}]
    /\ profile = [s \in Sessions |-> profile[s]] /\ \A s \in Sessions : IsTable(profile[s])
    /\ question \in [Sessions -> Questions \cup {NoQuestion}]
    /\ tasks \in [Sessions -> Seq(Answers)]
    /\ starts \in Nat
    /\ asked \in Nat
    /\ given \in [Concepts -> [right : Nat, wrong : Nat]]
    /\ {disturbed, cutShort, mixed} \subseteq BOOLEAN
    /\ \A s \in Sessions : phase[s] = "off" => tasks[s] = <<>>

Profiles == {file.concepts} \cup {profile[s] : s \in Sessions}

(* No profile, in the file or in a session, counts an answer that nobody   *)
(* gave, or one answer twice, whatever sessions overlap, write over one    *)
(* another's profile, lose the file or die between two saves: "counting it *)
(* as one would make the profile lie".  A save that is cut off can take    *)
(* the last digit of a count of right answers, and the rest of them then   *)
(* look like misses: only as long as no save is cut off is every miss a    *)
(* real one, and every concept a prompt names one that was missed.  Of a   *)
(* cut text mixed with another nothing is said.                            *)
CountsAreEarned ==
    ~mixed =>
        /\ \A p \in Profiles : \A c \in DOMAIN p :
            /\ p[c].correct <= given[c].right
            /\ p[c].seen <= given[c].right + given[c].wrong
            /\ ~cutShort => p[c].seen - p[c].correct <= given[c].wrong
        /\ ~cutShort => \A s \in Sessions : \A c \in Prompted(profile[s]) : given[c].wrong > 0

AtRest == \A s \in Sessions : phase[s] # "saving" /\ tasks[s] = <<>>

(* With one session after the other, none of them dying with an answer in  *)
(* hand and every save a success, the file has every answer ever given.    *)
NothingIsForgotten ==
    ~disturbed /\ AtRest =>
        \A c \in Concepts : RecordOf(file.concepts, c) =
            [seen |-> given[c].right + given[c].wrong, correct |-> given[c].right]

(* For a finding: no profile counts a miss that was none, whatever was cut *)
(* off.  A text that ends inside `correct = 12` reads `correct = 1`.       *)
MissesAreReal ==
    \A p \in Profiles : \A c \in DOMAIN p : p[c].seen - p[c].correct <= given[c].wrong

(* For a finding: a start is never refused for what is in the profile.     *)
(* "A corrupt profile is not worth failing a session over."                *)
CorruptStartsFresh == file # Unreadable

(* For a finding: of the keys of the screen, one is right.                 *)
SomeKeyIsRight ==
    \A s \in Sessions : question[s] # NoQuestion =>
        \E digit \in 1..9 : digit \in 1..question[s].options /\ IsCorrect(question[s], digit - 1)

=============================================================================
