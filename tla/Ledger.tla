------------------------------- MODULE Ledger --------------------------------
(***************************************************************************)
(* The constraint ledger of crates/tc-tools/src/constraints.rs: which of   *)
(* the project's rules a change or a command breaks.                       *)
(*                                                                         *)
(* A pattern or a set of globs is the set of what it matches; Unset stands *)
(* for a field that the rule does not have.                                *)
(***************************************************************************)
EXTENDS Integers, Sequences, FiniteSets

CONSTANTS
    Files,      \* paths a change can name, relative to the root
    Lines,      \* lines a change can add
    Commands,   \* commands the shell tool can be asked to run
    Unset       \* a field that is not given

(* The form of a rule, after Constraint::compile. *)
Rules ==
    [added : SUBSET Lines \cup {Unset},
     files : SUBSET Files \cup {Unset},
     command : SUBSET Commands \cup {Unset},
     scope : SUBSET Files \cup {Unset},
     except : SUBSET Files \cup {Unset}]

In(x, set) == set # Unset /\ x \in set

(* An exception wins over the scope; a rule without a scope applies to     *)
(* every file.                                                             *)
AppliesTo(rule, file) ==
    /\ ~In(file, rule.except)
    /\ rule.scope = Unset \/ file \in rule.scope

(* Mutant: a forbidden file counts only inside of the scope. *)
BrokenByDiffInScope(rule, file, added) ==
    /\ AppliesTo(rule, file)
    /\ In(file, rule.files) \/ \E i \in DOMAIN added : In(added[i], rule.added)

(* A forbidden file counts wherever the scope lies; a forbidden line only  *)
(* counts when it is added to a file that the rule applies to.             *)
BrokenByDiff(rule, file, added) ==
    \/ In(file, rule.files)
    \/ AppliesTo(rule, file) /\ \E i \in DOMAIN added : In(added[i], rule.added)

BrokenByCommand(rule, command) == In(command, rule.command)

(* Ledger::check_diff and Ledger::check_command: the rules broken. *)
CheckDiff(rules, file, added) == {rule \in rules : BrokenByDiff(rule, file, added)}
CheckCommand(rules, command) == {rule \in rules : BrokenByCommand(rule, command)}

=============================================================================
