------------------------------ MODULE MCLearning ------------------------------
(* Constant values for model-checking Learning: two concepts, one of them  *)
(* spelled in two ways and with a character of two bytes; answers of the   *)
(* model that can be asked, and one for each reason not to.                *)
EXTENDS Learning

CONSTANTS first, second

MCNames == {"lifetimes", "oe-ownership", " oe-Ownership"}

MCConcept ==
    [n \in MCNames |-> IF n = "lifetimes" THEN "lifetimes" ELSE "oe-ownership"]

(* The last name is one that two headers written over one another make.    *)
MCOrder == <<"oe-ownership", "lifetimes", "lifetship">>

MCMixes ==
    {[c \in {name} |-> [seen |-> 2, correct |-> 12]] : name \in {"lifetimes", "lifetship"}}

MCQuestion(name, options, correct) ==
    [json |-> TRUE, concept |-> name, options |-> options, correct |-> correct, blank |-> FALSE]

MCRawQuestions ==
    {MCQuestion(name, 2, 1) : name \in MCNames}
    \cup {MCQuestion("lifetimes", 2, 2), MCQuestion("lifetimes", 1, 0),
          MCQuestion("lifetimes", 10, 9),
          [MCQuestion("lifetimes", 2, 0) EXCEPT !.blank = TRUE],
          [MCQuestion("lifetimes", 2, 0) EXCEPT !.json = FALSE]}

=============================================================================
