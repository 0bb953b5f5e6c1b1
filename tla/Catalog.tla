------------------------------- MODULE Catalog --------------------------------
(***************************************************************************)
(* The providers and models true-code knows (crates/tc-config/src/         *)
(* catalog.rs), and how a model identifier is read.  An identifier is the  *)
(* sequence of its parts between slashes: "openai/gpt-4.1" is              *)
(* <<"openai", "gpt-4.1">>, the empty string is <<"">>.  Prices are in     *)
(* cents per million tokens: input, output, cached input, cache write.     *)
(***************************************************************************)
EXTENDS Integers, Sequences

NoPrice == <<>>

Vendor(kind, model, any) == [kind |-> kind, defaultModel |-> model, acceptsAnyModel |-> any]

VENDORS ==
    [anthropic  |-> Vendor("Anthropic", <<"claude-sonnet-4-5">>, FALSE),
     openai     |-> Vendor("OpenAi", <<"gpt-4.1">>, FALSE),
     openrouter |-> Vendor("OpenAi", <<"anthropic", "claude-sonnet-4.5">>, TRUE)]

VendorIds == DOMAIN VENDORS

DEFAULT_VENDOR == "anthropic"
DEFAULT_MODEL == <<"claude-sonnet-4-5">>

(* The order in which the setup screen lists the providers. *)
VendorOrder == <<"anthropic", "openai", "openrouter">>

UNKNOWN_CONTEXT_WINDOW == 128000

ModelInfo(vendor, apiModel, window, price) ==
    [id |-> <<vendor>> \o apiModel, apiModel |-> apiModel, vendor |-> vendor,
     window |-> window, price |-> price]

KNOWN ==
    {ModelInfo("anthropic", <<"claude-sonnet-4-5">>, 200000, <<300, 1500, 30, 375>>),
     ModelInfo("anthropic", <<"claude-haiku-4-5">>, 200000, <<100, 500, 10, 125>>),
     ModelInfo("openai", <<"gpt-4.1">>, 1000000, <<200, 800, 50, 0>>),
     ModelInfo("openai", <<"gpt-4.1-mini">>, 1000000, <<40, 160, 10, 0>>),
     ModelInfo("openrouter", <<"anthropic", "claude-sonnet-4.5">>, 200000,
               <<300, 1500, 30, 375>>),
     ModelInfo("openrouter", <<"openai", "gpt-4.1-mini">>, 1000000, <<40, 160, 10, 0>>)}

(* The identifier without the provider's own prefix, if it carries it. *)
Bare(vendor, id) == IF Len(id) > 1 /\ Head(id) = vendor THEN Tail(id) ELSE id

IsBlank(id) == id = <<"">>

(* Mutant: whichever provider the entry belongs to. *)
CataloguedAnywhere(vendor, id) ==
    {known \in KNOWN : known.id = id \/ known.apiModel = Bare(vendor, id)}

Catalogued(vendor, id) ==
    {known \in KNOWN :
        /\ known.vendor = vendor
        /\ known.id = id \/ known.apiModel = Bare(vendor, id)}

(* What a gateway is asked for when the table does not have it: the        *)
(* identifier as it is, at no known price.                                 *)
Verbatim(vendor, id) ==
    ModelInfo(vendor, Bare(vendor, id), UNKNOWN_CONTEXT_WINDOW, NoPrice)

(* The models an identifier resolves to against a chosen provider: one, or *)
(* none.  The entries of the table come first, because they have a price.  *)
LookupFor(vendor, id) ==
    IF Catalogued(vendor, id) # {} THEN Catalogued(vendor, id)
    ELSE IF VENDORS[vendor].acceptsAnyModel /\ ~IsBlank(Bare(vendor, id))
         THEN {Verbatim(vendor, id)}
    ELSE {}

=============================================================================
