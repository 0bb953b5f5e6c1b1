------------------------------ MODULE MCStartup -------------------------------
(* Constant values for model-checking Startup.  A command line is built    *)
(* from NoFlags; a layer names what its file sets.                         *)
EXTENDS Startup, TLC

Layer(provider, model, limit, prompt) ==
    [state |-> "read", provider |-> provider, model |-> model, limit |-> limit,
     prompt |-> prompt]

Missing == [Layer(Unset, Unset, Unset, Unset) EXCEPT !.state = "missing"]
Garbled == [Missing EXCEPT !.state = "broken"]

MCLayers ==
    {[user |-> Missing, project |-> Missing],
     [user |-> Missing, project |-> Garbled],
     [user |-> Missing, project |-> Layer("mistral", Unset, Unset, Unset)],
     [user |-> Layer("openai", <<"gpt-4.1-mini">>, Unset, Unset), project |-> Missing],
     [user |-> Layer("openai", <<"gpt-4.1-mini">>, Unset, Unset),
      project |-> Layer("openrouter", <<"meta", "llama">>, "set", "quoted")]}

MCEnvironments ==
    {[model |-> Unset, keys |-> {}],
     [model |-> Unset, keys |-> {"openai"}],
     [model |-> <<"">>, keys |-> {"openai"}]}

Session == [NoFlags EXCEPT !.command = "session"]

MCFlags ==
    {[Session EXCEPT !.mode = "full", !.learn = TRUE],
     [Session EXCEPT !.prompt = TRUE],
     [Session EXCEPT !.prompt = TRUE, !.model = <<"openai", "gpt-4.1">>],
     [Session EXCEPT !.mode = "wrote"],
     [NoFlags EXCEPT !.command = "mcp"]}

MCWantedModels == {<<"openai", "gpt-4.1">>}

MCServers ==
    <<Server(<<"docs">>, FALSE, <<<<"search">>>>),
      Server(<<"web">>, TRUE, <<<<"read_file">>, <<"new", "_", "_", "get">>>>),
      Server(<<"web", "_", "_", "new">>, TRUE, <<<<"read_file">>, <<"get">>>>)>>

File(name, header, text) ==
    [name |-> name, md |-> TRUE, typable |-> TRUE, header |-> header, text |-> text]

MCCommandFiles ==
    {File("review", "open",
          Placeholder(2) \o <<Text("0")>> \o Placeholder(1) \o <<Gap>> \o Arguments),
     File("price", "closed", <<Text("under"), Gap, Dollar>> \o Placeholder(1)),
     File("undo", "none", <<Text("Undo")>>),
     [File("my notes", "none", <<Text("Notes")>>) EXCEPT !.typable = FALSE],
     [File("review", "none", <<Text("Draft")>>) EXCEPT !.md = FALSE]}

(* Nothing; `50 $x`; `$2 $` *)
MCTypedWords ==
    {<<>>,
     <<Mark(5), Text("0"), Gap, Dollar, Text("x")>>,
     Placeholder(2) \o <<Gap, Dollar>>}

=============================================================================
