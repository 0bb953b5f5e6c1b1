------------------------------- MODULE Startup --------------------------------
(***************************************************************************)
(* From the command line to a running session, and back: configuration     *)
(* (crates/tc-config), keys, the first-run setup screen (crates/tc-tui/    *)
(* src/setup.rs), the project's files, the MCP servers (crates/tc-mcp),    *)
(* `truecode doctor`, `auth`, `init` and `mcp` (crates/tc-cli/src/lib.rs). *)
(*                                                                         *)
(* One process runs at a time.  Meanwhile, and in between, the person may  *)
(* edit the project's files or change the keyring from another terminal.   *)
(* A setting of a configuration file is a value or Unset; `limit` stands   *)
(* for the budget, and a `prompt` that is "quoted" has a line that reads   *)
(* like one of the two settings setup writes.                              *)
(***************************************************************************)
EXTENDS Catalog, Commands, FiniteSets

CONSTANTS
    Unset,          \* a setting, a variable or a flag that is not given
    Layers,         \* the user's and the project's config.toml, as they may be
    Environments,   \* TRUE_CODE_MODEL and the providers whose key is set, likewise
    KeyringModes,   \* subset of {"works", "locked", "absent"}
    Parts,          \* subset of {"rules", "mcp", "commands", "hooks", "profile"}
    Flags,          \* command lines a person gives
    WantedModels,   \* identifiers typed after /model
    Servers,        \* the tables of mcp.toml, in the order of their names
    CommandFiles,   \* the files of .truecode/commands
    TypedWords,     \* what a person types after the name of a command, trimmed
    PartStates,     \* what an edit can do to one of Parts
    MaxStarts,      \* bound: processes
    MaxEdits,       \* bound: changes from another terminal
    MaxKey,         \* bound: characters of a key typed
    CanCrash        \* whether the process may die in the setup

ASSUME StartupAssumption ==
    /\ MaxStarts \in Nat /\ MaxEdits \in Nat /\ MaxKey \in Nat
    /\ CanCrash \in BOOLEAN
    /\ KeyringModes \subseteq {"works", "locked", "absent"}
    /\ PartStates \subseteq {"missing", "good", "broken"}
    /\ Parts \subseteq {"rules", "mcp", "commands", "hooks", "profile"}

(* What a configuration file says: whether it can be read, its settings.   *)
IsLayer(l) ==
    l \in [state : {"missing", "read", "broken"}, provider : {l.provider}, model : {l.model},
           limit : {l.limit}, prompt : {l.prompt}]

(* What is not given is no provider and no model. *)
ASSUME LayersAssumption ==
    /\ \A layers \in Layers : IsLayer(layers.user) /\ IsLayer(layers.project)
    /\ Unset \notin VendorIds
    /\ Unset # DEFAULT_MODEL /\ \A v \in VendorIds : Unset # VENDORS[v].defaultModel

(* The file is a map: a name has one table.  A name is the pieces of text  *)
(* it is made of, where an underscore is a piece of its own.               *)
ASSUME ServersAssumption ==
    /\ Servers \in Seq([name : Seq(STRING) \ {<<>>}, enabled : BOOLEAN, tools : Seq(Seq(STRING))])
    /\ \A i, j \in DOMAIN Servers : Servers[i].name = Servers[j].name => i = j

ASSUME CommandsAssumption ==
    /\ \A file \in CommandFiles : file.text \in Seq(Piece)
    /\ TypedWords \subseteq Seq(Piece)

VARIABLES
    files,      \* configuration layers, state of the other files, writable?
    env,        \* TRUE_CODE_MODEL and the providers with a key
    keyring,    \* its mode and the key saved for each provider
    flags,      \* command line of the process
    at,         \* where the process is; "idle" if there is none
    config,     \* `config` of start_session
    form,       \* the setup screen: provider, stage and key
    session,    \* model and key in use, tools, servers
    shown,      \* `app.model`
    pending,    \* models whose set_provider task has not run yet
    last,       \* what the last call of a tool or use of a command led to
    outcome,    \* how the last process ended
    promise,    \* history variable: the choice a setup has saved
    report,     \* history variable: what doctor said of the present setup
    since,      \* history variable: `edits` when the process started
    starts, edits

world == <<files, env, keyring>>
process == <<flags, at, config, form, session, shown, pending, last, outcome>>
history == <<promise, report, since>>
startupVars == <<world, process, history, starts, edits>>

-----------------------------------------------------------------------------
(* Configuration. *)

Settings == {"provider", "model", "limit", "prompt"}

Default ==
    [provider |-> DEFAULT_VENDOR, model |-> DEFAULT_MODEL,
     limit |-> "default", prompt |-> "built-in"]

(* One file over the settings below it. *)
Merge(base, layer) ==
    [s \in Settings |-> IF layer[s] = Unset THEN base[s] ELSE layer[s]]

LayersRead == files.user.state # "broken" /\ files.project.state # "broken"

(* Mutant: the user's own file over the project's. *)
LoadedUserLast ==
    LET merged == Merge(Merge(Default, files.project), files.user)
    IN  IF env.model = Unset \/ IsBlank(env.model) THEN merged
        ELSE [merged EXCEPT !.model = env.model]

Loaded ==
    LET merged == Merge(Merge(Default, files.user), files.project)
    IN  IF env.model = Unset \/ IsBlank(env.model) THEN merged
        ELSE [merged EXCEPT !.model = env.model]

(* --model; the argument parser takes it from TRUE_CODE_MODEL when the     *)
(* flag is not given, an empty value included.                             *)
Configured(model) ==
    IF model # Unset THEN [Loaded EXCEPT !.model = model]
    ELSE IF env.model # Unset THEN [Loaded EXCEPT !.model = env.model]
    ELSE Loaded

(* The model to use: one, or none. *)
ModelOf(c) == IF c.provider \in VendorIds THEN LookupFor(c.provider, c.model) ELSE {}

-----------------------------------------------------------------------------
(* Keys.  A blank variable and a blank entry of the keyring count as none. *)

NoKey == <<>>
Blank == "blank"

(* Mutant: what was saved comes first. *)
KeySourcePreferringSaved(v) ==
    IF keyring.mode = "absent" THEN "error"
    ELSE IF keyring.mode = "works" /\ keyring.saved[v] # NoKey THEN "keyring"
    ELSE IF v \in env.keys THEN "environment"
    ELSE "missing"

KeySource(v) ==
    IF keyring.mode = "absent" THEN "error"
    ELSE IF v \in env.keys THEN "environment"
    ELSE IF keyring.mode = "works" /\ keyring.saved[v] # NoKey THEN "keyring"
    ELSE "missing"

HasKey(c) == c.provider \in VendorIds /\ KeySource(c.provider) \in {"environment", "keyring"}

(* secrets::store and forget: nothing happens when the keyring refuses. *)
Stored(v, key) ==
    IF keyring.mode = "works" THEN [keyring EXCEPT !.saved[v] = key] ELSE keyring

-----------------------------------------------------------------------------
(* Tools. *)

Server(name, enabled, tools) == [name |-> name, enabled |-> enabled, tools |-> tools]

Tool(name, server, remote) == [name |-> name, server |-> server, remote |-> remote]

BuiltIn(name) == Tool(<<name>>, <<>>, <<name>>)

ForMode(mode) ==
    LET names == <<"read_file", "list_dir", "glob", "grep">>
                 \o (IF mode \in {"write", "full"} THEN <<"write_file", "patch">> ELSE <<>>)
                 \o (IF mode = "full" THEN <<"shell">> ELSE <<>>)
    IN  [i \in DOMAIN names |-> BuiltIn(names[i])]

(* Mutant: the server is left out of the name. *)
QualifiedByToolOnly(server, tool) == <<"mcp", "_", "_">> \o tool

(* mcp__{server}__{tool} *)
QualifiedName(server, tool) == <<"mcp", "_", "_">> \o server \o <<"_", "_">> \o tool

McpTools(server) ==
    [i \in DOMAIN server.tools |->
        Tool(QualifiedName(server.name, server.tools[i]), server.name, server.tools[i])]

(* The servers of a session go by their positions in the file. *)
Enabled == {i \in DOMAIN Servers : Servers[i].enabled}

(* ToolSet::get: the first tool of that name, or none. *)
Named(tools, name) ==
    LET of == {i \in DOMAIN tools : tools[i].name = name}
    IN  {tools[i] : i \in {i \in of : \A j \in of : i <= j}}

-----------------------------------------------------------------------------

NoFlags == [command |-> "none", prompt |-> FALSE, yes |-> FALSE, learn |-> FALSE,
            mode |-> "read-only", model |-> Unset]
NoForm == [selected |-> 1, stage |-> "choosing", key |-> NoKey]
NoModel == [vendor |-> "none"]
NoSession == [model |-> NoModel, key |-> "none", commands |-> {}, servers |-> {},
              tools |-> <<>>, todo |-> {}, up |-> {}, failed |-> {}]
Nothing == [what |-> "nothing"]
NoPromise == [provider |-> "none"]
NoReport == [model |-> Unset, problems |-> {"unknown"}]

(* How a process ended; whether the setup had changed since it started.    *)
Outcome(how, f, fresh) ==
    [how |-> how, headless |-> f.command = "session" /\ f.prompt, model |-> f.model,
     fresh |-> fresh]
NoOutcome == Outcome("none", NoFlags, FALSE)

StartupInit ==
    /\ \E layers \in Layers, writable \in BOOLEAN :
        files = [user |-> layers.user, project |-> layers.project, writable |-> writable,
                 part |-> [p \in Parts |-> IF p = "rules" THEN "missing" ELSE "good"]]
    /\ env \in Environments
    /\ \E mode \in KeyringModes :
        keyring = [mode |-> mode, saved |-> [v \in VendorIds |-> NoKey]]
    /\ flags = NoFlags /\ at = "idle" /\ config = Default /\ form = NoForm
    /\ session = NoSession /\ shown = NoModel /\ pending = {} /\ last = Nothing
    /\ outcome = NoOutcome
    /\ promise = NoPromise /\ report = NoReport /\ since = 0
    /\ starts = 0 /\ edits = 0

State(p) == IF p \in Parts THEN files.part[p] ELSE "missing"
Broken(p) == State(p) = "broken"

(* The process ends, having been started with the flags f. *)
Ends(how, f) ==
    /\ at' = "idle"
    /\ outcome' = Outcome(how, f, since' = edits)
    /\ flags' = NoFlags /\ config' = Default /\ form' = NoForm
    /\ session' = NoSession /\ shown' = NoModel /\ pending' = {} /\ last' = Nothing

-----------------------------------------------------------------------------
(* The command line.                                                       *)

Sensible(f) ==
    /\ f.mode \in {"read-only", "write", "full"}
    /\ f.yes => f.prompt
    /\ f.learn => ~f.prompt

Begins ==
    /\ at = "idle"
    /\ starts < MaxStarts
    /\ starts' = starts + 1
    /\ since' = edits
    /\ UNCHANGED <<world, promise, report, edits>>

StartRefused(f) ==
    /\ Begins
    /\ \/ ~LayersRead /\ Ends("config", f)
       \/ LayersRead /\ f.command = "session" /\ ~Sensible(f) /\ Ends("flags", f)
       \/ LayersRead /\ f.command = "mcp" /\ Broken("mcp") /\ Ends("mcp", f)

(* Whoever has no key is asked for one, unless nobody is there. *)
StartSession(f) ==
    /\ Begins
    /\ f.command = "session" /\ LayersRead /\ Sensible(f)
    /\ flags' = f
    /\ config' = Configured(f.model)
    /\ at' = IF ~HasKey(config') /\ ~f.prompt THEN "setup" ELSE "resolving"
    /\ UNCHANGED <<form, session, shown, pending, last, outcome>>

Listed == IF State("mcp") = "good" THEN Enabled ELSE {}

StartMcpCheck(f) ==
    /\ Begins
    /\ f.command = "mcp" /\ LayersRead /\ ~Broken("mcp")
    /\ flags' = f
    /\ at' = "connecting"
    /\ session' = [NoSession EXCEPT !.servers = Listed, !.todo = Listed]
    /\ UNCHANGED <<config, form, shown, pending, last, outcome>>

-----------------------------------------------------------------------------
(* The setup screen.  A character of a key is a blank or the name of the   *)
(* provider under whose heading it was typed.                              *)

Chosen == VendorOrder[form.selected]

InForm(stage) ==
    /\ at = "setup"
    /\ form.stage = stage
    /\ UNCHANGED <<world, flags, at, config, session, shown, pending, last, outcome,
                   history, starts, edits>>

MoveUp ==
    /\ InForm("choosing")
    /\ form.selected > 1
    /\ form' = [form EXCEPT !.selected = @ - 1]

MoveDown ==
    /\ InForm("choosing")
    /\ form.selected < Len(VendorOrder)
    /\ form' = [form EXCEPT !.selected = @ + 1]

BeginKey ==
    /\ InForm("choosing")
    /\ form' = [form EXCEPT !.stage = "entering"]

(* Mutant: back to the list whatever has been typed. *)
BackToListAnyTime ==
    /\ InForm("entering")
    /\ form' = [form EXCEPT !.stage = "choosing"]

BackToList ==
    /\ InForm("entering")
    /\ form.key = NoKey
    /\ form' = [form EXCEPT !.stage = "choosing"]

Erase ==
    /\ InForm("entering")
    /\ form.key # NoKey
    /\ form' = [form EXCEPT !.key = Front(@)]

Type(char) ==
    /\ InForm("entering")
    /\ Len(form.key) < MaxKey
    /\ form' = [form EXCEPT !.key = Append(@, char)]

Trim(key) ==
    LET solid == {i \in DOMAIN key : key[i] # Blank}
    IN  {SubSeq(key, i, j) : i \in {i \in solid : \A k \in solid : i <= k},
                             j \in {j \in solid : \A k \in solid : k <= j}}

(* The key is stored, if the keyring takes it, and the provider becomes    *)
(* the chosen one; the model only if it was another one.                   *)
Confirm ==
    /\ at = "setup" /\ form.stage = "entering"
    /\ \E key \in Trim(form.key) : keyring' = Stored(Chosen, key)
    /\ config' = [config EXCEPT
                    !.model = IF config.provider = Chosen THEN @
                              ELSE VENDORS[Chosen].defaultModel,
                    !.provider = Chosen]
    /\ at' = "remembering"
    /\ form' = NoForm
    /\ report' = NoReport
    /\ UNCHANGED <<files, env, flags, session, shown, pending, last, outcome, promise,
                   since, starts, edits>>

Cancel ==
    /\ at = "setup"
    /\ at' = "resolving"
    /\ form' = NoForm
    /\ UNCHANGED <<world, flags, config, session, shown, pending, last, outcome,
                   history, starts, edits>>

(* Mutant: the file is written anew. *)
RewrittenFromScratch(layer) ==
    [state |-> "read", provider |-> config.provider, model |-> config.model,
     limit |-> Unset, prompt |-> Unset]

(* remember_provider: the two settings in front, of the lines that were    *)
(* there those that do not read like one of them.                          *)
Rewritten(layer) ==
    IF layer.state = "broken" THEN layer
    ELSE [layer EXCEPT !.state = "read", !.provider = config.provider,
                       !.model = config.model,
                       !.prompt = IF @ = "quoted" THEN "cut" ELSE @]

Promise(layer) ==
    IF layer.state # "broken" /\ HasKey(config)
    THEN [provider |-> config.provider, model |-> config.model,
          limit |-> layer.limit, prompt |-> layer.prompt]
    ELSE NoPromise

Remember ==
    /\ at = "remembering"
    /\ IF files.writable
       THEN /\ files' = [files EXCEPT !.project = Rewritten(@)]
            /\ promise' = Promise(files.project)
            /\ report' = NoReport
       ELSE UNCHANGED <<files, promise, report>>
    /\ at' = "resolving"
    /\ UNCHANGED <<env, keyring, flags, config, form, session, shown, pending, last,
                   outcome, since, starts, edits>>

(* The file is truncated and then written: what a death leaves of it.      *)
Torn ==
    LET empty == [state |-> "read", provider |-> Unset, model |-> Unset,
                  limit |-> Unset, prompt |-> Unset]
    IN  {empty, [empty EXCEPT !.provider = config.provider], [empty EXCEPT !.state = "broken"]}

RememberDies ==
    /\ CanCrash
    /\ at = "remembering" /\ files.writable
    /\ \E layer \in Torn : files' = [files EXCEPT !.project = layer]
    /\ promise' = NoPromise
    /\ report' = NoReport
    /\ UNCHANGED <<env, keyring, since, starts, edits>>
    /\ Ends("ended", flags)

-----------------------------------------------------------------------------
(* start_session: everything is loaded before anything is started.  The    *)
(* log of the session, which is created between the key and the rules, is  *)
(* the one of UndoLog, a session that ends at once if something is broken. *)

FirstFailure ==
    IF config.provider \notin VendorIds THEN "provider"
    ELSE IF ModelOf(config) = {} THEN "model"
    ELSE IF ~HasKey(config) THEN "key"
    ELSE IF Broken("rules") THEN "rules"
    ELSE IF Broken("mcp") THEN "mcp"
    ELSE IF Broken("commands") THEN "commands"
    ELSE "none"

ResolveFails ==
    /\ at = "resolving"
    /\ FirstFailure # "none"
    /\ UNCHANGED <<world, history, starts, edits>>
    /\ Ends(FirstFailure, flags)

Resolve ==
    /\ at = "resolving"
    /\ FirstFailure = "none"
    /\ \E model \in ModelOf(config) :
        session' = [NoSession EXCEPT
                     !.model = model,
                     !.key = KeySource(config.provider),
                     !.commands = IF State("commands") = "good" THEN Load(CommandFiles) ELSE {},
                     !.tools = ForMode(flags.mode),
                     !.servers = Listed,
                     !.todo = Listed]
    /\ at' = "connecting"
    /\ UNCHANGED <<world, flags, config, form, shown, pending, last, outcome, history,
                   starts, edits>>

-----------------------------------------------------------------------------
(* tc_mcp::connect: one server after the other; one that never answers is  *)
(* one for which neither step comes.                                       *)

Connecting ==
    /\ at = "connecting"
    /\ session.todo # {}
    /\ UNCHANGED <<world, flags, at, config, form, shown, pending, last, outcome, history,
                   starts, edits>>

First(todo) == {i \in todo : \A j \in todo : i <= j}

ServerStarts ==
    /\ Connecting
    /\ \E i \in First(session.todo) :
        session' = [session EXCEPT !.todo = @ \ {i},
                                   !.up = @ \cup {Servers[i].name},
                                   !.tools = @ \o McpTools(Servers[i])]

(* Mutant: the first server that fails ends the loop. *)
ServerFailsForAll ==
    /\ Connecting
    /\ \E i \in First(session.todo) :
        session' = [session EXCEPT !.todo = {}, !.failed = @ \cup {Servers[i].name}]

(* It cannot be run, the handshake fails, or it cannot list its tools.     *)
ServerFails ==
    /\ Connecting
    /\ \E i \in First(session.todo) :
        session' = [session EXCEPT !.todo = @ \ {i}, !.failed = @ \cup {Servers[i].name}]

McpCheckEnds ==
    /\ at = "connecting" /\ session.todo = {}
    /\ flags.command = "mcp"
    /\ UNCHANGED <<world, history, starts, edits>>
    /\ Ends(IF session.failed = {} THEN "exit_0" ELSE "exit_1", flags)

(* The hooks, and the profile of a person who is there.  A profile that    *)
(* can be read but not parsed is a fresh one.                              *)
LateFailure ==
    IF Broken("hooks") THEN "hooks"
    ELSE IF ~flags.prompt /\ Broken("profile") THEN "profile"
    ELSE "none"

OpenFails ==
    /\ at = "connecting" /\ session.todo = {}
    /\ flags.command = "session"
    /\ LateFailure # "none"
    /\ UNCHANGED <<world, history, starts, edits>>
    /\ Ends(LateFailure, flags)

Open ==
    /\ at = "connecting" /\ session.todo = {}
    /\ flags.command = "session"
    /\ LateFailure = "none"
    /\ at' = "running"
    /\ shown' = session.model
    /\ UNCHANGED <<world, flags, config, form, session, pending, last, outcome, history,
                   starts, edits>>

-----------------------------------------------------------------------------
(* A running session, between its runs.                                    *)

(* Bound: what follows the first call or command is not looked at.         *)
Running == at = "running" /\ last = Nothing

Unmoved == UNCHANGED <<world, flags, at, config, form, outcome, history, starts, edits>>

(* /model: what is shown changes at once, what is used when the task gets  *)
(* the agent.  An identifier that does not resolve only leads to a note.   *)
SwitchModel(id) ==
    /\ Running /\ ~flags.prompt
    /\ HasKey(config)
    /\ \E model \in ModelOf([config EXCEPT !.model = id]) :
        /\ shown' = model
        /\ pending' = pending \cup {model}
    /\ Unmoved /\ UNCHANGED <<session, last>>

SetProvider(model) ==
    /\ Running
    /\ model \in pending
    /\ session' = [session EXCEPT !.model = model]
    /\ pending' = pending \ {model}
    /\ Unmoved /\ UNCHANGED <<shown, last>>

(* Mutant: what the server says of its own failure is its answer. *)
McpResultAsSaid(tool, answer) ==
    IF answer # "refused" THEN "output" ELSE "error"

(* McpTool::run: a call that is refused - here, for arguments that are no  *)
(* object, by the server, or because it is gone - and one whose answer is  *)
(* marked as an error both end in an error.                                *)
McpResult(tool, answer) ==
    IF answer = "content" THEN "output" ELSE "error"

CallTool(name, answer) ==
    /\ Running
    /\ \E tool \in Named(session.tools, name) :
        last' = [what |-> "call", name |-> name, tool |-> tool, answer |-> answer,
                 result |-> McpResult(tool, answer)]
    /\ Unmoved /\ UNCHANGED <<session, shown, pending>>

McpNames == UNION {{tool.name : tool \in ToSet(McpTools(s))} : s \in ToSet(Servers)}

(* A project's command on the prompt line: what the model gets to read.    *)
UseCommand(command, typed) ==
    /\ Running /\ ~flags.prompt
    /\ command \in session.commands
    /\ ~IsBuiltIn(command.name, typed)
    /\ last' = [what |-> "prompt", body |-> command.body, typed |-> typed,
                text |-> Expand(command.body, typed)]
    /\ Unmoved /\ UNCHANGED <<session, shown, pending>>

End ==
    /\ at = "running"
    /\ UNCHANGED <<world, history, starts, edits>>
    /\ Ends("ended", flags)

Dies ==
    /\ CanCrash
    /\ at # "idle"
    /\ UNCHANGED <<world, history, starts, edits>>
    /\ Ends("ended", flags)

-----------------------------------------------------------------------------
(* Other commands, and what a person does from another terminal.           *)

Problems(c) ==
    (IF c.provider \in VendorIds THEN {} ELSE {"provider"})
    \cup (IF ModelOf(c) # {} THEN {} ELSE {"model"})
    \cup (IF HasKey(c) THEN {} ELSE {"key"})
    \cup (IF Broken("rules") THEN {"rules"} ELSE {})
    \cup (IF files.writable THEN {} ELSE {"session_dir"})

(* Mutant: the key of the default provider is looked for. *)
DoctorForDefault(model) ==
    /\ at = "idle" /\ LayersRead
    /\ report' = [model |-> model,
                  problems |-> Problems([Configured(model) EXCEPT !.provider = DEFAULT_VENDOR])]
    /\ UNCHANGED <<world, process, promise, since, starts, edits>>

Doctor(model) ==
    /\ at = "idle" /\ LayersRead
    /\ report' = [model |-> model, problems |-> Problems(Configured(model))]
    /\ UNCHANGED <<world, process, promise, since, starts, edits>>

(* Something changes that no process of true-code has a hand in.           *)
Edits ==
    /\ edits < MaxEdits /\ last = Nothing
    /\ edits' = edits + 1
    /\ promise' = NoPromise
    /\ report' = NoReport
    /\ outcome' = NoOutcome
    /\ UNCHANGED <<env, flags, at, config, form, session, shown, pending, last, since, starts>>

EditPart(p, state) ==
    /\ Edits
    /\ files' = [files EXCEPT !.part[p] = state]
    /\ UNCHANGED keyring

EditProject(layer) ==
    /\ Edits
    /\ files' = [files EXCEPT !.project = layer]
    /\ UNCHANGED keyring

Login(v) ==
    /\ Edits
    /\ keyring' = Stored(v, <<v>>)
    /\ UNCHANGED files

Logout(v) ==
    /\ Edits
    /\ keyring' = Stored(v, NoKey)
    /\ UNCHANGED files

(* `truecode init`, whose rules are all commented out. *)
InitProject ==
    /\ State("rules") = "missing" /\ "rules" \in Parts
    /\ files.writable
    /\ files' = [files EXCEPT !.part["rules"] = "good"]
    /\ UNCHANGED <<env, keyring, process, history, starts, edits>>

-----------------------------------------------------------------------------

Starting == \E f \in Flags : StartRefused(f) \/ StartSession(f) \/ StartMcpCheck(f)

Setup ==
    \/ MoveUp \/ MoveDown \/ BeginKey \/ BackToList \/ Erase
    \/ Type(Blank) \/ Type(Chosen)
    \/ Confirm \/ Cancel \/ Remember \/ RememberDies

Loading ==
    \/ ResolveFails \/ Resolve
    \/ ServerStarts \/ ServerFails \/ McpCheckEnds
    \/ OpenFails \/ Open

InSession ==
    \/ \E id \in WantedModels : SwitchModel(id)
    \/ \E model \in pending : SetProvider(model)
    \/ Running /\ \E name \in McpNames, answer \in {"content", "marked", "refused"} :
                    CallTool(name, answer)
    \/ \E command \in session.commands, typed \in TypedWords : UseCommand(command, typed)
    \/ End

Elsewhere ==
    \/ \E f \in Flags : Doctor(f.model)
    \/ \E p \in Parts, state \in PartStates : EditPart(p, state)
    \/ \E layers \in Layers : EditProject(layers.project)
    \/ \E v \in VendorIds : Login(v) \/ Logout(v)
    \/ InitProject

StartupNext == Starting \/ Setup \/ Loading \/ InSession \/ Dies \/ Elsewhere

StartupSpec == StartupInit /\ [][StartupNext]_startupVars

-----------------------------------------------------------------------------

(* What a session has, of which the servers and their tools are given.     *)
IsSession(s) ==
    s \in [model : {s.model}, key : {"none", "environment", "keyring"},
           commands : SUBSET Load(CommandFiles), servers : {s.servers}, tools : {s.tools},
           todo : {s.todo}, up : {s.up}, failed : {s.failed}]

(* The state has the types of the locals of start_session. *)
StartupTypeOK ==
    /\ files \in [user : {files.user}, project : {files.project}, writable : BOOLEAN,
                  part : [Parts -> {"missing", "good", "broken"}]]
    /\ IsLayer(files.user) /\ IsLayer(files.project)
    /\ keyring \in [mode : KeyringModes, saved : [VendorIds -> Seq(VendorIds \cup {Blank})]]
    /\ at \in {"idle", "setup", "remembering", "resolving", "connecting", "running"}
    /\ config = [s \in Settings |-> config[s]]
    /\ form \in [selected : 1..Len(VendorOrder), stage : {"choosing", "entering"},
                 key : Seq(VendorIds \cup {Blank})]
    /\ IsSession(session)
    /\ at = "idle" => session = NoSession /\ pending = {}
    /\ at = "running" => session.todo = {} /\ session.model.vendor \in VendorIds
    /\ starts \in Nat /\ edits \in Nat /\ since \in 0..edits

(* A choice that setup has saved lasts: the next start, if nothing else is *)
(* asked of it, does not ask again and has the same provider and model,    *)
(* and the other settings of the project are those the person wrote.  Only *)
(* the lines of a setting that read like one of the two are lost.          *)
SetupLasts ==
    promise # NoPromise =>
        /\ files.project.limit = promise.limit
        /\ files.project.prompt = promise.prompt \/ promise.prompt = "quoted"
        /\ at # "idle" /\ flags.command = "session" /\ {env.model, flags.model} = {Unset} =>
            /\ at \notin {"setup", "remembering"}
            /\ config.provider = promise.provider
            /\ config.model = promise.model

(* Whatever the layers, the setup screen and /model say, the model in use  *)
(* is one of the configured provider, as is every one on its way, and the  *)
(* key is that provider's: the one of the environment if there is one.     *)
KeyMeetsItsProvider ==
    at = "running" =>
        /\ \A model \in pending \cup {session.model, shown} :
            /\ model.vendor = config.provider
            /\ VENDORS[config.provider].acceptsAnyModel \/ model \in KNOWN
        /\ session.key = "environment" <=> config.provider \in env.keys

(* A key is only ever filed under the provider whose name was on the       *)
(* screen while it was typed, and it is not blank.                         *)
KeysAreFiledWhereTyped ==
    \A v \in VendorIds :
        keyring.saved[v] # NoKey =>
            /\ Head(keyring.saved[v]) = v /\ Last(keyring.saved[v]) = v
            /\ ToSet(keyring.saved[v]) \subseteq {v, Blank}

(* As long as nothing changes, what doctor says is what a start finds: it  *)
(* names the reason for which a headless start fails before the servers    *)
(* are started, and a start that gets further has nothing to fix.          *)
DoctorIsRight ==
    report # NoReport =>
        /\ /\ at \in {"connecting", "running"} /\ flags.command = "session"
           /\ flags.prompt /\ flags.model = report.model /\ since = edits
           => report.problems \subseteq {"session_dir"}
        /\ /\ outcome.headless /\ outcome.model = report.model /\ outcome.fresh
           /\ outcome.how \in {"provider", "model", "key", "rules"}
           => outcome.how \in report.problems

(* "Returns whether everything needed to start a session is in place"      *)
(* (crates/tc-cli/src/lib.rs, doctor).                                     *)
ReadyMeansStarts ==
    report.problems = {} =>
        ~(/\ outcome.headless /\ outcome.model = report.model /\ outcome.fresh
          /\ outcome.how \in {"mcp", "commands", "hooks"})

(* However the servers fail, each that is enabled is still to be started,  *)
(* or reported, or offered with all of its tools, and none is twice; no    *)
(* server's tool takes the name of a built-in one or of a tool which       *)
(* another server calls the same, and what is read as output is what the   *)
(* server in the tool's name answered with.                                *)
EveryServerIsAccountedFor ==
    /\ \A i \in session.servers :
        LET s == Servers[i]
            offered == {tool \in ToSet(session.tools) : tool.server = s.name}
        IN  /\ s.enabled
            /\ offered \in {{}, ToSet(McpTools(s))}
            /\ Cardinality({c \in {"todo", "failed", "offered"} :
                    \/ c = "todo" /\ i \in session.todo
                    \/ c = "failed" /\ s.name \in session.failed
                    \/ c = "offered" /\ (offered # {} \/ s.name \in session.up)}) = 1
    /\ \A t, u \in ToSet(session.tools) :
        t.name = u.name =>
            \/ t = u
            \/ t.server # u.server /\ t.remote # u.remote /\ <<>> \notin {t.server, u.server}
    /\ last.what = "call" /\ last.result = "output" =>
        /\ last.name = QualifiedName(last.tool.server, last.tool.remote)
        /\ last.answer = "content"

(* For a finding: no two tools of a session go by one name.                *)
ToolNamesAreUnique ==
    \A t, u \in ToSet(session.tools) : t.name = u.name => t = u

(* No `$` of the body is right before a placeholder. *)
Separate(body) ==
    \A k \in 1..(Len(body) - 1) : body[k] = Dollar => ~Opens(body, k + 1, 1..10)

(* No word that is typed ends with `$`, and none of them has `$` before a  *)
(* digit.                                                                  *)
Plain(typed) ==
    \A k \in DOMAIN typed :
        typed[k] = Dollar =>
            k < Len(typed) /\ typed[k + 1] \notin {Gap} \cup {Mark(n) : n \in 1..9}

(* The ten replacements, each in what the ones before have left, are as    *)
(* good as one: every placeholder of the body has become what was typed    *)
(* for it, or nothing, where it stood, and nothing else has changed; and a *)
(* body with no placeholder is followed by all that was typed.             *)
ArgumentsArrive ==
    last.what = "prompt" /\ Separate(last.body) /\ Plain(last.typed) =>
        last.text =
            IF UsesPlaceholder(last.body) THEN Substitute(last.body, 1..10, last.typed)
            ELSE last.body \o (IF last.typed = <<>> THEN <<>> ELSE <<Gap>> \o last.typed)

(* For a finding: "`$ARGUMENTS` is everything typed after the name; `$1` to  *)
(* `$9` are the whitespace-separated words" (crates/tc-agent/src/          *)
(* commands.rs, expand), whatever body and words.                          *)
PlaceholdersBecomeWords ==
    last.what = "prompt" /\ UsesPlaceholder(last.body) =>
        last.text = Substitute(last.body, 1..10, last.typed)

(* "The status bar carries the context window and price, and both change   *)
(* with the model" (crates/tc-tui/src/lib.rs, switch_model): once no task  *)
(* is under way, the model shown is the one in use.                        *)
ShownModelIsUsed ==
    at = "running" /\ pending = {} => shown = session.model

=============================================================================
