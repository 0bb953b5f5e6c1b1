---------------------------- MODULE Startup_proofs ----------------------------
(* Proofs about Startup, for every configuration, command line and keyring,  *)
(* any number of starts and of changes from elsewhere.                       *)
EXTENDS Startup, SequenceTheorems, FiniteSetTheorems, WellFoundedInduction, TLAPS

-----------------------------------------------------------------------------
(* The invariants. *)

(* Only a session has more to do than to connect.                           *)
StageInv ==
    /\ at \notin {"idle", "connecting"} => flags.command = "session"
    /\ at \in {"setup", "remembering"} => ~flags.prompt /\ config.model # Unset
    /\ at # "setup" => form = NoForm
    /\ at # "running" => pending = {}

(* A model is one of the configured provider.                               *)
Fitting(model) ==
    /\ model.vendor = config.provider
    /\ VENDORS[config.provider].acceptsAnyModel \/ model \in KNOWN

(* From the time it is resolved, the model and its key are those of the     *)
(* configured provider.                                                     *)
ModelInv ==
    /\ at \in {"connecting", "running"} /\ flags.command = "session" =>
        /\ config.provider \in VendorIds
        /\ Fitting(session.model)
        /\ session.key = "environment" <=> config.provider \in env.keys
    /\ at = "running" => Fitting(shown) /\ \A model \in pending : Fitting(model)

(* A key in the form has been typed under one heading; one in the keyring   *)
(* begins and ends with a character.                                        *)
KeysInv ==
    /\ form.key \in Seq({Chosen, Blank})
    /\ form.stage = "choosing" => form.key = NoKey
    /\ \A v \in VendorIds :
        /\ keyring.saved[v] \in Seq({v, Blank})
        /\ keyring.saved[v] # NoKey => Head(keyring.saved[v]) = v /\ Last(keyring.saved[v]) = v

(* What a setup has saved is there as long as nothing else is edited, and   *)
(* nobody is asked again; a session that is not told otherwise uses it.     *)
PromiseInv ==
    promise # NoPromise =>
        /\ promise.provider # Unset /\ promise.model # Unset
        /\ HasKey(promise)
        /\ files.project.state # "broken"
        /\ files.project.provider = promise.provider /\ files.project.model = promise.model
        /\ files.project.limit = promise.limit
        /\ files.project.prompt = promise.prompt \/ promise.prompt = "quoted"
        /\ at \notin {"setup", "remembering"}
        /\ at # "idle" /\ flags.command = "session" /\ {env.model, flags.model} = {Unset} =>
            config.provider = promise.provider /\ config.model = promise.model

(* What a start looks at before anything is loaded.                         *)
EarlyFailures == {"provider", "model", "key", "rules"}

(* What doctor would say. *)
Wrong(model) == Problems(Configured(model))

(* A report is about the present setup, and a headless start that nothing   *)
(* has disturbed uses the present setup, has no problem once it connects,   *)
(* and if it failed then for one of the problems.                           *)
ReportInv ==
    /\ report # NoReport => report.problems = Wrong(report.model)
    /\ at \in {"resolving", "connecting", "running"} /\ flags.command = "session" /\ flags.prompt
            /\ since = edits =>
        /\ config = Configured(flags.model)
        /\ at # "resolving" => Problems(config) \subseteq {"session_dir"}
    /\ (at = "idle" \/ report # NoReport) /\ outcome.headless /\ outcome.fresh
            /\ outcome.how \in EarlyFailures =>
        outcome.how \in Wrong(outcome.model)

StartupInv == StartupTypeOK /\ StageInv /\ ModelInv /\ KeysInv /\ PromiseInv /\ ReportInv

-----------------------------------------------------------------------------
(* Models, keys and configurations. *)

(* A model that an identifier resolves to is one of the chosen provider.    *)
LEMMA ModelsFit ==
    ASSUME NEW c, NEW model \in ModelOf(c)
    PROVE  /\ c.provider \in VendorIds /\ model.vendor = c.provider
           /\ VENDORS[c.provider].acceptsAnyModel \/ model \in KNOWN
<1>1. c.provider \in VendorIds /\ model \in LookupFor(c.provider, c.model)
    BY DEF ModelOf
<1>2. CASE model \in Catalogued(c.provider, c.model)
    BY <1>1, <1>2 DEF Catalogued
<1>3. CASE model = Verbatim(c.provider, c.model) /\ VENDORS[c.provider].acceptsAnyModel
    BY <1>1, <1>3 DEF Verbatim, ModelInfo
<1> QED
    BY <1>1, <1>2, <1>3 DEF LookupFor

(* What is left of a key begins and ends with a character, if it is one.    *)
LEMMA TrimmedKeys ==
    ASSUME NEW v, NEW key \in Seq({v, Blank}), NEW t \in Trim(key)
    PROVE  t \in Seq({v, Blank}) /\ Head(t) = v /\ Last(t) = v
<1> DEFINE solid == {i \in DOMAIN key : key[i] # Blank}
<1>1. PICK i \in solid, j \in solid :
        /\ \A k \in solid : i <= k
        /\ \A k \in solid : k <= j
        /\ t = SubSeq(key, i, j)
    BY DEF Trim
<1>2. Len(key) \in Nat /\ DOMAIN key = 1..Len(key) /\ \A k \in DOMAIN key : key[k] \in {v, Blank}
    BY LenProperties
<1>3. i \in 1..Len(key) /\ j \in 1..Len(key) /\ i <= j /\ key[i] = v /\ key[j] = v
    BY <1>1, <1>2
<1>4. /\ t \in Seq({v, Blank}) /\ Len(t) = j - i + 1
      /\ \A k \in 1..(j - i + 1) : t[k] = key[i + k - 1]
    BY <1>1, <1>3, SubSeqProperties
<1>5. Head(t) = t[1] /\ t[1] = key[i]
    <2>1. 1 \in 1..(j - i + 1) /\ i + 1 - 1 = i
        BY <1>2, <1>3
    <2>2. t # <<>>
        BY <1>2, <1>3, <1>4, EmptySeq
    <2> QED
        BY <1>4, <2>1, <2>2, HeadTailProperties
<1>6. Last(t) = key[j]
    <2>1. (j - i + 1) \in 1..(j - i + 1) /\ i + (j - i + 1) - 1 = j
        BY <1>2, <1>3
    <2> QED
        BY <1>4, <2>1 DEF Last
<1> QED
    BY <1>3, <1>4, <1>5, <1>6

(* The settings in force are those of a configuration; the project's        *)
(* provider is the provider, and its model is the model unless another one  *)
(* is asked for.                                                            *)
LEMMA ConfiguredSettings ==
    ASSUME NEW model
    PROVE  /\ Configured(model) = [s \in Settings |-> Configured(model)[s]]
           /\ Configured(model).model # Unset
           /\ files.project.provider # Unset => Configured(model).provider = files.project.provider
           /\ files.project.model # Unset /\ env.model = Unset /\ model = Unset =>
                Configured(model).model = files.project.model
<1> DEFINE merged == Merge(Merge(Default, files.user), files.project)
<1>1. /\ merged = [s \in Settings |-> merged[s]]
      /\ merged.model # Unset
      /\ files.project.provider # Unset => merged.provider = files.project.provider
      /\ files.project.model # Unset => merged.model = files.project.model
    BY LayersAssumption DEF Merge, Default, Settings
<1> HIDE DEF merged
<1>2. Loaded = IF env.model = Unset \/ IsBlank(env.model) THEN merged
               ELSE [merged EXCEPT !.model = env.model]
    BY DEF Loaded, merged
<1>3. /\ Loaded = [s \in Settings |-> Loaded[s]]
      /\ Loaded.model # Unset
      /\ files.project.provider # Unset => Loaded.provider = files.project.provider
      /\ files.project.model # Unset /\ env.model = Unset => Loaded.model = files.project.model
    BY <1>1, <1>2 DEF Settings
<1> QED
    BY <1>3 DEF Configured, Settings

(* What is read from files, environment and keyring stays what it is while  *)
(* these do, whatever a file of the project becomes that was not broken and *)
(* is not.                                                                  *)
LEMMA SameSetup ==
    ASSUME files'.user = files.user, files'.project = files.project,
           files'.writable = files.writable, env' = env, keyring' = keyring,
           Broken("rules")' = Broken("rules")
    PROVE  /\ \A model : Configured(model)' = Configured(model)
           /\ \A model : Wrong(model)' = Wrong(model)
           /\ \A c : HasKey(c)' = HasKey(c)
           /\ \A c : Problems(c)' = Problems(c)
<1>1. Loaded' = Loaded
    BY DEF Loaded
<1>2. \A model : Configured(model)' = Configured(model)
    BY <1>1 DEF Configured
<1>3. \A v : KeySource(v)' = KeySource(v)
    BY DEF KeySource
<1>4. \A c : HasKey(c)' = HasKey(c)
    BY <1>3 DEF HasKey
<1>5. \A c : Problems(c)' = Problems(c)
    BY <1>4 DEF Problems
<1> QED
    BY <1>2, <1>4, <1>5 DEF Wrong

(* In particular while nothing of it changes. *)
LEMMA SameWorld ==
    ASSUME UNCHANGED world
    PROVE  /\ \A model : Configured(model)' = Configured(model)
           /\ \A model : Wrong(model)' = Wrong(model)
           /\ \A c : HasKey(c)' = HasKey(c)
           /\ \A c : Problems(c)' = Problems(c)
<1>1. files' = files /\ env' = env /\ keyring' = keyring
    BY DEF world
<1>2. Broken("rules")' = Broken("rules")
    BY <1>1 DEF Broken, State
<1> QED
    BY <1>1, <1>2, SameSetup

(* A form that has just been opened. *)
LEMMA EmptyForm ==
    /\ NoForm \in [selected : 1..Len(VendorOrder), stage : {"choosing", "entering"},
                   key : Seq(VendorIds \cup {Blank})]
    /\ \A S : NoForm.key \in Seq(S)
    /\ NoForm.stage = "choosing" /\ NoForm.key = NoKey
<1>1. \A S : NoKey \in Seq(S)
    BY EmptySeq DEF NoKey
<1>2. Len(VendorOrder) = 3
    BY DEF VendorOrder
<1> QED
    BY <1>1, <1>2 DEF NoForm

(* No session is one of nothing. *)
LEMMA EmptySession == IsSession(NoSession)
BY DEF IsSession, NoSession

(* The headings of the setup screen are the providers. *)
LEMMA Headings ==
    ASSUME NEW i \in 1..Len(VendorOrder)
    PROVE  VendorOrder[i] \in VendorIds
BY DEF VendorOrder, VendorIds, VENDORS

(* The keys filed do not change while the keyring does not.                 *)
LEMMA SameKeyring ==
    ASSUME StartupInv, keyring' = keyring
    PROVE  /\ \A v \in VendorIds :
                /\ keyring'.saved[v] \in Seq({v, Blank})
                /\ keyring'.saved[v] # NoKey =>
                    Head(keyring'.saved[v]) = v /\ Last(keyring'.saved[v]) = v
           /\ keyring' \in [mode : KeyringModes,
                            saved : [VendorIds -> Seq(VendorIds \cup {Blank})]]
BY DEF StartupInv, StartupTypeOK, KeysInv

(* The end of a process keeps the invariant, if a headless one that ends    *)
(* early does so for something that doctor would name.                      *)
LEMMA EndsKeeps ==
    ASSUME StartupInv, NEW how, NEW f, Ends(how, f),
           UNCHANGED <<world, promise, report, edits>>,
           starts' \in Nat, since' \in 0..edits,
           how \in EarlyFailures /\ f.command = "session" /\ f.prompt /\ since' = edits =>
                how \in Wrong(f.model)
    PROVE  StartupInv'
<1>1. /\ at' = "idle" /\ flags' = NoFlags /\ config' = Default /\ form' = NoForm
      /\ session' = NoSession /\ pending' = {}
      /\ outcome' = Outcome(how, f, since' = edits)
    BY DEF Ends
<1>2. /\ files' = files /\ env' = env /\ keyring' = keyring
      /\ promise' = promise /\ report' = report /\ edits' = edits
    BY DEF world
<1>3. /\ \A model : Wrong(model)' = Wrong(model)
      /\ \A c : HasKey(c)' = HasKey(c)
    BY SameWorld
<1>4. StartupTypeOK'
    <2>1. Default = [s \in Settings |-> Default[s]]
        BY DEF Default, Settings
    <2> QED
        BY <1>1, <1>2, <2>1, EmptyForm, EmptySession DEF StartupInv, StartupTypeOK
<1>5. StageInv'
    BY <1>1 DEF StageInv
<1>6. ModelInv'
    BY <1>1 DEF ModelInv
<1>7. KeysInv'
    BY <1>1, <1>2, EmptyForm, SameKeyring DEF KeysInv
<1>8. PromiseInv'
    BY <1>1, <1>2, <1>3 DEF StartupInv, PromiseInv
<1>9. ReportInv'
    <2>1. /\ outcome'.headless => f.command = "session" /\ f.prompt
          /\ outcome'.fresh => since' = edits
          /\ outcome'.how = how /\ outcome'.model = f.model
        BY <1>1 DEF Outcome
    <2> QED
        BY <1>1, <1>2, <1>3, <2>1 DEF StartupInv, ReportInv
<1> QED
    BY <1>4, <1>5, <1>6, <1>7, <1>8, <1>9 DEF StartupInv

-----------------------------------------------------------------------------
(* One lemma for each group of actions. *)

(* A command line that is refused. *)
LEMMA StartRefusedKeeps ==
    ASSUME StartupInv, NEW f, StartRefused(f)
    PROVE  StartupInv'
<1>1. PICK how \in {"config", "flags", "mcp"} : Ends(how, f)
    BY DEF StartRefused
<1>2. /\ UNCHANGED <<world, promise, report, edits>>
      /\ starts' \in Nat /\ since' \in 0..edits
    BY DEF StartRefused, Begins, StartupInv, StartupTypeOK
<1>3. how \notin EarlyFailures
    BY DEF EarlyFailures
<1> QED
    BY <1>1, <1>2, <1>3, EndsKeeps

(* The configuration is loaded: after a promise there is a key.             *)
LEMMA StartSessionKeeps ==
    ASSUME StartupInv, NEW f, StartSession(f)
    PROVE  StartupInv'
<1>1. /\ f.command = "session"
      /\ flags' = f /\ config' = Configured(f.model)
      /\ at' = IF ~HasKey(config') /\ ~f.prompt THEN "setup" ELSE "resolving"
      /\ form' = form /\ session' = session /\ pending' = pending /\ outcome' = outcome
      /\ at = "idle" /\ starts' = starts + 1 /\ since' = edits
      /\ files' = files /\ env' = env /\ keyring' = keyring
      /\ promise' = promise /\ report' = report /\ edits' = edits
    BY DEF StartSession, Begins, world
<1>2. /\ \A model : Configured(model)' = Configured(model)
      /\ \A model : Wrong(model)' = Wrong(model)
      /\ \A c : HasKey(c)' = HasKey(c)
    BY <1>1, SameWorld DEF world
<1>3. /\ config' = [s \in Settings |-> config'[s]]
      /\ config'.model # Unset
      /\ files.project.provider # Unset => config'.provider = files.project.provider
      /\ files.project.model # Unset /\ env.model = Unset /\ f.model = Unset =>
            config'.model = files.project.model
    BY <1>1, ConfiguredSettings
<1>4. form = NoForm /\ pending = {}
    BY <1>1 DEF StartupInv, StageInv
<1>5. at' \in {"setup", "resolving"} /\ (at' = "setup" => ~HasKey(config') /\ ~f.prompt)
    BY <1>1
<1>6. StartupTypeOK'
    BY <1>1, <1>3, <1>5 DEF StartupInv, StartupTypeOK
<1>7. StageInv'
    BY <1>1, <1>3, <1>4, <1>5 DEF StageInv
<1>8. ModelInv'
    BY <1>5 DEF ModelInv
<1>9. KeysInv'
    BY <1>1, SameKeyring DEF StartupInv, KeysInv, Chosen
<1>10. PromiseInv'
    <2> SUFFICES ASSUME promise # NoPromise
                 PROVE  PromiseInv'
        BY <1>1 DEF PromiseInv
    <2>1. /\ promise.provider # Unset /\ promise.model # Unset /\ HasKey(promise)
          /\ files.project.provider = promise.provider /\ files.project.model = promise.model
        BY DEF StartupInv, PromiseInv
    <2>2. config'.provider = promise.provider
        BY <1>3, <2>1
    <2>3. HasKey(config')
        BY <2>1, <2>2 DEF HasKey
    <2>4. at' = "resolving"
        BY <1>5, <2>3
    <2>5. env.model = Unset /\ f.model = Unset => config'.model = promise.model
        BY <1>3, <2>1
    <2> QED
        BY <1>1, <1>2, <2>2, <2>4, <2>5 DEF StartupInv, PromiseInv
<1>11. ReportInv'
    BY <1>1, <1>2, <1>5 DEF StartupInv, ReportInv
<1> QED
    BY <1>6, <1>7, <1>8, <1>9, <1>10, <1>11 DEF StartupInv

(* `true-code mcp` starts. *)
LEMMA StartMcpCheckKeeps ==
    ASSUME StartupInv, NEW f, StartMcpCheck(f)
    PROVE  StartupInv'
<1>1. /\ f.command = "mcp" /\ flags' = f /\ config' = config /\ at' = "connecting"
      /\ form' = form /\ pending' = pending /\ outcome' = outcome
      /\ at = "idle" /\ starts' = starts + 1 /\ since' = edits
      /\ files' = files /\ env' = env /\ keyring' = keyring
      /\ promise' = promise /\ report' = report /\ edits' = edits
    BY DEF StartMcpCheck, Begins, world
<1>2. /\ \A model : Wrong(model)' = Wrong(model)
      /\ \A c : HasKey(c)' = HasKey(c)
    BY <1>1, SameWorld DEF world
<1>3. StartupTypeOK'
    <2>1. session' = [NoSession EXCEPT !.servers = Listed, !.todo = Listed]
        BY DEF StartMcpCheck
    <2>2. IsSession(session')
        BY <2>1 DEF IsSession, NoSession
    <2> QED
        BY <1>1, <2>2 DEF StartupInv, StartupTypeOK, IsSession
<1>4. StageInv'
    BY <1>1 DEF StartupInv, StageInv
<1>5. ModelInv'
    BY <1>1 DEF ModelInv
<1>6. KeysInv'
    BY <1>1, SameKeyring DEF StartupInv, KeysInv, Chosen
<1>7. PromiseInv'
    BY <1>1, <1>2 DEF StartupInv, PromiseInv
<1>8. ReportInv'
    BY <1>1, <1>2 DEF StartupInv, ReportInv
<1> QED
    BY <1>3, <1>4, <1>5, <1>6, <1>7, <1>8 DEF StartupInv

(* Whatever moves only the form, and keeps the key under its heading. *)
LEMMA FormKeeps ==
    ASSUME StartupInv, at = "setup",
           UNCHANGED <<world, flags, at, config, session, shown, pending, last, outcome,
                       history, starts, edits>>,
           form' \in [selected : 1..Len(VendorOrder), stage : {"choosing", "entering"},
                      key : Seq(VendorIds \cup {Blank})],
           form'.key \in Seq({VendorOrder[form'.selected], Blank}),
           form'.stage = "choosing" => form'.key = NoKey
    PROVE  StartupInv'
<1>1. /\ files' = files /\ env' = env /\ keyring' = keyring
      /\ flags' = flags /\ at' = at /\ config' = config /\ session' = session
      /\ pending' = pending /\ outcome' = outcome
      /\ promise' = promise /\ report' = report /\ since' = since
      /\ starts' = starts /\ edits' = edits
    BY DEF world, history
<1>2. /\ \A model : Wrong(model)' = Wrong(model)
      /\ \A c : HasKey(c)' = HasKey(c)
    BY SameWorld
<1>3. StartupTypeOK'
    BY <1>1 DEF StartupInv, StartupTypeOK
<1>4. StageInv'
    BY <1>1 DEF StartupInv, StageInv
<1>5. ModelInv'
    BY <1>1 DEF ModelInv
<1>6. KeysInv'
    BY <1>1, SameKeyring DEF KeysInv, Chosen
<1>7. PromiseInv'
    BY <1>1, <1>2 DEF StartupInv, PromiseInv
<1>8. ReportInv'
    BY <1>1, <1>2 DEF StartupInv, ReportInv
<1> QED
    BY <1>3, <1>4, <1>5, <1>6, <1>7, <1>8 DEF StartupInv

(* A change of the heading keeps the invariant, as there is no key yet; a   *)
(* character goes under the heading on the screen.                          *)
LEMMA FormMovesKeep ==
    ASSUME StartupInv,
           MoveUp \/ MoveDown \/ BeginKey \/ BackToList \/ Erase \/ Type(Blank) \/ Type(Chosen)
    PROVE  StartupInv'
<1> DEFINE Forms == [selected : 1..Len(VendorOrder), stage : {"choosing", "entering"},
                     key : Seq(VendorIds \cup {Blank})]
           Kept == /\ form' \in Forms
                   /\ form'.key \in Seq({VendorOrder[form'.selected], Blank})
                   /\ form'.stage = "choosing" => form'.key = NoKey
<1>1. /\ form \in Forms /\ form.key \in Seq({Chosen, Blank})
      /\ form.stage = "choosing" => form.key = NoKey
    BY DEF StartupInv, StartupTypeOK, KeysInv
<1>2. /\ at = "setup"
      /\ UNCHANGED <<world, flags, at, config, session, shown, pending, last, outcome,
                     history, starts, edits>>
    BY DEF MoveUp, MoveDown, BeginKey, BackToList, Erase, Type, InForm
<1>3. \A S : NoKey \in Seq(S)
    BY EmptySeq DEF NoKey
<1>4. Len(VendorOrder) \in Nat
    BY DEF VendorOrder
<1>5. CASE MoveUp \/ MoveDown
    <2>1. form.key = NoKey /\ form.stage = "choosing"
        BY <1>1, <1>5 DEF MoveUp, MoveDown, InForm
    <2>2. /\ form'.key = NoKey /\ form'.stage = "choosing"
          /\ form' \in Forms
        BY <1>1, <1>3, <1>4, <1>5, <2>1 DEF MoveUp, MoveDown
    <2> QED
        BY <1>2, <1>3, <2>2, FormKeeps
<1>6. CASE BeginKey
    <2>1. form.key = NoKey
        BY <1>1, <1>6 DEF BeginKey, InForm
    <2>2. form'.key = NoKey /\ form'.stage = "entering" /\ form' \in Forms
        BY <1>1, <1>3, <1>6, <2>1 DEF BeginKey
    <2> QED
        BY <1>2, <1>3, <2>2, FormKeeps
<1>7. CASE BackToList
    <2>1. form'.key = NoKey /\ form' \in Forms
        BY <1>1, <1>3, <1>7 DEF BackToList
    <2> QED
        BY <1>2, <1>3, <2>1, FormKeeps
<1>8. CASE Erase
    <2>1. form.key # NoKey /\ form.stage = "entering"
          /\ form' = [form EXCEPT !.key = Front(form.key)]
        BY <1>8 DEF Erase, InForm
    <2>2. \A S : form.key \in Seq(S) => Front(form.key) \in Seq(S)
        <3> SUFFICES ASSUME NEW S, form.key \in Seq(S)
                     PROVE  Front(form.key) \in Seq(S)
            OBVIOUS
        <3>1. Len(form.key) \in Nat /\ Len(form.key) - 1 <= Len(form.key)
            BY LenProperties
        <3> QED
            BY <3>1, SubSeqProperties DEF Front
    <2>3. /\ form'.key = Front(form.key) /\ form'.stage = "entering"
          /\ form'.selected = form.selected /\ form' \in Forms
        BY <1>1, <2>1, <2>2
    <2>4. form'.key \in Seq({VendorOrder[form'.selected], Blank})
        BY <1>1, <2>2, <2>3 DEF Chosen
    <2> QED
        BY <1>2, <2>3, <2>4, FormKeeps
<1>9. ASSUME NEW char \in {Blank, Chosen}, Type(char)
      PROVE  StartupInv'
    <2>1. form.stage = "entering" /\ form' = [form EXCEPT !.key = Append(form.key, char)]
        BY <1>9 DEF Type, InForm
    <2>2. Chosen \in VendorIds
        BY <1>1, Headings DEF Chosen
    <2>3. /\ Append(form.key, char) \in Seq({Chosen, Blank})
          /\ Append(form.key, char) \in Seq(VendorIds \cup {Blank})
        BY <1>1, <2>2, AppendProperties
    <2>4. /\ form'.key = Append(form.key, char) /\ form'.stage = "entering"
          /\ form'.selected = form.selected /\ form' \in Forms
        BY <1>1, <2>1, <2>3
    <2>5. form'.key \in Seq({VendorOrder[form'.selected], Blank})
        BY <2>3, <2>4 DEF Chosen
    <2> QED
        BY <1>2, <2>4, <2>5, FormKeeps
<1> QED
    BY <1>5, <1>6, <1>7, <1>8, <1>9

(* What Confirm files is the key of the heading; whoever is asked for one   *)
(* has not been promised anything.                                          *)
LEMMA ConfirmKeeps ==
    ASSUME StartupInv, Confirm
    PROVE  StartupInv'
<1>1. /\ at = "setup" /\ at' = "remembering" /\ form' = NoForm /\ report' = NoReport
      /\ files' = files /\ env' = env /\ flags' = flags /\ session' = session
      /\ pending' = pending /\ outcome' = outcome /\ promise' = promise
      /\ since' = since /\ starts' = starts /\ edits' = edits
      /\ config' = [config EXCEPT
                      !.model = IF config.provider = Chosen THEN config.model
                                ELSE VENDORS[Chosen].defaultModel,
                      !.provider = Chosen]
    BY DEF Confirm
<1>2. PICK key \in Trim(form.key) : keyring' = Stored(Chosen, key)
    BY DEF Confirm
<1>3. Chosen \in VendorIds
    BY Headings DEF StartupInv, StartupTypeOK, Chosen
<1>4. key \in Seq({Chosen, Blank}) /\ Head(key) = Chosen /\ Last(key) = Chosen
    BY TrimmedKeys DEF StartupInv, KeysInv
<1>5. key \in Seq(VendorIds \cup {Blank})
    BY <1>3, <1>4
<1>6. /\ keyring' \in [mode : KeyringModes, saved : [VendorIds -> Seq(VendorIds \cup {Blank})]]
      /\ \A v \in VendorIds :
            keyring'.saved[v] = keyring.saved[v] \/ (v = Chosen /\ keyring'.saved[v] = key)
    BY <1>2, <1>3, <1>5 DEF Stored, StartupInv, StartupTypeOK
<1>7. config' = [s \in Settings |-> config'[s]] /\ config'.model # Unset
    BY <1>1, <1>3, LayersAssumption DEF StartupInv, StartupTypeOK, StageInv, Settings
<1>8. StartupTypeOK'
    BY <1>1, <1>6, <1>7, EmptyForm DEF StartupInv, StartupTypeOK
<1>9. StageInv'
    BY <1>1, <1>7 DEF StartupInv, StageInv
<1>10. ModelInv'
    BY <1>1 DEF ModelInv
<1>11. KeysInv'
    BY <1>1, <1>4, <1>6, EmptyForm DEF StartupInv, KeysInv
<1>12. PromiseInv'
    BY <1>1 DEF StartupInv, PromiseInv
<1>13. ReportInv'
    BY <1>1 DEF StartupInv, ReportInv
<1> QED
    BY <1>8, <1>9, <1>10, <1>11, <1>12, <1>13 DEF StartupInv

(* The person leaves the setup without a key. *)
LEMMA CancelKeeps ==
    ASSUME StartupInv, Cancel
    PROVE  StartupInv'
<1>1. /\ at = "setup" /\ at' = "resolving" /\ form' = NoForm
      /\ files' = files /\ env' = env /\ keyring' = keyring
      /\ flags' = flags /\ config' = config /\ session' = session
      /\ pending' = pending /\ outcome' = outcome
      /\ promise' = promise /\ report' = report /\ since' = since
      /\ starts' = starts /\ edits' = edits
    BY DEF Cancel, world, history
<1>2. \A model : Wrong(model)' = Wrong(model)
    BY <1>1, SameWorld DEF world
<1>3. StartupTypeOK'
    BY <1>1, EmptyForm DEF StartupInv, StartupTypeOK
<1>4. StageInv'
    BY <1>1 DEF StartupInv, StageInv
<1>5. ModelInv'
    BY <1>1 DEF ModelInv
<1>6. KeysInv'
    BY <1>1, EmptyForm, SameKeyring DEF KeysInv
<1>7. PromiseInv'
    BY <1>1 DEF StartupInv, PromiseInv
<1>8. ReportInv'
    BY <1>1, <1>2 DEF StartupInv, StageInv, ReportInv
<1> QED
    BY <1>3, <1>4, <1>5, <1>6, <1>7, <1>8 DEF StartupInv

(* A file that is rewritten is a file still. *)
LEMMA RewrittenLayers ==
    ASSUME NEW layer, IsLayer(layer), layer.state # "broken"
    PROVE  /\ IsLayer(Rewritten(layer)) /\ Rewritten(layer).state = "read"
           /\ Rewritten(layer).provider = config.provider
           /\ Rewritten(layer).model = config.model
           /\ Rewritten(layer).limit = layer.limit
           /\ Rewritten(layer).prompt = layer.prompt \/ layer.prompt = "quoted"
BY DEF IsLayer, Rewritten

(* What Remember writes down is what it promises. *)
LEMMA RememberKeeps ==
    ASSUME StartupInv, Remember
    PROVE  StartupInv'
<1>1. /\ at = "remembering" /\ at' = "resolving" /\ form' = form
      /\ env' = env /\ keyring' = keyring
      /\ flags' = flags /\ config' = config /\ session' = session
      /\ pending' = pending /\ outcome' = outcome
      /\ since' = since /\ starts' = starts /\ edits' = edits
    BY DEF Remember
<1>2. StageInv'
    BY <1>1 DEF StartupInv, StageInv
<1>3. ModelInv'
    BY <1>1 DEF ModelInv
<1>4. KeysInv'
    BY <1>1, SameKeyring DEF StartupInv, KeysInv, Chosen
<1>5. \A c : HasKey(c)' = HasKey(c)
    BY <1>1 DEF HasKey, KeySource
<1>6. ~flags.prompt /\ flags.command = "session" /\ config.model # Unset /\ promise = NoPromise
    BY <1>1 DEF StartupInv, StageInv, PromiseInv
<1>7. CASE ~files.writable
    <2>1. files' = files /\ promise' = promise /\ report' = report
        BY <1>7 DEF Remember
    <2>2. \A model : Wrong(model)' = Wrong(model)
        BY <1>1, <2>1, SameWorld DEF world
    <2>3. StartupTypeOK'
        BY <1>1, <2>1 DEF StartupInv, StartupTypeOK
    <2>4. PromiseInv'
        BY <1>6, <2>1 DEF PromiseInv
    <2>5. ReportInv'
        BY <1>1, <1>6, <2>1, <2>2 DEF StartupInv, ReportInv
    <2> QED
        BY <1>2, <1>3, <1>4, <2>3, <2>4, <2>5 DEF StartupInv
<1>8. CASE files.writable
    <2>1. /\ files' = [files EXCEPT !.project = Rewritten(files.project)]
          /\ promise' = Promise(files.project) /\ report' = NoReport
        BY <1>8 DEF Remember
    <2>2. IsLayer(files.project)
        BY DEF StartupInv, StartupTypeOK
    <2>3. IsLayer(Rewritten(files.project))
        BY <2>2, RewrittenLayers DEF Rewritten
    <2>4. StartupTypeOK'
        BY <1>1, <2>1, <2>3 DEF StartupInv, StartupTypeOK
    <2>5. PromiseInv'
        <3> SUFFICES ASSUME promise' # NoPromise
                     PROVE  PromiseInv'
            BY DEF PromiseInv
        <3>1. /\ files.project.state # "broken" /\ HasKey(config)
              /\ promise' = [provider |-> config.provider, model |-> config.model,
                             limit |-> files.project.limit, prompt |-> files.project.prompt]
            BY <2>1 DEF Promise
        <3>2. config.provider \in VendorIds /\ config.provider # Unset
            BY <3>1, LayersAssumption DEF HasKey
        <3>3. \A c : c.provider = config.provider => HasKey(c)'
            BY <1>5, <3>1 DEF HasKey
        <3>4. HasKey(promise)'
            BY <3>1, <3>3
        <3>5. files'.project = Rewritten(files.project)
            BY <2>1 DEF StartupInv, StartupTypeOK
        <3> QED
            BY <1>1, <1>6, <2>2, <3>1, <3>2, <3>4, <3>5, RewrittenLayers DEF PromiseInv
    <2>6. ReportInv'
        BY <1>1, <1>6, <2>1 DEF ReportInv
    <2> QED
        BY <1>2, <1>3, <1>4, <2>4, <2>5, <2>6 DEF StartupInv
<1> QED
    BY <1>7, <1>8

(* A death in the middle of it promises nothing. *)
LEMMA RememberDiesKeeps ==
    ASSUME StartupInv, RememberDies
    PROVE  StartupInv'
<1>1. /\ at' = "idle" /\ flags' = NoFlags /\ config' = Default /\ form' = NoForm
      /\ session' = NoSession /\ pending' = {}
      /\ outcome' = Outcome("ended", flags, since' = edits)
      /\ env' = env /\ keyring' = keyring /\ since' = since /\ starts' = starts
      /\ edits' = edits /\ promise' = NoPromise /\ report' = NoReport
    BY DEF RememberDies, Ends
<1>2. PICK layer \in Torn : files' = [files EXCEPT !.project = layer]
    BY DEF RememberDies
<1>3. IsLayer(layer)
    BY DEF Torn, IsLayer
<1>4. StartupTypeOK'
    <2>1. Default = [s \in Settings |-> Default[s]]
        BY DEF Default, Settings
    <2> QED
        BY <1>1, <1>2, <1>3, <2>1, EmptyForm, EmptySession DEF StartupInv, StartupTypeOK
<1>5. StageInv'
    BY <1>1 DEF StageInv
<1>6. ModelInv'
    BY <1>1 DEF ModelInv
<1>7. KeysInv'
    BY <1>1, EmptyForm, SameKeyring DEF KeysInv
<1>8. PromiseInv'
    BY <1>1 DEF PromiseInv
<1>9. ReportInv'
    BY <1>1 DEF ReportInv, Outcome, EarlyFailures
<1> QED
    BY <1>4, <1>5, <1>6, <1>7, <1>8, <1>9 DEF StartupInv

(* The first thing that is not there is one that doctor would name.         *)
LEMMA ResolveFailsKeeps ==
    ASSUME StartupInv, ResolveFails
    PROVE  StartupInv'
<1>1. /\ at = "resolving" /\ Ends(FirstFailure, flags)
      /\ UNCHANGED <<world, promise, report, edits>> /\ starts' = starts /\ since' = since
    BY DEF ResolveFails, history
<1>2. flags.prompt /\ since = edits => Wrong(flags.model) = Problems(config)
    BY <1>1 DEF StartupInv, StageInv, ReportInv, Wrong
<1>3. FirstFailure \in EarlyFailures => FirstFailure \in Problems(config)
    BY DEF FirstFailure, EarlyFailures, Problems
<1>4. starts' \in Nat /\ since' \in 0..edits
    BY <1>1 DEF StartupInv, StartupTypeOK
<1>5. FirstFailure \in EarlyFailures /\ flags.command = "session" /\ flags.prompt
        /\ since' = edits => FirstFailure \in Wrong(flags.model)
    BY <1>1, <1>2, <1>3
<1> QED
    BY <1>1, <1>4, <1>5, EndsKeeps

(* Model and key are those of the provider in the configuration.            *)
LEMMA ResolveKeeps ==
    ASSUME StartupInv, Resolve
    PROVE  StartupInv'
<1>1. /\ at = "resolving" /\ at' = "connecting" /\ form' = form /\ FirstFailure = "none"
      /\ files' = files /\ env' = env /\ keyring' = keyring
      /\ flags' = flags /\ config' = config /\ pending' = pending /\ outcome' = outcome
      /\ promise' = promise /\ report' = report /\ since' = since
      /\ starts' = starts /\ edits' = edits
    BY DEF Resolve, world, history
<1>2. PICK model \in ModelOf(config) :
        /\ session' = [NoSession EXCEPT
                !.model = model, !.key = KeySource(config.provider),
                !.commands = IF State("commands") = "good" THEN Load(CommandFiles) ELSE {},
                !.tools = ForMode(flags.mode), !.servers = Listed, !.todo = Listed]
        /\ session'.model = model /\ session'.key = KeySource(config.provider)
    BY DEF Resolve, NoSession
<1>3. /\ \A m : Wrong(m)' = Wrong(m)
      /\ \A m : Configured(m)' = Configured(m)
      /\ \A c : HasKey(c)' = HasKey(c)
      /\ \A c : Problems(c)' = Problems(c)
    BY <1>1, SameWorld DEF world
<1>4. Problems(config) \subseteq {"session_dir"} /\ HasKey(config)
    BY <1>1 DEF FirstFailure, Problems
<1>5. StartupTypeOK'
    <2>1. KeySource(config.provider) \in {"environment", "keyring"}
        BY <1>4 DEF HasKey
    <2>2. IsSession(session')
        BY <1>2, <2>1 DEF IsSession, NoSession
    <2> QED
        BY <1>1, <2>2 DEF StartupInv, StartupTypeOK, IsSession
<1>6. StageInv'
    BY <1>1 DEF StartupInv, StageInv
<1>7. ModelInv'
    <2>1. config.provider \in VendorIds /\ Fitting(model)
        BY ModelsFit DEF Fitting
    <2>2. KeySource(config.provider) = "environment" <=> config.provider \in env.keys
        BY <1>4 DEF HasKey, KeySource
    <2>3. Fitting(session.model)'
        BY <1>1, <1>2, <2>1 DEF Fitting
    <2> QED
        BY <1>1, <1>2, <2>1, <2>2, <2>3 DEF ModelInv
<1>8. KeysInv'
    BY <1>1, SameKeyring DEF StartupInv, KeysInv, Chosen
<1>9. PromiseInv'
    BY <1>1, <1>3 DEF StartupInv, PromiseInv
<1>10. ReportInv'
    <2>1. Problems(config)' = Problems(config)
        BY <1>1, <1>3
    <2> QED
        BY <1>1, <1>3, <1>4, <2>1 DEF StartupInv, ReportInv
<1> QED
    BY <1>5, <1>6, <1>7, <1>8, <1>9, <1>10 DEF StartupInv

(* Whatever moves only the session and leaves its model and its key as they *)
(* are, or as a switch makes them.                                          *)
LEMMA SessionKeeps ==
    ASSUME StartupInv, at \in {"connecting", "running"}, at' \in {at, "running"},
           UNCHANGED <<world, flags, config, form, outcome, history, starts, edits>>,
           IsSession(session'),
           flags.command = "session" =>
                /\ session'.key = session.key
                /\ Fitting(session'.model),
           at' = "running" =>
                /\ flags.command = "session"
                /\ session'.todo = {}
                /\ Fitting(shown') /\ \A model \in pending' : Fitting(model),
           at' = "connecting" => pending' = pending
    PROVE  StartupInv'
<1>1. /\ files' = files /\ env' = env /\ keyring' = keyring
      /\ flags' = flags /\ config' = config /\ form' = form /\ outcome' = outcome
      /\ promise' = promise /\ report' = report /\ since' = since
      /\ starts' = starts /\ edits' = edits
    BY DEF world, history
<1>2. /\ \A model : Wrong(model)' = Wrong(model)
      /\ \A model : Configured(model)' = Configured(model)
      /\ \A c : HasKey(c)' = HasKey(c)
      /\ \A c : Problems(c)' = Problems(c)
    BY <1>1, SameWorld DEF world
<1>3. at' \in {"connecting", "running"}
    OBVIOUS
<1>4. flags.command = "session" => config.provider \in VendorIds
    BY DEF StartupInv, ModelInv
<1>5. StartupTypeOK'
    BY <1>1, <1>3, <1>4 DEF StartupInv, StartupTypeOK, Fitting
<1>6. StageInv'
    BY <1>1, <1>3 DEF StartupInv, StageInv
<1>7. ModelInv'
    <2>1. \A model : Fitting(model)' <=> Fitting(model)
        BY <1>1 DEF Fitting
    <2>2. flags.command = "session" =>
            /\ config.provider \in VendorIds
            /\ session.key = "environment" <=> config.provider \in env.keys
        BY DEF StartupInv, ModelInv
    <2> QED
        BY <1>1, <1>3, <2>1, <2>2 DEF ModelInv
<1>8. KeysInv'
    BY <1>1, SameKeyring DEF StartupInv, KeysInv, Chosen
<1>9. PromiseInv'
    BY <1>1, <1>2, <1>3 DEF StartupInv, PromiseInv
<1>10. ReportInv'
    <2>1. Problems(config)' = Problems(config)
        BY <1>1, <1>2
    <2> QED
        BY <1>1, <1>2, <1>3, <2>1 DEF StartupInv, ReportInv
<1> QED
    BY <1>5, <1>6, <1>7, <1>8, <1>9, <1>10 DEF StartupInv

(* One more server is up, or reported. *)
LEMMA ServersKeep ==
    ASSUME StartupInv, ServerStarts \/ ServerFails
    PROVE  StartupInv'
<1>1. /\ at = "connecting" /\ at' = at /\ pending' = pending
      /\ UNCHANGED <<world, flags, config, form, outcome, history, starts, edits>>
    BY DEF ServerStarts, ServerFails, Connecting
<1>2. IsSession(session)
    BY DEF StartupInv, StartupTypeOK
<1>3. IsSession(session') /\ session'.key = session.key /\ session'.model = session.model
    BY <1>2 DEF ServerStarts, ServerFails, IsSession
<1>4. flags.command = "session" => Fitting(session.model)
    BY <1>1 DEF StartupInv, ModelInv
<1>5. flags.command = "session" => Fitting(session'.model)
    BY <1>3, <1>4
<1> QED
    BY <1>1, <1>3, <1>5, SessionKeeps

(* The session opens with the model that was resolved. *)
LEMMA OpenKeeps ==
    ASSUME StartupInv, Open
    PROVE  StartupInv'
<1>1. /\ at = "connecting" /\ at' = "running" /\ flags.command = "session"
      /\ session.todo = {} /\ shown' = session.model
      /\ session' = session /\ pending' = pending
      /\ UNCHANGED <<world, flags, config, form, outcome, history, starts, edits>>
    BY DEF Open
<1>2. IsSession(session) /\ Fitting(session.model) /\ pending = {}
    BY <1>1 DEF StartupInv, StartupTypeOK, StageInv, ModelInv
<1>3. Fitting(session'.model) /\ Fitting(shown') /\ \A model \in pending' : Fitting(model)
    BY <1>1, <1>2
<1>4. IsSession(session') /\ session'.key = session.key /\ session'.todo = {}
    BY <1>1, <1>2
<1> QED
    BY <1>1, <1>3, <1>4, SessionKeeps

(* A process that ends after it was resolved, or dies, or ends in the check *)
(* of the servers, does so for nothing that doctor speaks of.               *)
LEMMA LateEndsKeep ==
    ASSUME StartupInv, McpCheckEnds \/ OpenFails \/ End \/ Dies
    PROVE  StartupInv'
<1>1. PICK how \in {"exit_0", "exit_1", "hooks", "profile", "none", "ended"} : Ends(how, flags)
    BY DEF McpCheckEnds, OpenFails, LateFailure, End, Dies
<1>2. UNCHANGED <<world, promise, report, edits>> /\ starts' = starts /\ since' = since
    BY DEF McpCheckEnds, OpenFails, End, Dies, history
<1>3. starts' \in Nat /\ since' \in 0..edits
    BY <1>2 DEF StartupInv, StartupTypeOK
<1>4. how \notin EarlyFailures
    BY DEF EarlyFailures
<1> QED
    BY <1>1, <1>2, <1>3, <1>4, EndsKeeps

(* /model takes a model of the configured provider. *)
LEMMA SwitchModelKeeps ==
    ASSUME StartupInv, NEW id, SwitchModel(id)
    PROVE  StartupInv'
<1>1. /\ at = "running" /\ at' = at /\ session' = session
      /\ UNCHANGED <<world, flags, config, form, outcome, history, starts, edits>>
    BY DEF SwitchModel, Running, Unmoved
<1>2. PICK model \in ModelOf([config EXCEPT !.model = id]) :
        shown' = model /\ pending' = pending \cup {model}
    BY DEF SwitchModel
<1>3. config.provider = [config EXCEPT !.model = id].provider
    BY DEF StartupInv, StartupTypeOK, Settings
<1>4. Fitting(model)
    BY <1>3, ModelsFit DEF Fitting
<1>5. /\ IsSession(session) /\ session.todo = {} /\ flags.command = "session"
      /\ Fitting(session.model) /\ \A m \in pending : Fitting(m)
    BY <1>1 DEF StartupInv, StartupTypeOK, StageInv, ModelInv
<1>6. Fitting(shown') /\ \A m \in pending' : Fitting(m)
    BY <1>2, <1>4, <1>5
<1>7. /\ IsSession(session') /\ session'.key = session.key /\ session'.todo = {}
      /\ Fitting(session'.model)
    BY <1>1, <1>5
<1> QED
    BY <1>1, <1>5, <1>6, <1>7, SessionKeeps

(* The task of a switch gets the agent. *)
LEMMA SetProviderKeeps ==
    ASSUME StartupInv, NEW model, SetProvider(model)
    PROVE  StartupInv'
<1>1. /\ at = "running" /\ at' = at /\ model \in pending
      /\ session' = [session EXCEPT !.model = model] /\ pending' = pending \ {model}
      /\ shown' = shown
      /\ UNCHANGED <<world, flags, config, form, outcome, history, starts, edits>>
    BY DEF SetProvider, Running, Unmoved
<1>2. /\ IsSession(session) /\ session.todo = {} /\ flags.command = "session"
      /\ Fitting(shown) /\ \A m \in pending : Fitting(m)
    BY <1>1 DEF StartupInv, StartupTypeOK, StageInv, ModelInv
<1>3. /\ IsSession(session') /\ session'.model = model
      /\ session'.key = session.key /\ session'.todo = {}
    BY <1>1, <1>2 DEF IsSession
<1>4. Fitting(shown') /\ Fitting(session'.model) /\ \A m \in pending' : Fitting(m)
    BY <1>1, <1>2, <1>3
<1> QED
    BY <1>1, <1>2, <1>3, <1>4, SessionKeeps

(* A call or a command changes nothing that lasts. *)
LEMMA UsesKeep ==
    ASSUME StartupInv,
           \/ \E name, answer : CallTool(name, answer)
           \/ \E command, words : UseCommand(command, words)
    PROVE  StartupInv'
<1>1. /\ at = "running" /\ at' = at /\ session' = session /\ pending' = pending
      /\ shown' = shown
      /\ UNCHANGED <<world, flags, config, form, outcome, history, starts, edits>>
    BY DEF CallTool, UseCommand, Running, Unmoved
<1>2. /\ IsSession(session) /\ session.todo = {} /\ flags.command = "session"
      /\ Fitting(session.model) /\ Fitting(shown) /\ \A m \in pending : Fitting(m)
    BY <1>1 DEF StartupInv, StartupTypeOK, StageInv, ModelInv
<1>3. /\ IsSession(session') /\ session'.todo = {} /\ session'.key = session.key
      /\ Fitting(session'.model) /\ Fitting(shown') /\ \A m \in pending' : Fitting(m)
    BY <1>1, <1>2
<1> QED
    BY <1>1, <1>2, <1>3, SessionKeeps

(* doctor reports what is wrong at present. *)
LEMMA DoctorKeeps ==
    ASSUME StartupInv, NEW model, Doctor(model)
    PROVE  StartupInv'
<1>1. /\ at = "idle" /\ report' = [model |-> model, problems |-> Wrong(model)]
      /\ files' = files /\ env' = env /\ keyring' = keyring
      /\ flags' = flags /\ at' = at /\ config' = config /\ form' = form
      /\ session' = session /\ shown' = shown /\ pending' = pending /\ outcome' = outcome
      /\ promise' = promise /\ since' = since /\ starts' = starts /\ edits' = edits
    BY DEF Doctor, world, process, Wrong
<1>2. /\ \A m : Wrong(m)' = Wrong(m)
      /\ \A c : HasKey(c)' = HasKey(c)
    BY <1>1, SameWorld DEF world
<1>3. StartupTypeOK'
    BY <1>1 DEF StartupInv, StartupTypeOK
<1>4. StageInv'
    BY <1>1 DEF StartupInv, StageInv
<1>5. ModelInv'
    BY <1>1 DEF ModelInv
<1>6. KeysInv'
    BY <1>1, SameKeyring DEF StartupInv, KeysInv, Chosen
<1>7. PromiseInv'
    BY <1>1, <1>2 DEF StartupInv, PromiseInv
<1>8. ReportInv'
    BY <1>1, <1>2 DEF StartupInv, ReportInv
<1> QED
    BY <1>3, <1>4, <1>5, <1>6, <1>7, <1>8 DEF StartupInv

(* A change from elsewhere ends every promise and every report, and a       *)
(* process that runs is no longer one that nothing has disturbed.           *)
LEMMA EditsKeep ==
    ASSUME StartupInv,
           \/ \E p \in Parts, state \in PartStates : EditPart(p, state)
           \/ \E layers \in Layers : EditProject(layers.project)
           \/ \E v \in VendorIds : Login(v) \/ Logout(v)
    PROVE  StartupInv'
<1>1. /\ edits' = edits + 1 /\ promise' = NoPromise /\ report' = NoReport
      /\ outcome' = NoOutcome
      /\ env' = env /\ flags' = flags /\ at' = at /\ config' = config /\ form' = form
      /\ session' = session /\ shown' = shown /\ pending' = pending
      /\ since' = since /\ starts' = starts
    BY DEF EditPart, EditProject, Login, Logout, Edits
<1>2. /\ files' \in [user : {files'.user}, project : {files'.project}, writable : BOOLEAN,
                     part : [Parts -> {"missing", "good", "broken"}]]
      /\ IsLayer(files'.user) /\ IsLayer(files'.project)
    <2>1. CASE \E p \in Parts, state \in PartStates : EditPart(p, state)
        <3>1. PICK p \in Parts, state \in PartStates :
                files' = [files EXCEPT !.part[p] = state]
            BY <2>1 DEF EditPart
        <3>2. state \in {"missing", "good", "broken"}
            BY StartupAssumption
        <3>3. /\ files'.user = files.user /\ files'.project = files.project
              /\ files' \in [user : {files.user}, project : {files.project},
                             writable : BOOLEAN,
                             part : [Parts -> {"missing", "good", "broken"}]]
            BY <3>1, <3>2 DEF StartupInv, StartupTypeOK
        <3> QED
            BY <3>3 DEF StartupInv, StartupTypeOK
    <2>2. CASE \E layers \in Layers : EditProject(layers.project)
        BY <2>2, LayersAssumption DEF EditProject, StartupInv, StartupTypeOK
    <2>3. CASE \E v \in VendorIds : Login(v) \/ Logout(v)
        BY <2>3 DEF Login, Logout, StartupInv, StartupTypeOK
    <2> QED
        BY <2>1, <2>2, <2>3
<1>3. /\ keyring' \in [mode : KeyringModes, saved : [VendorIds -> Seq(VendorIds \cup {Blank})]]
      /\ \A v \in VendorIds :
            /\ keyring'.saved[v] \in Seq({v, Blank})
            /\ keyring'.saved[v] # NoKey =>
                Head(keyring'.saved[v]) = v /\ Last(keyring'.saved[v]) = v
    <2>1. CASE keyring' = keyring
        BY <2>1, SameKeyring
    <2>2. ASSUME NEW v \in VendorIds, NEW key \in {<<v>>, NoKey}, keyring' = Stored(v, key)
          PROVE  /\ keyring' \in [mode : KeyringModes,
                                  saved : [VendorIds -> Seq(VendorIds \cup {Blank})]]
                 /\ \A w \in VendorIds :
                    /\ keyring'.saved[w] \in Seq({w, Blank})
                    /\ keyring'.saved[w] # NoKey =>
                        Head(keyring'.saved[w]) = w /\ Last(keyring'.saved[w]) = w
        <3>1. /\ \A S : v \in S => key \in Seq(S)
              /\ key # NoKey => Head(key) = v /\ Last(key) = v
            <4>1. CASE key = NoKey
                BY <4>1, EmptySeq DEF NoKey
            <4>2. CASE key = <<v>>
                <5>1. /\ \A S : v \in S => <<v>> \in Seq(S)
                      /\ Len(<<v>>) = 1 /\ Head(<<v>>) = v /\ <<v>>[1] = v
                    OBVIOUS
                <5> QED
                    BY <4>2, <5>1 DEF Last
            <4> QED
                BY <4>1, <4>2
        <3>2. key \in Seq(VendorIds \cup {Blank}) /\ key \in Seq({v, Blank})
            BY <3>1
        <3>3. /\ keyring' \in [mode : KeyringModes,
                               saved : [VendorIds -> Seq(VendorIds \cup {Blank})]]
              /\ \A w \in VendorIds :
                    keyring'.saved[w] = keyring.saved[w] \/ (w = v /\ keyring'.saved[w] = key)
            BY <2>2, <3>2 DEF Stored, StartupInv, StartupTypeOK
        <3> QED
            BY <3>1, <3>2, <3>3 DEF StartupInv, KeysInv
    <2> QED
        BY <2>1, <2>2 DEF EditPart, EditProject, Login, Logout
<1>4. StartupTypeOK'
    BY <1>1, <1>2, <1>3 DEF StartupInv, StartupTypeOK
<1>5. StageInv'
    BY <1>1 DEF StartupInv, StageInv
<1>6. ModelInv'
    BY <1>1 DEF StartupInv, ModelInv, Fitting
<1>7. KeysInv'
    BY <1>1, <1>3 DEF StartupInv, KeysInv, Chosen
<1>8. PromiseInv'
    BY <1>1 DEF PromiseInv
<1>9. ReportInv'
    <2>1. since' # edits'
        BY <1>1 DEF StartupInv, StartupTypeOK
    <2>2. ~outcome'.headless
        BY <1>1 DEF NoOutcome, Outcome, NoFlags
    <2> QED
        BY <1>1, <2>1, <2>2 DEF ReportInv
<1> QED
    BY <1>4, <1>5, <1>6, <1>7, <1>8, <1>9 DEF StartupInv

(* `true-code init` makes a file of rules in which there are none, and that *)
(* is as good as no file.                                                   *)
LEMMA QuietKeeps ==
    ASSUME StartupInv, InitProject \/ UNCHANGED startupVars
    PROVE  StartupInv'
<1>1. /\ env' = env /\ keyring' = keyring /\ UNCHANGED process /\ UNCHANGED history
      /\ starts' = starts /\ edits' = edits
    BY DEF InitProject, startupVars, world
<1>2. /\ files'.user = files.user /\ files'.project = files.project
      /\ files'.writable = files.writable /\ Broken("rules")' = Broken("rules")
      /\ files' \in [user : {files'.user}, project : {files'.project}, writable : BOOLEAN,
                     part : [Parts -> {"missing", "good", "broken"}]]
    <2>1. CASE InitProject
        BY <2>1 DEF InitProject, State, Broken, StartupInv, StartupTypeOK
    <2>2. CASE UNCHANGED startupVars
        BY <2>2 DEF startupVars, world, State, Broken, StartupInv, StartupTypeOK
    <2> QED
        BY <2>1, <2>2
<1>3. /\ \A model : Configured(model)' = Configured(model)
      /\ \A model : Wrong(model)' = Wrong(model)
      /\ \A c : HasKey(c)' = HasKey(c)
      /\ \A c : Problems(c)' = Problems(c)
    BY <1>1, <1>2, SameSetup
<1>4. /\ flags' = flags /\ at' = at /\ config' = config /\ form' = form
      /\ session' = session /\ shown' = shown /\ pending' = pending /\ outcome' = outcome
      /\ promise' = promise /\ report' = report /\ since' = since
    BY <1>1 DEF process, history
<1>5. StartupTypeOK'
    BY <1>1, <1>2, <1>4 DEF StartupInv, StartupTypeOK
<1>6. StageInv'
    BY <1>4 DEF StartupInv, StageInv
<1>7. ModelInv'
    BY <1>1, <1>4 DEF StartupInv, ModelInv, Fitting
<1>8. KeysInv'
    BY <1>1, <1>4, SameKeyring DEF StartupInv, KeysInv, Chosen
<1>9. PromiseInv'
    BY <1>1, <1>2, <1>3, <1>4 DEF StartupInv, PromiseInv
<1>10. ReportInv'
    <2>1. Problems(config)' = Problems(config)
        BY <1>3, <1>4
    <2> QED
        BY <1>1, <1>3, <1>4, <2>1 DEF StartupInv, ReportInv
<1> QED
    BY <1>5, <1>6, <1>7, <1>8, <1>9, <1>10 DEF StartupInv

-----------------------------------------------------------------------------
(* The invariant holds. *)

LEMMA StartupBegins ==
    StartupInit => StartupInv
<1> SUFFICES ASSUME StartupInit
             PROVE  StartupInv
    OBVIOUS
<1>1. PICK layers \in Layers, writable \in BOOLEAN :
        files = [user |-> layers.user, project |-> layers.project, writable |-> writable,
                 part |-> [p \in Parts |-> IF p = "rules" THEN "missing" ELSE "good"]]
    BY DEF StartupInit
<1>2. PICK mode \in KeyringModes :
        keyring = [mode |-> mode, saved |-> [v \in VendorIds |-> NoKey]]
    BY DEF StartupInit
<1>3. /\ flags = NoFlags /\ at = "idle" /\ config = Default /\ form = NoForm
      /\ session = NoSession /\ pending = {} /\ outcome = NoOutcome
      /\ promise = NoPromise /\ report = NoReport /\ since = 0 /\ starts = 0 /\ edits = 0
    BY DEF StartupInit
<1>4. \A S : NoKey \in Seq(S)
    BY EmptySeq DEF NoKey
<1>5. StartupTypeOK
    <2>1. Default = [s \in Settings |-> Default[s]]
        BY DEF Default, Settings
    <2>2. IsLayer(layers.user) /\ IsLayer(layers.project)
        BY LayersAssumption
    <2> QED
        BY <1>1, <1>2, <1>3, <1>4, <2>1, <2>2, EmptyForm, EmptySession DEF StartupTypeOK
<1>6. StageInv /\ ModelInv /\ PromiseInv
    BY <1>3 DEF StageInv, ModelInv, PromiseInv
<1>7. KeysInv
    BY <1>2, <1>3, <1>4, EmptyForm DEF KeysInv
<1>8. ReportInv
    BY <1>3 DEF ReportInv, NoOutcome, Outcome, NoFlags
<1> QED
    BY <1>5, <1>6, <1>7, <1>8 DEF StartupInv

(* Every step keeps the invariant. *)
LEMMA StartupStep ==
    StartupInv /\ [StartupNext]_startupVars => StartupInv'
<1> SUFFICES ASSUME StartupInv, [StartupNext]_startupVars
             PROVE  StartupInv'
    OBVIOUS
<1>1. CASE Starting
    BY <1>1, StartRefusedKeeps, StartSessionKeeps, StartMcpCheckKeeps DEF Starting
<1>2. CASE Setup
    BY <1>2, FormMovesKeep, ConfirmKeeps, CancelKeeps, RememberKeeps, RememberDiesKeeps
    DEF Setup
<1>3. CASE Loading
    BY <1>3, ResolveFailsKeeps, ResolveKeeps, ServersKeep, LateEndsKeep, OpenKeeps DEF Loading
<1>4. CASE InSession
    BY <1>4, SwitchModelKeeps, SetProviderKeeps, UsesKeep, LateEndsKeep DEF InSession
<1>5. CASE Dies
    BY <1>5, LateEndsKeep
<1>6. CASE Elsewhere
    BY <1>6, DoctorKeeps, EditsKeep, QuietKeeps DEF Elsewhere
<1>7. CASE UNCHANGED startupVars
    BY <1>7, QuietKeeps
<1> QED
    BY <1>1, <1>2, <1>3, <1>4, <1>5, <1>6, <1>7 DEF StartupNext

(* The invariant of a start, of the setup and of a session. *)
LEMMA StartupInvariant ==
    StartupSpec => []StartupInv
BY StartupBegins, StartupStep, PTL DEF StartupSpec

(* The state of start_session and of the setup screen is well formed.       *)
THEOREM StartupTypeCorrect ==
    StartupSpec => []StartupTypeOK
<1>1. StartupInv => StartupTypeOK
    BY DEF StartupInv
<1> QED
    BY <1>1, StartupInvariant, PTL

(* Whatever the layers, the setup and /model say, every model in use, shown *)
(* or on its way is one of the configured provider, and the key is that     *)
(* provider's.                                                              *)
THEOREM KeysMeetTheirProviders ==
    StartupSpec => []KeyMeetsItsProvider
<1>1. StartupInv => KeyMeetsItsProvider
    BY DEF StartupInv, StageInv, ModelInv, Fitting, KeyMeetsItsProvider
<1> QED
    BY <1>1, StartupInvariant, PTL

(* However the person moves through the form, no key is filed under another *)
(* provider than the one it was typed for, and none that is blank.          *)
THEOREM NoKeyIsMisfiled ==
    StartupSpec => []KeysAreFiledWhereTyped
<1>1. StartupInv => KeysAreFiledWhereTyped
    <2> SUFFICES ASSUME StartupInv, NEW v \in VendorIds, keyring.saved[v] # NoKey
                 PROVE  /\ Head(keyring.saved[v]) = v /\ Last(keyring.saved[v]) = v
                        /\ ToSet(keyring.saved[v]) \subseteq {v, Blank}
        BY DEF KeysAreFiledWhereTyped
    <2>1. /\ keyring.saved[v] \in Seq({v, Blank})
          /\ Head(keyring.saved[v]) = v /\ Last(keyring.saved[v]) = v
        BY DEF StartupInv, KeysInv
    <2>2. ToSet(keyring.saved[v]) \subseteq {v, Blank}
        BY <2>1 DEF ToSet
    <2> QED
        BY <2>1, <2>2
<1> QED
    BY <1>1, StartupInvariant, PTL

(* The choice that setup has saved is there at the next start, which asks   *)
(* nobody again, and the other settings are still the person's.             *)
THEOREM SavedSetupLasts ==
    StartupSpec => []SetupLasts
<1>1. StartupInv => SetupLasts
    BY DEF StartupInv, PromiseInv, SetupLasts
<1> QED
    BY <1>1, StartupInvariant, PTL

(* As long as nothing changes, doctor names what a headless start fails of  *)
(* before its servers, and has nothing to say of one that gets further.     *)
THEOREM DoctorTellsTheTruth ==
    StartupSpec => []DoctorIsRight
<1>1. StartupInv => DoctorIsRight
    <2> SUFFICES ASSUME StartupInv, report # NoReport
                 PROVE  DoctorIsRight
        BY DEF DoctorIsRight
    <2>1. report.problems = Wrong(report.model)
        BY DEF StartupInv, ReportInv
    <2>2. ASSUME at \in {"connecting", "running"}, flags.command = "session",
                 flags.prompt, flags.model = report.model, since = edits
          PROVE  report.problems \subseteq {"session_dir"}
        BY <2>1, <2>2 DEF StartupInv, ReportInv, Wrong
    <2>3. ASSUME outcome.headless, outcome.model = report.model, outcome.fresh,
                 outcome.how \in {"provider", "model", "key", "rules"}
          PROVE  outcome.how \in report.problems
        BY <2>1, <2>3 DEF StartupInv, ReportInv, EarlyFailures
    <2> QED
        BY <2>2, <2>3 DEF DoctorIsRight
<1> QED
    BY <1>1, StartupInvariant, PTL

-----------------------------------------------------------------------------
(* The servers and their tools. *)

(* What two sequences one after the other have. *)
LEMMA ToSetConcat ==
    ASSUME NEW S, NEW s \in Seq(S), NEW r \in Seq(S)
    PROVE  ToSet(s \o r) = ToSet(s) \cup ToSet(r)
<1> DEFINE a == s \o r
<1>1. Len(s) \in Nat /\ DOMAIN s = 1..Len(s) /\ Len(r) \in Nat /\ DOMAIN r = 1..Len(r)
    BY LenProperties
<1>2. /\ a \in Seq(S) /\ Len(a) = Len(s) + Len(r)
      /\ \A i \in 1..(Len(s) + Len(r)) : a[i] = IF i <= Len(s) THEN s[i] ELSE r[i - Len(s)]
    BY ConcatProperties
<1> HIDE DEF a
<1>3. DOMAIN a = 1..(Len(s) + Len(r))
    BY <1>2, LenProperties
<1>4. ASSUME NEW i \in DOMAIN a PROVE a[i] \in ToSet(s) \cup ToSet(r)
    <2>1. \/ i \in 1..Len(s) /\ i <= Len(s)
          \/ i - Len(s) \in 1..Len(r) /\ ~(i <= Len(s))
        BY <1>1, <1>3
    <2>2. a[i] = IF i <= Len(s) THEN s[i] ELSE r[i - Len(s)]
        BY <1>2, <1>3
    <2> QED
        BY <1>1, <2>1, <2>2 DEF ToSet
<1>5. ASSUME NEW i \in 1..Len(s) PROVE s[i] \in ToSet(a)
    <2>1. i \in 1..(Len(s) + Len(r)) /\ i <= Len(s)
        BY <1>1
    <2> QED
        BY <1>2, <1>3, <2>1 DEF ToSet
<1>6. ASSUME NEW i \in 1..Len(r) PROVE r[i] \in ToSet(a)
    <2>1. /\ Len(s) + i \in 1..(Len(s) + Len(r)) /\ ~(Len(s) + i <= Len(s))
          /\ (Len(s) + i) - Len(s) = i
        BY <1>1
    <2>2. a[Len(s) + i] = r[i]
        BY <1>2, <2>1
    <2> QED
        BY <1>3, <2>1, <2>2 DEF ToSet
<1>7. ToSet(a) \subseteq ToSet(s) \cup ToSet(r)
    BY <1>4 DEF ToSet
<1>8. ToSet(s) \subseteq ToSet(a) /\ ToSet(r) \subseteq ToSet(a)
    BY <1>1, <1>5, <1>6 DEF ToSet
<1> QED
    BY <1>7, <1>8 DEF a

(* Equal sequences in two parts: the shorter of the first parts begins the  *)
(* other one.                                                               *)
LEMMA FirstParts ==
    ASSUME NEW S, NEW a \in Seq(S), NEW b \in Seq(S), NEW x \in Seq(S), NEW y \in Seq(S),
           a \o x = b \o y, Len(a) <= Len(b)
    PROVE  /\ \A m \in 1..Len(a) : a[m] = b[m]
           /\ Len(a) = Len(b) => x = y
<1>1. Len(a) \in Nat /\ Len(b) \in Nat /\ Len(x) \in Nat /\ Len(y) \in Nat
    BY LenProperties
<1> DEFINE l == a \o x
           r == b \o y
<1>2. /\ Len(l) = Len(a) + Len(x)
      /\ \A i \in 1..(Len(a) + Len(x)) : l[i] = IF i <= Len(a) THEN a[i] ELSE x[i - Len(a)]
    BY ConcatProperties
<1>3. /\ Len(r) = Len(b) + Len(y)
      /\ \A i \in 1..(Len(b) + Len(y)) : r[i] = IF i <= Len(b) THEN b[i] ELSE y[i - Len(b)]
    BY ConcatProperties
<1>4. l = r
    OBVIOUS
<1> HIDE DEF l, r
<1>5. ASSUME NEW m \in 1..Len(a) PROVE a[m] = b[m]
    <2>1. m \in 1..(Len(a) + Len(x)) /\ m <= Len(a) /\ m \in 1..(Len(b) + Len(y)) /\ m <= Len(b)
        BY <1>1
    <2> QED
        BY <1>2, <1>3, <1>4, <2>1
<1>6. ASSUME Len(a) = Len(b) PROVE x = y
    <2>1. Len(x) = Len(y)
        BY <1>1, <1>2, <1>3, <1>4, <1>6
    <2>2. ASSUME NEW i \in 1..Len(x) PROVE x[i] = y[i]
        <3>1. /\ Len(a) + i \in 1..(Len(a) + Len(x)) /\ ~(Len(a) + i <= Len(a))
              /\ (Len(a) + i) - Len(a) = i
            BY <1>1
        <3>2. l[Len(a) + i] = x[i] /\ r[Len(a) + i] = y[i]
            BY <1>2, <1>3, <1>6, <2>1, <3>1
        <3> QED
            BY <1>4, <3>2
    <2> QED
        BY <2>1, <2>2, SeqEqual
<1> QED
    BY <1>5, <1>6

(* The tools that a server and that true-code itself can offer.             *)
ToolsOf(i) == ToSet(McpTools(Servers[i]))
BuiltIns == {BuiltIn(n) : n \in {"read_file", "list_dir", "glob", "grep", "write_file", "patch", "shell"}}
Offerable == BuiltIns \cup UNION {ToolsOf(i) : i \in DOMAIN Servers}

(* What a table of the file is. *)
LEMMA ServerFields ==
    ASSUME NEW i \in DOMAIN Servers
    PROVE  /\ Servers[i].name \in Seq(STRING) /\ Servers[i].name # <<>>
           /\ Servers[i].tools \in Seq(Seq(STRING))
<1> DEFINE Name == Seq(STRING) \ {<<>>}
           Lists == Seq(Seq(STRING))
           R == [name : Name, enabled : BOOLEAN, tools : Lists]
<1>1. Servers \in Seq(R)
    BY ServersAssumption
<1> HIDE DEF R
<1>2. Servers[i] \in R
    BY <1>1, LenProperties
<1> USE DEF R
<1> HIDE DEF Name, Lists
<1>3. Servers[i].name \in Name /\ Servers[i].tools \in Lists
    BY <1>2
<1> QED
    BY <1>3 DEF Name, Lists

(* A tool of a server goes by its name and says which it is. *)
LEMMA McpToolsFacts ==
    ASSUME NEW i \in DOMAIN Servers
    PROVE  /\ McpTools(Servers[i]) \in Seq(Offerable)
           /\ DOMAIN McpTools(Servers[i]) = DOMAIN Servers[i].tools
           /\ DOMAIN McpTools(Servers[i]) = 1..Len(McpTools(Servers[i]))
           /\ \A k \in DOMAIN Servers[i].tools :
                McpTools(Servers[i])[k] =
                    Tool(QualifiedName(Servers[i].name, Servers[i].tools[k]),
                         Servers[i].name, Servers[i].tools[k])
<1> DEFINE s == Servers[i]
           n == Len(s.tools)
           e(k) == Tool(QualifiedName(s.name, s.tools[k]), s.name, s.tools[k])
           m == McpTools(s)
<1>1. s.tools \in Seq(Seq(STRING))
    BY ServerFields
<1>2. n \in Nat /\ DOMAIN s.tools = 1..n
    BY <1>1, LenProperties
<1>3. m = [k \in 1..n |-> e(k)]
    BY <1>2 DEF McpTools
<1> HIDE DEF e, n, m
<1>4. \A k \in 1..n : e(k) \in ToSet(m)
    BY <1>3 DEF ToSet
<1>5. \A k \in 1..n : e(k) \in Offerable
    BY <1>4 DEF Offerable, ToolsOf, m
<1>6. m \in Seq(Offerable)
    BY <1>2, <1>3, <1>5
<1>7. DOMAIN m = 1..n /\ Len(m) = n
    BY <1>2, <1>3, <1>6, LenProperties
<1> QED
    BY <1>2, <1>3, <1>6, <1>7 DEF m, e

(* A tool of a server is one of its list.                                   *)
LEMMA ToolsOfFacts ==
    ASSUME NEW i \in DOMAIN Servers, NEW tool \in ToolsOf(i)
    PROVE  \E k \in DOMAIN Servers[i].tools :
                tool = Tool(QualifiedName(Servers[i].name, Servers[i].tools[k]),
                            Servers[i].name, Servers[i].tools[k])
<1>1. PICK k \in DOMAIN McpTools(Servers[i]) : tool = McpTools(Servers[i])[k]
    BY DEF ToolsOf, ToSet
<1> QED
    BY <1>1, McpToolsFacts

(* What the names of tools are made of. *)
NameParts == STRING \cup {"mcp", "_"}

(* A qualified name up to the name of the tool. *)
Heading(server) == <<"mcp", "_", "_">> \o server \o <<"_", "_">>

(* Three things and two in a row. *)
LEMMA ThreeAndTwo ==
    ASSUME NEW S, NEW p \in S, NEW q \in S
    PROVE  /\ <<p, q, q>> \in Seq(S) /\ Len(<<p, q, q>>) = 3 /\ <<p, q, q>>[1] = p
           /\ <<q, q>> \in Seq(S) /\ Len(<<q, q>>) = 2
OBVIOUS

(* A sequence of known length before another. *)
LEMMA ConcatAt ==
    ASSUME NEW S, NEW l \in Seq(S), NEW r \in Seq(S), NEW n \in Nat, Len(l) = n
    PROVE  /\ l \o r \in Seq(S)
           /\ Len(l \o r) = n + Len(r)
           /\ \A i \in 1..(n + Len(r)) : (l \o r)[i] = IF i <= n THEN l[i] ELSE r[i - n]
BY ConcatProperties

(* A sequence over a set is one over a larger set. *)
LEMMA LargerSeq ==
    ASSUME NEW S, NEW T, S \subseteq T
    PROVE  Seq(S) \subseteq Seq(T)
    OBVIOUS

(* What stands where in it. *)
LEMMA HeadingFacts ==
    ASSUME NEW a \in Seq(NameParts)
    PROVE  /\ Heading(a) \in Seq(NameParts)
           /\ Len(Heading(a)) = Len(a) + 5
           /\ Heading(a)[1] = "mcp"
           /\ \A m \in 1..Len(a) : Heading(a)[m + 3] = a[m]
<1> DEFINE three == <<"mcp", "_", "_">>
           two == <<"_", "_">>
           A == three \o a
<1>1. /\ three \in Seq(NameParts) /\ Len(three) = 3 /\ three[1] = "mcp"
      /\ two \in Seq(NameParts) /\ Len(two) = 2
    <2>1. "mcp" \in NameParts /\ "_" \in NameParts
        BY DEF NameParts
    <2> QED
        BY <2>1, ThreeAndTwo
<1>2. Len(a) \in Nat
    BY LenProperties
<1> HIDE DEF three, two
<1>3. /\ A \in Seq(NameParts) /\ Len(A) = 3 + Len(a)
      /\ \A i \in 1..(3 + Len(a)) : A[i] = IF i <= 3 THEN three[i] ELSE a[i - 3]
    <2>1. three \in Seq(NameParts) /\ Len(three) = 3
        BY <1>1
    <2>2. /\ A \in Seq(NameParts) /\ Len(A) = Len(three) + Len(a)
          /\ \A i \in 1..(Len(three) + Len(a)) :
                A[i] = IF i <= Len(three) THEN three[i] ELSE a[i - Len(three)]
        BY <2>1, ConcatProperties
    <2> HIDE DEF A
    <2> QED
        BY <2>1, <2>2
<1>4. Heading(a) = A \o two
    BY DEF Heading, three, two
<1> HIDE DEF A
<1>5. /\ A \o two \in Seq(NameParts) /\ Len(A \o two) = (3 + Len(a)) + 2
      /\ \A i \in 1..((3 + Len(a)) + 2) :
            (A \o two)[i] = IF i <= 3 + Len(a) THEN A[i] ELSE two[i - (3 + Len(a))]
    <2>1. A \in Seq(NameParts) /\ two \in Seq(NameParts) /\ Len(two) = 2 /\ Len(A) = 3 + Len(a)
        BY <1>1, <1>3
    <2> DEFINE all == A \o two
    <2>2. /\ all \in Seq(NameParts) /\ Len(all) = Len(A) + Len(two)
          /\ \A i \in 1..(Len(A) + Len(two)) :
                all[i] = IF i <= Len(A) THEN A[i] ELSE two[i - Len(A)]
        <3>1. A \in Seq(NameParts) /\ two \in Seq(NameParts)
            BY <2>1
        <3> QED
            BY <3>1, ConcatProperties
    <2> HIDE DEF all
    <2>3. Len(A) + Len(two) = (3 + Len(a)) + 2
        BY <2>1
    <2>4. /\ all \in Seq(NameParts) /\ Len(all) = (3 + Len(a)) + 2
          /\ \A i \in 1..((3 + Len(a)) + 2) :
                all[i] = IF i <= 3 + Len(a) THEN A[i] ELSE two[i - (3 + Len(a))]
        BY <2>1, <2>2, <2>3
    <2> QED
        BY <2>4 DEF all
<1>6. \A i \in 1..(3 + Len(a)) : i \in 1..((3 + Len(a)) + 2) /\ i <= 3 + Len(a)
    BY <1>2
<1>7. \A i \in 1..(3 + Len(a)) : Heading(a)[i] = IF i <= 3 THEN three[i] ELSE a[i - 3]
    BY <1>3, <1>4, <1>5, <1>6
<1>8. 1 \in 1..(3 + Len(a)) /\ 1 <= 3
    BY <1>2
<1>9. ASSUME NEW m \in 1..Len(a) PROVE Heading(a)[m + 3] = a[m]
    <2>1. m + 3 \in 1..(3 + Len(a)) /\ ~(m + 3 <= 3) /\ (m + 3) - 3 = m
        BY <1>2
    <2> QED
        BY <1>7, <2>1
<1>10. (3 + Len(a)) + 2 = Len(a) + 5
    BY <1>2
<1> QED
    BY <1>1, <1>4, <1>5, <1>7, <1>8, <1>9, <1>10

(* A qualified name is that and the name of the tool; it begins with `mcp`. *)
LEMMA QualifiedFacts ==
    ASSUME NEW a \in Seq(NameParts), NEW x \in Seq(NameParts)
    PROVE  /\ QualifiedName(a, x) = Heading(a) \o x
           /\ QualifiedName(a, x)[1] = "mcp"
           /\ Len(QualifiedName(a, x)) = (Len(a) + 5) + Len(x)
<1> DEFINE A == Heading(a)
<1>1. QualifiedName(a, x) = A \o x
    BY DEF QualifiedName, Heading
<1>2. A \in Seq(NameParts) /\ Len(A) = Len(a) + 5 /\ A[1] = "mcp"
    BY HeadingFacts
<1> HIDE DEF A
<1>3. /\ Len(A \o x) = (Len(a) + 5) + Len(x)
      /\ \A i \in 1..((Len(a) + 5) + Len(x)) :
            (A \o x)[i] = IF i <= Len(a) + 5 THEN A[i] ELSE x[i - (Len(a) + 5)]
    <2>1. Len(a) + 5 \in Nat
        BY LenProperties
    <2> QED
        BY <1>2, <2>1, ConcatAt
<1>4. 1 \in 1..((Len(a) + 5) + Len(x)) /\ 1 <= Len(a) + 5
    <2>1. Len(a) \in Nat /\ Len(x) \in Nat
        BY LenProperties
    <2> QED
        BY <2>1
<1> QED
    BY <1>1, <1>2, <1>3, <1>4 DEF A

(* Of two tools of one qualified name, either both the servers' names and   *)
(* their own are the same, or neither are.                                  *)
LEMMA SameParts ==
    ASSUME NEW a \in Seq(NameParts), NEW x \in Seq(NameParts),
           NEW b \in Seq(NameParts), NEW y \in Seq(NameParts),
           QualifiedName(a, x) = QualifiedName(b, y)
    PROVE  a = b <=> x = y
<1> DEFINE A == Heading(a)
           B == Heading(b)
<1>1. A \o x = B \o y
    BY QualifiedFacts
<1>2. /\ A \in Seq(NameParts) /\ Len(A) = Len(a) + 5 /\ \A m \in 1..Len(a) : A[m + 3] = a[m]
      /\ B \in Seq(NameParts) /\ Len(B) = Len(b) + 5 /\ \A m \in 1..Len(b) : B[m + 3] = b[m]
    BY HeadingFacts
<1>3. Len(a) \in Nat /\ Len(b) \in Nat /\ Len(x) \in Nat /\ Len(y) \in Nat
    BY LenProperties
<1> HIDE DEF A, B
<1>4. ASSUME Len(a) = Len(b)
      PROVE  x = y /\ a = b
    <2>1. Len(A) <= Len(B) /\ Len(A) = Len(B)
        BY <1>2, <1>3, <1>4
    <2>2. (\A m \in 1..Len(A) : A[m] = B[m]) /\ x = y
        BY <1>1, <1>2, <2>1, FirstParts
    <2>3. \A m \in 1..Len(a) : a[m] = b[m]
        <3>1. ASSUME NEW m \in 1..Len(a) PROVE m + 3 \in 1..Len(A) /\ m \in 1..Len(b)
            BY <1>2, <1>3, <1>4
        <3> QED
            BY <1>2, <2>2, <3>1
    <2> QED
        BY <1>4, <2>2, <2>3, SeqEqual
<1>5. ASSUME x = y PROVE Len(a) = Len(b)
    <2>1. (Len(a) + 5) + Len(x) = (Len(b) + 5) + Len(y)
        <3>1. /\ Len(QualifiedName(a, x)) = (Len(a) + 5) + Len(x)
              /\ Len(QualifiedName(b, y)) = (Len(b) + 5) + Len(y)
            BY QualifiedFacts
        <3> QED
            BY <3>1
    <2> QED
        BY <1>3, <1>5, <2>1
<1> QED
    BY <1>4, <1>5

(* The names of a table's server and tools are made of name parts. *)
LEMMA PartsOfTables ==
    ASSUME NEW i \in DOMAIN Servers, NEW k \in DOMAIN Servers[i].tools
    PROVE  Servers[i].name \in Seq(NameParts) /\ Servers[i].tools[k] \in Seq(NameParts)
<1>1. Seq(STRING) \subseteq Seq(NameParts)
    <2>1. STRING \subseteq NameParts
        BY DEF NameParts
    <2> QED
        BY <2>1, LargerSeq
<1>2. Servers[i].name \in Seq(STRING) /\ Servers[i].tools[k] \in Seq(STRING)
    BY ServerFields, LenProperties
<1> QED
    BY <1>1, <1>2

(* A qualified name begins with `mcp`. *)
LEMMA QualifiedBegins ==
    ASSUME NEW i \in DOMAIN Servers, NEW k \in DOMAIN Servers[i].tools
    PROVE  QualifiedName(Servers[i].name, Servers[i].tools[k])[1] = "mcp"
BY PartsOfTables, QualifiedFacts

(* What two tools that may be offered can be when they have one name.       *)
OneName(t, u) ==
    \/ t = u
    \/ t.server # u.server /\ t.remote # u.remote /\ <<>> \notin {t.server, u.server}

(* A server's tool has neither a built-in tool's name nor, unless it is the *)
(* same, that of a tool of its server or of one that is called the same.    *)
LEMMA SameNames ==
    ASSUME NEW t \in Offerable, NEW u \in Offerable, t.name = u.name
    PROVE  OneName(t, u)
<1> DEFINE Its(tool) == \E i \in DOMAIN Servers : tool \in ToolsOf(i)
<1>1. \A tool \in BuiltIns : tool = BuiltIn(tool.name[1]) /\ tool.name[1] # "mcp"
    BY DEF BuiltIns, BuiltIn, Tool
<1>2. ASSUME NEW tool, Its(tool) PROVE tool.name[1] = "mcp"
    <2>1. PICK i \in DOMAIN Servers : tool \in ToolsOf(i)
        BY <1>2
    <2> QED
        BY <2>1, ToolsOfFacts, QualifiedBegins DEF Tool
<1>3. ASSUME Its(t), Its(u) PROVE OneName(t, u)
    <2>1. PICK i \in DOMAIN Servers : t \in ToolsOf(i)
        BY <1>3
    <2>2. PICK k \in DOMAIN Servers[i].tools :
            t = Tool(QualifiedName(Servers[i].name, Servers[i].tools[k]),
                     Servers[i].name, Servers[i].tools[k])
        BY <2>1, ToolsOfFacts
    <2>3. PICK j \in DOMAIN Servers : u \in ToolsOf(j)
        BY <1>3
    <2>4. PICK l \in DOMAIN Servers[j].tools :
            u = Tool(QualifiedName(Servers[j].name, Servers[j].tools[l]),
                     Servers[j].name, Servers[j].tools[l])
        BY <2>3, ToolsOfFacts
    <2>5. QualifiedName(Servers[i].name, Servers[i].tools[k])
            = QualifiedName(Servers[j].name, Servers[j].tools[l])
        BY <2>2, <2>4 DEF Tool
    <2>6. Servers[i].name = Servers[j].name <=> Servers[i].tools[k] = Servers[j].tools[l]
        BY <2>5, PartsOfTables, SameParts
    <2>7. /\ t.server = Servers[i].name /\ t.remote = Servers[i].tools[k]
          /\ u.server = Servers[j].name /\ u.remote = Servers[j].tools[l]
          /\ t.server # <<>> /\ u.server # <<>>
        BY <2>2, <2>4, ServerFields DEF Tool
    <2>8. CASE t.server = u.server \/ t.remote = u.remote
        BY <2>2, <2>4, <2>5, <2>6, <2>7, <2>8 DEF OneName
    <2> QED
        BY <2>7, <2>8 DEF OneName
<1>4. (t \in BuiltIns \/ Its(t)) /\ (u \in BuiltIns \/ Its(u))
    BY DEF Offerable
<1> HIDE DEF Its
<1> QED
    BY <1>1, <1>2, <1>3, <1>4 DEF OneName

(* When a sequence is two others, one after the other. *)
LEMMA IsConcat ==
    ASSUME NEW S, NEW l \in Seq(S), NEW r \in Seq(S), NEW c \in Seq(S),
           Len(c) = Len(l) + Len(r),
           \A i \in 1..Len(c) : c[i] = IF i <= Len(l) THEN l[i] ELSE r[i - Len(l)]
    PROVE  l \o r = c
<1>1. /\ l \o r \in Seq(S) /\ Len(l \o r) = Len(l) + Len(r)
      /\ \A i \in 1..(Len(l) + Len(r)) : (l \o r)[i] = IF i <= Len(l) THEN l[i] ELSE r[i - Len(l)]
    BY ConcatProperties
<1>2. \A i \in 1..Len(c) : (l \o r)[i] = c[i]
    BY <1>1
<1> QED
    BY <1>1, <1>2, SeqEqual

(* Four, two and one tool in a row. *)
LEMMA FourTwoOne ==
    ASSUME NEW S, NEW a \in S, NEW b \in S, NEW c \in S, NEW d \in S,
           NEW e \in S, NEW f \in S, NEW g \in S
    PROVE  /\ <<a, b, c, d>> \o <<e, f>> = <<a, b, c, d, e, f>>
           /\ <<a, b, c, d, e, f>> \o <<g>> = <<a, b, c, d, e, f, g>>
<1> DEFINE four == <<a, b, c, d>>
           two == <<e, f>>
           six == <<a, b, c, d, e, f>>
           one == <<g>>
           seven == <<a, b, c, d, e, f, g>>
<1>1. /\ four \in Seq(S) /\ two \in Seq(S) /\ six \in Seq(S) /\ one \in Seq(S) /\ seven \in Seq(S)
      /\ Len(six) = Len(four) + Len(two) /\ Len(seven) = Len(six) + Len(one)
    OBVIOUS
<1>2. \A i \in 1..Len(six) : six[i] = IF i <= Len(four) THEN four[i] ELSE two[i - Len(four)]
    OBVIOUS
<1>3. \A i \in 1..Len(seven) : seven[i] = IF i <= Len(six) THEN six[i] ELSE one[i - Len(six)]
    OBVIOUS
<1> HIDE DEF four, two, six, one, seven
<1>4. four \o two = six
    BY <1>1, <1>2, IsConcat
<1>5. six \o one = seven
    BY <1>1, <1>3, IsConcat
<1> QED
    BY <1>4, <1>5 DEF four, two, six, one, seven

(* The tools of true-code itself are no server's. *)
LEMMA ForModeFacts ==
    ASSUME NEW mode
    PROVE  ForMode(mode) \in Seq(BuiltIns)
<1> DEFINE names == <<"read_file", "list_dir", "glob", "grep">>
                    \o (IF mode \in {"write", "full"} THEN <<"write_file", "patch">> ELSE <<>>)
                    \o (IF mode = "full" THEN <<"shell">> ELSE <<>>)
           N == {"read_file", "list_dir", "glob", "grep", "write_file", "patch", "shell"}
<1>1. names \in {<<"read_file", "list_dir", "glob", "grep">>,
                 <<"read_file", "list_dir", "glob", "grep", "write_file", "patch">>,
                 <<"read_file", "list_dir", "glob", "grep", "write_file", "patch", "shell">>}
    <2> DEFINE four == <<"read_file", "list_dir", "glob", "grep">>
               six == <<"read_file", "list_dir", "glob", "grep", "write_file", "patch">>
               seven == <<"read_file", "list_dir", "glob", "grep", "write_file", "patch", "shell">>
    <2>1. four \in Seq(N) /\ six \in Seq(N)
        OBVIOUS
    <2>2. four \o <<"write_file", "patch">> = six /\ six \o <<"shell">> = seven
        <3>1. /\ "read_file" \in N /\ "list_dir" \in N /\ "glob" \in N /\ "grep" \in N
              /\ "write_file" \in N /\ "patch" \in N /\ "shell" \in N
            OBVIOUS
        <3> HIDE DEF N
        <3> QED
            BY <3>1, FourTwoOne
    <2>3. four \o <<>> = four /\ six \o <<>> = six
        BY <2>1, ConcatEmptySeq
    <2>4. CASE mode = "full"
        BY <2>2, <2>4
    <2>5. CASE mode = "write"
        BY <2>2, <2>3, <2>5
    <2>6. CASE mode \notin {"write", "full"}
        BY <2>3, <2>6
    <2> QED
        BY <2>4, <2>5, <2>6
<1> HIDE DEF names
<1>2. names \in Seq(N)
    <2>1. CASE names = <<"read_file", "list_dir", "glob", "grep">>
        BY <2>1
    <2>2. CASE names = <<"read_file", "list_dir", "glob", "grep", "write_file", "patch">>
        BY <2>2
    <2>3. CASE names = <<"read_file", "list_dir", "glob", "grep", "write_file", "patch", "shell">>
        BY <2>3
    <2> QED
        BY <1>1, <2>1, <2>2, <2>3
<1> HIDE DEF N
<1>3. ForMode(mode) = [j \in DOMAIN names |-> BuiltIn(names[j])]
    BY DEF ForMode, names
<1>4. \A n \in N : BuiltIn(n) \in BuiltIns
    BY DEF BuiltIns, N
<1>5. Len(names) \in Nat /\ DOMAIN names = 1..Len(names) /\ \A j \in 1..Len(names) : names[j] \in N
    BY <1>2, LenProperties
<1>6. ForMode(mode) \in [1..Len(names) -> BuiltIns]
    BY <1>3, <1>4, <1>5
<1> QED
    BY <1>5, <1>6

(* What the steps of connecting leave: of the servers of a session, those   *)
(* that are no longer to do are up or have failed, and those that are up    *)
(* are the ones whose tools are offered, all of them.                       *)
Accounted(servers, todo, up, failed, tools) ==
    /\ servers \subseteq Enabled /\ todo \subseteq servers
    /\ \A i \in servers : i \in todo <=> Servers[i].name \notin up \cup failed
    /\ up \cap failed = {}
    /\ tools \in Seq(Offerable)
    /\ \A tool \in ToSet(tools) : tool.server # <<>> => tool.server \in up
    /\ \A i \in servers : Servers[i].name \in up => ToolsOf(i) \subseteq ToSet(tools)

(* The last call reached a tool of that name. *)
CallInv ==
    last.what = "call" =>
        /\ last.name \in McpNames
        /\ last.tool \in Offerable /\ last.tool.name = last.name
        /\ last.result = McpResult(last.tool, last.answer)

ServersInv ==
    /\ Accounted(session.servers, session.todo, session.up, session.failed, session.tools)
    /\ CallInv

(* A process that has no session, or one that only begins, has no server up.*)
LEMMA AccountedBegins ==
    ASSUME NEW servers \in SUBSET Enabled, NEW tools \in Seq(BuiltIns)
    PROVE  Accounted(servers, servers, {}, {}, tools)
<1>1. tools \in Seq(Offerable)
    <2>1. BuiltIns \subseteq Offerable
        BY DEF Offerable
    <2> HIDE DEF BuiltIns, Offerable
    <2> QED
        BY <2>1
<1>2. \A tool \in ToSet(tools) : tool.server = <<>>
    <2>1. \A tool \in BuiltIns : tool.server = <<>>
        BY DEF BuiltIns, BuiltIn, Tool
    <2>2. \A tool \in ToSet(tools) : tool \in BuiltIns
        BY LenProperties DEF ToSet
    <2> QED
        BY <2>1, <2>2
<1> QED
    BY <1>1, <1>2 DEF Accounted

(* No tool at all. *)
LEMMA NoToolsAccounted ==
    ASSUME NEW servers \in SUBSET Enabled
    PROVE  Accounted(servers, servers, {}, {}, <<>>)
<1>1. <<>> \in Seq(BuiltIns)
    OBVIOUS
<1> QED
    BY <1>1, AccountedBegins

(* One more server that is up. *)
LEMMA StartAccounted ==
    ASSUME NEW servers, NEW todo, NEW up, NEW failed, NEW tools,
           Accounted(servers, todo, up, failed, tools), NEW i \in todo
    PROVE  Accounted(servers, todo \ {i}, up \cup {Servers[i].name}, failed,
                     tools \o McpTools(Servers[i]))
<1> DEFINE name == Servers[i].name
           all == tools \o McpTools(Servers[i])
<1>1. /\ i \in servers /\ i \in DOMAIN Servers /\ servers \subseteq DOMAIN Servers
      /\ name \notin up /\ name \notin failed
      /\ tools \in Seq(Offerable)
      /\ name # <<>>
    BY ServerFields DEF Accounted, Enabled
<1>2. McpTools(Servers[i]) \in Seq(Offerable)
    BY <1>1, McpToolsFacts
<1>3. all \in Seq(Offerable) /\ ToSet(all) = ToSet(tools) \cup ToolsOf(i)
    BY <1>1, <1>2, ConcatProperties, ToSetConcat DEF ToolsOf
<1>6. \A tool \in ToolsOf(i) : tool.server = name
    BY <1>1, ToolsOfFacts DEF Tool
<1>7. \A j \in servers : Servers[j].name = name <=> j = i
    BY <1>1, ServersAssumption
<1> HIDE DEF all, name
<1>8. \A tool \in ToSet(all) : tool.server # <<>> => tool.server \in up \cup {name}
    BY <1>3, <1>6 DEF Accounted
<1>9. \A j \in servers : Servers[j].name \in up \cup {name} => ToolsOf(j) \subseteq ToSet(all)
    BY <1>3, <1>7 DEF Accounted
<1>10. \A j \in servers : j \in todo \ {i} <=> Servers[j].name \notin (up \cup {name}) \cup failed
    BY <1>7 DEF Accounted
<1>11. Accounted(servers, todo \ {i}, up \cup {name}, failed, all)
    BY <1>1, <1>3, <1>8, <1>9, <1>10 DEF Accounted
<1> QED
    BY <1>11 DEF all, name

(* One more server that has failed. *)
LEMMA FailAccounted ==
    ASSUME NEW servers, NEW todo, NEW up, NEW failed, NEW tools,
           Accounted(servers, todo, up, failed, tools), NEW i \in todo
    PROVE  Accounted(servers, todo \ {i}, up, failed \cup {Servers[i].name}, tools)
<1>1. /\ i \in servers /\ i \in DOMAIN Servers /\ servers \subseteq DOMAIN Servers
      /\ Servers[i].name \notin up
    BY DEF Accounted, Enabled
<1>2. \A j \in servers : Servers[j].name = Servers[i].name <=> j = i
    BY <1>1, ServersAssumption
<1> QED
    BY <1>1, <1>2 DEF Accounted

(* A step that neither moves the servers of the session nor calls a tool.   *)
LEMMA SameServers ==
    ASSUME ServersInv, last' = last \/ last'.what # "call",
           session'.servers = session.servers, session'.todo = session.todo,
           session'.up = session.up, session'.failed = session.failed,
           session'.tools = session.tools
    PROVE  ServersInv'
<1>1. CallInv'
    BY DEF ServersInv, CallInv, Offerable, BuiltIns, ToolsOf
<1> QED
    BY <1>1 DEF ServersInv

(* The end of a process. *)
LEMMA EndsAccounted ==
    ASSUME NEW how, NEW f, Ends(how, f)
    PROVE  ServersInv'
<1>1. session' = NoSession /\ last' = Nothing
    BY DEF Ends
<1>2. Accounted({}, {}, {}, {}, <<>>)
    BY NoToolsAccounted
<1>3. CallInv'
    BY <1>1 DEF CallInv, Nothing
<1> QED
    BY <1>1, <1>2, <1>3 DEF ServersInv, NoSession

(* The servers are listed when the session or the check of them begins, and *)
(* then each comes up or fails.                                             *)
LEMMA ConnectingAccounted ==
    ASSUME ServersInv, IsSession(session),
           \/ \E f : StartMcpCheck(f)
           \/ Resolve
           \/ ServerStarts
           \/ ServerFails
    PROVE  ServersInv'
<1>1. last' = last
    <2>1. ASSUME NEW f, StartMcpCheck(f) PROVE last' = last
        BY <2>1 DEF StartMcpCheck
    <2>2. ASSUME Resolve PROVE last' = last
        BY <2>2 DEF Resolve
    <2>3. ASSUME Connecting PROVE last' = last
        BY <2>3 DEF Connecting
    <2> QED
        BY <2>1, <2>2, <2>3 DEF ServerStarts, ServerFails
<1>2. CallInv'
    BY <1>1 DEF ServersInv, CallInv
<1>3. Listed \in SUBSET Enabled
    BY DEF Listed
<1> DEFINE It == Accounted(session.servers, session.todo, session.up, session.failed,
                           session.tools)
<1>4. ASSUME NEW f, StartMcpCheck(f) PROVE It'
    <2>1. session' = [NoSession EXCEPT !.servers = Listed, !.todo = Listed]
        BY <1>4 DEF StartMcpCheck
    <2>2. /\ session'.servers = Listed /\ session'.todo = Listed /\ session'.up = {}
          /\ session'.failed = {} /\ session'.tools = <<>>
        BY <2>1 DEF NoSession
    <2> QED
        BY <1>3, <2>2, NoToolsAccounted
<1>5. ASSUME Resolve PROVE It'
    <2>1. PICK model \in ModelOf(config) :
            session' = [NoSession EXCEPT
                !.model = model, !.key = KeySource(config.provider),
                !.commands = IF State("commands") = "good" THEN Load(CommandFiles) ELSE {},
                !.tools = ForMode(flags.mode), !.servers = Listed, !.todo = Listed]
        BY <1>5 DEF Resolve
    <2>2. /\ session'.servers = Listed /\ session'.todo = Listed /\ session'.up = {}
          /\ session'.failed = {} /\ session'.tools = ForMode(flags.mode)
        BY <2>1 DEF NoSession
    <2> QED
        BY <1>3, <2>2, ForModeFacts, AccountedBegins
<1>6. ASSUME ServerStarts PROVE It'
    <2>1. PICK i \in First(session.todo) :
            session' = [session EXCEPT !.todo = @ \ {i},
                                       !.up = @ \cup {Servers[i].name},
                                       !.tools = @ \o McpTools(Servers[i])]
        BY <1>6 DEF ServerStarts
    <2>2. /\ session'.servers = session.servers /\ session'.todo = session.todo \ {i}
          /\ session'.up = session.up \cup {Servers[i].name}
          /\ session'.failed = session.failed
          /\ session'.tools = session.tools \o McpTools(Servers[i])
        BY <2>1 DEF IsSession
    <2>3. i \in session.todo
        BY DEF First
    <2>4. Accounted(session.servers, session.todo \ {i}, session.up \cup {Servers[i].name},
                    session.failed, session.tools \o McpTools(Servers[i]))
        BY <2>3, StartAccounted DEF ServersInv
    <2> QED
        BY <2>2, <2>4
<1>7. ASSUME ServerFails PROVE It'
    <2>1. PICK i \in First(session.todo) :
            session' = [session EXCEPT !.todo = @ \ {i},
                                       !.failed = @ \cup {Servers[i].name}]
        BY <1>7 DEF ServerFails
    <2>2. /\ session'.servers = session.servers /\ session'.todo = session.todo \ {i}
          /\ session'.up = session.up /\ session'.failed = session.failed \cup {Servers[i].name}
          /\ session'.tools = session.tools
        BY <2>1 DEF IsSession
    <2>3. i \in session.todo
        BY DEF First
    <2> QED
        BY <2>2, <2>3, FailAccounted DEF ServersInv
<1> QED
    BY <1>2, <1>4, <1>5, <1>6, <1>7 DEF ServersInv

(* A call reaches a tool that is offered by that name. *)
LEMMA CallAccounted ==
    ASSUME ServersInv, NEW name \in McpNames, NEW answer, CallTool(name, answer)
    PROVE  ServersInv'
<1>1. PICK tool \in Named(session.tools, name) :
        last' = [what |-> "call", name |-> name, tool |-> tool, answer |-> answer,
                 result |-> McpResult(tool, answer)]
    BY DEF CallTool
<1>2. session' = session
    BY DEF CallTool
<1>3. tool \in Offerable /\ tool.name = name
    <2>1. session.tools \in Seq(Offerable)
        BY DEF ServersInv, Accounted
    <2>2. PICK i \in DOMAIN session.tools : tool = session.tools[i] /\ tool.name = name
        BY DEF Named
    <2> QED
        BY <2>1, <2>2, LenProperties
<1>4. CallInv'
    BY <1>1, <1>3 DEF CallInv, Offerable, BuiltIns, ToolsOf, McpResult
<1> QED
    BY <1>2, <1>4 DEF ServersInv

(* However the servers fail, each that is enabled is still to be started,   *)
(* or reported, or offered with all of its tools, no server's tool takes    *)
(* the name of a built-in one or of a tool which another server calls the   *)
(* same, and only an answer is read as output of the server in the name.    *)
THEOREM ServersAreAccountedFor ==
    StartupSpec => []EveryServerIsAccountedFor
<1>1. StartupInit => ServersInv
    <2> SUFFICES ASSUME StartupInit PROVE ServersInv
        OBVIOUS
    <2>1. session = NoSession /\ last = Nothing
        BY DEF StartupInit
    <2>2. Accounted({}, {}, {}, {}, <<>>)
        BY NoToolsAccounted
    <2>3. CallInv
        BY <2>1 DEF CallInv, Nothing
    <2> QED
        BY <2>1, <2>2, <2>3 DEF ServersInv, NoSession
<1>2. StartupInv /\ ServersInv /\ [StartupNext]_startupVars => ServersInv'
    <2> SUFFICES ASSUME StartupInv, ServersInv, [StartupNext]_startupVars
                 PROVE  ServersInv'
        OBVIOUS
    <2>1. IsSession(session)
        BY DEF StartupInv, StartupTypeOK
    <2>2. CASE Starting
        <3>1. PICK f \in Flags : StartRefused(f) \/ StartSession(f) \/ StartMcpCheck(f)
            BY <2>2 DEF Starting
        <3>2. CASE StartRefused(f)
            BY <3>2, EndsAccounted DEF StartRefused
        <3>3. CASE StartSession(f)
            BY <3>3, SameServers DEF StartSession
        <3>4. CASE StartMcpCheck(f)
            BY <2>1, <3>4, ConnectingAccounted
        <3> QED
            BY <3>1, <3>2, <3>3, <3>4
    <2>3. CASE Setup
        <3>1. CASE RememberDies
            BY <3>1, EndsAccounted DEF RememberDies
        <3>2. CASE ~RememberDies
            <4>1. session' = session /\ last' = last
                BY <2>3, <3>2
                DEF Setup, MoveUp, MoveDown, BeginKey, BackToList, Erase, Type, InForm,
                    Confirm, Cancel, Remember
            <4> QED
                BY <4>1, SameServers
        <3> QED
            BY <3>1, <3>2
    <2>4. CASE Loading
        <3>1. CASE ResolveFails \/ McpCheckEnds \/ OpenFails
            BY <3>1, EndsAccounted DEF ResolveFails, McpCheckEnds, OpenFails
        <3>2. CASE Resolve \/ ServerStarts \/ ServerFails
            BY <2>1, <3>2, ConnectingAccounted
        <3>3. CASE Open
            BY <3>3, SameServers DEF Open
        <3> QED
            BY <2>4, <3>1, <3>2, <3>3 DEF Loading
    <2>5. CASE InSession
        <3>1. ASSUME NEW id, SwitchModel(id) PROVE ServersInv'
            BY <3>1, SameServers DEF SwitchModel
        <3>2. ASSUME NEW model, SetProvider(model) PROVE ServersInv'
            <4>1. session' = [session EXCEPT !.model = model] /\ last' = last
                BY <3>2 DEF SetProvider
            <4>2. /\ session'.servers = session.servers /\ session'.todo = session.todo
                  /\ session'.up = session.up /\ session'.failed = session.failed
                  /\ session'.tools = session.tools
                BY <2>1, <4>1 DEF IsSession
            <4> QED
                BY <4>1, <4>2, SameServers
        <3>3. ASSUME NEW name \in McpNames, NEW answer, CallTool(name, answer)
              PROVE  ServersInv'
            BY <3>3, CallAccounted
        <3>4. ASSUME NEW command, NEW typed, UseCommand(command, typed) PROVE ServersInv'
            <4>1. session' = session /\ last'.what = "prompt"
                BY <3>4 DEF UseCommand
            <4> QED
                BY <4>1, SameServers
        <3>5. CASE End
            BY <3>5, EndsAccounted DEF End
        <3> QED
            BY <2>5, <3>1, <3>2, <3>3, <3>4, <3>5 DEF InSession
    <2>6. CASE Dies
        BY <2>6, EndsAccounted DEF Dies
    <2>7. CASE Elsewhere
        <3>1. session' = session /\ last' = last
            BY <2>7
            DEF Elsewhere, Doctor, process, EditPart, EditProject, Login, Logout, Edits, InitProject
        <3> QED
            BY <3>1, SameServers
    <2>8. CASE UNCHANGED startupVars
        <3>1. session' = session /\ last' = last
            BY <2>8 DEF startupVars, process
        <3> QED
            BY <3>1, SameServers
    <2> QED
        BY <2>2, <2>3, <2>4, <2>5, <2>6, <2>7, <2>8 DEF StartupNext
<1>3. ServersInv => EveryServerIsAccountedFor
    <2> SUFFICES ASSUME ServersInv PROVE EveryServerIsAccountedFor
        OBVIOUS
    <2>1. ASSUME NEW i \in session.servers
          PROVE  LET s == Servers[i]
                     offered == {tool \in ToSet(session.tools) : tool.server = s.name}
                 IN  /\ s.enabled
                     /\ offered \in {{}, ToSet(McpTools(s))}
                     /\ Cardinality({c \in {"todo", "failed", "offered"} :
                            \/ c = "todo" /\ i \in session.todo
                            \/ c = "failed" /\ s.name \in session.failed
                            \/ c = "offered" /\ (offered # {} \/ s.name \in session.up)}) = 1
        <3> DEFINE s == Servers[i]
                   offered == {tool \in ToSet(session.tools) : tool.server = s.name}
                   kinds == {c \in {"todo", "failed", "offered"} :
                                \/ c = "todo" /\ i \in session.todo
                                \/ c = "failed" /\ s.name \in session.failed
                                \/ c = "offered" /\ (offered # {} \/ s.name \in session.up)}
        <3>1. i \in DOMAIN Servers /\ s.enabled /\ s.name # <<>>
            BY ServerFields DEF ServersInv, Accounted, Enabled
        <3>2. offered # {} => s.name \in session.up
            BY <3>1 DEF ServersInv, Accounted
        <3>3. s.name \in session.up => offered = ToolsOf(i)
            <4>1. ASSUME NEW tool \in ToSet(session.tools), tool.server = s.name
                  PROVE  tool \in ToolsOf(i)
                <5>1. session.tools \in Seq(Offerable)
                    BY DEF ServersInv, Accounted
                <5>2. tool \in Offerable
                    BY <5>1, LenProperties DEF ToSet
                <5>3. tool \notin BuiltIns
                    BY <3>1, <4>1 DEF BuiltIns, BuiltIn, Tool
                <5>4. PICK j \in DOMAIN Servers : tool \in ToolsOf(j)
                    BY <5>2, <5>3 DEF Offerable
                <5>5. tool.server = Servers[j].name
                    BY <5>4, ToolsOfFacts DEF Tool
                <5>6. i = j
                    BY <3>1, <4>1, <5>5, ServersAssumption
                <5> QED
                    BY <5>4, <5>6
            <4>2. ASSUME NEW tool \in ToolsOf(i) PROVE tool.server = s.name
                BY <3>1, ToolsOfFacts DEF Tool
            <4>3. s.name \in session.up => ToolsOf(i) \subseteq ToSet(session.tools)
                BY DEF ServersInv, Accounted
            <4> HIDE DEF s
            <4> QED
                BY <4>1, <4>2, <4>3
        <3>4. kinds \in {{"todo"}, {"failed"}, {"offered"}}
            <4>1. \/ i \in session.todo /\ s.name \notin session.up /\ s.name \notin session.failed
                  \/ i \notin session.todo /\ s.name \in session.up /\ s.name \notin session.failed
                  \/ i \notin session.todo /\ s.name \notin session.up /\ s.name \in session.failed
                BY DEF ServersInv, Accounted
            <4> HIDE DEF s, offered
            <4> QED
                BY <3>2, <4>1
        <3>5. Cardinality(kinds) = 1
            <4> HIDE DEF kinds
            <4> QED
                BY <3>4, FS_Singleton
        <3>6. offered \in {{}, ToolsOf(i)}
            BY <3>2, <3>3
        <3> HIDE DEF offered
        <3> QED
            BY <3>1, <3>5, <3>6 DEF ToolsOf, offered
    <2>2. \A t, u \in ToSet(session.tools) : t.name = u.name => OneName(t, u)
        <3>1. session.tools \in Seq(Offerable)
            BY DEF ServersInv, Accounted
        <3>2. \A t \in ToSet(session.tools) : t \in Offerable
            BY <3>1, LenProperties DEF ToSet
        <3> QED
            BY <3>2, SameNames
    <2>3. ASSUME last.what = "call", last.result = "output"
          PROVE  /\ last.name = QualifiedName(last.tool.server, last.tool.remote)
                 /\ last.answer = "content"
        <3>1. /\ last.name \in McpNames
              /\ last.tool \in Offerable /\ last.tool.name = last.name
              /\ last.result = McpResult(last.tool, last.answer)
            BY <2>3 DEF ServersInv, CallInv
        <3>2. last.answer = "content"
            BY <2>3, <3>1 DEF McpResult
        <3>3. PICK j \in DOMAIN Servers : \E tool \in ToolsOf(j) : last.name = tool.name
            BY <3>1 DEF McpNames, ToolsOf, ToSet
        <3>4. last.name[1] = "mcp"
            BY <3>3, ToolsOfFacts, QualifiedBegins DEF Tool
        <3>5. last.tool \notin BuiltIns
            BY <3>1, <3>4 DEF BuiltIns, BuiltIn, Tool
        <3>6. PICK i \in DOMAIN Servers : last.tool \in ToolsOf(i)
            BY <3>1, <3>5 DEF Offerable
        <3>7. last.tool.name = QualifiedName(last.tool.server, last.tool.remote)
            BY <3>6, ToolsOfFacts DEF Tool
        <3> QED
            BY <3>1, <3>2, <3>7
    <2> QED
        BY <2>1, <2>2, <2>3 DEF EveryServerIsAccountedFor, OneName
<1> QED
    BY <1>1, <1>2, <1>3, StartupInvariant, PTL DEF StartupSpec

-----------------------------------------------------------------------------
(* Induction over the numbers: a set of them has a least one. *)

(* A set of natural numbers that is not empty has a least element. *)
LEMMA LeastNumber ==
    ASSUME NEW T \in SUBSET Nat, T # {}
    PROVE  \E m \in T : \A k \in T : m <= k
<1>1. PICK m \in T : \A k \in T : ~(<<k, m>> \in OpToRel(<, Nat))
    BY NatLessThanWellFounded, WFMin
<1>2. \A k \in T : ~(k < m)
    BY <1>1 DEF OpToRel
<1> QED
    BY <1>2

(* A set of natural numbers that has 0 and, with every number, the one      *)
(* after it up to a bound, has every number up to that bound.               *)
LEMMA UpTo ==
    ASSUME NEW n \in Nat, NEW T \in SUBSET Nat, 0 \in T,
           \A k \in 0..(n - 1) : k \in T => k + 1 \in T
    PROVE  0..n \subseteq T
<1> DEFINE Missing == {k \in 0..n : k \notin T}
<1> SUFFICES ASSUME Missing # {} PROVE FALSE
    BY DEF Missing
<1>1. PICK m \in Missing : \A k \in Missing : m <= k
    <2>1. Missing \in SUBSET Nat
        BY DEF Missing
    <2> QED
        BY <2>1, LeastNumber
<1>2. m \in 1..n /\ m - 1 \in 0..(n - 1)
    BY <1>1 DEF Missing
<1>3. m - 1 \in T
    BY <1>1, <1>2 DEF Missing
<1>4. (m - 1) + 1 = m
    BY <1>2
<1> QED
    BY <1>1, <1>2, <1>3, <1>4 DEF Missing

(* What a recursion over 0..n starts from and does at each number. *)
Recursion(D, n, b, F) == n \in Nat /\ b \in D /\ F \in [1..n -> [D -> D]]

(* A function over 0..n that is defined from its value before exists. *)
LEMMA RecursionExists ==
    ASSUME NEW D, NEW n, NEW b, NEW F, Recursion(D, n, b, F)
    PROVE  \E g \in [0..n -> D] : g[0] = b /\ \A k \in 1..n : g[k] = F[k][g[k - 1]]
<1> DEFINE IsIt(m, g) == g = [k \in 0..m |-> IF k = 0 THEN b ELSE F[k][g[k - 1]]]
           T == {m \in 0..n : \E g \in [0..m -> D] : IsIt(m, g)}
<1> USE DEF Recursion
<1>1. 0 \in T
    <2> DEFINE g == [k \in 0..0 |-> b]
    <2>1. g \in [0..0 -> D] /\ IsIt(0, g)
        OBVIOUS
    <2> HIDE DEF IsIt, g
    <2> QED
        BY <2>1
<1>2. ASSUME NEW m \in 0..(n - 1), m \in T PROVE m + 1 \in T
    <2>0. m \in Nat /\ m + 1 \in 1..n /\ m + 1 \in 0..n
        OBVIOUS
    <2>1. PICK g \in [0..m -> D] : IsIt(m, g)
        BY <1>2
    <2> DEFINE h == [k \in 0..(m + 1) |-> IF k = m + 1 THEN F[m + 1][g[m]] ELSE g[k]]
    <2>2. h \in [0..(m + 1) -> D]
        BY <2>0
    <2>3. ASSUME NEW k \in 0..(m + 1) PROVE h[k] = IF k = 0 THEN b ELSE F[k][h[k - 1]]
        <3>1. CASE k = m + 1
            <4>1. k # 0 /\ k - 1 = m /\ m \in 0..(m + 1) /\ m # m + 1
                BY <3>1, <2>0
            <4>2. h[k] = F[m + 1][g[m]] /\ h[m] = g[m]
                BY <3>1, <4>1
            <4> QED
                BY <3>1, <4>1, <4>2
        <3>2. CASE k # m + 1
            <4>1. k \in 0..m /\ h[k] = g[k]
                BY <3>2, <2>0
            <4>2. g[k] = IF k = 0 THEN b ELSE F[k][g[k - 1]]
                BY <2>1, <4>1
            <4>3. k # 0 => k - 1 \in 0..(m + 1) /\ k - 1 # m + 1
                BY <4>1, <2>0
            <4>4. k # 0 => h[k - 1] = g[k - 1]
                BY <4>3
            <4> QED
                BY <4>1, <4>2, <4>4
        <3> QED
            BY <3>1, <3>2
    <2>4. IsIt(m + 1, h)
        <3>1. h = [k \in 0..(m + 1) |-> h[k]]
            OBVIOUS
        <3> HIDE DEF h
        <3> QED
            BY <3>1, <2>3
    <2> HIDE DEF IsIt, h
    <2> QED
        BY <2>0, <2>2, <2>4
<1>3. n \in T
    <2>1. T \in SUBSET Nat
        OBVIOUS
    <2> HIDE DEF T
    <2>2. 0..n \subseteq T
        BY <1>1, <1>2, <2>1, UpTo
    <2> QED
        BY <2>2
<1>4. PICK g \in [0..n -> D] : IsIt(n, g)
    BY <1>3
<1>5. \A k \in 1..n : k \in 0..n /\ k # 0
    OBVIOUS
<1> QED
    BY <1>4, <1>5

-----------------------------------------------------------------------------
(* What is put into the body of a command. *)

(* What a substitution puts in the place of each piece. *)
PutAt(text, numbers, typed, k) ==
    IF Opens(text, k, numbers) THEN <<>>
    ELSE IF k > 1 /\ Opens(text, k - 1, numbers) THEN Value(typed, text[k][1])
    ELSE <<text[k]>>

(* What was typed, and each word of it, is made of pieces. *)
Valued(T, typed) == \A n \in 1..10 : Value(typed, n) \in Seq(T)

(* The text that a substitution has put together after each piece. *)
Putting(T, text, numbers, typed, g) ==
    /\ g \in [0..Len(text) -> Seq(T)]
    /\ g[0] = <<>>
    /\ \A k \in 1..Len(text) : g[k] = g[k - 1] \o PutAt(text, numbers, typed, k)
    /\ Substitute(text, numbers, typed) = g[Len(text)]

(* The marks are all different, and none is `$`, which is no white space.   *)
LEMMA MarkFacts ==
    /\ \A n \in 1..10 : Mark(n)[1] = n /\ Mark(n) # Dollar /\ Mark(n) # Gap
    /\ \A n, m \in 1..10 : Mark(n) = Mark(m) => n = m
    /\ Dollar # Gap
<1>1. \A n \in 1..10 : Mark(n)[1] = n
    BY DEF Mark
<1>2. Dollar[1] = 11 /\ Gap[1] = 12
    BY DEF Dollar, Gap
<1> QED
    BY <1>1, <1>2

(* What is put somewhere is made of pieces. *)
LEMMA PutIsText ==
    ASSUME NEW T, NEW text \in Seq(T), NEW numbers \in SUBSET (1..10), NEW typed,
           Valued(T, typed), NEW k \in 1..Len(text)
    PROVE  PutAt(text, numbers, typed, k) \in Seq(T)
<1>1. Len(text) \in Nat /\ text[k] \in T
    BY LenProperties
<1>2. <<>> \in Seq(T) /\ <<text[k]>> \in Seq(T)
    BY <1>1
<1>3. ASSUME k > 1, Opens(text, k - 1, numbers) PROVE Value(typed, text[k][1]) \in Seq(T)
    <2>1. (k - 1) + 1 = k
        BY <1>1
    <2>2. PICK n \in numbers : text[k] = Mark(n)
        BY <1>3, <2>1 DEF Opens
    <2>3. text[k][1] = n /\ n \in 1..10
        BY <2>2, MarkFacts
    <2> QED
        BY <2>3 DEF Valued
<1> QED
    BY <1>2, <1>3 DEF PutAt

(* A substitution goes piece by piece. *)
LEMMA SubstituteSteps ==
    ASSUME NEW T, NEW text \in Seq(T), NEW numbers \in SUBSET (1..10), NEW typed,
           Valued(T, typed)
    PROVE  \E g : Putting(T, text, numbers, typed, g)
<1> DEFINE n == Len(text)
           D == Seq(T)
           Put(k) == PutAt(text, numbers, typed, k)
           Next1(x, k) == x \o Put(k)
           IsIt(g) == g = [k \in 0..n |-> IF k = 0 THEN <<>> ELSE g[k - 1] \o Put(k)]
           upTo == CHOOSE g : IsIt(g)
<1>0. n \in Nat
    BY LenProperties
<1>1. \A k \in 1..n : Put(k) \in D
    BY PutIsText
<1> HIDE DEF Put
<1>2. \A x \in D : \A k \in 1..n : Next1(x, k) \in D
    BY <1>1, ConcatProperties
<1>3. <<>> \in D
    OBVIOUS
<1> HIDE DEF D
<1>4. PICK g \in [0..n -> D] : g[0] = <<>> /\ \A k \in 1..n : g[k] = Next1(g[k - 1], k)
    <2> DEFINE F == [k \in 1..n |-> [x \in D |-> Next1(x, k)]]
    <2>1. Recursion(D, n, <<>>, F)
        <3> HIDE DEF Next1
        <3>1. F \in [1..n -> [D -> D]]
            BY <1>2
        <3> HIDE DEF F
        <3> QED
            BY <1>0, <1>3, <3>1 DEF Recursion
    <2>2. PICK g \in [0..n -> D] : g[0] = <<>> /\ \A k \in 1..n : g[k] = F[k][g[k - 1]]
        <3> HIDE DEF F
        <3> QED
            BY <2>1, RecursionExists
    <2>3. \A k \in 1..n : k - 1 \in 0..n
        BY <1>0
    <2>4. \A k \in 1..n : F[k][g[k - 1]] = Next1(g[k - 1], k)
        <3> HIDE DEF Next1
        <3> QED
            BY <2>3
    <2> HIDE DEF F, Next1
    <2> QED
        BY <2>2, <2>4
<1>5. IsIt(g)
    <2>1. \A k \in 0..n : k = 0 \/ k \in 1..n
        BY <1>0
    <2>2. g = [k \in 0..n |-> g[k]]
        BY <1>4
    <2>3. \A k \in 0..n : g[k] = IF k = 0 THEN <<>> ELSE g[k - 1] \o Put(k)
        BY <1>0, <1>4, <2>1
    <2> QED
        BY <2>2, <2>3
<1>6. IsIt(upTo)
    BY <1>5
<1>7. Substitute(text, numbers, typed) = upTo[n]
    BY DEF Substitute, Put, PutAt
<1> HIDE DEF upTo
<1>8. upTo[0] = <<>> /\ \A k \in 1..n : upTo[k] = upTo[k - 1] \o Put(k)
    <2>1. 0 \in 0..n /\ \A k \in 1..n : k \in 0..n /\ k # 0
        BY <1>0
    <2> QED
        BY <1>6, <2>1
<1>9. upTo \in [0..n -> D]
    <2> DEFINE M == {k \in 0..n : upTo[k] = g[k]}
    <2>1. 0 \in M
        BY <1>0, <1>4, <1>8
    <2>2. ASSUME NEW k \in 0..(n - 1), k \in M PROVE k + 1 \in M
        <3>1. k + 1 \in 1..n /\ k + 1 \in 0..n /\ (k + 1) - 1 = k
            BY <1>0
        <3>2. upTo[k + 1] = upTo[k] \o Put(k + 1) /\ g[k + 1] = g[k] \o Put(k + 1)
            BY <1>4, <1>8, <3>1
        <3> QED
            BY <2>2, <3>1, <3>2
    <2>3. 0..n \subseteq M
        <3>1. M \in SUBSET Nat
            OBVIOUS
        <3> HIDE DEF M
        <3> QED
            BY <1>0, <2>1, <2>2, <3>1, UpTo
    <2>4. upTo = [k \in 0..n |-> upTo[k]]
        BY <1>6
    <2> QED
        BY <1>4, <2>3, <2>4
<1> QED
    BY <1>7, <1>8, <1>9 DEF D, Put, Putting

(* What a substitution leads to is made of pieces. *)
LEMMA SubstituteIsText ==
    ASSUME NEW T, NEW text \in Seq(T), NEW numbers \in SUBSET (1..10), NEW typed,
           Valued(T, typed)
    PROVE  Substitute(text, numbers, typed) \in Seq(T)
<1>1. PICK g : Putting(T, text, numbers, typed, g)
    BY SubstituteSteps
<1>2. Len(text) \in 0..Len(text)
    BY LenProperties
<1> QED
    BY <1>1, <1>2 DEF Putting

(* A text in which none of the placeholders begins stays as it is. *)
LEMMA LeftAlone ==
    ASSUME NEW T, NEW text \in Seq(T), NEW numbers \in SUBSET (1..10), NEW typed,
           Valued(T, typed), \A k \in 1..Len(text) : ~Opens(text, k, numbers)
    PROVE  Substitute(text, numbers, typed) = text
<1>1. PICK g : Putting(T, text, numbers, typed, g)
    BY SubstituteSteps
<1> DEFINE n == Len(text)
           M == {k \in 0..n : Len(g[k]) = k /\ \A i \in 1..k : g[k][i] = text[i]}
<1>2. n \in Nat /\ \A k \in 1..n : text[k] \in T
    BY LenProperties
<1>3. ASSUME NEW k \in 1..n PROVE PutAt(text, numbers, typed, k) = <<text[k]>>
    <2>1. k > 1 => k - 1 \in 1..n
        BY <1>2
    <2> QED
        BY <2>1 DEF PutAt
<1>4. 0 \in M
    <2>1. g[0] = <<>> /\ 0 \in 0..n /\ 1..0 = {}
        BY <1>1, <1>2 DEF Putting
    <2> QED
        BY <2>1
<1>5. ASSUME NEW k \in 0..(n - 1), k \in M PROVE k + 1 \in M
    <2>1. k + 1 \in 1..n /\ k + 1 \in 0..n /\ (k + 1) - 1 = k /\ k \in Nat
        BY <1>2
    <2> DEFINE a == g[k]
               b == <<text[k + 1]>>
    <2>2. g[k + 1] = a \o b
        BY <1>1, <1>3, <2>1 DEF Putting
    <2>3. a \in Seq(T) /\ Len(a) = k /\ \A i \in 1..k : a[i] = text[i]
        BY <1>1, <1>5 DEF Putting
    <2>4. b \in Seq(T) /\ Len(b) = 1 /\ b[1] = text[k + 1]
        BY <1>2, <2>1
    <2> HIDE DEF a, b
    <2>5. Len(a \o b) = k + 1 /\ \A i \in 1..(k + 1) : (a \o b)[i] = IF i <= k THEN a[i] ELSE b[i - k]
        <3>1. a \in Seq(T) /\ b \in Seq(T)
            BY <2>3, <2>4
        <3>2. /\ Len(a \o b) = Len(a) + Len(b)
              /\ \A i \in 1..(Len(a) + Len(b)) :
                    (a \o b)[i] = IF i <= Len(a) THEN a[i] ELSE b[i - Len(a)]
            BY <3>1, ConcatProperties
        <3> QED
            BY <2>3, <2>4, <3>2
    <2>6. ASSUME NEW i \in 1..(k + 1) PROVE g[k + 1][i] = text[i]
        <3>1. (i <= k /\ i \in 1..k) \/ (~(i <= k) /\ i = k + 1 /\ i - k = 1)
            BY <2>1
        <3> QED
            BY <2>2, <2>3, <2>4, <2>5, <3>1
    <2> QED
        BY <2>1, <2>2, <2>5, <2>6
<1>6. n \in M
    <2>1. M \in SUBSET Nat /\ n \in 0..n
        BY <1>2
    <2> HIDE DEF M
    <2> QED
        BY <1>2, <1>4, <1>5, <2>1, UpTo
<1>7. g[n] \in Seq(T) /\ Len(g[n]) = n /\ \A i \in 1..n : g[n][i] = text[i]
    BY <1>1, <1>6 DEF Putting
<1>8. g[n] = text
    BY <1>7, SeqEqual
<1> QED
    BY <1>1, <1>8 DEF Putting

(* No placeholder begins in the first text and ends in the second.          *)
Apart(a, b, numbers) ==
    a = <<>> \/ b = <<>> \/ a[Len(a)] # Dollar \/ \A n \in numbers : b[1] # Mark(n)

(* What is put in each place of two texts, one after the other.             *)
LEMMA PutIntoBoth ==
    ASSUME NEW T, NEW a \in Seq(T), NEW b \in Seq(T), NEW numbers \in SUBSET (1..10), NEW typed,
           Apart(a, b, numbers)
    PROVE  /\ \A k \in 1..Len(a) : PutAt(a \o b, numbers, typed, k) = PutAt(a, numbers, typed, k)
           /\ \A k \in 1..Len(b) :
                PutAt(a \o b, numbers, typed, Len(a) + k) = PutAt(b, numbers, typed, k)
<1> DEFINE c == a \o b
           m == Len(a)
           n == Len(b)
<1>1. m \in Nat /\ n \in Nat
    BY LenProperties
<1>2. /\ Len(c) = m + n
      /\ \A i \in 1..(m + n) : c[i] = IF i <= m THEN a[i] ELSE b[i - m]
    BY ConcatProperties
<1>3. \A i \in 1..m : c[i] = a[i]
    <2>1. \A i \in 1..m : i \in 1..(m + n) /\ i <= m
        BY <1>1
    <2> QED
        BY <1>2, <2>1
<1>4. \A i \in 1..n : c[m + i] = b[i]
    <2>1. \A i \in 1..n : m + i \in 1..(m + n) /\ ~(m + i <= m) /\ (m + i) - m = i
        BY <1>1
    <2> QED
        BY <1>2, <2>1
<1>5. (a = <<>> <=> m = 0) /\ (b = <<>> <=> n = 0)
    BY EmptySeq
<1> HIDE DEF c, m, n
<1>6. ASSUME NEW k \in 1..m PROVE Opens(c, k, numbers) <=> Opens(a, k, numbers)
    <2>1. CASE k < m
        <3>1. k + 1 \in 1..m /\ k < m + n
            BY <1>1, <2>1
        <3> QED
            BY <1>2, <1>3, <2>1, <3>1 DEF Opens, m
    <2>2. CASE k = m
        <3>1. ~Opens(a, k, numbers)
            BY <1>1, <2>2 DEF Opens, m
        <3>2. ASSUME Opens(c, k, numbers) PROVE FALSE
            <4>1. n # 0 /\ 1 \in 1..n /\ m # 0
                BY <1>1, <1>2, <2>2, <3>2 DEF Opens
            <4>2. c[m + 1] = b[1] /\ c[m] = a[m]
                BY <1>3, <1>4, <2>2, <4>1
            <4> QED
                BY <1>5, <2>2, <3>2, <4>1, <4>2 DEF Opens, Apart, m
        <3> QED
            BY <3>1, <3>2
    <2> QED
        BY <1>1, <2>1, <2>2
<1>7. ASSUME NEW k \in 1..n PROVE Opens(c, m + k, numbers) <=> Opens(b, k, numbers)
    <2>1. m + k < m + n <=> k < n
        BY <1>1
    <2>2. k < n => k + 1 \in 1..n /\ (m + k) + 1 = m + (k + 1)
        BY <1>1
    <2> QED
        BY <1>2, <1>4, <2>1, <2>2 DEF Opens, n
<1>8. ASSUME NEW k \in 1..m PROVE PutAt(c, numbers, typed, k) = PutAt(a, numbers, typed, k)
    <2>1. k > 1 => k - 1 \in 1..m
        BY <1>1
    <2> QED
        BY <1>3, <1>6, <2>1 DEF PutAt
<1>9. ASSUME NEW k \in 1..n PROVE PutAt(c, numbers, typed, m + k) = PutAt(b, numbers, typed, k)
    <2>1. CASE k > 1
        <3>1. k - 1 \in 1..n /\ (m + k) - 1 = m + (k - 1) /\ m + k > 1
            BY <1>1, <2>1
        <3>2. Opens(c, (m + k) - 1, numbers) <=> Opens(b, k - 1, numbers)
            BY <1>7, <3>1
        <3> QED
            BY <1>4, <1>7, <2>1, <3>1, <3>2 DEF PutAt
    <2>2. CASE k = 1
        <3>1. m + k > 1 => ~Opens(c, (m + k) - 1, numbers)
            <4>1. (m + k) - 1 = m /\ (m + k > 1 => m \in 1..m)
                BY <1>1, <2>2
            <4>2. ~Opens(a, m, numbers)
                BY <1>1 DEF Opens, m
            <4> QED
                BY <1>6, <4>1, <4>2
        <3>2. ~(k > 1)
            BY <2>2
        <3> QED
            BY <1>4, <1>7, <3>1, <3>2 DEF PutAt
    <2> QED
        BY <1>1, <2>1, <2>2
<1> QED
    BY <1>8, <1>9 DEF c, m, n

(* A substitution in two such texts is one in each.                         *)
LEMMA SubstituteBoth ==
    ASSUME NEW T, NEW a \in Seq(T), NEW b \in Seq(T), NEW numbers \in SUBSET (1..10), NEW typed,
           Valued(T, typed), Apart(a, b, numbers)
    PROVE  Substitute(a \o b, numbers, typed)
                = Substitute(a, numbers, typed) \o Substitute(b, numbers, typed)
<1> DEFINE c == a \o b
           m == Len(a)
           n == Len(b)
<1>1. m \in Nat /\ n \in Nat
    BY LenProperties
<1>2. c \in Seq(T) /\ Len(c) = m + n
    BY ConcatProperties
<1>3. /\ \A k \in 1..m : PutAt(c, numbers, typed, k) = PutAt(a, numbers, typed, k)
      /\ \A k \in 1..n : PutAt(c, numbers, typed, m + k) = PutAt(b, numbers, typed, k)
    BY PutIntoBoth
<1>4. \A k \in 1..n : PutAt(b, numbers, typed, k) \in Seq(T)
    BY PutIsText
<1>5. PICK f : Putting(T, a, numbers, typed, f)
    BY SubstituteSteps
<1>6. PICK g : Putting(T, b, numbers, typed, g)
    BY SubstituteSteps
<1> HIDE DEF c
<1>7. PICK h : Putting(T, c, numbers, typed, h)
    BY <1>2, SubstituteSteps
<1>8. /\ f \in [0..m -> Seq(T)] /\ f[0] = <<>>
      /\ \A k \in 1..m : f[k] = f[k - 1] \o PutAt(a, numbers, typed, k)
      /\ Substitute(a, numbers, typed) = f[m]
    BY <1>5 DEF Putting
<1>9. /\ g \in [0..n -> Seq(T)] /\ g[0] = <<>>
      /\ \A k \in 1..n : g[k] = g[k - 1] \o PutAt(b, numbers, typed, k)
      /\ Substitute(b, numbers, typed) = g[n]
    BY <1>6 DEF Putting
<1>10. /\ h \in [0..(m + n) -> Seq(T)] /\ h[0] = <<>>
       /\ \A k \in 1..(m + n) : h[k] = h[k - 1] \o PutAt(c, numbers, typed, k)
       /\ Substitute(c, numbers, typed) = h[m + n]
    BY <1>2, <1>7 DEF Putting
<1> HIDE DEF m, n
<1>11. h[m] = f[m]
    <2> DEFINE M == {k \in 0..m : h[k] = f[k]}
    <2>1. 0 \in M
        BY <1>1, <1>8, <1>10
    <2>2. ASSUME NEW k \in 0..(m - 1), k \in M PROVE k + 1 \in M
        <3>1. k + 1 \in 1..m /\ k + 1 \in 0..m /\ (k + 1) - 1 = k /\ k + 1 \in 1..(m + n)
            BY <1>1
        <3>2. /\ h[k + 1] = h[k] \o PutAt(c, numbers, typed, k + 1)
              /\ f[k + 1] = f[k] \o PutAt(a, numbers, typed, k + 1)
            BY <1>8, <1>10, <3>1
        <3> QED
            BY <1>3, <2>2, <3>1, <3>2
    <2>3. M \in SUBSET Nat /\ m \in 0..m
        BY <1>1
    <2>4. m \in M
        <3> HIDE DEF M
        <3> QED
            BY <1>1, <2>1, <2>2, <2>3, UpTo
    <2> QED
        BY <2>4
<1>12. h[m + n] = f[m] \o g[n]
    <2> DEFINE M == {k \in 0..n : h[m + k] = f[m] \o g[k]}
    <2>0. f[m] \in Seq(T)
        BY <1>1, <1>8
    <2>1. 0 \in M
        <3>1. m + 0 = m /\ f[m] \o <<>> = f[m] /\ 0 \in 0..n
            BY <1>1, <2>0, ConcatEmptySeq
        <3> QED
            BY <1>9, <1>11, <3>1
    <2>2. ASSUME NEW k \in 0..(n - 1), k \in M PROVE k + 1 \in M
        <3>1. /\ k \in 0..n /\ k + 1 \in 1..n /\ k + 1 \in 0..n /\ (k + 1) - 1 = k
              /\ m + (k + 1) \in 1..(m + n) /\ (m + (k + 1)) - 1 = m + k
            BY <1>1
        <3> DEFINE p == PutAt(b, numbers, typed, k + 1)
        <3>2. p \in Seq(T) /\ g[k] \in Seq(T) /\ g[k + 1] = g[k] \o p
            BY <1>4, <1>9, <3>1
        <3>3. h[m + (k + 1)] = h[m + k] \o p
            BY <1>3, <1>10, <3>1
        <3> HIDE DEF p
        <3>4. h[m + (k + 1)] = (f[m] \o g[k]) \o p
            BY <2>2, <3>3
        <3>5. (f[m] \o g[k]) \o p = f[m] \o (g[k] \o p)
            <4> DEFINE x == f[m]
                       y == g[k]
            <4>1. x \in Seq(T) /\ y \in Seq(T) /\ p \in Seq(T)
                BY <2>0, <3>2
            <4> HIDE DEF x, y
            <4>2. (x \o y) \o p = x \o (y \o p)
                BY <4>1, ConcatAssociative
            <4> QED
                BY <4>2 DEF x, y
        <3> QED
            BY <3>1, <3>2, <3>4, <3>5
    <2>3. M \in SUBSET Nat /\ n \in 0..n
        <3>1. 0..n \subseteq Nat /\ n \in 0..n
            BY <1>1
        <3> QED
            BY <3>1
    <2>4. n \in M
        <3> HIDE DEF M
        <3> QED
            BY <1>1, <2>1, <2>2, <2>3, UpTo
    <2> QED
        BY <2>4
<1> QED
    BY <1>8, <1>9, <1>10, <1>12 DEF c

(* A placeholder on its own becomes its value. *)
LEMMA PlaceholderAlone ==
    ASSUME NEW T, NEW n \in 1..10, NEW typed, Valued(T, typed), Placeholder(n) \in Seq(T)
    PROVE  Substitute(Placeholder(n), {n}, typed) = Value(typed, n)
<1> DEFINE t == Placeholder(n)
<1>1. Len(t) = 2 /\ t[1] = Dollar /\ t[2] = Mark(n)
    BY DEF Placeholder
<1> HIDE DEF t
<1>2. {n} \in SUBSET (1..10)
    OBVIOUS
<1>3. PICK g : Putting(T, t, {n}, typed, g)
    BY <1>2, SubstituteSteps DEF t
<1>4. Opens(t, 1, {n}) /\ ~Opens(t, 2, {n})
    BY <1>1, MarkFacts DEF Opens
<1>5. PutAt(t, {n}, typed, 1) = <<>> /\ PutAt(t, {n}, typed, 2) = Value(typed, n)
    <2>1. 2 - 1 = 1 /\ t[2][1] = n
        BY <1>1, MarkFacts
    <2> QED
        BY <1>4, <2>1 DEF PutAt
<1>6. Value(typed, n) \in Seq(T)
    BY DEF Valued
<1>7. g[0] = <<>> /\ g[1] = g[0] \o <<>> /\ g[2] = g[1] \o Value(typed, n)
    <2>1. 1 \in 1..2 /\ 2 \in 1..2 /\ 1 - 1 = 0 /\ 2 - 1 = 1
        OBVIOUS
    <2> QED
        BY <1>1, <1>3, <1>5, <2>1 DEF Putting
<1>8. <<>> \o <<>> = <<>> /\ <<>> \o Value(typed, n) = Value(typed, n)
    BY <1>6, ConcatEmptySeq
<1> QED
    BY <1>1, <1>3, <1>7, <1>8 DEF Putting, t

EndsInDollar(t) == t # <<>> /\ t[Len(t)] = Dollar

(* No value ends with `$` or has it before a digit.                         *)
Settled(typed) ==
    \A n \in 1..10 :
        /\ ~EndsInDollar(Value(typed, n))
        /\ \A k \in 1..Len(Value(typed, n)) : ~Opens(Value(typed, n), k, 1..9)

(* A text ends as its last part does. *)
LEMMA EndsOfBoth ==
    ASSUME NEW T, NEW a \in Seq(T), NEW b \in Seq(T), EndsInDollar(a \o b)
    PROVE  \/ b = <<>> /\ EndsInDollar(a)
           \/ b # <<>> /\ EndsInDollar(b)
<1>1. CASE b = <<>>
    <2>1. a \o b = a
        BY <1>1, ConcatEmptySeq
    <2> QED
        BY <1>1, <2>1
<1>2. CASE b # <<>>
    <2>1. Len(a) \in Nat /\ Len(b) \in Nat \ {0}
        BY <1>2, EmptySeq, LenProperties
    <2>2. /\ Len(a \o b) = Len(a) + Len(b)
          /\ \A i \in 1..(Len(a) + Len(b)) :
                (a \o b)[i] = IF i <= Len(a) THEN a[i] ELSE b[i - Len(a)]
        BY ConcatProperties
    <2> DEFINE c == a \o b
    <2> HIDE DEF c
    <2>3. /\ Len(a) + Len(b) \in 1..(Len(a) + Len(b)) /\ ~(Len(a) + Len(b) <= Len(a))
          /\ (Len(a) + Len(b)) - Len(a) = Len(b)
        BY <2>1
    <2>4. c[Len(c)] = b[Len(b)]
        BY <2>2, <2>3 DEF c
    <2> QED
        BY <1>2, <2>4 DEF EndsInDollar, c
<1> QED
    BY <1>1, <1>2

(* What is put in a place is nothing, a value, or what was there.           *)
LEMMA PutCases ==
    ASSUME NEW T, NEW body \in Seq(T), NEW numbers \in SUBSET (1..10), NEW typed,
           NEW k \in 1..Len(body)
    PROVE  \/ Opens(body, k, numbers) /\ PutAt(body, numbers, typed, k) = <<>>
           \/ /\ ~Opens(body, k, numbers) /\ k > 1 /\ Opens(body, k - 1, numbers)
              /\ \E n \in numbers : PutAt(body, numbers, typed, k) = Value(typed, n)
           \/ /\ ~Opens(body, k, numbers) /\ ~(k > 1 /\ Opens(body, k - 1, numbers))
              /\ PutAt(body, numbers, typed, k) = <<body[k]>>
<1>1. ASSUME k > 1, Opens(body, k - 1, numbers)
      PROVE  \E n \in numbers : Value(typed, body[k][1]) = Value(typed, n)
    <2>1. Len(body) \in Nat
        BY LenProperties
    <2>2. (k - 1) + 1 = k
        BY <2>1
    <2>3. PICK n \in numbers : body[k] = Mark(n)
        BY <1>1, <2>2 DEF Opens
    <2>4. body[k][1] = n
        BY <2>3, MarkFacts
    <2> QED
        BY <2>4
<1> QED
    BY <1>1 DEF PutAt

(* A `$` at the end of what is put together is one of the body, and begins  *)
(* none of the placeholders.                                                *)
LEMMA DollarsOfBody ==
    ASSUME NEW T, NEW body \in Seq(T), NEW numbers \in SUBSET (1..10), NEW typed,
           Valued(T, typed), Settled(typed), Separate(body),
           NEW g, Putting(T, body, numbers, typed, g)
    PROVE  \A k \in 0..Len(body) :
                EndsInDollar(g[k]) => /\ k \in 1..Len(body) /\ body[k] = Dollar
                                      /\ ~Opens(body, k, numbers)
<1> DEFINE n == Len(body)
           It(k) == EndsInDollar(g[k]) =>
                        k \in 1..n /\ body[k] = Dollar /\ ~Opens(body, k, numbers)
           M == {k \in 0..n : It(k)}
<1>1. n \in Nat
    BY LenProperties
<1>2. /\ g \in [0..n -> Seq(T)] /\ g[0] = <<>>
      /\ \A k \in 1..n : g[k] = g[k - 1] \o PutAt(body, numbers, typed, k)
    BY DEF Putting
<1>3. \A k \in 1..n : PutAt(body, numbers, typed, k) \in Seq(T)
    BY PutIsText
<1>4. ASSUME NEW k \in 1..n, Opens(body, k, numbers) PROVE Opens(body, k, 1..10)
    BY <1>4 DEF Opens
<1>5. 0 \in M
    <2>1. ~EndsInDollar(g[0]) /\ 0 \in 0..n
        BY <1>1, <1>2 DEF EndsInDollar
    <2> QED
        BY <2>1
<1>6. ASSUME NEW k \in 0..(n - 1), k \in M PROVE k + 1 \in M
    <2>1. k + 1 \in 1..n /\ k + 1 \in 0..n /\ (k + 1) - 1 = k /\ k \in 0..n
        BY <1>1
    <2> DEFINE p == PutAt(body, numbers, typed, k + 1)
    <2>2. g[k + 1] = g[k] \o p /\ g[k] \in Seq(T) /\ p \in Seq(T)
        BY <1>2, <1>3, <2>1
    <2>3. SUFFICES ASSUME EndsInDollar(g[k + 1])
                   PROVE  body[k + 1] = Dollar /\ ~Opens(body, k + 1, numbers)
        BY <2>1
    <2>4. \/ p = <<>> /\ EndsInDollar(g[k])
          \/ p # <<>> /\ EndsInDollar(p)
        <3> HIDE DEF p
        <3> QED
            BY <2>2, <2>3, EndsOfBoth
    <2>5. EndsInDollar(g[k]) => k \in 1..n /\ body[k] = Dollar /\ ~Opens(body, k, numbers)
        BY <1>6
    <2>6. CASE Opens(body, k + 1, numbers) /\ p = <<>>
        <3>1. k \in 1..(n - 1) /\ body[k] = Dollar
            BY <1>1, <2>1, <2>4, <2>5, <2>6
        <3>2. Opens(body, k + 1, 1..10)
            BY <1>4, <2>1, <2>6
        <3> QED
            BY <3>1, <3>2 DEF Separate
    <2>7. CASE ~Opens(body, k + 1, numbers) /\ Opens(body, k, numbers)
               /\ \E m \in numbers : p = Value(typed, m)
        <3>1. PICK m \in numbers : p = Value(typed, m)
            BY <2>7
        <3>2. ~EndsInDollar(p)
            BY <3>1 DEF Settled
        <3> QED
            BY <2>4, <2>5, <2>7, <3>2
    <2>8. CASE ~Opens(body, k + 1, numbers) /\ p = <<body[k + 1]>>
        <3>1. p # <<>> /\ Len(p) = 1 /\ p[1] = body[k + 1]
            BY <2>8
        <3>2. p[Len(p)] = Dollar
            BY <2>4, <3>1 DEF EndsInDollar
        <3> QED
            BY <2>8, <3>1, <3>2
    <2> HIDE DEF p
    <2>9. \/ Opens(body, k + 1, numbers) /\ p = <<>>
          \/ /\ ~Opens(body, k + 1, numbers) /\ Opens(body, (k + 1) - 1, numbers)
             /\ \E m \in numbers : p = Value(typed, m)
          \/ ~Opens(body, k + 1, numbers) /\ p = <<body[k + 1]>>
        BY <2>1, PutCases DEF p
    <2> QED
        BY <2>1, <2>6, <2>7, <2>8, <2>9
<1>7. M \in SUBSET Nat
    <2>1. 0..n \subseteq Nat
        BY <1>1
    <2> QED
        BY <2>1
<1>8. 0..n \subseteq M
    <2> HIDE DEF M
    <2> QED
        BY <1>1, <1>5, <1>6, <1>7, UpTo
<1> HIDE DEF It
<1>9. \A k \in 0..n : It(k)
    BY <1>8
<1> QED
    BY <1>9 DEF It

(* Which places one more number changes. *)
LEMMA OneNumberMore ==
    ASSUME NEW T, NEW body \in Seq(T), NEW numbers \in SUBSET (1..10), NEW typed,
           NEW n \in (1..10) \ numbers, NEW k \in 1..Len(body)
    PROVE  /\ Opens(body, k, {n}) =>
                /\ body[k] = Dollar
                /\ PutAt(body, numbers, typed, k) = <<Dollar>>
                /\ PutAt(body, numbers \cup {n}, typed, k) = <<>>
           /\ k > 1 /\ Opens(body, k - 1, {n}) =>
                /\ ~Opens(body, k, {n})
                /\ PutAt(body, numbers, typed, k) = <<Mark(n)>>
                /\ PutAt(body, numbers \cup {n}, typed, k) = Value(typed, n)
           /\ ~Opens(body, k, {n}) /\ ~(k > 1 /\ Opens(body, k - 1, {n})) =>
                PutAt(body, numbers \cup {n}, typed, k) = PutAt(body, numbers, typed, k)
<1> DEFINE more == numbers \cup {n}
<1>1. \A i : Opens(body, i, more) <=> Opens(body, i, numbers) \/ Opens(body, i, {n})
    BY DEF Opens
<1>2. \A i : Opens(body, i, {n}) => ~Opens(body, i, numbers)
    BY MarkFacts DEF Opens
<1>3. \A m \in 1..10 : Mark(m) # Dollar /\ Mark(m)[1] = m
    BY MarkFacts
<1>4. Len(body) \in Nat
    BY LenProperties
<1> HIDE DEF more
<1>5. ASSUME Opens(body, k, {n})
      PROVE  /\ body[k] = Dollar
             /\ PutAt(body, numbers, typed, k) = <<Dollar>>
             /\ PutAt(body, more, typed, k) = <<>>
    <2>1. body[k] = Dollar
        BY <1>5 DEF Opens
    <2>2. ASSUME k > 1, Opens(body, k - 1, numbers) PROVE FALSE
        <3>1. (k - 1) + 1 = k
            BY <1>4
        <3>2. PICK m \in numbers : body[k] = Mark(m)
            BY <2>2, <3>1 DEF Opens
        <3> QED
            BY <1>3, <2>1, <3>2
    <2> QED
        BY <1>1, <1>2, <1>5, <2>1, <2>2 DEF PutAt
<1>6. ASSUME k > 1, Opens(body, k - 1, {n})
      PROVE  /\ ~Opens(body, k, {n})
             /\ PutAt(body, numbers, typed, k) = <<Mark(n)>>
             /\ PutAt(body, more, typed, k) = Value(typed, n)
    <2>1. body[k] = Mark(n)
        <3>1. (k - 1) + 1 = k
            BY <1>4
        <3> QED
            BY <1>6, <3>1 DEF Opens
    <2>2. ~Opens(body, k, {n}) /\ ~Opens(body, k, numbers) /\ body[k][1] = n
        BY <1>3, <2>1 DEF Opens
    <2> QED
        BY <1>1, <1>2, <1>6, <2>1, <2>2 DEF PutAt
<1>7. ASSUME ~Opens(body, k, {n}), ~(k > 1 /\ Opens(body, k - 1, {n}))
      PROVE  PutAt(body, more, typed, k) = PutAt(body, numbers, typed, k)
    BY <1>1, <1>7 DEF PutAt
<1> QED
    BY <1>5, <1>6, <1>7 DEF more

(* A placeholder at the end of a text. *)
LEMMA PlaceholderLast ==
    ASSUME NEW T, NEW a \in Seq(T), NEW n \in 1..10, Dollar \in T, Mark(n) \in T,
           NEW typed, Valued(T, typed)
    PROVE  Substitute((a \o <<Dollar>>) \o <<Mark(n)>>, {n}, typed)
                = Substitute(a, {n}, typed) \o Value(typed, n)
<1> DEFINE d == <<Dollar>>
           m == <<Mark(n)>>
           p == Placeholder(n)
<1>1. d \in Seq(T) /\ m \in Seq(T) /\ p \in Seq(T)
    BY DEF Placeholder
<1>2. d \o m = p
    <2>1. /\ Len(d) = 1 /\ Len(m) = 1 /\ Len(p) = 2
          /\ d[1] = Dollar /\ m[1] = Mark(n) /\ p[1] = Dollar /\ p[2] = Mark(n)
        BY DEF Placeholder
    <2> HIDE DEF d, m, p
    <2>2. \A i \in 1..Len(p) : p[i] = IF i <= Len(d) THEN d[i] ELSE m[i - Len(d)]
        <3>1. \A i \in 1..2 : (i = 1 /\ i <= 1) \/ (i = 2 /\ ~(i <= 1) /\ i - 1 = 1)
            OBVIOUS
        <3> QED
            BY <2>1, <3>1
    <2>3. Len(p) = Len(d) + Len(m)
        BY <2>1
    <2> QED
        BY <1>1, <2>2, <2>3, IsConcat
<1>3. p[1] # Mark(n)
    BY MarkFacts DEF Placeholder
<1> HIDE DEF d, m, p
<1>4. (a \o d) \o m = a \o p
    <2>1. (a \o d) \o m = a \o (d \o m)
        BY <1>1, ConcatAssociative
    <2> QED
        BY <1>2, <2>1
<1>5. Apart(a, p, {n}) /\ {n} \in SUBSET (1..10)
    BY <1>3 DEF Apart
<1>6. Substitute(a \o p, {n}, typed) = Substitute(a, {n}, typed) \o Substitute(p, {n}, typed)
    <2> DEFINE N == {n}
    <2>1. N \in SUBSET (1..10) /\ Apart(a, p, N) /\ p \in Seq(T)
        BY <1>1, <1>5
    <2> HIDE DEF N
    <2>2. Substitute(a \o p, N, typed) = Substitute(a, N, typed) \o Substitute(p, N, typed)
        BY <2>1, SubstituteBoth
    <2> QED
        BY <2>2 DEF N
<1>7. Substitute(p, {n}, typed) = Value(typed, n)
    BY <1>1, PlaceholderAlone DEF p
<1> QED
    BY <1>4, <1>6, <1>7 DEF d, m

(* A number of a word that is not among these yet. *)
IsNew(n, numbers) == numbers \in SUBSET (1..10) /\ n \in 1..9 /\ n \notin numbers

(* One replacement after a substitution is as good as a substitution of one *)
(* number more.                                                             *)
LEMMA OneMore ==
    ASSUME NEW T, NEW body \in Seq(T), NEW typed,
           Valued(T, typed), Settled(typed), Separate(body),
           NEW n, NEW numbers, IsNew(n, numbers), Dollar \in T, Mark(n) \in T
    PROVE  Substitute(Substitute(body, numbers, typed), {n}, typed)
                = Substitute(body, numbers \cup {n}, typed)
<1>0. numbers \in SUBSET (1..10) /\ n \in 1..9 /\ n \notin numbers
    BY DEF IsNew
<1> USE <1>0
<1> DEFINE more == numbers \cup {n}
           l == Len(body)
           S(x) == Substitute(x, {n}, typed)
           p(k) == PutAt(body, numbers, typed, k)
           q(k) == PutAt(body, more, typed, k)
           Inside(k) == k \in 1..l /\ Opens(body, k, {n})
<1>1. l \in Nat /\ n \in 1..10 /\ {n} \in SUBSET (1..10) /\ more \in SUBSET (1..10)
    BY LenProperties
<1>2. PICK g : Putting(T, body, numbers, typed, g)
    BY SubstituteSteps
<1>3. PICK h : Putting(T, body, more, typed, h)
    BY <1>1, SubstituteSteps
<1> DEFINE It(k) == IF Inside(k) THEN S(g[k - 1]) = h[k - 1] ELSE S(g[k]) = h[k]
           M == {k \in 0..l : It(k)}
<1>4. /\ g \in [0..l -> Seq(T)] /\ g[0] = <<>>
      /\ \A k \in 1..l : g[k] = g[k - 1] \o p(k)
      /\ Substitute(body, numbers, typed) = g[l]
    BY <1>2 DEF Putting
<1>5. /\ h \in [0..l -> Seq(T)] /\ h[0] = <<>>
      /\ \A k \in 1..l : h[k] = h[k - 1] \o q(k)
      /\ Substitute(body, more, typed) = h[l]
    BY <1>3 DEF Putting
<1>6. \A k \in 0..l : EndsInDollar(g[k]) =>
            k \in 1..l /\ body[k] = Dollar /\ ~Opens(body, k, numbers)
    BY <1>2, DollarsOfBody
<1>7. ASSUME NEW k \in 1..l
      PROVE  /\ Inside(k) => p(k) = <<Dollar>> /\ q(k) = <<>>
             /\ k > 1 /\ Inside(k - 1) => ~Inside(k) /\ p(k) = <<Mark(n)>> /\ q(k) = Value(typed, n)
             /\ ~Inside(k) /\ ~(k > 1 /\ Inside(k - 1)) => q(k) = p(k)
    <2>1. k > 1 => k - 1 \in 1..l
        BY <1>1
    <2>2. n \in (1..10) \ numbers
        BY <1>1
    <2>3. Opens(body, k, {n}) => p(k) = <<Dollar>> /\ q(k) = <<>>
        BY <2>2, OneNumberMore
    <2>4. k > 1 /\ Opens(body, k - 1, {n}) =>
                ~Opens(body, k, {n}) /\ p(k) = <<Mark(n)>> /\ q(k) = Value(typed, n)
        BY <2>2, OneNumberMore
    <2>5. ~Opens(body, k, {n}) /\ ~(k > 1 /\ Opens(body, k - 1, {n})) => q(k) = p(k)
        BY <2>2, OneNumberMore
    <2> HIDE DEF p, q
    <2> QED
        BY <2>1, <2>3, <2>4, <2>5
<1>8. \A k \in 1..l : p(k) \in Seq(T)
    BY PutIsText
<1>9. ASSUME NEW x \in Seq(T), \A i \in 1..Len(x) : ~Opens(x, i, {n}) PROVE S(x) = x
    BY <1>1, <1>9, LeftAlone
<1>10. ASSUME NEW k \in 1..l PROVE S(p(k)) = p(k)
    <2>1. CASE p(k) = <<>>
        <3>1. Len(p(k)) = 0
            BY <2>1
        <3>2. \A i \in 1..Len(p(k)) : ~Opens(p(k), i, {n})
            BY <3>1
        <3> HIDE DEF p, S
        <3> QED
            BY <1>8, <1>9, <3>2
    <2>2. CASE \E m \in numbers : p(k) = Value(typed, m)
        <3>1. PICK m \in numbers : p(k) = Value(typed, m)
            BY <2>2
        <3>2. \A i \in 1..Len(p(k)) : ~Opens(p(k), i, 1..9)
            BY <3>1 DEF Settled
        <3>3. \A i \in 1..Len(p(k)) : ~Opens(p(k), i, {n})
            BY <3>2 DEF Opens
        <3> HIDE DEF p, S
        <3> QED
            BY <1>8, <1>9, <3>3
    <2>3. CASE p(k) = <<body[k]>>
        <3>1. Len(p(k)) = 1
            BY <2>3
        <3>2. \A i \in 1..Len(p(k)) : ~Opens(p(k), i, {n})
            BY <3>1 DEF Opens
        <3> HIDE DEF p, S
        <3> QED
            BY <1>8, <1>9, <3>2
    <2> HIDE DEF S
    <2> QED
        BY <2>1, <2>2, <2>3, PutCases
<1>11. S(<<>>) = <<>>
    <2>1. <<>> \in Seq(T) /\ Len(<<>>) = 0
        BY EmptySeq
    <2>2. \A i \in 1..Len(<<>>) : ~Opens(<<>>, i, {n})
        BY <2>1
    <2> QED
        BY <1>9, <2>1, <2>2
<1>12. 0 \in M
    <2>1. ~Inside(0) /\ 0 \in 0..l
        BY <1>1
    <2> HIDE DEF S, Inside
    <2> QED
        BY <1>4, <1>5, <1>11, <2>1
<1>13. ASSUME NEW k \in 0..(l - 1), k \in M PROVE k + 1 \in M
    <2>1. k \in 0..l /\ k + 1 \in 1..l /\ k + 1 \in 0..l /\ (k + 1) - 1 = k /\ k \in Nat
        BY <1>1
    <2>2. g[k] \in Seq(T) /\ g[k + 1] = g[k] \o p(k + 1) /\ h[k + 1] = h[k] \o q(k + 1)
        BY <1>4, <1>5, <2>1
    <2>3. CASE Inside(k)
        <3>1. /\ k \in 1..l /\ k + 1 > 1 /\ k - 1 \in 0..l
            BY <1>1, <2>1, <2>3
        <3>2. p(k) = <<Dollar>> /\ q(k) = <<>>
            BY <1>7, <2>3, <3>1
        <3>3. ~Inside(k + 1) /\ p(k + 1) = <<Mark(n)>> /\ q(k + 1) = Value(typed, n)
            <4> HIDE DEF p, q, Inside
            <4> QED
                BY <1>7, <2>1, <2>3, <3>1
        <3>4. g[k - 1] \in Seq(T) /\ h[k - 1] \in Seq(T)
            BY <1>4, <1>5, <3>1
        <3>5. g[k + 1] = (g[k - 1] \o <<Dollar>>) \o <<Mark(n)>>
            <4> HIDE DEF p, q
            <4> QED
                BY <1>4, <2>2, <3>1, <3>2, <3>3
        <3>6. S(g[k + 1]) = S(g[k - 1]) \o Value(typed, n)
            <4> DEFINE a == g[k - 1]
            <4> HIDE DEF a
            <4>1. a \in Seq(T)
                BY <3>4 DEF a
            <4>2. Substitute((a \o <<Dollar>>) \o <<Mark(n)>>, {n}, typed)
                    = Substitute(a, {n}, typed) \o Value(typed, n)
                BY <1>1, <4>1, PlaceholderLast
            <4> QED
                BY <3>5, <4>2 DEF a
        <3>7. h[k] = h[k - 1]
            <4>1. h[k] = h[k - 1] \o q(k)
                BY <1>5, <3>1
            <4> DEFINE b == h[k - 1]
            <4>2. b \o <<>> = b
                <5>1. b \in Seq(T)
                    BY <3>4
                <5> HIDE DEF b
                <5> QED
                    BY <5>1, ConcatEmptySeq
            <4> QED
                BY <3>2, <4>1, <4>2
        <3>8. S(g[k - 1]) = h[k - 1]
            BY <1>13, <2>3
        <3> HIDE DEF S, p, q, Inside
        <3>9. S(g[k + 1]) = h[k + 1]
            BY <2>2, <3>3, <3>6, <3>7, <3>8
        <3> QED
            BY <2>1, <3>3, <3>9
    <2>4. CASE ~Inside(k)
        <3>1. S(g[k]) = h[k]
            BY <1>13, <2>4
        <3>2. CASE Inside(k + 1)
            <4> HIDE DEF S, Inside
            <4> QED
                BY <2>1, <3>1, <3>2
        <3>3. CASE ~Inside(k + 1)
            <4>1. q(k + 1) = p(k + 1) /\ p(k + 1) \in Seq(T) /\ S(p(k + 1)) = p(k + 1)
                <5> HIDE DEF p, q, S, Inside
                <5> QED
                    BY <1>7, <1>8, <1>10, <2>1, <2>4, <3>3
            <4>2. Apart(g[k], p(k + 1), {n})
                <5> SUFFICES ASSUME g[k] # <<>>, g[k][Len(g[k])] = Dollar,
                                    p(k + 1)[1] = Mark(n), p(k + 1) # <<>>
                             PROVE  FALSE
                    BY DEF Apart
                <5>1. k \in 1..l /\ body[k] = Dollar /\ ~Opens(body, k, numbers)
                    BY <1>6, <2>1 DEF EndsInDollar
                <5>2. p(k + 1) = <<body[k + 1]>>
                    <6> HIDE DEF p
                    <6> QED
                        BY <2>1, <5>1, PutCases DEF p
                <5>3. body[k + 1] = Mark(n)
                    BY <5>2
                <5>4. k < l
                    BY <1>1
                <5>5. Inside(k)
                    BY <5>1, <5>3, <5>4 DEF Opens
                <5> QED
                    BY <2>4, <5>5
            <4>3. S(g[k] \o p(k + 1)) = S(g[k]) \o S(p(k + 1))
                <5> DEFINE a == g[k]
                           b == p(k + 1)
                           N == {n}
                <5>1. a \in Seq(T) /\ b \in Seq(T) /\ N \in SUBSET (1..10) /\ Apart(a, b, N)
                    BY <1>1, <2>2, <4>1, <4>2
                <5> HIDE DEF a, b, N
                <5>2. Substitute(a \o b, N, typed) = Substitute(a, N, typed) \o Substitute(b, N, typed)
                    BY <5>1, SubstituteBoth
                <5> QED
                    BY <5>2 DEF a, b, N
            <4> HIDE DEF S, p, q, Inside
            <4>4. S(g[k + 1]) = h[k + 1]
                BY <2>2, <3>1, <4>1, <4>3
            <4> QED
                BY <2>1, <3>3, <4>4
        <3> QED
            BY <3>2, <3>3
    <2> QED
        BY <2>3, <2>4
<1>14. l \in M
    <2>1. M \in SUBSET Nat /\ l \in 0..l
        <3>1. 0..l \subseteq Nat /\ l \in 0..l
            BY <1>1
        <3> QED
            BY <3>1
    <2> HIDE DEF M
    <2> QED
        BY <1>1, <1>12, <1>13, <2>1, UpTo
<1>15. ~Inside(l)
    BY <1>1 DEF Opens
<1> HIDE DEF Inside, S
<1>16. S(g[l]) = h[l]
    BY <1>14, <1>15
<1> QED
    BY <1>4, <1>5, <1>16 DEF S, more

(* A value with no `$` that is at its end or before a digit. *)
SettledText(v) == ~EndsInDollar(v) /\ \A k \in 1..Len(v) : ~Opens(v, k, 1..9)

(* A word that was typed is a part of it, up to white space or its end.     *)
LEMMA WordCases ==
    ASSUME NEW T, NEW typed \in Seq(T), NEW n
    PROVE  \/ Word(typed, n) = <<>>
           \/ \E i, j \in 1..Len(typed) :
                IsWord(typed, i, j) /\ Word(typed, n) = SubSeq(typed, i, j)
<1> DEFINE StartsAt(i) == typed[i] # Gap /\ (i = 1 \/ typed[i - 1] = Gap)
           its == {ij \in (1..Len(typed)) \X (1..Len(typed)) :
                    /\ IsWord(typed, ij[1], ij[2])
                    /\ Cardinality({k \in 1..ij[1] : StartsAt(k)}) = n}
           words == {SubSeq(typed, ij[1], ij[2]) : ij \in its}
           chosen == CHOOSE word \in words : TRUE
<1>1. Word(typed, n) = IF words = {} THEN <<>> ELSE chosen
    BY DEF Word
<1>2. words # {} => chosen \in words
    <2> HIDE DEF words
    <2> QED
        OBVIOUS
<1>3. \A v \in words : \E i, j \in 1..Len(typed) : IsWord(typed, i, j) /\ v = SubSeq(typed, i, j)
    OBVIOUS
<1> HIDE DEF words, chosen
<1> QED
    BY <1>1, <1>2, <1>3

(* Part of a plain text, up to white space or its end. *)
LEMMA PartIsSettled ==
    ASSUME NEW T, NEW typed \in Seq(T), Plain(typed),
           NEW i \in 1..Len(typed), NEW j \in 1..Len(typed), IsWord(typed, i, j)
    PROVE  SubSeq(typed, i, j) \in Seq(T) /\ SettledText(SubSeq(typed, i, j))
<1> DEFINE v == SubSeq(typed, i, j)
<1>1. /\ Len(typed) \in Nat /\ DOMAIN typed = 1..Len(typed)
      /\ \A m \in 1..Len(typed) : typed[m] \in T
    BY LenProperties
<1>2. i \in Int /\ j \in Int /\ i <= j /\ \A m \in i..j : m \in 1..Len(typed)
    <2>1. i <= j
        BY DEF IsWord
    <2>2. i \in Nat /\ j \in Nat /\ 1 <= i /\ j <= Len(typed)
        BY <1>1
    <2> QED
        BY <1>1, <2>1, <2>2
<1>3. /\ v \in Seq(T) /\ Len(v) = (j - i) + 1
      /\ \A m \in 1..((j - i) + 1) : v[m] = typed[(i + m) - 1]
    <2>1. \A m \in i..j : typed[m] \in T
        BY <1>1, <1>2
    <2>2. /\ v \in Seq(T) /\ Len(v) = (IF i <= j THEN j - i + 1 ELSE 0)
          /\ \A m \in 1..(j - i + 1) : v[m] = typed[i + m - 1]
        BY <1>2, <2>1, SubSeqProperties
    <2> QED
        BY <1>2, <2>2
<1> HIDE DEF v
<1>4. ASSUME EndsInDollar(v) PROVE FALSE
    <2>1. (j - i) + 1 \in 1..((j - i) + 1) /\ (i + ((j - i) + 1)) - 1 = j
        BY <1>2
    <2>2. typed[j] = Dollar
        BY <1>3, <1>4, <2>1 DEF EndsInDollar
    <2>3. j < Len(typed) /\ typed[j + 1] # Gap
        BY <1>1, <2>2 DEF Plain
    <2>4. j = Len(typed) \/ typed[j + 1] = Gap
        BY Zenon DEF IsWord
    <2>5. j # Len(typed)
        <3> DEFINE l == Len(typed)
        <3>1. l \in Nat /\ j \in Int /\ j < l
            BY <1>1, <1>2, <2>3
        <3> HIDE DEF l
        <3>2. j # l
            BY <3>1
        <3> QED
            BY <3>2 DEF l
    <2> QED
        BY <2>3, <2>4, <2>5
<1>5. ASSUME NEW k \in 1..Len(v), Opens(v, k, 1..9) PROVE FALSE
    <2>1. /\ k \in 1..((j - i) + 1) /\ k + 1 \in 1..((j - i) + 1)
          /\ (i + (k + 1)) - 1 = ((i + k) - 1) + 1
        BY <1>2, <1>3, <1>5 DEF Opens
    <2>2. (i + k) - 1 \in 1..Len(typed)
        BY <1>1, <1>2, <2>1
    <2>3. /\ typed[(i + k) - 1] = Dollar
          /\ typed[((i + k) - 1) + 1] \in {Mark(m) : m \in 1..9}
        BY <1>3, <1>5, <2>1 DEF Opens
    <2> DEFINE x == (i + k) - 1
    <2> HIDE DEF x
    <2>4. x \in DOMAIN typed /\ typed[x] = Dollar /\ typed[x + 1] \in {Mark(m) : m \in 1..9}
        BY <1>1, <2>2, <2>3 DEF x
    <2> QED
        BY <2>4 DEF Plain
<1> QED
    BY <1>3, <1>4, <1>5 DEF SettledText, v

(* What is plain has settled values. *)
LEMMA PlainIsSettled ==
    ASSUME NEW T, NEW typed \in Seq(T), Plain(typed)
    PROVE  Valued(T, typed) /\ Settled(typed)
<1>1. <<>> \in Seq(T) /\ SettledText(<<>>)
    BY DEF SettledText, EndsInDollar
<1>2. SettledText(typed)
    <2>1. CASE typed = <<>>
        BY <1>1, <2>1
    <2>2. CASE typed # <<>>
        <3>1. Len(typed) \in Nat \ {0} /\ DOMAIN typed = 1..Len(typed)
            BY <2>2, EmptySeq, LenProperties
        <3>2. ~EndsInDollar(typed)
            <4>1. Len(typed) \in DOMAIN typed /\ ~(Len(typed) < Len(typed))
                BY <3>1
            <4>2. typed[Len(typed)] # Dollar
                BY <4>1 DEF Plain
            <4> QED
                BY <4>2 DEF EndsInDollar
        <3>3. \A k \in 1..Len(typed) : ~Opens(typed, k, 1..9)
            BY <3>1 DEF Opens, Plain
        <3> QED
            BY <3>2, <3>3 DEF SettledText
    <2> QED
        BY <2>1, <2>2
<1>3. ASSUME NEW n \in 1..10 PROVE Value(typed, n) \in Seq(T) /\ SettledText(Value(typed, n))
    <2>1. CASE n = 10
        BY <1>2, <2>1 DEF Value
    <2>2. CASE n # 10
        <3>1. Word(typed, n) \in Seq(T) /\ SettledText(Word(typed, n))
            <4>1. CASE Word(typed, n) = <<>>
                BY <1>1, <4>1
            <4>2. ASSUME NEW i \in 1..Len(typed), NEW j \in 1..Len(typed),
                         IsWord(typed, i, j), Word(typed, n) = SubSeq(typed, i, j)
                  PROVE  Word(typed, n) \in Seq(T) /\ SettledText(Word(typed, n))
                BY <4>2, PartIsSettled
            <4> QED
                BY <4>1, <4>2, WordCases
        <3> QED
            BY <2>2, <3>1 DEF Value
    <2> QED
        BY <2>1, <2>2
<1> QED
    BY <1>3 DEF Valued, Settled, SettledText

-----------------------------------------------------------------------------
(* What a command's body becomes. *)

AllPieces == Piece \cup {Text("---")}

(* The text that filling in has put together after each number. *)
Filling(body, typed, h) ==
    /\ h \in [0..9 -> Seq(AllPieces)]
    /\ h[0] = Substitute(body, {10}, typed)
    /\ \A n \in 1..9 : h[n] = Substitute(h[n - 1], {n}, typed)
    /\ Filled(body, typed) = h[9]

(* Filling in goes number by number. *)
LEMMA FillingSteps ==
    ASSUME NEW body \in Seq(AllPieces), NEW typed, Valued(AllPieces, typed)
    PROVE  \E h : Filling(body, typed, h)
<1> DEFINE D == Seq(AllPieces)
           b == Substitute(body, {10}, typed)
           Next1(x, n) == Substitute(x, {n}, typed)
           IsIt(h) == h = [n \in 0..9 |->
                            IF n = 0 THEN Substitute(body, {10}, typed)
                            ELSE Substitute(h[n - 1], {n}, typed)]
           upTo == CHOOSE h : IsIt(h)
<1>1. \A x \in D : \A n \in 1..9 : Next1(x, n) \in D
    <2> SUFFICES ASSUME NEW x \in D, NEW n \in 1..9 PROVE Next1(x, n) \in D
        OBVIOUS
    <2>1. {n} \in SUBSET (1..10)
        OBVIOUS
    <2> QED
        BY <2>1, SubstituteIsText
<1>2. b \in D
    <2>1. {10} \in SUBSET (1..10)
        OBVIOUS
    <2> QED
        BY <2>1, SubstituteIsText
<1> HIDE DEF D, b
<1>3. PICK h \in [0..9 -> D] : h[0] = b /\ \A n \in 1..9 : h[n] = Next1(h[n - 1], n)
    <2> DEFINE F == [n \in 1..9 |-> [x \in D |-> Next1(x, n)]]
    <2>1. Recursion(D, 9, b, F)
        <3> HIDE DEF Next1
        <3>1. F \in [1..9 -> [D -> D]]
            BY <1>1
        <3> HIDE DEF F
        <3> QED
            BY <1>2, <3>1 DEF Recursion
    <2>2. PICK h \in [0..9 -> D] : h[0] = b /\ \A n \in 1..9 : h[n] = F[n][h[n - 1]]
        <3> DEFINE last0 == 9
        <3>1. Recursion(D, last0, b, F)
            BY <2>1
        <3> HIDE DEF F, last0
        <3>2. \E h \in [0..last0 -> D] : h[0] = b /\ \A n \in 1..last0 : h[n] = F[n][h[n - 1]]
            BY <3>1, RecursionExists
        <3> QED
            BY <3>2 DEF last0
    <2>3. \A n \in 1..9 : n - 1 \in 0..9
        OBVIOUS
    <2>4. \A n \in 1..9 : F[n][h[n - 1]] = Next1(h[n - 1], n)
        <3> HIDE DEF Next1
        <3> QED
            BY <2>3
    <2> HIDE DEF F, Next1
    <2> QED
        BY <2>2, <2>4
<1>4. IsIt(h)
    <2>1. \A n \in 0..9 : n = 0 \/ n \in 1..9
        OBVIOUS
    <2>2. h = [n \in 0..9 |-> h[n]]
        BY <1>3
    <2>3. \A n \in 0..9 : h[n] = IF n = 0 THEN Substitute(body, {10}, typed)
                                 ELSE Substitute(h[n - 1], {n}, typed)
        BY <1>3, <2>1 DEF b
    <2> QED
        BY <2>2, <2>3
<1>5. IsIt(upTo)
    BY <1>4
<1>6. Filled(body, typed) = upTo[9]
    BY DEF Filled
<1> HIDE DEF upTo
<1>7. upTo[0] = b /\ \A n \in 1..9 : upTo[n] = Next1(upTo[n - 1], n)
    <2>1. 0 \in 0..9 /\ \A n \in 1..9 : n \in 0..9 /\ n # 0
        OBVIOUS
    <2> QED
        BY <1>5, <2>1 DEF b
<1>8. upTo \in [0..9 -> D]
    <2> DEFINE M == {n \in 0..9 : upTo[n] = h[n]}
    <2>1. 0 \in M
        BY <1>3, <1>7
    <2>2. ASSUME NEW n \in 0..(9 - 1), n \in M PROVE n + 1 \in M
        <3>1. n + 1 \in 1..9 /\ n + 1 \in 0..9 /\ (n + 1) - 1 = n
            OBVIOUS
        <3>2. upTo[n + 1] = Next1(upTo[n], n + 1) /\ h[n + 1] = Next1(h[n], n + 1)
            BY <1>3, <1>7, <3>1
        <3> HIDE DEF Next1
        <3> QED
            BY <2>2, <3>1, <3>2
    <2>3. 0..9 \subseteq M
        <3>1. M \in SUBSET Nat
            OBVIOUS
        <3> HIDE DEF M
        <3> QED
            BY <2>1, <2>2, <3>1, UpTo
    <2>4. upTo = [n \in 0..9 |-> upTo[n]]
        BY <1>5
    <2> QED
        BY <1>3, <2>3, <2>4
<1> QED
    BY <1>6, <1>7, <1>8 DEF D, b, Filling

(* The ten replacements are as good as one. *)
LEMMA FilledFacts ==
    ASSUME NEW body \in Seq(AllPieces), NEW typed,
           Valued(AllPieces, typed), Settled(typed), Separate(body)
    PROVE  Filled(body, typed) = Substitute(body, 1..10, typed)
<1>1. PICK h : Filling(body, typed, h)
    BY FillingSteps
<1> DEFINE First0(n) == {10} \cup 1..n
           M == {n \in 0..9 : h[n] = Substitute(body, First0(n), typed)}
<1>2. 0 \in M
    <2>1. First0(0) = {10}
        OBVIOUS
    <2> QED
        BY <1>1, <2>1 DEF Filling
<1>3. ASSUME NEW n \in 0..(9 - 1), n \in M PROVE n + 1 \in M
    <2>1. n + 1 \in 1..9 /\ n + 1 \in 0..9 /\ (n + 1) - 1 = n
        OBVIOUS
    <2>2. /\ First0(n) \in SUBSET (1..10) /\ n + 1 \notin First0(n)
          /\ First0(n) \cup {n + 1} = First0(n + 1)
        OBVIOUS
    <2>4. h[n + 1] = Substitute(h[n], {n + 1}, typed)
        BY <1>1, <2>1 DEF Filling
    <2>5. h[n] = Substitute(body, First0(n), typed)
        BY <1>3
    <2> HIDE DEF First0
    <2>6. Substitute(Substitute(body, First0(n), typed), {n + 1}, typed)
            = Substitute(body, First0(n) \cup {n + 1}, typed)
        <3> DEFINE m == n + 1
                   N == First0(n)
        <3>1. IsNew(m, N) /\ Dollar \in AllPieces /\ Mark(m) \in AllPieces
            BY <2>1, <2>2 DEF AllPieces, IsNew, Piece
        <3> HIDE DEF m, N
        <3>2. Substitute(Substitute(body, N, typed), {m}, typed) = Substitute(body, N \cup {m}, typed)
            BY <3>1, OneMore
        <3> QED
            BY <3>2 DEF m, N
    <2> QED
        BY <2>1, <2>2, <2>4, <2>5, <2>6
<1>4. 0..9 \subseteq M
    <2>1. M \in SUBSET Nat
        OBVIOUS
    <2> HIDE DEF M
    <2> QED
        BY <1>2, <1>3, <2>1, UpTo
<1>5. First0(9) = 1..10
    OBVIOUS
<1>6. h[9] = Substitute(body, First0(9), typed)
    BY <1>4
<1> QED
    BY <1>1, <1>5, <1>6 DEF Filling

(* What the model is asked when a command is used. *)
LEMMA ExpandFacts ==
    ASSUME NEW body \in Seq(AllPieces), NEW typed \in Seq(AllPieces),
           Separate(body), Plain(typed)
    PROVE  Expand(body, typed) =
                IF UsesPlaceholder(body) THEN Substitute(body, 1..10, typed)
                ELSE body \o (IF typed = <<>> THEN <<>> ELSE <<Gap>> \o typed)
<1>1. Valued(AllPieces, typed) /\ Settled(typed)
    BY PlainIsSettled
<1>2. Filled(body, typed) = Substitute(body, 1..10, typed)
    BY <1>1, FilledFacts
<1>3. 1..10 \in SUBSET (1..10)
    OBVIOUS
<1>4. CASE UsesPlaceholder(body)
    <2>1. Substitute(body, 1..10, typed) \in Seq(AllPieces)
        BY <1>1, <1>3, SubstituteIsText
    <2>2. Substitute(body, 1..10, typed) \o <<>> = Substitute(body, 1..10, typed)
        BY <2>1, ConcatEmptySeq
    <2> QED
        BY <1>2, <1>4, <2>2 DEF Expand
<1>5. CASE ~UsesPlaceholder(body)
    <2>1. \A k \in 1..Len(body) : ~Opens(body, k, 1..10)
        BY <1>5, LenProperties DEF UsesPlaceholder
    <2>2. Substitute(body, 1..10, typed) = body
        BY <1>1, <1>3, <2>1, LeftAlone
    <2> QED
        BY <1>2, <1>5, <2>2 DEF Expand
<1> QED
    BY <1>4, <1>5

(* What is asked of the model is what the body of a command of the project  *)
(* becomes with the words that were typed.                                  *)
PromptInv ==
    last.what = "prompt" =>
        /\ last.body \in Seq(AllPieces)
        /\ last.typed \in Seq(AllPieces)
        /\ last.text = Expand(last.body, last.typed)

(* The body of a command is made of text and placeholders. *)
LEMMA BodiesFit ==
    ASSUME NEW command, command \in Load(CommandFiles)
    PROVE  command.body \in Seq(AllPieces)
<1>1. PICK file \in CommandFiles : command = [name |-> file.name, body |-> Body(file)]
    BY DEF Load
<1>2. file.text \in Seq(AllPieces)
    <2>1. file.text \in Seq(Piece) /\ Piece \subseteq AllPieces
        BY CommandsAssumption DEF AllPieces
    <2> QED
        BY <2>1, LargerSeq
<1>3. Body(file) \in Seq(AllPieces)
    <2> DEFINE one == <<Text("---")>>
    <2>1. one \in Seq(AllPieces)
        <3>1. Text("---") \in AllPieces
            BY DEF AllPieces
        <3> QED
            BY <3>1
    <2> HIDE DEF one
    <2>2. one \o file.text \in Seq(AllPieces)
        BY <1>2, <2>1, ConcatProperties
    <2> QED
        BY <1>2, <2>2 DEF Body, one
<1> QED
    BY <1>1, <1>3

(* The use of a command asks for what its body becomes. *)
LEMMA UseFits ==
    ASSUME IsSession(session), NEW command, NEW typed \in TypedWords,
           UseCommand(command, typed)
    PROVE  PromptInv'
<1>1. last' = [what |-> "prompt", body |-> command.body, typed |-> typed,
               text |-> Expand(command.body, typed)]
    BY DEF UseCommand
<1>2. command \in Load(CommandFiles)
    <2>1. command \in session.commands /\ session.commands \in SUBSET Load(CommandFiles)
        BY DEF UseCommand, IsSession
    <2> QED
        BY <2>1
<1>3. command.body \in Seq(AllPieces)
    BY <1>2, BodiesFit
<1>4. typed \in Seq(AllPieces)
    <2>1. typed \in Seq(Piece) /\ Piece \subseteq AllPieces
        BY CommandsAssumption DEF AllPieces
    <2> QED
        BY <2>1, LargerSeq
<1> QED
    BY <1>1, <1>3, <1>4 DEF PromptInv

(* What is neither a prompt nor new keeps it. *)
LEMMA SamePrompt ==
    ASSUME PromptInv, last' = last \/ last'.what # "prompt"
    PROVE  PromptInv'
    BY DEF PromptInv

(* A process that ends asks for nothing. *)
LEMMA EndsPrompt ==
    ASSUME NEW how, NEW f, Ends(how, f)
    PROVE  PromptInv'
<1>1. last'.what = "nothing"
    BY DEF Ends, Nothing
<1> QED
    BY <1>1 DEF PromptInv

(* Where no `$` of the body is right before a placeholder and none that is  *)
(* typed ends a word or is before a digit, the ten replacements are as good *)
(* as one, and a body with no placeholder is followed by what was typed.    *)
THEOREM ArgumentsReachTheModel ==
    StartupSpec => []ArgumentsArrive
<1>1. StartupInit => PromptInv
    BY DEF StartupInit, PromptInv, Nothing
<1>2. StartupInv /\ PromptInv /\ [StartupNext]_startupVars => PromptInv'
    <2> SUFFICES ASSUME StartupInv, PromptInv, [StartupNext]_startupVars
                 PROVE  PromptInv'
        OBVIOUS
    <2>1. IsSession(session)
        BY DEF StartupInv, StartupTypeOK
    <2>2. CASE Starting
        <3>1. PICK f \in Flags : StartRefused(f) \/ StartSession(f) \/ StartMcpCheck(f)
            BY <2>2 DEF Starting
        <3>2. CASE StartRefused(f)
            BY <3>2, EndsPrompt DEF StartRefused
        <3>3. CASE StartSession(f) \/ StartMcpCheck(f)
            <4>1. last' = last
                BY <3>3 DEF StartSession, StartMcpCheck
            <4> QED
                BY <4>1, SamePrompt
        <3> QED
            BY <3>1, <3>2, <3>3
    <2>3. CASE Setup
        <3>1. CASE RememberDies
            BY <3>1, EndsPrompt DEF RememberDies
        <3>2. CASE ~RememberDies
            <4>1. last' = last
                BY <2>3, <3>2
                DEF Setup, MoveUp, MoveDown, BeginKey, BackToList, Erase, Type, InForm,
                    Confirm, Cancel, Remember
            <4> QED
                BY <4>1, SamePrompt
        <3> QED
            BY <3>1, <3>2
    <2>4. CASE Loading
        <3>1. CASE ResolveFails \/ McpCheckEnds \/ OpenFails
            BY <3>1, EndsPrompt DEF ResolveFails, McpCheckEnds, OpenFails
        <3>2. CASE Resolve \/ ServerStarts \/ ServerFails \/ Open
            <4>1. last' = last
                BY <3>2 DEF Resolve, ServerStarts, ServerFails, Connecting, Open
            <4> QED
                BY <4>1, SamePrompt
        <3> QED
            BY <2>4, <3>1, <3>2 DEF Loading
    <2>5. CASE InSession
        <3>1. ASSUME NEW id, SwitchModel(id) PROVE PromptInv'
            BY <3>1, SamePrompt DEF SwitchModel
        <3>2. ASSUME NEW model, SetProvider(model) PROVE PromptInv'
            BY <3>2, SamePrompt DEF SetProvider
        <3>3. ASSUME NEW name, NEW answer, CallTool(name, answer) PROVE PromptInv'
            <4>1. last'.what = "call"
                BY <3>3 DEF CallTool
            <4> QED
                BY <4>1 DEF PromptInv
        <3>4. ASSUME NEW command, NEW typed \in TypedWords, UseCommand(command, typed)
              PROVE  PromptInv'
            BY <2>1, <3>4, UseFits
        <3>5. CASE End
            BY <3>5, EndsPrompt DEF End
        <3> QED
            BY <2>5, <3>1, <3>2, <3>3, <3>4, <3>5 DEF InSession
    <2>6. CASE Dies
        BY <2>6, EndsPrompt DEF Dies
    <2>7. CASE Elsewhere
        <3>1. last' = last
            BY <2>7
            DEF Elsewhere, Doctor, process, EditPart, EditProject, Login, Logout, Edits, InitProject
        <3> QED
            BY <3>1, SamePrompt
    <2>8. CASE UNCHANGED startupVars
        BY <2>8, SamePrompt DEF startupVars, process
    <2> QED
        BY <2>2, <2>3, <2>4, <2>5, <2>6, <2>7, <2>8 DEF StartupNext
<1>3. PromptInv => ArgumentsArrive
    <2> SUFFICES ASSUME PromptInv, last.what = "prompt",
                        Separate(last.body), Plain(last.typed)
                 PROVE  last.text =
                    IF UsesPlaceholder(last.body)
                    THEN Substitute(last.body, 1..10, last.typed)
                    ELSE last.body \o (IF last.typed = <<>> THEN <<>> ELSE <<Gap>> \o last.typed)
        BY DEF ArgumentsArrive
    <2>1. /\ last.body \in Seq(AllPieces) /\ last.typed \in Seq(AllPieces)
          /\ last.text = Expand(last.body, last.typed)
        BY DEF PromptInv
    <2> QED
        BY <2>1, ExpandFacts
<1> QED
    BY <1>1, <1>2, <1>3, StartupInvariant, PTL DEF StartupSpec

=============================================================================
