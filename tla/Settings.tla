------------------------------ MODULE Settings ------------------------------
(***************************************************************************)
(* Whose word counts when claux starts.  The owner's global configuration  *)
(* and its editing by `claux config init` (config.rs, onboarding.rs), the  *)
(* project's own file and what it may change (config/trust.rs), the flags  *)
(* of the command line (cli.rs), the choice and the resolution of a model  *)
(* and of its key, for a new process and for a session that was saved with *)
(* another configuration (config.rs, main.rs, tui/mod.rs, repl.rs), and    *)
(* what `claux doctor` says of it all.                                     *)
(***************************************************************************)
EXTENDS Naturals, Sequences, FiniteSets, FiniteSetsExt, SequencesExt, TLC

CONSTANTS
    Unset,          \* a field that a document or a flag does not give
    Documents,      \* configurations an owner may write
    ProjectFiles,   \* .claux.toml and .mcp.json of a checkout
    Flags,          \* command lines
    Additions,      \* [provider, model] given to config init
    Environments,   \* the variables that are set
    Sessions,
    Slug            \* per model, what its name is in a profile's

VARIABLES
    owner,          \* the global configuration, Unset if there is no file
    project,        \* what the directory claux is started in holds
    environment,    \* names of the variables and of the saved credentials
    bindings,       \* per session, the binding saved with it, or Unset
    running         \* what the process runs with, or the refusal

settingsVars == <<owner, project, environment, bindings, running>>

\* From tight to loose.
PermissionModes == <<"plan", "default", "accept-edits", "auto", "bypass">>
NativePolicies == <<"workspace_only", "unrestricted">>
BashPolicies == <<"workspace_write", "auto", "unrestricted">>

Name(base) == [base |-> base, copy |-> 1]

Descriptor(kind, host, env, legacyEnvs, auth, catalogued, needsKey, model) ==
    [kind |-> kind, host |-> host, env |-> env, legacyEnvs |-> legacyEnvs, auth |-> auth,
     catalogued |-> catalogued, needsKey |-> needsKey, model |-> model]

Builtins ==
    (Name(<<"anthropic">>) :> Descriptor("anthropic", "anthropic", "ANTHROPIC_API_KEY",
         {}, "none", FALSE, TRUE, "sonnet")) @@
    (Name(<<"openai">>) :> Descriptor("openai", "openai", "OPENAI_API_KEY",
         {}, "none", FALSE, TRUE, "gpt")) @@
    (Name(<<"openrouter">>) :> Descriptor("openai", "openrouter", "OPENROUTER_API_KEY",
         {}, "pkce", TRUE, TRUE, "anthropic/sonnet")) @@
    (Name(<<"opencode-go">>) :> Descriptor("openai", "opencode", "OPENCODE_GO_API_KEY",
         {"OPENCODE_API_KEY"}, "key", FALSE, TRUE, "glm")) @@
    (Name(<<"vercel">>) :> Descriptor("openai", "vercel", "AI_GATEWAY_API_KEY",
         {}, "key", FALSE, TRUE, "zai/glm")) @@
    (Name(<<"ollama">>) :> Descriptor("openai", "localhost", "OLLAMA_API_KEY",
         {}, "none", FALSE, FALSE, "llama"))

\* The built-in provider meant: by a name, else by the host.
Identify(kind, name, key, url) ==
    LET ofKind(S) == {b \in S : Builtins[b].kind = kind}
        named == ofKind({name, key} \intersect DOMAIN Builtins)
        hosted == ofKind({b \in DOMAIN Builtins \ {Name(<<"ollama">>)} :
                             url # Unset /\ Builtins[b].host = url})
    IN  CASE name \in named -> name
          [] name \notin named /\ named # {} -> CHOOSE b \in named : TRUE
          [] named = {} /\ hosted # {} -> CHOOSE b \in hosted : TRUE
          [] OTHER -> Unset

-----------------------------------------------------------------------------

\* What the file's defaults are; config init writes them out.
EmptyDocument ==
    [mode |-> "default", native |-> "workspace_only", bash |-> "auto", strip |-> TRUE,
     generated |-> ".claux/tools", deny |-> {}, ask |-> {}, allow |-> {}, servers |-> {},
     trusted |-> FALSE, model |-> Unset, url |-> Unset, urlName |-> Unset, key |-> Unset,
     urlKey |-> Unset, providers |-> <<>>, profiles |-> <<>>, default |-> Unset]

\* What parses: a field per key, and one of its words for a mode and the policies.
IsDocument(c) ==
    /\ c = [field \in DOMAIN EmptyDocument |-> c[field]]
    /\ c.mode \in Range(PermissionModes)
    /\ c.native \in Range(NativePolicies) /\ c.bash \in Range(BashPolicies)

\* What is given on the command line is a word of its list, or it is not a command line.
ASSUME SettingsAssumption ==
    /\ \A c \in Documents : IsDocument(c)
    /\ \A f \in Flags : /\ f.native \in Range(NativePolicies) \union {Unset}
                        /\ f.bash \in Range(BashPolicies) \union {Unset}
    /\ \A a \in Additions : a.provider \in {"anthropic", "openai", "openrouter",
                                             "opencode-go", "vercel", "ollama"}

Malformed == "malformed"

Rules(c) == c.deny \union c.ask \union c.allow

Provider(kind, url, name, key, env) ==
    [kind |-> kind, url |-> url, name |-> name, key |-> key, env |-> env]

\* A table with one more entry, or another one.
With(table, name, entry) ==
    [n \in DOMAIN table \union {name} |-> IF n = name THEN entry ELSE table[n]]

Profile(provider, model, window) ==
    [provider |-> provider, model |-> model, window |-> window]

\* migrate_legacy_model: the model of a file without profiles becomes one.
Migrated(c) ==
    LET compatible == c.url # Unset
        id == IF ~compatible THEN <<"anthropic">>
              ELSE IF c.urlName # Unset THEN c.urlName ELSE <<"openai">>
        provider == IF compatible
                    THEN Provider("openai", c.url, Name(id), c.urlKey, Unset)
                    ELSE Provider("anthropic", Unset, Name(id), c.key, Unset)
        profile == Name(Append(id, c.model))
    IN  IF c.model = Unset \/ DOMAIN c.profiles # {} THEN c
        ELSE [c EXCEPT !.providers = With(@, Name(id), provider),
                       !.profiles = profile :> Profile(Name(id), c.model, Unset),
                       !.default = IF @ = Unset THEN profile ELSE @]

\* The first of base, base-2, ... that is free or means the same already.
UniqueName(table, base, same) ==
    LET name(k) == [base |-> base, copy |-> k]
        fits(k) == name(k) \in DOMAIN table => table[name(k)] \in same
    IN  name(Min({k \in 1..Cardinality(DOMAIN table) + 1 : fits(k)}))

\* add_model_profile.
WithProfile(document, addition) ==
    LET c == Migrated(document)
        id == <<addition.provider>>
        spec == Builtins[Name(id)]
        url == IF spec.kind = "anthropic" THEN Unset ELSE spec.host
        model == IF addition.model = Unset THEN spec.model ELSE addition.model
        provider == UniqueName(c.providers, id,
                        {p \in Range(c.providers) : p.kind = spec.kind /\ p.url = url})
        profile == UniqueName(c.profiles, id \o <<Slug[model]>>,
                        {p \in Range(c.profiles) : p.provider = provider /\ p.model = model})
        added(name, entry, table) ==
            IF name \in DOMAIN table THEN table ELSE With(table, name, entry)
    IN  [c EXCEPT
            !.providers = added(provider, Provider(spec.kind, url, Name(id), Unset, spec.env), @),
            !.profiles = added(profile, Profile(provider, model, Unset), @),
            !.default = IF @ = Unset THEN profile ELSE @]

-----------------------------------------------------------------------------

Rank(order, x) == CHOOSE i \in DOMAIN order : order[i] = x

\* permits_permission_override and permits_project_override.
Permits(order, current, requested, trusted) ==
    trusted \/ Rank(order, requested) <= Rank(order, current)

\* (mutant) Whatever a project asks for that is not the loosest is granted.
OverriddenBelow(order, current, requested, trusted) ==
    IF requested \in Range(order) /\ (trusted \/ Rank(order, requested) < Len(order))
    THEN requested ELSE current

\* An unknown value is ignored.
Overridden(order, current, requested, trusted) ==
    IF requested \in Range(order) /\ Permits(order, current, requested, trusted)
    THEN requested ELSE current

\* The profile a project's model selects.
ProjectDefault(c, model) ==
    LET named == {f \in DOMAIN c.profiles : c.profiles[f].model = model} IN
    CASE model = Unset -> c.default
      [] model # Unset /\ Name(<<model>>) \in DOMAIN c.profiles -> Name(<<model>>)
      [] model # Unset /\ Name(<<model>>) \notin DOMAIN c.profiles /\ Cardinality(named) = 1 ->
            CHOOSE f \in named : TRUE
      [] OTHER -> c.default

\* apply_project_overrides.
WithProject(c, p, trusted) ==
    [c EXCEPT
        !.generated = IF trusted /\ p.generated # Unset THEN p.generated ELSE @,
        !.model     = IF p.model # Unset /\ DOMAIN c.profiles = {} THEN p.model ELSE @,
        !.default   = ProjectDefault(c, p.model),
        !.mode      = Overridden(PermissionModes, @, p.mode, trusted),
        !.native    = Overridden(NativePolicies, @, p.native, trusted),
        !.bash      = Overridden(BashPolicies, @, p.bash, trusted),
        !.deny      = @ \union p.deny,
        !.ask       = @ \union p.ask,
        !.allow     = IF trusted THEN @ \union p.allow ELSE @,
        !.strip     = IF p.strip # Unset /\ (p.strip \/ trusted) THEN p.strip ELSE @]

\* A file that is not there is all defaults.
Read(document) ==
    LET c == IF document = Unset THEN EmptyDocument ELSE document
    IN  [c EXCEPT !.model = IF @ = Unset THEN "sonnet" ELSE @]

Trusts(document, flags) == flags.trust \/ Read(document).trusted

Loaded(document, p, flags) == WithProject(Read(document), p, Trusts(document, flags))

\* The command line may tighten what a tool may touch; only its mode is free.
FlagsAllowed(c, flags, trusted) ==
    /\ flags.native # Unset => Permits(NativePolicies, c.native, flags.native, trusted)
    /\ flags.bash # Unset => Permits(BashPolicies, c.bash, flags.bash, trusted)
    /\ flags.mode # Unset => flags.mode \in Range(PermissionModes)

WithFlags(c, flags) ==
    [c EXCEPT !.native = IF flags.native = Unset THEN @ ELSE flags.native,
              !.bash   = IF flags.bash = Unset THEN @ ELSE flags.bash,
              !.mode   = IF flags.mode = Unset THEN @ ELSE flags.mode]

-----------------------------------------------------------------------------

\* apply_transport_overrides.
Transported(r, flags) ==
    [r EXCEPT !.url = IF flags.url = Unset THEN @ ELSE flags.url,
              !.kind = IF flags.protocol = Unset THEN @
                       ELSE IF flags.protocol = "anthropic" THEN "anthropic" ELSE "openai"]

Resolved(profile, provider, kind, name, model, url, env, key, window) ==
    [profile |-> profile, provider |-> provider, kind |-> kind, name |-> name,
     model |-> model, url |-> url, env |-> env, key |-> key, window |-> window]

\* The profile and its provider make a model, if both are complete.
ResolveProfile(c, flags, f) ==
    LET profile == c.profiles[f]
        p == c.providers[profile.provider]
        name == IF p.name = Unset THEN profile.provider ELSE p.name
        builtin == Identify(p.kind, name, profile.provider, p.url)
        env == CASE p.env # Unset -> p.env
                 [] p.env = Unset /\ builtin # Unset -> Builtins[builtin].env
                 [] OTHER -> Builtins[Name(<<p.kind>>)].env
    IN  IF profile.provider \notin DOMAIN c.providers THEN Unset
        ELSE IF p.kind = "openai" /\ p.url = Unset THEN Unset
        ELSE Transported(Resolved(f, profile.provider, p.kind, name, profile.model,
                                  p.url, env, p.key, profile.window), flags)

Legacy == Name(<<"legacy">>)

ResolveLegacy(c, flags, model) ==
    Transported(
        IF c.url # Unset
        THEN Resolved(Name(<<"legacy", model>>), Legacy, "openai",
                 IF c.urlName = Unset THEN Name(<<"openai">>) ELSE Name(c.urlName),
                 model, c.url, "OPENAI_API_KEY", c.urlKey, Unset)
        ELSE Resolved(Name(<<"legacy", model>>), Legacy, "anthropic", Name(<<"anthropic">>),
                 model, Unset, "ANTHROPIC_API_KEY", c.key, Unset), flags)

\* selectable_models: one that does not resolve makes all of them unusable.
Selectable(c, flags) ==
    IF DOMAIN c.profiles = {} THEN {ResolveLegacy(c, flags, c.model)}
    ELSE {ResolveProfile(c, flags, f) : f \in DOMAIN c.profiles}

Usable(c, flags) ==
    /\ Unset \notin Selectable(c, flags)
    /\ DOMAIN c.profiles # {} /\ c.default # Unset => c.default \in DOMAIN c.profiles

\* default_resolved_model: of several without a default, the first by name.
Defaults(c, flags) ==
    IF ~Usable(c, flags) THEN {Unset}
    ELSE IF DOMAIN c.profiles # {} /\ c.default # Unset
         THEN {ResolveProfile(c, flags, c.default)}
         ELSE Selectable(c, flags)

\* resolve_model.
Resolve(c, flags, selector) ==
    LET same == {r \in Selectable(c, flags) : r # Unset /\ r.model = selector} IN
    CASE Name(<<selector>>) \in DOMAIN c.profiles -> ResolveProfile(c, flags, Name(<<selector>>))
      [] Name(<<selector>>) \notin DOMAIN c.profiles /\ Usable(c, flags)
            /\ Cardinality(same) = 1 -> CHOOSE r \in same : TRUE
      [] DOMAIN c.profiles = {} /\ same = {} -> ResolveLegacy(c, flags, selector)
      [] OTHER -> Unset

\* What a session without a profile is saved as.
IsLegacy(b) == b.provider = Legacy /\ b.profile = Name(<<"legacy", b.model>>)

\* resolve_binding: what a session was saved with must still be what it was.
ResolveBinding(c, flags, b) ==
    LET kept == /\ b.provider \in DOMAIN c.providers
                /\ c.providers[b.provider].kind = b.kind
                /\ b.profile \in DOMAIN c.profiles
                /\ c.profiles[b.profile].provider = b.provider
                /\ c.profiles[b.profile].model = b.model
    IN  CASE IsLegacy(b) -> ResolveLegacy(c, flags, b.model)
          [] ~IsLegacy(b) /\ kept -> ResolveProfile(c, flags, b.profile)
          [] OTHER -> Unset

Builtin(r) == Identify(r.kind, r.name, r.provider, r.url)

\* Where the key comes from: the configuration, a command, the environment, or
\* what auth login saved; "none" if nowhere.
KeySource(r, env) ==
    LET b == Builtin(r)
        older == IF b # Unset /\ r.env = Builtins[b].env
                 THEN Builtins[b].legacyEnvs \intersect env.set ELSE {}
    IN  IF r.key = "literal" \/ (r.key = "command" /\ env.command) THEN r.key
        ELSE IF r.env \in env.set THEN r.env
        ELSE IF older # {} THEN CHOOSE e \in older : TRUE
        ELSE IF b # Unset /\ Builtins[b].auth # "none" /\ b \in env.saved THEN "saved"
        ELSE "none"

NeedsKey(r) == IF Builtin(r) # Unset THEN Builtins[Builtin(r)].needsKey
                                     ELSE r.kind = "anthropic"

\* build_provider has what it takes.
Builds(r, env) ==
    /\ KeySource(r, env) = "none" => ~NeedsKey(r) /\ r.kind # "anthropic"
    /\ r.kind = "openai" => r.url # Unset

\* doctor --offline finds nothing to repair.
Healthy(c, flags, env) ==
    /\ Usable(c, flags)
    /\ \A r \in Selectable(c, flags) : NeedsKey(r) => KeySource(r, env) # "none"

-----------------------------------------------------------------------------

Stopped == [at |-> "stopped"]
Running(p) == p.at \in {"ready", "chatting"}

SettingsInit ==
    /\ owner \in Documents \union {Unset} /\ project \in ProjectFiles
    /\ environment \in Environments
    /\ bindings = [s \in Sessions |-> Unset]
    /\ running = Stopped

\* A process reads all this once, so nothing changes while one runs: the owner
\* edits the file.
OwnerEdits(document) ==
    /\ ~Running(running) /\ owner' = document
    /\ UNCHANGED <<project, environment, bindings, running>>

\* init_config_at: the new file replaces the old one at once; what does not
\* parse is left alone.
ConfigInit(addition, force) ==
    /\ ~Running(running)
    /\ owner' = WithProfile(IF force \/ owner = Unset THEN EmptyDocument ELSE owner, addition)
    /\ ~force /\ owner # Unset => Malformed \notin Rules(owner)
    /\ UNCHANGED <<project, environment, bindings, running>>

\* .mcp.json counts in a trusted project only.
Servers(c, trusted) == c.servers \union (IF trusted THEN project.servers ELSE {})

Process(at, c, flags, trusted, r) ==
    [at |-> at, config |-> WithFlags(c, flags), flags |-> flags, trusted |-> trusted,
     model |-> r, key |-> IF r = Unset THEN "none" ELSE KeySource(r, environment),
     session |-> Unset, servers |-> Servers(c, trusted)]

\* claux starts: the full-screen program offers its models and builds none.
Launch(flags) ==
    LET c == Loaded(owner, project, flags)
        trusted == Trusts(owner, flags)
        allowed == Malformed \notin Rules(c) /\ FlagsAllowed(c, flags, trusted)
    IN  /\ ~Running(running)
        /\ \E r \in IF flags.model = Unset THEN Defaults(c, flags)
                                         ELSE {Resolve(c, flags, flags.model)} :
              /\ allowed /\ r # Unset
              /\ IF flags.tui THEN Usable(c, flags) ELSE Builds(r, environment)
              /\ running' = Process("ready", c, flags, trusted, IF flags.tui THEN Unset ELSE r)
        /\ UNCHANGED <<owner, project, environment, bindings>>

\* The model of a saved session, as the configuration of this process has it.
SessionModel(s) ==
    ResolveBinding(running.config, running.flags, bindings[s])

\* Resuming a session: it continues with its own model or not at all.  The
\* full-screen program then shows a notice, the REPL ends.
OpenSession(s) ==
    LET r == SessionModel(s) IN
    /\ Running(running) /\ bindings[s] # Unset
    /\ IF r # Unset /\ Builds(r, environment)
       THEN running' = [running EXCEPT !.at = "chatting", !.model = r, !.session = s,
                                       !.key = KeySource(r, environment)]
       ELSE running' = IF running.flags.tui THEN [running EXCEPT !.at = "ready"] ELSE Stopped
    /\ UNCHANGED <<owner, project, environment, bindings>>

\* The models to pick from: a model of the command line comes first.
Offered ==
    Selectable(running.config, running.flags) \union
    (IF running.flags.model = Unset THEN {}
     ELSE {Resolve(running.config, running.flags, running.flags.model)})

\* A new session gets the model picked, or the REPL's.
CreateSession(s) ==
    /\ Running(running) /\ bindings[s] = Unset
    /\ \E r \in IF running.flags.tui THEN Offered
                                         ELSE {running.model} :
          bindings' = [bindings EXCEPT ![s] = r]
    /\ IF running.flags.tui THEN UNCHANGED running
       ELSE running' = [running EXCEPT !.at = "chatting", !.session = s]
    /\ UNCHANGED <<owner, project, environment>>

\* /model: saved only when the new model can be used.
SwitchModel(selector) ==
    LET r == Resolve(running.config, running.flags, selector) IN
    /\ running.at = "chatting" /\ r # Unset
    /\ IF Builds(r, environment)
       THEN /\ running' = [running EXCEPT !.model = r, !.key = KeySource(r, environment)]
            /\ bindings' = [bindings EXCEPT ![running.session] = r]
       ELSE /\ running' = IF running.flags.tui THEN [running EXCEPT !.at = "ready"] ELSE running
            /\ UNCHANGED bindings
    /\ UNCHANGED <<owner, project, environment>>

\* Saving a conversation saves the model it is held with.
SaveSession ==
    /\ running.at = "chatting"
    /\ bindings' = [bindings EXCEPT ![running.session] = running.model]
    /\ UNCHANGED <<owner, project, environment, running>>

ProcessEnds ==
    /\ running.at # "stopped" /\ running' = Stopped
    /\ UNCHANGED <<owner, project, environment, bindings>>

SettingsNext ==
    \/ \E d \in Documents : OwnerEdits(d)
    \/ \E a \in Additions, force \in BOOLEAN : ConfigInit(a, force)
    \/ \E f \in Flags : Launch(f)
    \/ \E s \in Sessions : OpenSession(s) \/ CreateSession(s)
    \/ \E m \in DOMAIN Slug : SwitchModel(m)
    \/ SaveSession \/ ProcessEnds

SettingsSpec == SettingsInit /\ [][SettingsNext]_settingsVars

-----------------------------------------------------------------------------

\* Nothing that d refuses or asks about happens unasked with c.  An ask rule that c adds
\* keeps to that in every mode.  It does not only tighten, as config.rs:1024 says: in
\* plan mode it makes a question of what the mode refuses (permissions.rs:802).
NoMoreUnasked(c, d) ==
    /\ Rank(PermissionModes, c.mode) <= Rank(PermissionModes, d.mode)
    /\ Rank(NativePolicies, c.native) <= Rank(NativePolicies, d.native)
    /\ Rank(BashPolicies, c.bash) <= Rank(BashPolicies, d.bash)
    /\ c.allow \subseteq d.allow /\ d.deny \subseteq c.deny /\ d.ask \subseteq c.ask
    /\ d.strip => c.strip
    /\ c.generated = d.generated

\* The providers, their places and keys are those of d, and of d's profiles one is the
\* default.  Without profiles c may name any model, of d's provider (config.rs:953).
SameProviders(c, d) ==
    /\ c.providers = d.providers /\ c.profiles = d.profiles
    /\ c.url = d.url /\ c.urlName = d.urlName /\ c.key = d.key /\ c.urlKey = d.urlKey
    /\ DOMAIN d.profiles # {} =>
          c.model = d.model /\ c.default \in {d.default} \union DOMAIN d.profiles

SameModel(r, q) == r.kind = q.kind /\ r.model = q.model /\ r.url = q.url /\ r.key = q.key

NoFlags == [f \in {"trust", "mode", "native", "bash", "model", "url", "protocol", "tui"} |->
              IF f \in {"trust", "tui"} THEN FALSE ELSE Unset]

Launches == ~Running(running) /\ Running(running')

\* A project that is not trusted lets nothing happen unasked that its owner has asked
\* about or refused, runs no command, and has its models asked of the owner's providers.
\* (A mode of the command line is its user's own.)
LoosensNothing ==
    LET c == running'.config
        d == Read(owner)
    IN  Launches /\ ~running'.trusted =>
            /\ NoMoreUnasked([c EXCEPT !.mode = IF running'.flags.mode = Unset THEN @ ELSE "plan"],
                             d)
            /\ running'.servers = d.servers
            /\ SameProviders(c, d)

\* The same model, of the provider of the same name, which is of the same kind.  Of
\* another kind may be the provider of a session without a profile, which is whatever
\* the owner's file has now (resolve_legacy_model), and that of a process whose command
\* line says the protocol.
Continues(r, flags, b) ==
    /\ r.model = b.model /\ r.provider = b.provider
    /\ r.kind = b.kind \/ IsLegacy(b) \/ flags.protocol # Unset

\* A session is continued with the model that it was saved with.
ResumesItsModel ==
    LET b == bindings[running'.session] IN
    Running(running) /\ running'.at = "chatting" /\ running'.session \in Sessions
        /\ bindings' = bindings /\ b # Unset
      => Continues(running'.model, running'.flags, b)

\* "A typo or unavailable key must not strand an otherwise usable saved session"
\* (tui/mod.rs): what a process saves, it can open.  Two cases are exempt, where it
\* cannot: a process whose protocol was given on the command line, and a profile called
\* legacy:<its model> of a provider called legacy, which no check refuses and which is
\* taken for a session without a profile.
SavedReopens ==
    LET c == running.config IN
    \A s \in Sessions :
        LET b == bindings'[s] IN
        Running(running) /\ b # bindings[s] /\ running.flags.protocol = Unset
            /\ ~(IsLegacy(b) /\ Legacy \in DOMAIN c.providers)
          => ResolveBinding(c, running.flags, b) = b

\* config init adds what was asked for, to what can be chosen already.  (Of profiles
\* with no default, the one that is added becomes it.)
InitKeeps ==
    \A a \in Additions :
        LET before == {r \in Selectable(Read(owner), NoFlags) : r # Unset}
            after == Selectable(Read(owner'), NoFlags)
        IN  owner' # owner /\ owner # Unset /\ ConfigInit(a, FALSE) =>
                /\ owner.model # Unset \/ DOMAIN owner.profiles # {} =>
                      /\ \A r \in before : \E q \in after \ {Unset} : SameModel(r, q)
                      /\ owner.default # Unset \/ DOMAIN owner.profiles = {} =>
                         \A r \in Defaults(Read(owner), NoFlags) \ {Unset} :
                            \E q \in Defaults(Read(owner'), NoFlags) \ {Unset} : SameModel(r, q)
                /\ \E q \in after \ {Unset} :
                      /\ a.model = Unset \/ q.model = a.model
                      /\ q.kind = Builtins[Name(<<a.provider>>)].kind
                      /\ q.url \in {Unset, Builtins[Name(<<a.provider>>)].host}

\* When doctor finds nothing, every model that can be chosen can be used.  (Asked
\* when the full-screen program starts, which builds no model and is the first
\* to find out.)  Doctor does not ask whether a provider that --protocol makes one with a
\* URL has any: that case is exempt, and there the models fail as they are built.
DoctorIsRight ==
    Launches /\ running'.flags.tui => \A f \in Flags :
        LET c == Loaded(owner, project, f) IN
        Malformed \notin Rules(c) /\ Healthy(c, f, environment)
        /\ (f.protocol \in {Unset, "anthropic"} \/ f.url # Unset)
          => \A r \in Selectable(c, f) : Builds(r, environment)

\* The owner's word counts, not the checkout's, and it keeps counting when the
\* configuration or a session outlives what it was written for (config.rs,
\* config/trust.rs, onboarding.rs, tui/mod.rs).
OwnersWordStands ==
    [][LoosensNothing /\ ResumesItsModel /\ SavedReopens /\ InitKeeps /\ DoctorIsRight
      ]_settingsVars
=============================================================================
