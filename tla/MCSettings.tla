---------------------------- MODULE MCSettings ----------------------------
EXTENDS Settings

Only(x) == Name(<<x>>)

\* A local model at home, and one called hosted.
TwoProfiles ==
    (Only("local") :> Profile(Only("home"), "llama", Unset)) @@
    (Only("hosted") :> Profile(Only("openrouter"), "anthropic/sonnet", Unset))

\* A name that a provider may have, and that stands for something else.
OddProfile == Name(<<"legacy", "sonnet">>) :> Profile(Legacy, "sonnet", Unset)

Reached(kind, url, key) == Provider(kind, url, Unset, key, Unset)

\* A file of before there were profiles; two profiles where the provider called
\* openrouter is somewhere else; the same names with other meanings and an odd one, trusted.
MCDocuments ==
    {[EmptyDocument EXCEPT
        !.model = "anthropic/sonnet", !.url = "openrouter", !.urlName = <<"openrouter">>,
        !.urlKey = "literal"],
     [EmptyDocument EXCEPT
        !.mode = "accept-edits", !.ask = {"ask"},
        !.providers = (Only("home") :> Reached("openai", "elsewhere", Unset)) @@
                      (Only("openrouter") :> Reached("openai", "elsewhere", Unset)),
        !.profiles = TwoProfiles, !.default = Only("local")],
     [EmptyDocument EXCEPT
        !.mode = "bypass", !.bash = "unrestricted", !.strip = FALSE, !.trusted = TRUE,
        !.servers = {"own"},
        !.providers = (Only("home") :> Reached("anthropic", "elsewhere", "command")) @@
                      (Only("openrouter") :> Reached("openai", "openrouter", Unset)) @@
                      (Legacy :> Reached("anthropic", "elsewhere", Unset)),
        !.profiles = TwoProfiles @@ OddProfile, !.default = Only("hosted")]}

NoProject ==
    [f \in {"mode", "native", "bash", "strip", "generated", "model"} |-> Unset] @@
    [f \in {"deny", "ask", "allow", "servers"} |-> {}]

\* One that asks for everything, one that tightens and asks, one that does not parse.
MCProjectFiles ==
    {[NoProject EXCEPT
        !.mode = "auto", !.native = "unrestricted", !.bash = "unrestricted", !.strip = FALSE,
        !.generated = "elsewhere", !.allow = {"all"}, !.model = "hosted", !.servers = {"theirs"}],
     [NoProject EXCEPT
        !.mode = "plan", !.native = "nonsense", !.bash = "workspace_write",
        !.deny = {"deny"}, !.ask = {"theirs"}, !.strip = TRUE, !.model = "llama"],
     [NoProject EXCEPT !.mode = "plan", !.ask = {Malformed}]}

MCFlags ==
    {NoFlags, [NoFlags EXCEPT !.tui = TRUE],
     [NoFlags EXCEPT !.trust = TRUE, !.native = "unrestricted", !.model = "llama"],
     [NoFlags EXCEPT !.mode = "auto", !.bash = "unrestricted", !.protocol = "openai"],
     [NoFlags EXCEPT !.tui = TRUE, !.protocol = "anthropic", !.url = "elsewhere"]}

MCAdditions ==
    {[provider |-> "openrouter", model |-> m] : m \in {Unset, "anthropic-sonnet"}}

\* Two models whose names are the same in a profile's name.
MCSlug ==
    [m \in {"sonnet", "llama", "anthropic-sonnet"} |-> m] @@
    ("anthropic/sonnet" :> "anthropic-sonnet")

\* A variable with a key, a saved key, and a command that gives none.
MCEnvironments ==
    {[set |-> {"ANTHROPIC_API_KEY"}, saved |-> {Only("openrouter")}, command |-> FALSE]}
=============================================================================
