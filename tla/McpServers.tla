----------------------------- MODULE McpServers -----------------------------
(***************************************************************************)
(* The registry of tools (tools/mod.rs) and the servers whose tools are in *)
(* it (tools/mcp.rs, mcp_manage.rs, bootstrap.rs).  Servers are connected  *)
(* when the program starts, and loaded and unloaded while a session lasts, *)
(* by the owner with /mcp and by the model with the tool McpManage; the    *)
(* model also writes the project's list of servers.  What depends on the   *)
(* tools - what was granted in the session, the provider's cursor - is     *)
(* dropped when they change (query.rs).                                    *)
(***************************************************************************)
EXTENDS Naturals, FiniteSets

CONSTANTS
    Owned,          \* servers of the owner's configuration: [name, env]
    Proposed,       \* servers that the project may list
    Offers,         \* what a server may list, by its name: sets of [tool, hint]
    Exposed,        \* the name of a server's tool in the registry
    MaxServers,     \* how many servers a session may load, 16
    MaxConnections  \* bound: how often servers are connected after the start

VARIABLES
    session,    \* "starting", "running" or "failed"
    registry,   \* the tools of servers
    listed,     \* the project's servers
    loading,    \* the load that waits for its server
    grants,    \* tools that are always allowed in this session
    remembered,     \* the tools that the provider's cursor was made with
    calling,    \* the call that waits for its server
    gone,     \* connections that are gone
    connections \* how many there were

serverVars ==
    <<session, registry, listed, loading, grants, remembered, calling, gone, connections>>

\* A connection to a server, in the sandbox or not.
Link(server, contained, nth) ==
    [server |-> server, contained |-> contained, nth |-> nth]

\* All tools that the server lists, or none: one that is not valid is an error.
\* (mutant) A hint is believed wherever the server runs.
ToolsOfBelieved(connection, offer) ==
    {[name |-> Exposed[<<connection.server, o.tool>>], readonly |-> o.hint,
      connection |-> connection, offer |-> offer] : o \in offer}

ToolsOf(connection, offer) ==
    {[name |-> Exposed[<<connection.server, o.tool>>],
      readonly |-> ~connection.contained /\ o.hint,
      connection |-> connection, offer |-> offer] : o \in offer}

ToolNames(tools) == {t.name : t \in tools}
Unique(tools) == \A t, u \in tools : t.name = u.name => t = u
Connected(tools) == {t.connection.server : t \in tools}

NoLoad == [server |-> "", contained |-> FALSE, by |-> "nobody"]
Answer(out) == [tool |-> {}, out |-> out]

ServersInit ==
    /\ session = "starting" /\ registry = {} /\ loading = NoLoad /\ grants = {}
    /\ remembered = {} /\ calling = Answer("") /\ gone = {} /\ connections = 0
    /\ listed \in SUBSET Proposed

-----------------------------------------------------------------------------

\* connect_mcp_tools: the owner's servers, and the project's in the sandbox, unless
\* they want an environment.
AtStart ==
    [server : {s.name : s \in Owned}, contained : {FALSE}] \union
    [server : {s.name : s \in {l \in listed : ~l.env}}, contained : {TRUE}]

\* All servers at once; one that fails or is too slow is left out, and the program
\* ends if two tools have one name.
SessionStarts ==
    /\ session = "starting"
    /\ \E up \in SUBSET AtStart :
          \E offers \in [up -> UNION {Offers[u.server] : u \in up}] :
              LET tools == UNION {ToolsOf(Link(u.server, u.contained, 0), offers[u]) : u \in up}
              IN  /\ \A u \in up : offers[u] \in Offers[u.server]
                  /\ registry' = IF Unique(tools) THEN tools ELSE {}
                  /\ session' = IF Unique(tools) THEN "running" ELSE "failed"
    /\ UNCHANGED <<listed, loading, grants, remembered, calling, gone, connections>>

Ready == session = "running" /\ loading = NoLoad /\ calling.out # "waits"

\* refresh_mcp_context: what was made with other tools is dropped.
ToolsChange(tools) ==
    /\ registry' = tools /\ grants' = {} /\ remembered' = {}
    /\ UNCHANGED <<session, listed, calling, gone>>

\* live_mcp_config: the owner's servers as they were at the start, the project's
\* as they are now, and one of the name.
Configured(name) ==
    {[server |-> s, project |-> FALSE] : s \in {o \in Owned : o.name = name}} \union
    {[server |-> s, project |-> TRUE] : s \in {l \in listed : l.name = name}}

\* What the model loads, and what the project lists, is contained, and is refused
\* if it wants an environment.
LoadsServer(name, by) ==
    /\ Ready /\ connections < MaxConnections
    /\ name \notin Connected(registry) /\ Cardinality(Connected(registry)) < MaxServers
    /\ Cardinality(Configured(name)) = 1
    /\ \E c \in Configured(name) :
          /\ (by = "model" \/ c.project) => ~c.server.env
          /\ loading' = [server |-> name, contained |-> by = "model" \/ c.project, by |-> by]
    /\ UNCHANGED <<session, registry, listed, grants, remembered, calling, gone, connections>>

\* The server answers with its tools.
LoadEnds(offer) ==
    /\ loading # NoLoad /\ offer \in Offers[loading.server] /\ connections' = connections + 1
    /\ LET tools == ToolsOf(Link(loading.server, loading.contained, connections'), offer) IN
       IF tools # {} /\ Unique(registry \union tools)
       THEN ToolsChange(registry \union tools)
       ELSE UNCHANGED <<session, registry, listed, grants, remembered, calling, gone>>
    /\ loading' = NoLoad

\* It does not start, is too slow, or lists what is not valid; or the user
\* interrupts the turn in which the model loads it.
LoadFails ==
    /\ loading # NoLoad /\ loading' = NoLoad /\ connections' = connections + 1
    /\ UNCHANGED <<session, registry, listed, grants, remembered, calling, gone>>

Unloads(name) ==
    /\ Ready /\ name \in Connected(registry)
    /\ ToolsChange({t \in registry : t.connection.server # name})
    /\ UNCHANGED <<loading, connections>>

\* The model writes .mcp.json, also with a command while a server is loaded.
ProjectChanges ==
    /\ session = "running" /\ listed' \in SUBSET Proposed /\ listed' # listed
    /\ UNCHANGED <<session, registry, loading, grants, remembered, calling, gone, connections>>

-----------------------------------------------------------------------------

\* "Always" at a prompt is for the tool that asked; the model answers, and the
\* provider remembers what it was asked with.
Grants(tool) ==
    /\ Ready /\ tool \in registry /\ ~tool.readonly /\ grants' = grants \union {tool}
    /\ UNCHANGED <<session, registry, listed, loading, remembered, calling, gone, connections>>

ModelAnswers ==
    /\ Ready /\ remembered' = registry
    /\ UNCHANGED <<session, registry, listed, loading, grants, calling, gone, connections>>

\* A call: the tool that has the name, or an error that lists the names.
MayCall(tool) == tool.readonly \/ tool.name \in ToolNames(grants)

CallsTool(tool) ==
    /\ Ready /\ tool \in registry /\ MayCall(tool)
    /\ calling' = IF tool.connection \in gone THEN Answer("error")
                  ELSE [tool |-> {tool}, out |-> "waits"]
    /\ UNCHANGED <<session, registry, listed, loading, grants, remembered, gone, connections>>

\* The answer, or the user or the time ends the wait: the server is told, and stays.
CallIsOver(out) ==
    /\ calling.out = "waits" /\ calling' = Answer(out)
    /\ UNCHANGED <<session, registry, listed, loading, grants, remembered, gone, connections>>

ConnectionBreaks(tool) ==
    /\ session = "running" /\ tool \in registry /\ gone = {} /\ gone' = gone \union {tool.connection}
    /\ calling' = IF calling.out = "waits" /\ \A t \in calling.tool : t.connection = tool.connection
                  THEN Answer("error") ELSE calling
    /\ UNCHANGED <<session, registry, listed, loading, grants, remembered, connections>>

KnownServers == {s.name : s \in Owned \union Proposed}

ServersNext ==
    \/ SessionStarts
    \/ (\E name \in KnownServers : \/ \E by \in {"owner", "model"} : LoadsServer(name, by)
                            \/ Unloads(name)
                            \/ \E offer \in Offers[name] : LoadEnds(offer))
    \/ LoadFails \/ ProjectChanges \/ ModelAnswers
    \/ (\E tool \in registry : Grants(tool) \/ CallsTool(tool) \/ ConnectionBreaks(tool))
    \/ (\E out \in {"answered", "given up"} : CallIsOver(out))

ServersSpec == ServersInit /\ [][ServersNext]_serverVars

-----------------------------------------------------------------------------

\* A name is one tool; of a connection all tools are there or none, whatever load
\* failed or was dropped on the way.
RegistryIsWhole ==
    /\ Unique(registry)
    /\ \A t \in registry :
          {u \in registry : u.connection = t.connection} = ToolsOf(t.connection, t.offer)
    /\ calling.out = "waits" => calling.tool \subseteq registry

\* A permission given in this session is for the tool that is there: not for
\* another one that a server loaded later exposes under its name.
GrantsAreForTheTool == grants \subseteq registry /\ remembered \in {{}, registry}

\* Only a server that the owner wrote down, and that the model did not load, is
\* believed when it says that a tool only reads.
OnlyOwnersAreBelieved ==
    \A t \in registry : t.readonly =>
        ~t.connection.contained /\ t.connection.server \in {s.name : s \in Owned}
=============================================================================
