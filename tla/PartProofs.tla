----------------------------- MODULE PartProofs -----------------------------
(***************************************************************************)
(* Theorems about parts that run beside the turns, each for any values of  *)
(* its constants:                                                          *)
(*   CommandSandbox: whatever the environment holds, whatever the owner's  *)
(*     file says and however often the sandbox is built again;             *)
(*   McpServers: what is granted, and who is believed, for any servers,    *)
(*     any lists of tools and any way of exposing their names, and that    *)
(*     the tools of a connection come and go together;                     *)
(*   TerminalGuard: the terminal is given back, and giving it back never   *)
(*     panics, for any escapes and any drawing;                            *)
(*   Permissions: nothing runs that was not agreed to;                     *)
(*   Settings: what a project may change of its owner's settings, and what *)
(*     a session that is opened again runs on, for any documents;          *)
(*   ChatTurn: what the prompt on the screen asks about;                   *)
(*   WebFetch: what is connected to, for any hosts and redirects;          *)
(*   HomeScreen: what a deletion deletes and what Enter would choose,      *)
(*     whatever other processes do to the sessions;                        *)
(*   InputLine: the microphone, and leaving by the keys;                   *)
(*   FileTools: what a call that did not go through has changed.           *)
(***************************************************************************)
EXTENDS CommandSandbox, McpServers, TerminalGuard, Permissions, Settings, ChatTurn,
        WebFetch, HomeScreen, InputLine, FileTools, FiniteSetTheorems,
        SequenceTheorems, WellFoundedInduction, TLAPS


-----------------------------------------------------------------------------
(* CommandSandbox                                                          *)

InBox == {"command", "server"}

\* The policy of the children is the one of the file, or there is none yet.
PolicyIsTheOwners ==
    childPolicy # NoPolicy =>
        childPolicy = [extra |-> {Folded[n] : n \in configuration.named \ {BlankName}},
                       strip |-> configuration.strip]

\* A sandbox that is built is one that the owner's file allows.
BoxIsTheOwners ==
    /\ box \in {"", "workspace_write", "unrestricted"}
    /\ box # "" => childPolicy # NoPolicy
    /\ box = "unrestricted" => configuration.bash # "workspace_write"
    /\ box = "workspace_write" => configuration.bash # "unrestricted"

\* The helper is started for what is to be contained, with an environment that is
\* clean already.
HelperIsForTheBox ==
    child.stage = "helper" =>
        child.kind \in InBox /\ child.added = {} /\ configuration.bash # "unrestricted"

BoxInv ==
    /\ host \in Host /\ PolicyIsTheOwners /\ BoxIsTheOwners /\ HelperIsForTheBox
    /\ ChildrenAreClean /\ ContainedAsPromised

-----------------------------------------------------------------------------

\* What is left of an environment under the policy of the file is clean.
LEMMA SanitizedIsClean ==
    ASSUME PolicyIsTheOwners, childPolicy # NoPolicy,
           NEW v \in Sanitized(Variables, childPolicy)
    PROVE  /\ Folded[v] \notin Keyed
           /\ \A n \in configuration.named \ {BlankName} : Folded[n] # Folded[v]
           /\ configuration.strip => Folded[v] \notin Sockets
  BY DEF PolicyIsTheOwners, Sanitized, Sensitive

\* The invariant holds at the start.
LEMMA BoxStarts == BoxInit => BoxInv
  <1>1. SUFFICES ASSUME BoxInit PROVE BoxInv
    OBVIOUS
  <1>2. childPolicy = NoPolicy /\ box = "" /\ child = NoChild /\ host \in Host
    BY <1>1 DEF BoxInit
  <1>3. child.env = {} /\ child.stage = "" /\ child.kind = ""
    BY <1>2 DEF NoChild
  <1>4. PolicyIsTheOwners /\ BoxIsTheOwners
    BY <1>2 DEF PolicyIsTheOwners, BoxIsTheOwners
  <1>5. HelperIsForTheBox /\ ChildrenAreClean /\ ContainedAsPromised
    BY <1>3 DEF HelperIsForTheBox, ChildrenAreClean, ContainedAsPromised
  <1>. QED
    BY <1>2, <1>4, <1>5 DEF BoxInv

\* It is kept when the file is loaded.
LEMMA ConfiguresKeeps == BoxInv /\ Configures => BoxInv'
  <1>1. SUFFICES ASSUME BoxInv, Configures PROVE BoxInv'
    OBVIOUS
  <1>2. UNCHANGED <<configuration, host, box, child>> /\ childPolicy = NoPolicy
    BY <1>1 DEF Configures
  <1>3. PolicyIsTheOwners'
    BY <1>1, <1>2 DEF Configures, PolicyIsTheOwners
  <1>4. box = "" /\ BoxIsTheOwners'
    BY <1>1, <1>2 DEF BoxInv, BoxIsTheOwners
  <1>. QED
    BY <1>1, <1>2, <1>3, <1>4 DEF BoxInv, HelperIsForTheBox, ChildrenAreClean,
         ContainedAsPromised

\* It is kept when a sandbox is built, for the first engine or a later one.
LEMMA BuildsKeeps == BoxInv /\ BuildsSandbox => BoxInv'
  <1>1. SUFFICES ASSUME BoxInv, BuildsSandbox PROVE BoxInv'
    OBVIOUS
  <1>2. UNCHANGED <<configuration, childPolicy, host, child>> /\ childPolicy # NoPolicy
    BY <1>1 DEF BuildsSandbox
  <1>3. BoxIsTheOwners'
    BY <1>1, <1>2 DEF BuildsSandbox, Diagnosis, BoxIsTheOwners
  <1>. QED
    BY <1>1, <1>2, <1>3 DEF BoxInv, PolicyIsTheOwners, HelperIsForTheBox, ChildrenAreClean,
         ContainedAsPromised

\* It is kept when a process is started in the sandbox that was built.
LEMMA RunsInBoxKeeps ==
    ASSUME BoxInv, NEW kind \in InBox, RunsInBox(kind) PROVE BoxInv'
  <1>1. UNCHANGED <<configuration, childPolicy, host, box>> /\ childPolicy # NoPolicy
    BY DEF RunsInBox, BoxInv, BoxIsTheOwners
  <1>2. child'.env \subseteq Sanitized(Variables, childPolicy)
    BY DEF RunsInBox, Child
  <1>3. ChildrenAreClean'
    BY <1>1, <1>2, SanitizedIsClean DEF BoxInv, ChildrenAreClean
  <1>4. HelperIsForTheBox'
    BY <1>1 DEF RunsInBox, Child, BoxInv, BoxIsTheOwners, HelperIsForTheBox
  <1>5. ContainedAsPromised'
    BY <1>1 DEF RunsInBox, Child, BoxInv, BoxIsTheOwners, ContainedAsPromised
  <1>. QED
    BY <1>1, <1>3, <1>4, <1>5 DEF BoxInv, PolicyIsTheOwners, BoxIsTheOwners

\* It is kept when a hook, the voice or a server of the owner is started, whatever the
\* owner's file adds, and when claux starts a process of its own.
LEMMA RunsBesideKeeps ==
    ASSUME BoxInv, NEW added \in {{}, configuration.adds}, RunsBeside(added) PROVE BoxInv'
  <1>1. UNCHANGED <<configuration, childPolicy, host, box>> /\ childPolicy # NoPolicy
    BY DEF RunsBeside
  <1>2. /\ child'.kind = "beside" /\ child'.stage = "runs" /\ child'.added = added
        /\ child'.env = Sanitized(Variables, childPolicy) \union added
    BY DEF RunsBeside, Child
  <1>3. ChildrenAreClean'
    BY <1>1, <1>2, SanitizedIsClean DEF BoxInv, ChildrenAreClean
  <1>. QED
    BY <1>1, <1>2, <1>3 DEF BoxInv, PolicyIsTheOwners, BoxIsTheOwners,
         HelperIsForTheBox, ContainedAsPromised

LEMMA RunsItsOwnKeeps == BoxInv /\ RunsItsOwn => BoxInv'
  <1>1. SUFFICES ASSUME BoxInv, RunsItsOwn PROVE BoxInv'
    OBVIOUS
  <1>2. UNCHANGED <<configuration, childPolicy, host, box>>
    BY <1>1 DEF RunsItsOwn
  <1>3. child'.kind = "own" /\ child'.stage = "runs"
    BY <1>1 DEF RunsItsOwn, Child
  <1>. QED
    BY <1>1, <1>2, <1>3 DEF BoxInv, PolicyIsTheOwners, BoxIsTheOwners, HelperIsForTheBox,
         ChildrenAreClean, ContainedAsPromised

\* It is kept when the helper becomes the shell, or fails.
LEMMA HelperKeeps == BoxInv /\ HelperRuns => BoxInv'
  <1>1. SUFFICES ASSUME BoxInv, HelperRuns PROVE BoxInv'
    OBVIOUS
  <1>2. UNCHANGED <<configuration, childPolicy, host, box>> /\ child.stage = "helper"
    BY <1>1 DEF HelperRuns
  <1>3. /\ child'.env \subseteq child.env /\ child'.stage # "helper"
        /\ child'.kind = child.kind /\ child.added = {}
    BY <1>1 DEF HelperRuns, Child, Sanitized, BoxInv, HelperIsForTheBox
  <1>4. ChildrenAreClean'
    BY <1>1, <1>2, <1>3 DEF BoxInv, ChildrenAreClean
  <1>5. ContainedAsPromised'
    BY <1>1, <1>2 DEF HelperRuns, Child, BoxInv, HelperIsForTheBox, ContainedAsPromised
  <1>. QED
    BY <1>1, <1>2, <1>3, <1>4, <1>5 DEF BoxInv, PolicyIsTheOwners, BoxIsTheOwners,
         HelperIsForTheBox

\* It is kept when the host changes.
LEMMA HostKeeps ==
    ASSUME BoxInv, NEW part \in {"executable", "workspace"}, HostChanges(part)
    PROVE  BoxInv'
  <1>1. UNCHANGED <<configuration, childPolicy, box, child>>
    BY DEF HostChanges
  <1>2. host' \in Host /\ host'.linux = host.linux /\ host'.kernel = host.kernel
    BY DEF HostChanges, BoxInv, Host
  <1>. QED
    BY <1>1, <1>2 DEF BoxInv, PolicyIsTheOwners, BoxIsTheOwners, HelperIsForTheBox,
         ChildrenAreClean, ContainedAsPromised

\* Every step keeps the invariant.
LEMMA BoxSteps == BoxInv /\ [BoxNext]_boxVars => BoxInv'
  <1>1. SUFFICES ASSUME BoxInv, [BoxNext]_boxVars PROVE BoxInv'
    OBVIOUS
  <1>2. CASE UNCHANGED boxVars
    BY <1>1, <1>2 DEF boxVars, BoxInv, PolicyIsTheOwners, BoxIsTheOwners, HelperIsForTheBox,
         ChildrenAreClean, ContainedAsPromised
  <1>3. CASE BoxNext
    BY <1>1, <1>3, ConfiguresKeeps, BuildsKeeps, RunsInBoxKeeps, RunsBesideKeeps,
       RunsItsOwnKeeps, HelperKeeps, HostKeeps DEF BoxNext, InBox
  <1>. QED
    BY <1>1, <1>2, <1>3

-----------------------------------------------------------------------------

\* No command, server, hook or voice has a variable that is named like a key, that the
\* owner's file names, or, if the file says so, that leads to an agent, but for what
\* the file itself adds for a server (sanitize_command_environment).  This is no
\* promise about what claux starts for itself, as the worker of a task.
THEOREM EnvironmentsAreClean == BoxSpec => []ChildrenAreClean
  <1>1. BoxInv => ChildrenAreClean
    BY DEF BoxInv
  <1>. QED
    BY BoxStarts, BoxSteps, <1>1, PTL DEF BoxSpec

\* Where the owner asks for containment no command runs without it (diagnose and
\* run_helper), whatever is lost between the probe and the command.
THEOREM CommandsAreContained == BoxSpec => []ContainedAsPromised
  <1>1. BoxInv => ContainedAsPromised
    BY DEF BoxInv
  <1>. QED
    BY BoxStarts, BoxSteps, <1>1, PTL DEF BoxSpec

\* The helper never becomes a shell that is not contained (run_helper).
THEOREM HelpersContain == BoxSpec => [][HelperContains]_boxVars
  <1>1. BoxNext => HelperContains
    BY DEF BoxNext, HelperContains, Configures, BuildsSandbox, RunsInBox, RunsBeside,
           RunsItsOwn, HelperRuns, HostChanges, Child
  <1>. QED
    BY <1>1, PTL DEF BoxSpec

-----------------------------------------------------------------------------
(* McpServers                                                              *)

Owners == {s.name : s \in Owned}

\* Before the start nothing is granted or remembered.
NothingBefore == session = "starting" => grants = {} /\ remembered = {}

\* A load that is not contained is of a server that the owner wrote down.
LoadIsTheOwners ==
    loading # NoLoad /\ ~loading.contained => loading.server \in Owners

ServersInv ==
    /\ NothingBefore /\ LoadIsTheOwners
    /\ GrantsAreForTheTool /\ OnlyOwnersAreBelieved


-----------------------------------------------------------------------------

\* The tools of a connection are believed only if it is not contained.
LEMMA ToolsAreBelievedOutside ==
    ASSUME NEW connection, NEW offer, NEW t \in ToolsOf(connection, offer), t.readonly
    PROVE  t.connection = connection /\ ~connection.contained
  <1>1. PICK o \in offer :
          t = [name |-> Exposed[<<connection.server, o.tool>>],
               readonly |-> ~connection.contained /\ o.hint,
               connection |-> connection, offer |-> offer]
    BY DEF ToolsOf
  <1>2. t.connection = connection /\ t.readonly = (~connection.contained /\ o.hint)
    BY <1>1
  <1>. QED
    BY <1>2, Zenon

\* The invariant holds at the start.
LEMMA ServersStart == ServersInit => ServersInv
  BY DEF ServersInit, ServersInv, NothingBefore, LoadIsTheOwners, GrantsAreForTheTool,
         OnlyOwnersAreBelieved

\* It is kept when the servers are connected at the start.
LEMMA SessionStartsKeeps == ServersInv /\ SessionStarts => ServersInv'
  <1>1. SUFFICES ASSUME ServersInv, SessionStarts PROVE ServersInv'
    OBVIOUS
  <1>2. /\ session = "starting" /\ session' # "starting"
        /\ UNCHANGED <<loading, grants, remembered>>
    BY <1>1 DEF SessionStarts
  <1>3. grants' = {} /\ remembered' = {}
    BY <1>1, <1>2 DEF ServersInv, NothingBefore
  <1>4. OnlyOwnersAreBelieved'
    <2>0. PICK up \in SUBSET AtStart :
             \E offers \in [up -> UNION {Offers[u.server] : u \in up}] :
               registry' \subseteq
                 UNION {ToolsOf(Link(u.server, u.contained, 0), offers[u]) : u \in up}
      BY <1>1 DEF SessionStarts
    <2>1. PICK offers \in [up -> UNION {Offers[u.server] : u \in up}] :
             registry' \subseteq
               UNION {ToolsOf(Link(u.server, u.contained, 0), offers[u]) : u \in up}
      BY <2>0
    <2>2. SUFFICES ASSUME NEW t \in registry', t.readonly
                   PROVE  ~t.connection.contained /\ t.connection.server \in Owners
      BY DEF OnlyOwnersAreBelieved, Owners
    <2>3. PICK u \in up : t \in ToolsOf(Link(u.server, u.contained, 0), offers[u])
      BY <2>1, <2>2
    <2>4. /\ t.connection = Link(u.server, u.contained, 0)
          /\ ~Link(u.server, u.contained, 0).contained
      BY <2>2, <2>3, ToolsAreBelievedOutside
    <2>5. t.connection.server = u.server /\ t.connection.contained = u.contained /\ ~u.contained
      BY <2>4 DEF Link
    <2>6. u \in AtStart
      BY <2>0, <2>3
    <2>7. u.server \in Owners
      BY <2>5, <2>6 DEF AtStart, Owners
    <2>. QED
      BY <2>5, <2>7
  <1>. QED
    BY <1>1, <1>2, <1>3, <1>4 DEF ServersInv, NothingBefore, LoadIsTheOwners,
         GrantsAreForTheTool

\* It is kept when a load begins.
LEMMA LoadsKeeps ==
    ASSUME ServersInv, NEW name, NEW by, LoadsServer(name, by) PROVE ServersInv'
  <1>1. /\ UNCHANGED <<session, registry, grants, remembered>>
        /\ Cardinality(Configured(name)) = 1
    BY DEF LoadsServer
  <1>2. PICK c \in Configured(name) :
           loading' = [server |-> name, contained |-> by = "model" \/ c.project, by |-> by]
    BY DEF LoadsServer
  <1>3. LoadIsTheOwners'
    <2>1. SUFFICES ASSUME ~c.project PROVE name \in Owners
      BY <1>2 DEF LoadIsTheOwners
    <2>2. PICK s \in Owned : s.name = name
      BY <2>1 DEF Configured
    <2>. QED
      BY <2>2 DEF Owners
  <1>. QED
    BY <1>1, <1>3 DEF ServersInv, NothingBefore, GrantsAreForTheTool, OnlyOwnersAreBelieved

\* It is kept when a load ends, with tools or without.
LEMMA LoadEndsKeeps ==
    ASSUME ServersInv, NEW offer, LoadEnds(offer) PROVE ServersInv'
  <1> DEFINE connection == Link(loading.server, loading.contained, connections')
             tools == ToolsOf(connection, offer)
  <1>1. /\ loading # NoLoad /\ loading' = NoLoad /\ session' = session
        /\ \/ registry' = registry \union tools /\ grants' = {} /\ remembered' = {}
           \/ UNCHANGED <<registry, grants, remembered>>
    BY DEF LoadEnds, ToolsChange
  <1>2. ASSUME NEW t \in tools, t.readonly
        PROVE  ~t.connection.contained /\ t.connection.server \in Owners
    <2>1. t.connection = connection /\ ~connection.contained
      BY <1>2, ToolsAreBelievedOutside
    <2>2. connection.server = loading.server /\ ~loading.contained
      BY <2>1 DEF Link
    <2>. QED
      BY <1>1, <2>1, <2>2 DEF ServersInv, LoadIsTheOwners
  <1> HIDE DEF tools, connection
  <1>3. OnlyOwnersAreBelieved'
    BY <1>1, <1>2 DEF ServersInv, OnlyOwnersAreBelieved, Owners
  <1>4. GrantsAreForTheTool' /\ NothingBefore'
    BY <1>1 DEF ServersInv, GrantsAreForTheTool, NothingBefore
  <1>. QED
    BY <1>1, <1>3, <1>4 DEF ServersInv, LoadIsTheOwners

\* It is kept by what only takes tools away, or grants, or remembers.
LEMMA OthersKeep ==
    ASSUME ServersInv, registry' \subseteq registry, session = "starting" <=> session' = "starting",
           loading' \in {loading, NoLoad},
           GrantsAreForTheTool', session = "starting" => UNCHANGED <<grants, remembered>>
    PROVE  ServersInv'
  BY DEF ServersInv, NothingBefore, LoadIsTheOwners, OnlyOwnersAreBelieved

\* Every step keeps the invariant.
LEMMA ServersStep == ServersInv /\ [ServersNext]_serverVars => ServersInv'
  <1>1. SUFFICES ASSUME ServersInv, [ServersNext]_serverVars PROVE ServersInv'
    OBVIOUS
  <1>2. CASE \/ LoadFails \/ ProjectChanges \/ UNCHANGED serverVars
             \/ \E t \in registry : CallsTool(t) \/ ConnectionBreaks(t)
             \/ \E out \in {"answered", "given up"} : CallIsOver(out)
    <2>1. /\ UNCHANGED <<registry, session, grants, remembered>>
          /\ loading' \in {loading, NoLoad}
      BY <1>2 DEF LoadFails, ProjectChanges, serverVars, CallsTool, ConnectionBreaks, CallIsOver
    <2>. QED
      BY <1>1, <2>1, OthersKeep DEF ServersInv, GrantsAreForTheTool
  <1>3. ASSUME NEW name, Unloads(name) PROVE ServersInv'
    <2>1. /\ registry' \subseteq registry /\ session' = session /\ loading' = loading
          /\ session # "starting" /\ grants' = {} /\ remembered' = {}
      BY <1>3 DEF Unloads, ToolsChange, Ready
    <2>. QED
      BY <1>1, <2>1, OthersKeep DEF GrantsAreForTheTool
  <1>4. ASSUME NEW t \in registry, Grants(t) PROVE ServersInv'
    <2>1. /\ UNCHANGED <<registry, session, loading, remembered>> /\ session # "starting"
          /\ grants' = grants \union {t}
      BY <1>4 DEF Grants, Ready
    <2>. QED
      BY <1>1, <1>4, <2>1, OthersKeep DEF ServersInv, GrantsAreForTheTool
  <1>5. CASE ModelAnswers
    <2>1. /\ UNCHANGED <<registry, session, loading, grants>> /\ session # "starting"
          /\ remembered' = registry
      BY <1>5 DEF ModelAnswers, Ready
    <2>. QED
      BY <1>1, <2>1, OthersKeep DEF ServersInv, GrantsAreForTheTool
  <1>6. CASE SessionStarts
    BY <1>1, <1>6, SessionStartsKeeps
  <1>7. ASSUME NEW name, NEW by, LoadsServer(name, by) PROVE ServersInv'
    BY <1>1, <1>7, LoadsKeeps
  <1>8. ASSUME NEW offer, LoadEnds(offer) PROVE ServersInv'
    BY <1>1, <1>8, LoadEndsKeeps
  <1>. QED
    BY <1>1, <1>2, <1>3, <1>4, <1>5, <1>6, <1>7, <1>8 DEF ServersNext

-----------------------------------------------------------------------------

\* What was always allowed in this session, and what the provider's cursor was made
\* with, is of the tools that are registered now: a name that a later server takes
\* over brings no grant with it (refresh_mcp_context).
THEOREM GrantsFollowTheTool == ServersSpec => []GrantsAreForTheTool
  <1>1. ServersInv => GrantsAreForTheTool
    BY DEF ServersInv
  <1>. QED
    BY ServersStart, ServersStep, <1>1, PTL DEF ServersSpec

\* A tool counts as one that only reads on the word of a server that the owner wrote
\* down and that runs with the owner's rights, never on the word of one that the
\* project lists or the model loaded (McpTool::new).
THEOREM HintsAreTheOwners == ServersSpec => []OnlyOwnersAreBelieved
  <1>1. ServersInv => OnlyOwnersAreBelieved
    BY DEF ServersInv
  <1>. QED
    BY ServersStart, ServersStep, <1>1, PTL DEF ServersSpec

-----------------------------------------------------------------------------
(* TerminalGuard                                                           *)

\* While modes are set the cleanup is armed, and it knows them all.
Armed ==
    /\ term \subseteq TerminalModes
    /\ ~active => term = {}
    /\ stage \in {"entering", "creating", "drawing"} => active

\* What the destructor of the screen writes is not told of.
Closing == stage = "leaving" => closing

TerminalInv == Armed /\ Closing /\ TerminalIsReturned /\ CleanupNeverPanics

-----------------------------------------------------------------------------

\* The invariant holds before the screen is entered.
LEMMA TerminalStarts == TerminalInit => TerminalInv
  BY DEF TerminalInit, TerminalInv, Armed, Closing, TerminalIsReturned, CleanupNeverPanics

\* What a restore leaves set is what it was refused; when it is done with, nothing is.
LEMMA RestoresWhatItCan ==
    ASSUME Armed, Restores(TerminalModes)
    PROVE  /\ term' \subseteq TerminalModes
           /\ ~active' => term' = {}
           /\ term' \subseteq refused'
  <1>1. CASE ~active
    BY <1>1 DEF Armed, Restores
  <1>2. CASE active
    <2>1. PICK accepted \in SUBSET TerminalModes :
             /\ term' = term \ accepted /\ refused' = TerminalModes \ accepted
             /\ active' = (refused' # {})
      BY <1>2 DEF Restores
    <2>2. term' \subseteq refused' /\ refused' \subseteq TerminalModes
      BY <2>1 DEF Armed
    <2>3. ~active' => refused' = {}
      BY <2>1
    <2>. QED
      BY <2>2, <2>3
  <1>. QED
    BY <1>1, <1>2

\* It is kept while the screen is entered, whatever is refused.
LEMMA EntersKeeps == TerminalInv /\ (Arms \/ Enters \/ CreatesTerminal) => TerminalInv'
  <1>1. CASE TerminalInv /\ Arms
    BY <1>1 DEF Arms, TerminalInv, Armed, Closing, TerminalIsReturned, CleanupNeverPanics,
           TerminalModes
  <1>2. CASE TerminalInv /\ Enters
    <2>1. active /\ active' /\ stage' \in {"creating", "modes"} /\ UNCHANGED <<closing, refused>>
      BY <1>2 DEF Enters, TerminalInv, Armed
    <2>2. Escapes[1] \in TerminalModes
      BY TerminalAssumption DEF TerminalModes
    <2>3. term' \subseteq TerminalModes
      BY <1>2, <2>2 DEF Enters, TerminalInv, Armed, TerminalModes
    <2>. QED
      BY <2>1, <2>3 DEF TerminalInv, Armed, Closing, TerminalIsReturned, CleanupNeverPanics
  <1>3. CASE TerminalInv /\ CreatesTerminal
    BY <1>3 DEF CreatesTerminal, TerminalInv, Armed, Closing, TerminalIsReturned,
           CleanupNeverPanics
  <1>. QED
    BY <1>1, <1>2, <1>3

\* It is kept while the screen is used.
LEMMA UseKeeps == TerminalInv /\ (Draws \/ NoticesLoss \/ ScreenEnds) => TerminalInv'
  <1>1. CASE TerminalInv /\ Draws
    BY <1>1 DEF Draws, TerminalInv, Armed, Closing, TerminalIsReturned, CleanupNeverPanics,
           TerminalModes
  <1>2. CASE TerminalInv /\ (NoticesLoss \/ ScreenEnds)
    BY <1>2 DEF NoticesLoss, ScreenEnds, TerminalInv, Armed, Closing, TerminalIsReturned,
           CleanupNeverPanics
  <1>. QED
    BY <1>1, <1>2

\* It is kept by each part of the way out.
LEMMA LeavingKeeps ==
    TerminalInv /\ (RestoresExplicitly \/ Drops \/ DropsScreen \/ DropsModes) => TerminalInv'
  <1>1. CASE TerminalInv /\ RestoresExplicitly
    <2>1. Armed /\ Restores(TerminalModes) /\ stage' = "restored"
      BY <1>1 DEF TerminalInv, RestoresExplicitly
    <2>. QED
      BY <2>1, RestoresWhatItCan
         DEF TerminalInv, Armed, Closing, TerminalIsReturned, CleanupNeverPanics
  <1>2. CASE TerminalInv /\ Drops
    BY <1>2 DEF Drops, TerminalInv, Armed, Closing, TerminalIsReturned, CleanupNeverPanics
  <1>3. CASE TerminalInv /\ DropsScreen
    <2>1. closing /\ UNCHANGED <<active, closing, refused>> /\ term' \subseteq term
      BY <1>3 DEF DropsScreen, TerminalInv, Closing
    <2>2. stage' = "modes"
      BY <1>3, <2>1 DEF DropsScreen, Reported
    <2>. QED
      BY <1>3, <2>1, <2>2
         DEF TerminalInv, Armed, Closing, TerminalIsReturned, CleanupNeverPanics
  <1>4. CASE TerminalInv /\ DropsModes
    <2>1. Armed /\ Restores(TerminalModes) /\ stage' = "gone"
      BY <1>4 DEF TerminalInv, DropsModes
    <2>. QED
      BY <2>1, RestoresWhatItCan
         DEF TerminalInv, Armed, Closing, TerminalIsReturned, CleanupNeverPanics
  <1>. QED
    BY <1>1, <1>2, <1>3, <1>4

\* Every step keeps the invariant.
LEMMA TerminalSteps == TerminalInv /\ [TerminalNext]_terminalVars => TerminalInv'
  <1>1. CASE TerminalInv /\ (Disconnects \/ UNCHANGED terminalVars)
    BY <1>1 DEF Disconnects, terminalVars, TerminalInv, Armed, Closing, TerminalIsReturned,
           CleanupNeverPanics
  <1>. QED
    BY <1>1, EntersKeeps, UseKeeps, LeavingKeeps DEF TerminalNext

-----------------------------------------------------------------------------

\* When the screen is gone, by its end, an error or a panic, only what the terminal
\* refused to reset is still set (TerminalModes::restore and its drop).
THEOREM TerminalComesBack == TerminalSpec => []TerminalIsReturned
  <1>1. TerminalInv => TerminalIsReturned
    BY DEF TerminalInv
  <1>. QED
    BY TerminalStarts, TerminalSteps, <1>1, PTL DEF TerminalSpec

\* The destructor of the screen does not panic, though the terminal is gone
\* (TerminalGuard::drop and TerminalOutput).
THEOREM CleanupIsSilent == TerminalSpec => []CleanupNeverPanics
  <1>1. TerminalInv => CleanupNeverPanics
    BY DEF TerminalInv
  <1>. QED
    BY TerminalStarts, TerminalSteps, <1>1, PTL DEF TerminalSpec

-----------------------------------------------------------------------------
(* Permissions                                                             *)

\* A checker's grants stand for calls that the user always allows.
GrantsStand(e) ==
    /\ \A t \in checker[e].tools : \E g \in granted[e] : g.tool = t /\ t # "Bash"
    /\ \A s \in checker[e].commands : \E g \in granted[e] : g.tool = "Bash" /\ g.subject = s
    /\ \A f \in checker[e].families :
          f # NoFamily /\ \E g \in granted[e] : g.tool = "Bash" /\ Family(g) = f

\* What is decided is what the checker said, and nobody has changed it since.
Deciding ==
    phase \in {"hooks", "asking"} =>
        /\ call \in Calls
        /\ proposed = Check(checker[engine], call)
        /\ engine = "sub-agent" => \A h \in Hooks : answers[h] = "nothing"

\* The user is asked only for the main engine, and for what was not denied.
Asking ==
    phase = "asking" =>
        /\ engine = "main" /\ proposed # "deny" /\ \A h \in Hooks : answers[h] # "deny"

\* A sub-agent has nobody to allow it anything.
Grantless == granted["sub-agent"] = {}

\* A checker grants tools, commands and families of calls.
CheckerRecords ==
    [mode: Modes, previous: Modes \union {"none"}, tools: SUBSET {c.tool : c \in Calls},
     commands: SUBSET {c.subject : c \in Calls}, families: SUBSET {Family(c) : c \in Calls}]

PermissionsInv ==
    /\ policy \in Policies
    /\ checker \in [Engines -> CheckerRecords]
    /\ granted \in [Engines -> SUBSET Calls]
    /\ engine \in Engines
    /\ answers \in [Hooks -> Answers]
    /\ \A e \in Engines : GrantsStand(e)
    /\ Deciding /\ Asking /\ Grantless
    /\ NothingRunsUnasked

-----------------------------------------------------------------------------

\* Rules and mode let a call run, and no rule asks for a prompt.
Unprompted(m, c) ==
    /\ ~Matched(policy.ask, c)
    /\ \/ Documented(m, c) \/ HintedInPlan(m, c)
       \/ Matched(policy.allow, c) /\ (c.readonly \/ m # "plan")

\* What a mode lets run by itself is what the documentation says, and in plan mode
\* what a server's hint says.
LEMMA ModesGoByTheTable ==
    ASSUME NEW m \in Modes, NEW c, ByMode(m, c) = "allow"
    PROVE  Documented(m, c) \/ HintedInPlan(m, c)
  <1>1. CASE m = "bypass"
    BY <1>1 DEF Documented
  <1>2. CASE m = "plan"
    BY <1>2 DEF ByMode, Documented, HintedInPlan
  <1>3. CASE m = "accept-edits"
    BY <1>3 DEF ByMode, Documented
  <1>4. CASE m = "auto"
    BY <1>4 DEF ByMode, Documented
  <1>5. CASE m = "default"
    BY <1>5 DEF ByMode, Documented
  <1>. QED
    BY <1>1, <1>2, <1>3, <1>4, <1>5 DEF Modes

\* Why a checker allows a call, and what it does not deny in plan mode.
LEMMA CheckerHasAReason ==
    ASSUME NEW k \in CheckerRecords, NEW c
    PROVE  /\ Check(k, c) # "deny" =>
                /\ ~Matched(policy.deny, c)
                /\ k.mode = "plan" /\ ~c.readonly => Granted(k, c) \/ Matched(policy.ask, c)
           /\ Check(k, c) = "allow" => Granted(k, c) \/ Unprompted(k.mode, c)
  <1>1. CASE Matched(policy.deny, c)
    BY <1>1 DEF Check
  <1>2. CASE ~Matched(policy.deny, c) /\ Granted(k, c)
    BY <1>2
  <1>3. CASE ~Matched(policy.deny, c) /\ ~Granted(k, c) /\ Matched(policy.ask, c)
    <2>1. Check(k, c) = "ask"
      BY <1>3 DEF Check
    <2>. QED
      BY <1>3, <2>1
  <1>4. CASE ~Matched(policy.deny, c) /\ ~Granted(k, c) /\ ~Matched(policy.ask, c)
    <2>1. Check(k, c) = IF Matched(policy.allow, c) /\ (c.readonly \/ k.mode # "plan")
                        THEN "allow" ELSE ByMode(k.mode, c)
      BY <1>4 DEF Check
    <2>2. k.mode \in Modes
      BY DEF CheckerRecords
    <2>3. k.mode = "plan" /\ ~c.readonly => Check(k, c) = "deny"
      BY <2>1 DEF ByMode
    <2>. QED
      BY <1>4, <2>1, <2>2, <2>3, ModesGoByTheTable DEF Unprompted
  <1>. QED
    BY <1>1, <1>2, <1>3, <1>4

\* A grant is like a call that the user always allows.
LEMMA GrantsAreLikeCalls ==
    ASSUME NEW e \in Engines, NEW c, GrantsStand(e), Granted(checker[e], c)
    PROVE  LikeGranted(e, c)
  <1>1. CASE c.tool \in checker[e].tools
    BY <1>1 DEF GrantsStand, LikeGranted
  <1>2. CASE c.tool = "Bash" /\ c.subject \in checker[e].commands
    BY <1>2 DEF GrantsStand, LikeGranted
  <1>3. CASE c.tool = "Bash" /\ Family(c) # NoFamily /\ Family(c) \in checker[e].families
    BY <1>3 DEF GrantsStand, LikeGranted
  <1>. QED
    BY <1>1, <1>2, <1>3 DEF Granted

\* The most restrictive answer counts, and no answer leaves the checker's.
LEMMA VerdictsAreStrict ==
    /\ Verdict \in {"allow", "ask"} =>
          proposed # "deny" /\ \A h \in Hooks : answers[h] # "deny"
    /\ Verdict = "allow" =>
          /\ \A h \in Hooks : answers[h] # "ask"
          /\ proposed = "allow" \/ \E h \in Hooks : answers[h] = "allow"
  <1>. DEFINE said(answer) == \E h \in Hooks : answers[h] = answer
  <1>1. CASE proposed = "deny" \/ said("deny")
    <2>1. Verdict = "deny"
      BY <1>1 DEF Verdict
    <2>. QED
      BY <2>1
  <1>2. CASE proposed # "deny" /\ ~said("deny") /\ said("ask")
    <2>1. Verdict = "ask"
      BY <1>2 DEF Verdict
    <2>. QED
      BY <1>2, <2>1
  <1>3. CASE proposed # "deny" /\ ~said("deny") /\ ~said("ask") /\ said("allow")
    BY <1>3
  <1>4. CASE proposed # "deny" /\ ~said("deny") /\ ~said("ask") /\ ~said("allow")
    <2>1. Verdict = proposed
      BY <1>4 DEF Verdict
    <2>. QED
      BY <1>4, <2>1
  <1>. QED
    BY <1>1, <1>2, <1>3, <1>4

LEMMA PermissionsStart == PermissionsInit => PermissionsInv
  <1>. SUFFICES ASSUME PermissionsInit PROVE PermissionsInv
    OBVIOUS
  <1>1. policy \in Policies /\ policy.mode \in Modes
    BY PermissionsAssumption DEF PermissionsInit
  <1>2. Fresh(policy.mode) \in CheckerRecords
    BY <1>1 DEF Fresh, CheckerRecords
  <1>3. \A e \in Engines : checker[e] = Fresh(policy.mode) /\ granted[e] = {}
    BY DEF PermissionsInit
  <1>4. \A e \in Engines : GrantsStand(e)
    BY <1>3 DEF GrantsStand, Fresh
  <1>. QED
    BY <1>1, <1>2, <1>3, <1>4 DEF PermissionsInit, PermissionsInv, Engines, Answers, Deciding,
       Asking, Grantless, NothingRunsUnasked

\* Steps that decide nothing and leave the checkers alone.
LEMMA DecidingKeeps ==
    PermissionsInv /\ ((\E c \in Calls : Decide(c)) \/ (\E h \in Hooks : HookAnswers(h)) \/ Asks)
        => PermissionsInv'
  <1>. SUFFICES ASSUME PermissionsInv,
                       (\E c \in Calls : Decide(c)) \/ (\E h \in Hooks : HookAnswers(h)) \/ Asks
                PROVE  PermissionsInv'
    OBVIOUS
  <1>1. /\ UNCHANGED <<policy, checker, engine, granted, ran>>
        /\ phase' \in {"hooks", "asking"}
    BY DEF Decide, HookAnswers, Asks
  <1>2. answers' \in [Hooks -> Answers]
    BY DEF PermissionsInv, Decide, HookAnswers, Asks, Answers
  <1>3. Deciding'
    <2>1. CASE \E c \in Calls : Decide(c)
      BY <1>1, <2>1 DEF PermissionsInv, Decide, Deciding, Check, Matched, Granted, Matches,
                        Engines
    <2>2. CASE \E h \in Hooks : HookAnswers(h)
      BY <1>1, <2>2 DEF PermissionsInv, HookAnswers, Deciding, Check
    <2>3. CASE Asks
      BY <1>1, <2>3 DEF PermissionsInv, Asks, Answered, Deciding, Check
    <2>. QED
      BY <2>1, <2>2, <2>3
  <1>4. Asking'
    <2>1. CASE Asks
      BY <2>1, VerdictsAreStrict DEF PermissionsInv, Asks, Asking
    <2>2. CASE (\E c \in Calls : Decide(c)) \/ (\E h \in Hooks : HookAnswers(h))
      BY <2>2 DEF Decide, HookAnswers, Asking
    <2>. QED
      BY <2>1, <2>2
  <1>5. (\A e \in Engines : GrantsStand(e))' /\ Grantless' /\ NothingRunsUnasked'
    BY <1>1 DEF PermissionsInv, GrantsStand, Grantless, NothingRunsUnasked
  <1>. QED
    BY <1>1, <1>2, <1>3, <1>4, <1>5 DEF PermissionsInv

\* A call runs: rules and mode, a grant, a hook or the user let it.
LEMMA RunningKeeps ==
    PermissionsInv /\ (Allowed \/ UserAllows \/ UserAlwaysAllows) /\ policy' = policy
        => NothingRunsUnasked'
  <1>. SUFFICES ASSUME PermissionsInv, Allowed \/ UserAllows \/ UserAlwaysAllows,
                       policy' = policy
                PROVE  NothingRunsUnasked'
    OBVIOUS
  <1>. DEFINE hooks == {answers[h] : h \in Hooks}
              m == checker[engine].mode
  <1>1. /\ engine \in Engines /\ call \in Calls /\ checker[engine] \in CheckerRecords
        /\ proposed = Check(checker[engine], call) /\ GrantsStand(engine)
        /\ engine = "sub-agent" => \A h \in Hooks : answers[h] = "nothing"
    BY DEF PermissionsInv, Deciding, Allowed, Answered, UserAllows, UserAlwaysAllows
  <1>2. /\ ran'.call = call /\ ran'.engine = engine /\ ran'.mode = m /\ ran'.hooks = hooks
        /\ ran'.like = LikeGranted(engine, call)
        /\ UserAllows \/ UserAlwaysAllows => ran'.why = "user"
    BY DEF Allowed, UserAllows, UserAlwaysAllows, Runs
  <1>3. proposed # "deny" /\ \A h \in Hooks : answers[h] # "deny"
    BY VerdictsAreStrict DEF PermissionsInv, Allowed, UserAllows, UserAlwaysAllows, Asking
  <1>4. /\ ~Matched(policy.deny, call) /\ "deny" \notin hooks
        /\ m = "plan" /\ ~call.readonly => LikeGranted(engine, call) \/ Matched(policy.ask, call)
    BY <1>1, <1>3, CheckerHasAReason, GrantsAreLikeCalls
  <1>5. proposed = "allow" => LikeGranted(engine, call) \/ Unprompted(m, call)
    BY <1>1, CheckerHasAReason, GrantsAreLikeCalls
  <1>6. \/ UserAllows \/ UserAlwaysAllows
        \/ /\ "ask" \notin hooks
           /\ Unprompted(m, call) \/ LikeGranted(engine, call) \/ "allow" \in hooks
    <2>1. CASE Allowed
      <3>1. Verdict = "allow"
        BY <2>1 DEF Allowed
      <3>2. "ask" \notin hooks /\ (proposed = "allow" \/ "allow" \in hooks)
        BY <3>1, VerdictsAreStrict
      <3>. QED
        BY <1>5, <3>2
    <2>. QED
      BY <2>1
  <1>7. ASSUME engine = "sub-agent" PROVE Unprompted(m, call)
    <2>1. Allowed
      BY <1>7 DEF PermissionsInv, UserAllows, UserAlwaysAllows, Asking
    <2>2. proposed = "allow"
      <3>1. Verdict = "allow"
        BY <2>1 DEF Allowed
      <3>. QED
        BY <1>1, <1>7, <3>1, VerdictsAreStrict
    <2>3. ~LikeGranted("sub-agent", call)
      BY DEF PermissionsInv, Grantless, LikeGranted
    <2>. QED
      BY <1>5, <1>7, <2>2, <2>3
  <1>8. engine = "main" \/ engine = "sub-agent"
    BY <1>1 DEF Engines
  <1>. HIDE DEF hooks, m
  <1>. QED
    BY <1>2, <1>4, <1>6, <1>7, <1>8 DEF NothingRunsUnasked, Unprompted

\* "Always" is written down in the checker for this call and the ones like it.
LEMMA GrantingKeeps ==
    PermissionsInv /\ UserAlwaysAllows =>
        /\ checker' \in [Engines -> CheckerRecords]
        /\ granted' \in [Engines -> SUBSET Calls]
        /\ (\A e \in Engines : GrantsStand(e))'
        /\ Grantless'
  <1>. SUFFICES ASSUME PermissionsInv, UserAlwaysAllows
                PROVE  /\ checker' \in [Engines -> CheckerRecords]
                       /\ granted' \in [Engines -> SUBSET Calls]
                       /\ (\A e \in Engines : GrantsStand(e))'
                       /\ Grantless'
    OBVIOUS
  <1>1. /\ engine = "main" /\ call \in Calls /\ engine \in Engines
        /\ checker \in [Engines -> CheckerRecords] /\ granted \in [Engines -> SUBSET Calls]
        /\ checker' = [checker EXCEPT ![engine] = WithGrant(checker[engine], call)]
        /\ granted' = [granted EXCEPT ![engine] = granted[engine] \union {call}]
        /\ "sub-agent" \in Engines /\ GrantsStand(engine) /\ engine' = engine
    BY DEF PermissionsInv, Deciding, Asking, UserAlwaysAllows, Engines, Runs
  <1>. DEFINE k == checker[engine]
              q == WithGrant(k, call)
  <1>2. /\ checker'[engine] = q /\ granted'[engine] = granted[engine] \union {call}
        /\ \A e \in Engines \ {engine} : checker'[e] = checker[e] /\ granted'[e] = granted[e]
        /\ granted' \in [Engines -> SUBSET Calls]
    BY <1>1
  <1>3. ASSUME q \in CheckerRecords, GrantsStand(engine)'
        PROVE  /\ checker' \in [Engines -> CheckerRecords]
               /\ granted' \in [Engines -> SUBSET Calls]
               /\ (\A e \in Engines : GrantsStand(e))'
               /\ Grantless'
    <2>. HIDE DEF q
    <2>1. checker' \in [Engines -> CheckerRecords]
      BY <1>1, <1>3 DEF q
    <2>2. ASSUME NEW e \in Engines \ {engine} PROVE GrantsStand(e)'
      <3>1. GrantsStand(e)
        BY DEF PermissionsInv
      <3>. QED
        BY <1>2, <3>1 DEF GrantsStand
    <2>3. Grantless'
      BY <1>1, <1>2 DEF PermissionsInv, Grantless
    <2>. QED
      BY <1>1, <1>2, <1>3, <2>1, <2>2, <2>3
  <1>4. CASE call.tool # "Bash"
    <2>1. q = [k EXCEPT !.tools = k.tools \union {call.tool}]
      BY <1>4 DEF WithGrant
    <2>2. q \in CheckerRecords /\ q.tools = k.tools \union {call.tool}
          /\ q.commands = k.commands /\ q.families = k.families
      BY <1>1, <2>1 DEF CheckerRecords
    <2>3. GrantsStand(engine)'
      <3>. HIDE DEF q
      <3>. QED
        BY <1>1, <1>2, <1>4, <2>2 DEF GrantsStand
    <2>. QED
      BY <1>3, <2>2, <2>3
  <1>5. CASE call.tool = "Bash" /\ call.subject = NoSubject
    <2>1. q = k
      BY <1>5 DEF WithGrant
    <2>2. GrantsStand(engine)'
      BY <1>1, <1>2, <2>1 DEF GrantsStand
    <2>. QED
      BY <1>1, <1>3, <2>1, <2>2
  <1>6. CASE call.tool = "Bash" /\ call.subject # NoSubject /\ Family(call) = NoFamily
    <2>1. q = [k EXCEPT !.commands = k.commands \union {call.subject}]
      BY <1>6 DEF WithGrant
    <2>2. q \in CheckerRecords /\ q.commands = k.commands \union {call.subject}
          /\ q.tools = k.tools /\ q.families = k.families
      BY <1>1, <2>1 DEF CheckerRecords
    <2>3. GrantsStand(engine)'
      <3>. HIDE DEF q
      <3>. QED
        BY <1>1, <1>2, <1>6, <2>2 DEF GrantsStand
    <2>. QED
      BY <1>3, <2>2, <2>3
  <1>7. CASE call.tool = "Bash" /\ call.subject # NoSubject /\ Family(call) # NoFamily
    <2>1. q = [k EXCEPT !.families = k.families \union {Family(call)}]
      BY <1>7 DEF WithGrant
    <2>2. q \in CheckerRecords /\ q.families = k.families \union {Family(call)}
          /\ q.tools = k.tools /\ q.commands = k.commands
      BY <1>1, <2>1 DEF CheckerRecords
    <2>3. GrantsStand(engine)'
      <3>. HIDE DEF q
      <3>. QED
        BY <1>1, <1>2, <1>7, <2>2 DEF GrantsStand
    <2>. QED
      BY <1>3, <2>2, <2>3
  <1>. QED
    BY <1>4, <1>5, <1>6, <1>7

\* A call that runs or is dropped, and the sub-agent a call starts.
LEMMA CallsKeep ==
    PermissionsInv /\ (Allowed \/ UserAllows \/ UserAlwaysAllows \/ Denied \/ UserDenies
                       \/ AgentStarts \/ AgentEnds \/ CallEnds) => PermissionsInv'
  <1>1. ASSUME PermissionsInv, Allowed \/ UserAllows \/ UserAlwaysAllows
        PROVE  PermissionsInv'
    <2>1. /\ UNCHANGED <<policy, engine, answers>> /\ phase' = "running"
      BY <1>1 DEF Allowed, UserAllows, UserAlwaysAllows, Runs
    <2>2. NothingRunsUnasked'
      BY <1>1, <2>1, RunningKeeps
    <2>3. /\ checker' \in [Engines -> CheckerRecords]
          /\ granted' \in [Engines -> SUBSET Calls]
          /\ (\A e \in Engines : GrantsStand(e))'
          /\ Grantless'
      <3>1. CASE UserAlwaysAllows
        BY <1>1, <3>1, GrantingKeeps
      <3>2. CASE Allowed \/ UserAllows
        BY <1>1, <3>2 DEF Allowed, UserAllows, PermissionsInv, GrantsStand, Grantless
      <3>. QED
        BY <1>1, <3>1, <3>2
    <2>4. Deciding' /\ Asking'
      BY <2>1 DEF Deciding, Asking
    <2>. QED
      BY <1>1, <2>1, <2>2, <2>3, <2>4 DEF PermissionsInv
  <1>2. ASSUME PermissionsInv, Denied \/ UserDenies \/ AgentStarts \/ AgentEnds \/ CallEnds
        PROVE  PermissionsInv'
    <2>1. /\ policy' = policy /\ phase' = "idle"
          /\ answers' = [h \in Hooks |-> "nothing"]
          /\ engine' \in Engines
      BY <1>2 DEF Denied, UserDenies, AgentStarts, AgentEnds, CallEnds, Idle, PermissionsInv,
                  Engines
    <2>2. answers' \in [Hooks -> Answers]
      BY <2>1 DEF Answers
    <2>3. /\ checker' \in [Engines -> CheckerRecords]
          /\ granted' \in [Engines -> SUBSET Calls]
          /\ (\A e \in Engines : GrantsStand(e))'
          /\ Grantless'
      <3>1. CASE AgentStarts
        <4>1. /\ checker' = [checker EXCEPT !["sub-agent"] = Fresh(policy.mode)]
              /\ granted' = [granted EXCEPT !["sub-agent"] = {}]
              /\ "sub-agent" \in Engines
          BY <3>1 DEF AgentStarts, Engines
        <4>2. Fresh(policy.mode) \in CheckerRecords
          BY <1>2, PermissionsAssumption DEF PermissionsInv, Fresh, CheckerRecords
        <4>3. checker' \in [Engines -> CheckerRecords] /\ granted' \in [Engines -> SUBSET Calls]
          BY <1>2, <4>1, <4>2 DEF PermissionsInv
        <4>4. checker'["sub-agent"] = Fresh(policy.mode) /\ granted'["sub-agent"] = {}
          BY <1>2, <4>1 DEF PermissionsInv
        <4>5. GrantsStand("sub-agent")'
          BY <4>4 DEF GrantsStand, Fresh
        <4>6. ASSUME NEW e \in Engines, e # "sub-agent" PROVE GrantsStand(e)'
          <5>1. checker'[e] = checker[e] /\ granted'[e] = granted[e] /\ GrantsStand(e)
            BY <1>2, <4>1, <4>6 DEF PermissionsInv
          <5>. QED
            BY <5>1 DEF GrantsStand
        <4>. QED
          BY <4>3, <4>4, <4>5, <4>6 DEF Grantless
      <3>2. CASE Denied \/ UserDenies \/ AgentEnds \/ CallEnds
        BY <1>2, <3>2 DEF Denied, UserDenies, AgentEnds, CallEnds, PermissionsInv, GrantsStand,
                          Grantless
      <3>. QED
        BY <1>2, <3>1, <3>2
    <2>4. Deciding' /\ Asking' /\ NothingRunsUnasked'
      BY <2>1 DEF Deciding, Asking, NothingRunsUnasked
    <2>. QED
      BY <1>2, <2>1, <2>2, <2>3, <2>4 DEF PermissionsInv
  <1>. QED
    BY <1>1, <1>2

\* Between turns: toggling leaves the grants, a reset takes them all.
LEMMA BetweenTurnsKeeps == PermissionsInv /\ (ToggleAuto \/ ResetSession) => PermissionsInv'
  <1>. SUFFICES ASSUME PermissionsInv, ToggleAuto \/ ResetSession PROVE PermissionsInv'
    OBVIOUS
  <1>1. /\ phase = "idle" /\ UNCHANGED <<policy, engine, phase, answers, ran>>
        /\ "main" \in Engines /\ checker["main"] \in CheckerRecords
        /\ checker \in [Engines -> CheckerRecords] /\ granted \in [Engines -> SUBSET Calls]
    BY DEF ToggleAuto, ResetSession, PermissionsInv, Engines
  <1>. DEFINE k == checker["main"]
  <1>2. CASE ToggleAuto
    <2>. DEFINE q == Toggled(k)
    <2>1. /\ q \in CheckerRecords /\ q.tools = k.tools /\ q.commands = k.commands
          /\ q.families = k.families
      <3>1. CASE k.mode = "auto"
        BY <1>1, <3>1 DEF Toggled, CheckerRecords, Modes
      <3>2. CASE k.mode # "auto"
        BY <1>1, <3>2 DEF Toggled, CheckerRecords, Modes
      <3>. QED
        BY <3>1, <3>2
    <2>2. checker' = [checker EXCEPT !["main"] = q] /\ granted' = granted
      BY <1>2 DEF ToggleAuto
    <2>. HIDE DEF q
    <2>3. checker' \in [Engines -> CheckerRecords]
      BY <1>1, <2>1, <2>2
    <2>4. ASSUME NEW e \in Engines PROVE GrantsStand(e)'
      <3>1. GrantsStand(e)
        BY DEF PermissionsInv
      <3>2. /\ checker'[e].tools = checker[e].tools
            /\ checker'[e].commands = checker[e].commands
            /\ checker'[e].families = checker[e].families
        BY <1>1, <2>1, <2>2
      <3>. QED
        BY <2>2, <3>1, <3>2 DEF GrantsStand
    <2>. QED
      BY <1>1, <2>2, <2>3, <2>4 DEF PermissionsInv, Deciding, Asking, Grantless,
                                    NothingRunsUnasked
  <1>3. CASE ResetSession
    <2>. DEFINE q == WithoutGrants(k)
    <2>1. q \in CheckerRecords /\ q.tools = {} /\ q.commands = {} /\ q.families = {}
      BY <1>1 DEF WithoutGrants, CheckerRecords
    <2>2. checker' = [checker EXCEPT !["main"] = q] /\ granted' = [granted EXCEPT !["main"] = {}]
      BY <1>3 DEF ResetSession
    <2>. HIDE DEF q
    <2>3. checker' \in [Engines -> CheckerRecords] /\ granted' \in [Engines -> SUBSET Calls]
      BY <1>1, <2>1, <2>2
    <2>4. ASSUME NEW e \in Engines PROVE GrantsStand(e)'
      <3>1. CASE e = "main"
        <4>1. checker'[e] = q
          BY <1>1, <2>2, <3>1
        <4>. QED
          BY <2>1, <4>1 DEF GrantsStand
      <3>2. CASE e # "main"
        <4>1. checker'[e] = checker[e] /\ granted'[e] = granted[e] /\ GrantsStand(e)
          BY <1>1, <2>2, <3>2 DEF PermissionsInv
        <4>. QED
          BY <4>1 DEF GrantsStand
      <3>. QED
        BY <3>1, <3>2
    <2>5. Grantless'
      BY <1>1, <2>2 DEF PermissionsInv, Grantless, Engines
    <2>. QED
      BY <1>1, <2>2, <2>3, <2>4, <2>5 DEF PermissionsInv, Deciding, Asking, NothingRunsUnasked
  <1>. QED
    BY <1>2, <1>3

\* Every step keeps the invariant.
LEMMA PermissionsSteps ==
    PermissionsInv /\ [PermissionsNext]_permissionVars => PermissionsInv'
  <1>1. ASSUME PermissionsInv, UNCHANGED permissionVars PROVE PermissionsInv'
    <2>1. UNCHANGED <<policy, checker, engine, phase, call, proposed, answers, granted, ran>>
      BY <1>1 DEF permissionVars
    <2>2. (\A e \in Engines : GrantsStand(e))' /\ Grantless' /\ NothingRunsUnasked'
      <3>1. NothingRunsUnasked'
        BY <1>1, <2>1 DEF PermissionsInv, NothingRunsUnasked
      <3>. QED
        BY <1>1, <2>1, <3>1 DEF PermissionsInv, GrantsStand, Grantless
    <2>3. Deciding' /\ Asking'
      BY <1>1, <2>1 DEF PermissionsInv, Deciding, Asking, Check
    <2>. QED
      BY <1>1, <2>1, <2>2, <2>3 DEF PermissionsInv
  <1>. QED
    BY <1>1, DecidingKeeps, CallsKeep, BetweenTurnsKeeps DEF PermissionsNext

-----------------------------------------------------------------------------

\* A call runs only if no rule and no hook denied it, and because the user said
\* yes to it or to one like it, or nobody had asked for a prompt; a sub-agent's
\* only by rules and mode; and in plan mode what may change something runs only
\* for a grant or for a rule that asks (permissions.rs, tools/agent.rs): for any
\* calls, rules, hooks and families, and any history of modes, grants, resets.
THEOREM CallsAreAgreedTo == PermissionsSpec => []NothingRunsUnasked
  <1>1. PermissionsInv => NothingRunsUnasked
    BY DEF PermissionsInv
  <1>. QED
    BY PermissionsStart, PermissionsSteps, <1>1, PTL DEF PermissionsSpec

-----------------------------------------------------------------------------
(* McpServers: the registry and its calls                                  *)

\* The tools of a connection are all there, and connections are counted.
AllOrNone(tools) ==
    \A t \in tools :
        {u \in tools : u.connection = t.connection} = ToolsOf(t.connection, t.offer)

Counted == connections \in Nat /\ \A t \in registry : t.connection.nth \in 0..connections

\* A call waits only once the session runs.
CallsWaitWhileRunning == session = "starting" => calling.out # "waits"

WholeInv ==
    RegistryIsWhole /\ Counted /\ CallsWaitWhileRunning

LEMMA ToolsAreOfTheConnection ==
    ASSUME NEW connection, NEW offer, NEW t \in ToolsOf(connection, offer)
    PROVE  t.connection = connection /\ t.offer = offer
  <1>1. PICK o \in offer :
          t = [name |-> Exposed[<<connection.server, o.tool>>],
               readonly |-> ~connection.contained /\ o.hint,
               connection |-> connection, offer |-> offer]
    BY DEF ToolsOf
  <1>. QED
    BY <1>1

\* The registry may become that of other connections beside those it has.
LEMMA AddingIsWhole ==
    ASSUME NEW tools, AllOrNone(tools), NEW connection, NEW offer,
           \A t \in tools : t.connection # connection
    PROVE  AllOrNone(tools \union ToolsOf(connection, offer))
  <1> DEFINE more == ToolsOf(connection, offer)
  <1>1. \A t \in more : t.connection = connection /\ t.offer = offer
    BY ToolsAreOfTheConnection
  <1>2. SUFFICES ASSUME NEW t \in tools \union more
                 PROVE  {u \in tools \union more : u.connection = t.connection}
                            = ToolsOf(t.connection, t.offer)
    BY DEF AllOrNone
  <1>3. CASE t \in more
    <2>1. t.connection = connection /\ t.offer = offer
      BY <1>1, <1>3
    <2> HIDE DEF more
    <2>2. {u \in tools \union more : u.connection = t.connection} = more
      BY <1>1, <2>1
    <2>. QED
      BY <2>1, <2>2 DEF more
  <1>4. CASE t \in tools
    <2> HIDE DEF more
    <2>1. t.connection # connection
      BY <1>4
    <2>2. {u \in tools \union more : u.connection = t.connection}
             = {u \in tools : u.connection = t.connection}
      BY <1>1, <2>1
    <2>. QED
      BY <1>4, <2>2 DEF AllOrNone
  <1>. QED
    BY <1>2, <1>3, <1>4

LEMMA WholeStart == ServersInit => WholeInv
  <1>1. SUFFICES ASSUME ServersInit PROVE WholeInv
    OBVIOUS
  <1>2. registry = {} /\ connections = 0 /\ calling.out = ""
    BY <1>1 DEF ServersInit, Answer
  <1>. QED
    BY <1>2 DEF WholeInv, RegistryIsWhole, Counted, CallsWaitWhileRunning, Unique

LEMMA SessionStartsWhole == WholeInv /\ SessionStarts => WholeInv'
  <1>1. SUFFICES ASSUME WholeInv, SessionStarts PROVE WholeInv'
    OBVIOUS
  <1>2. PICK up \in SUBSET AtStart :
           \E offers \in [up -> UNION {Offers[u.server] : u \in up}] :
             LET tools == UNION {ToolsOf(Link(u.server, u.contained, 0), offers[u]) : u \in up}
             IN  registry' = IF Unique(tools) THEN tools ELSE {}
    BY <1>1 DEF SessionStarts
  <1>3. PICK offers \in [up -> UNION {Offers[u.server] : u \in up}] :
             LET tools == UNION {ToolsOf(Link(u.server, u.contained, 0), offers[u]) : u \in up}
             IN  registry' = IF Unique(tools) THEN tools ELSE {}
    BY <1>2
  <1> DEFINE link(u) == Link(u.server, u.contained, 0)
             tools == UNION {ToolsOf(link(u), offers[u]) : u \in up}
  <1>4. registry' = IF Unique(tools) THEN tools ELSE {}
    BY <1>3
  <1>5. \A u, v \in up : link(u) = link(v) => u = v
    <2>1. SUFFICES ASSUME NEW u \in up, NEW v \in up, link(u) = link(v) PROVE u = v
      OBVIOUS
    <2>2. u.server = v.server /\ u.contained = v.contained
      <3>1. link(u).server = u.server /\ link(u).contained = u.contained
        BY DEF Link
      <3>2. link(v).server = v.server /\ link(v).contained = v.contained
        BY DEF Link
      <3>. QED
        BY <2>1, <3>1, <3>2
    <2>3. \A w \in AtStart : w = [server |-> w.server, contained |-> w.contained]
      <3>1. ASSUME NEW S, NEW B, NEW w \in [server : S, contained : B]
            PROVE  w = [server |-> w.server, contained |-> w.contained]
        OBVIOUS
      <3>. QED
        BY <3>1 DEF AtStart
    <2>4. u \in AtStart /\ v \in AtStart
      BY <1>2
    <2>. QED
      BY <2>2, <2>3, <2>4
  <1>6. \A u \in up : \A t \in ToolsOf(link(u), offers[u]) :
           t.connection = link(u) /\ t.offer = offers[u]
    BY ToolsAreOfTheConnection
  <1>7. \A t \in tools : \E u \in up : t \in ToolsOf(link(u), offers[u])
    OBVIOUS
  <1>8. \A u \in up : ToolsOf(link(u), offers[u]) \subseteq tools
    OBVIOUS
  <1>9. \A u : link(u).nth = 0
    BY DEF Link
  <1> HIDE DEF tools, link
  <1>10. AllOrNone(tools)
    <2>1. SUFFICES ASSUME NEW t \in tools
                   PROVE  {w \in tools : w.connection = t.connection}
                              = ToolsOf(t.connection, t.offer)
      BY DEF AllOrNone
    <2>2. PICK u \in up : t \in ToolsOf(link(u), offers[u])
      BY <1>7
    <2>3. t.connection = link(u) /\ t.offer = offers[u]
      BY <1>6, <2>2
    <2>4. ASSUME NEW w \in tools, w.connection = link(u) PROVE w \in ToolsOf(link(u), offers[u])
      <3>1. PICK v \in up : w \in ToolsOf(link(v), offers[v])
        BY <1>7
      <3>2. link(v) = link(u)
        BY <1>6, <2>4, <3>1
      <3>. QED
        BY <1>5, <3>1, <3>2
    <2>5. {w \in tools : w.connection = link(u)} = ToolsOf(link(u), offers[u])
      BY <1>6, <1>8, <2>4
    <2>. QED
      BY <2>3, <2>5
  <1>11. \A t \in tools : t.connection.nth = 0
    BY <1>6, <1>7, <1>9
  <1>12. AllOrNone({}) /\ Unique({})
    BY DEF AllOrNone, Unique
  <1>13. Unique(registry') /\ AllOrNone(registry') /\ \A t \in registry' : t.connection.nth = 0
    BY <1>4, <1>10, <1>11, <1>12
  <1>14. session = "starting" /\ session' # "starting" /\ UNCHANGED <<calling, connections>>
    BY <1>1 DEF SessionStarts
  <1>15. calling'.out # "waits"
    BY <1>1, <1>14 DEF WholeInv, CallsWaitWhileRunning
  <1>16. Counted'
    BY <1>1, <1>13, <1>14 DEF WholeInv, Counted
  <1>17. RegistryIsWhole'
    BY <1>13, <1>15 DEF RegistryIsWhole, AllOrNone
  <1>. QED
    BY <1>14, <1>16, <1>17 DEF WholeInv, CallsWaitWhileRunning

LEMMA LoadEndsWhole ==
    ASSUME WholeInv, NEW offer, LoadEnds(offer) PROVE WholeInv'
  <1> DEFINE connection == Link(loading.server, loading.contained, connections')
             tools == ToolsOf(connection, offer)
  <1>1. /\ connections' = connections + 1 /\ session' = session /\ calling' = calling
        /\ \/ registry' = registry
           \/ registry' = registry \union tools /\ Unique(registry \union tools)
    BY DEF LoadEnds, ToolsChange
  <1>2. connections \in Nat /\ Unique(registry) /\ AllOrNone(registry)
    BY DEF WholeInv, Counted, RegistryIsWhole, AllOrNone
  <1>3. connection.nth = connections + 1
    BY <1>1 DEF Link
  <1>4. \A t \in tools : t.connection = connection
    BY ToolsAreOfTheConnection
  <1>5. \A t \in registry : t.connection.nth \in 0..connections
    BY DEF WholeInv, Counted
  <1> HIDE DEF connection
  <1>6. AllOrNone(registry \union tools)
    <2>1. \A t \in registry : t.connection # connection
      BY <1>2, <1>3, <1>5
    <2>. QED
      BY <1>2, <2>1, AddingIsWhole
  <1> HIDE DEF tools
  <1>7. Unique(registry') /\ AllOrNone(registry') /\ registry \subseteq registry'
    BY <1>1, <1>2, <1>6
  <1>8. Counted'
    BY <1>1, <1>2, <1>3, <1>4, <1>5 DEF Counted
  <1>9. RegistryIsWhole'
    BY <1>1, <1>7 DEF WholeInv, RegistryIsWhole, AllOrNone
  <1>. QED
    BY <1>1, <1>8, <1>9 DEF WholeInv, CallsWaitWhileRunning

LEMMA UnloadsWhole ==
    ASSUME WholeInv, NEW name, Unloads(name) PROVE WholeInv'
  <1>1. /\ session = "running" /\ session' = session /\ calling.out # "waits"
        /\ calling' = calling /\ connections' = connections
        /\ registry' = {t \in registry : t.connection.server # name}
    BY DEF Unloads, ToolsChange, Ready
  <1>2. Unique(registry')
    BY <1>1 DEF WholeInv, RegistryIsWhole, Unique
  <1>3. AllOrNone(registry')
    <2>1. SUFFICES ASSUME NEW t \in registry'
                   PROVE  {u \in registry' : u.connection = t.connection}
                              = ToolsOf(t.connection, t.offer)
      BY DEF AllOrNone
    <2>2. {u \in registry' : u.connection = t.connection}
             = {u \in registry : u.connection = t.connection}
      BY <1>1
    <2>. QED
      BY <1>1, <2>2 DEF WholeInv, RegistryIsWhole
  <1>. QED
    BY <1>1, <1>2, <1>3 DEF WholeInv, RegistryIsWhole, AllOrNone, Counted, CallsWaitWhileRunning

LEMMA WholeStep == WholeInv /\ [ServersNext]_serverVars => WholeInv'
  <1>1. SUFFICES ASSUME WholeInv, [ServersNext]_serverVars PROVE WholeInv'
    OBVIOUS
  <1>2. ASSUME registry' = registry, connections' \in {connections, connections + 1},
               session' = session,
               \/ calling' = calling \/ calling'.out # "waits"
               \/ session # "starting" /\ calling'.tool \subseteq registry
        PROVE  WholeInv'
    BY <1>1, <1>2 DEF WholeInv, RegistryIsWhole, Counted, CallsWaitWhileRunning
  <1>3. CASE \/ LoadFails \/ ProjectChanges \/ ModelAnswers \/ UNCHANGED serverVars
             \/ \E t \in registry : Grants(t)
             \/ \E name \in KnownServers : \E by \in {"owner", "model"} : LoadsServer(name, by)
    <2>1. UNCHANGED <<registry, session, calling>> /\ connections' \in {connections, connections + 1}
      BY <1>3 DEF LoadFails, ProjectChanges, ModelAnswers, serverVars, Grants, LoadsServer
    <2>. QED
      BY <1>2, <2>1
  <1>4. ASSUME NEW t \in registry, CallsTool(t) PROVE WholeInv'
    <2>1. /\ UNCHANGED <<registry, session, connections>> /\ session # "starting"
          /\ calling' \in {Answer("error"), [tool |-> {t}, out |-> "waits"]}
      BY <1>4 DEF CallsTool, Ready
    <2>. QED
      BY <1>2, <1>4, <2>1 DEF Answer
  <1>5. ASSUME NEW out \in {"answered", "given up"}, CallIsOver(out) PROVE WholeInv'
    <2>1. UNCHANGED <<registry, session, connections>> /\ calling' = Answer(out)
      BY <1>5 DEF CallIsOver
    <2>. QED
      BY <1>2, <2>1 DEF Answer
  <1>6. ASSUME NEW t \in registry, ConnectionBreaks(t) PROVE WholeInv'
    <2>1. UNCHANGED <<registry, session, connections>> /\ calling' \in {Answer("error"), calling}
      BY <1>6 DEF ConnectionBreaks
    <2>. QED
      BY <1>2, <2>1 DEF Answer
  <1>. QED
    BY <1>1, <1>3, <1>4, <1>5, <1>6, SessionStartsWhole, LoadEndsWhole, UnloadsWhole
    DEF ServersNext

\* However servers are loaded and unloaded, fail and break: a name is one tool, the
\* tools of a connection are all there or none, and the tool of a call that waits is
\* there (register_mcp_tools and unload of the registry).
THEOREM RegistriesAreWhole == ServersSpec => []RegistryIsWhole
  <1>1. WholeInv => RegistryIsWhole
    BY DEF WholeInv
  <1>. QED
    BY WholeStart, WholeStep, <1>1, PTL DEF ServersSpec

-----------------------------------------------------------------------------
(* WebFetch                                                                *)

FetchFields == {"step", "url", "hops", "pinned", "page", "at", "body", "cut", "out", "text"}

\* What is connected to was judged when it was looked up, and is kept until then.
PinnedIsPublic ==
    /\ DOMAIN fetch = FetchFields
    /\ fetch.step = "connect" => fetch.pinned \subseteq Public
    /\ asked \subseteq Public
    /\ fetch.hops \in 0..MaxRedirects

LEMMA FetchStart == FetchInit => PinnedIsPublic
  <1>1. SUFFICES ASSUME FetchInit PROVE PinnedIsPublic
    OBVIOUS
  <1>2. fetch = NoFetch /\ asked = {}
    BY <1>1 DEF FetchInit
  <1>3. DOMAIN NoFetch = FetchFields /\ NoFetch.step = "" /\ NoFetch.hops = 0
    BY DEF NoFetch, FetchFields
  <1>4. 0 \in 0..MaxRedirects
    BY FetchAssumption
  <1>. QED
    BY <1>2, <1>3, <1>4 DEF PinnedIsPublic

LEMMA FetchStep == PinnedIsPublic /\ [FetchNext]_fetchVars => PinnedIsPublic'
  <1>1. SUFFICES ASSUME PinnedIsPublic, [FetchNext]_fetchVars PROVE PinnedIsPublic'
    OBVIOUS
  <1>0. MaxRedirects \in Nat
    BY FetchAssumption
  <1>2. ASSUME NEW out, Over(out), asked' \subseteq Public PROVE PinnedIsPublic'
    <2>1. DOMAIN fetch' = FetchFields /\ fetch'.step = "over" /\ fetch'.hops = fetch.hops
      BY <1>1, <1>2 DEF Over, PinnedIsPublic, FetchFields
    <2>. QED
      BY <1>1, <1>2, <2>1 DEF PinnedIsPublic
  <1>3. ASSUME NEW url \in Urls, Fetches(url) PROVE PinnedIsPublic'
    <2>1. /\ DOMAIN fetch' = FetchFields /\ fetch'.step = "look up" /\ fetch'.hops = 0
          /\ asked' = {}
      BY <1>3 DEF Fetches, NoFetch, FetchFields
    <2>2. 0 \in 0..MaxRedirects /\ {} \subseteq Public
      BY <1>0
    <2>. QED
      BY <2>1, <2>2 DEF PinnedIsPublic
  <1>4. CASE FetchStops
    BY <1>1, <1>2, <1>4 DEF FetchStops, PinnedIsPublic
  <1>5. CASE LooksUp
    <2>1. CASE Judged(fetch.url, names)
      <3>1. names \subseteq Public
        BY <2>1 DEF Judged
      <3>2. /\ DOMAIN fetch' = FetchFields /\ fetch'.pinned = names /\ fetch'.hops = fetch.hops
            /\ asked' = asked
        BY <1>1, <1>5, <2>1 DEF LooksUp, PinnedIsPublic, FetchFields
      <3>. QED
        BY <1>1, <3>1, <3>2 DEF PinnedIsPublic
    <2>2. CASE ~Judged(fetch.url, names)
      BY <1>1, <1>2, <1>5, <2>2 DEF LooksUp, PinnedIsPublic
    <2>. QED
      BY <2>1, <2>2
  <1>6. ASSUME NEW address \in fetch.pinned, ConnectsTo(address) PROVE PinnedIsPublic'
    <2>1. asked' \subseteq Public
      BY <1>1, <1>6 DEF ConnectsTo, PinnedIsPublic
    <2>2. ASSUME NEW url, fetch.hops # MaxRedirects,
                 fetch' = [fetch EXCEPT !.step = "look up", !.url = url, !.hops = @ + 1]
          PROVE  PinnedIsPublic'
      <3>1. DOMAIN fetch' = FetchFields /\ fetch'.step = "look up" /\ fetch'.hops = fetch.hops + 1
        BY <1>1, <2>2 DEF PinnedIsPublic, FetchFields
      <3>. QED
        BY <1>0, <1>1, <2>1, <2>2, <3>1 DEF PinnedIsPublic
    <2>3. ASSUME NEW page, fetch' = [fetch EXCEPT !.step = "read", !.page = page]
          PROVE  PinnedIsPublic'
      <3>1. DOMAIN fetch' = FetchFields /\ fetch'.step = "read" /\ fetch'.hops = fetch.hops
        BY <1>1, <2>3 DEF PinnedIsPublic, FetchFields
      <3>. QED
        BY <1>1, <2>1, <3>1 DEF PinnedIsPublic
    <2>4. \/ Over("failed") \/ Over("too many")
          \/ \E url \in Urls : /\ fetch.hops # MaxRedirects
                               /\ fetch' = [fetch EXCEPT !.step = "look up", !.url = url,
                                                         !.hops = @ + 1]
          \/ \E page \in Pages : fetch' = [fetch EXCEPT !.step = "read", !.page = page]
      BY <1>6 DEF ConnectsTo
    <2>. QED
      BY <1>2, <2>1, <2>2, <2>3, <2>4
  <1>7. CASE ReadsChunk
    <2>1. fetch.step = "read" /\ asked' = asked
      BY <1>7 DEF ReadsChunk
    <2>2. PICK body, at :
             \/ Over("failed")
             \/ fetch' = [fetch EXCEPT !.body = body, !.cut = TRUE, !.at = at]
             \/ fetch' = [fetch EXCEPT !.body = body, !.at = at]
      BY <1>7 DEF ReadsChunk
    <2>3. CASE Over("failed")
      BY <1>1, <1>2, <2>1, <2>3 DEF PinnedIsPublic
    <2>4. CASE ~Over("failed")
      <3>1. DOMAIN fetch' = FetchFields /\ fetch'.step = "read" /\ fetch'.hops = fetch.hops
        BY <1>1, <2>1, <2>2, <2>4 DEF PinnedIsPublic, FetchFields
      <3>. QED
        BY <1>1, <2>1, <3>1 DEF PinnedIsPublic
    <2>. QED
      BY <2>3, <2>4
  <1>8. CASE ReadEnds
    <2>1. PICK cut, text : /\ fetch' = [fetch EXCEPT !.step = "over", !.out = "page", !.cut = cut,
                                                     !.text = text]
                           /\ asked' = asked
      BY <1>8 DEF ReadEnds
    <2>2. DOMAIN fetch' = FetchFields /\ fetch'.step = "over" /\ fetch'.hops = fetch.hops
      BY <1>1, <2>1 DEF PinnedIsPublic, FetchFields
    <2>. QED
      BY <1>1, <2>1, <2>2 DEF PinnedIsPublic
  <1>9. CASE NamesChange \/ UserLeaves \/ UNCHANGED fetchVars
    BY <1>1, <1>9 DEF NamesChange, UserLeaves, fetchVars, PinnedIsPublic
  <1>. QED
    BY <1>1, <1>3, <1>4, <1>5, <1>6, <1>7, <1>8, <1>9 DEF FetchNext

\* Wherever a page leads and whatever its host's name comes to stand for between the
\* lookup and the connection, WebFetch connects to public addresses only, and follows
\* no more redirections than it may (validate_destination and the loop of web_fetch.rs).
THEOREM FetchesStayPublic == FetchSpec => []ConnectsToPublic
  <1>1. PinnedIsPublic => ConnectsToPublic
    BY FetchAssumption DEF PinnedIsPublic, ConnectsToPublic
  <1>. QED
    BY FetchStart, FetchStep, <1>1, PTL DEF FetchSpec

-----------------------------------------------------------------------------
(* ChatTurn                                                                *)

TurnFields == {"at", "attempt", "first", "calls", "pieces", "asides", "how"}
ScreenFields == {"bubbles", "buffer", "running", "batch", "prompt", "typings", "open"}
Words == {"reads", "acts", "reading", "acting", "success", "error"}
IsRequest(channelled, k) == channelled[k].kind = "permission"

\* The shapes of what the turn and the screen share.
ChatFits ==
    /\ DOMAIN turn = TurnFields /\ turn.calls \in Seq(Words)
    /\ DOMAIN screen = ScreenFields
    /\ \E S : channel \in Seq(S)
    /\ steering \in Nat

\* A request for permission is on its way or shown, once, only while the turn waits
\* with its call and nothing runs.
AsksOnce ==
    screen.open /\ ~cancelled =>
        /\ turn.at = "asking" => UnderWay = {}
        /\ screen.prompt # 0 =>
              /\ turn.at = "asking" /\ screen.prompt = Call(NextUp)
              /\ \A k \in DOMAIN channel : ~IsRequest(channel, k)
        /\ \A k \in DOMAIN channel : IsRequest(channel, k) =>
              /\ turn.at = "asking" /\ channel[k].of = Call(NextUp)
              /\ \A j \in DOMAIN channel : IsRequest(channel, j) => j = k

ChatInv == ChatFits /\ AsksOnce

\* Events that ask nothing.
Plain(events) ==
    /\ \E S : events \in Seq(S)
    /\ \A k \in DOMAIN events : ~IsRequest(events, k)

LEMMA Joined ==
    ASSUME NEW S, NEW T, NEW a \in Seq(S), NEW b \in Seq(T)
    PROVE  /\ a \o b \in Seq(S \union T)
           /\ DOMAIN (a \o b) = 1..(Len(a) + Len(b)) /\ DOMAIN a = 1..Len(a)
           /\ DOMAIN b = 1..Len(b) /\ Len(a) \in Nat /\ Len(b) \in Nat
           /\ \A k \in DOMAIN (a \o b) :
                 (a \o b)[k] = IF k <= Len(a) THEN a[k] ELSE b[k - Len(a)]
  <1>1. a \in Seq(S \union T) /\ b \in Seq(S \union T)
    OBVIOUS
  <1>. QED
    BY <1>1

LEMMA PlainJoined ==
    ASSUME NEW a, NEW b, Plain(a), Plain(b) PROVE Plain(a \o b)
  <1>1. PICK S : a \in Seq(S)
    BY DEF Plain
  <1>2. PICK T : b \in Seq(T)
    BY DEF Plain
  <1>3. a \o b \in Seq(S \union T)
    BY <1>1, <1>2, Joined
  <1>4. ASSUME NEW k \in DOMAIN (a \o b) PROVE ~IsRequest(a \o b, k)
    <2>1. CASE k <= Len(a)
      <3>1. k \in DOMAIN a /\ (a \o b)[k] = a[k]
        BY <1>1, <1>2, <1>4, <2>1, Joined
      <3>. QED
        BY <3>1 DEF Plain, IsRequest
    <2>2. CASE ~(k <= Len(a))
      <3>1. k - Len(a) \in DOMAIN b /\ (a \o b)[k] = b[k - Len(a)]
        BY <1>1, <1>2, <1>4, <2>2, Joined
      <3>. QED
        BY <3>1 DEF Plain, IsRequest
    <2>. QED
      BY <2>1, <2>2
  <1>. QED
    BY <1>3, <1>4 DEF Plain

LEMMA OnePlain ==
    ASSUME NEW kind, NEW of, kind # "permission" PROVE Plain(<<Report(kind, of)>>)
  <1> DEFINE e == Report(kind, of)
  <1>1. e.kind # "permission"
    BY DEF Report
  <1> HIDE DEF e
  <1>2. <<e>> \in Seq({e}) /\ \A k \in DOMAIN <<e>> : <<e>>[k] = e
    OBVIOUS
  <1>3. Plain(<<e>>)
    BY <1>1, <1>2 DEF Plain, IsRequest
  <1>. QED
    BY <1>3 DEF e

LEMMA NonePlain == Plain(<<>>)
  <1>1. <<>> \in Seq({}) /\ DOMAIN <<>> = {}
    OBVIOUS
  <1>. QED
    BY <1>1 DEF Plain

LEMMA ManyPlain ==
    ASSUME NEW n \in Nat, NEW events, events = [i \in 1..n |-> events[i]],
           \A i \in 1..n : events[i].kind # "permission"
    PROVE  Plain(events)
  <1>1. events \in Seq({events[i] : i \in 1..n})
    OBVIOUS
  <1>. QED
    BY <1>1 DEF Plain, IsRequest

\* The turn goes on and asks nothing.
LEMMA GoesOn ==
    ASSUME ChatInv, turn.at # "asking" \/ screen.prompt # 0 \/ cancelled, turn'.at # "asking",
           DOMAIN turn' = TurnFields, turn'.calls \in Seq(Words),
           NEW events, Plain(events), channel' = channel \o events,
           DOMAIN screen' = ScreenFields, screen'.open = screen.open,
           screen'.prompt \in {0, screen.prompt}, turn.at # "asking" \/ screen'.prompt = 0 \/ cancelled,
           cancelled => cancelled', steering' \in Nat
    PROVE  ChatInv'
  <1>1. PICK S : channel \in Seq(S)
    BY DEF ChatInv, ChatFits
  <1>2. PICK T : events \in Seq(T)
    BY DEF Plain
  <1>3. channel' \in Seq(S \union T)
    BY <1>1, <1>2, Joined
  <1>4. ChatFits'
    BY <1>3 DEF ChatFits
  <1>5. AsksOnce'
    <2>1. SUFFICES ASSUME screen.open, ~cancelled, ~cancelled'
                   PROVE  /\ screen'.prompt = 0
                          /\ \A k \in DOMAIN channel' : ~IsRequest(channel', k)
      BY DEF AsksOnce
    <2>2. screen'.prompt = 0 /\ \A k \in DOMAIN channel : ~IsRequest(channel, k)
      BY <2>1 DEF ChatInv, AsksOnce
    <2>3. Plain(channel)
      BY <1>1, <2>2 DEF Plain
    <2>4. Plain(channel')
      BY <2>3, PlainJoined
    <2>. QED
      BY <2>2, <2>4 DEF Plain
  <1>. QED
    BY <1>4, <1>5 DEF ChatInv

LEMMA ChatStart == ChatInit => ChatInv
  <1>1. SUFFICES ASSUME ChatInit PROVE ChatInv
    OBVIOUS
  <1>2. /\ DOMAIN turn = TurnFields /\ turn.calls = <<>> /\ turn.at = "between"
        /\ DOMAIN screen = ScreenFields /\ screen.prompt = 0 /\ channel = <<>> /\ steering = 0
    BY <1>1 DEF ChatInit, Engine, Screen, TurnFields, ScreenFields
  <1>3. <<>> \in Seq({}) /\ <<>> \in Seq(Words) /\ DOMAIN <<>> = {}
    OBVIOUS
  <1>. QED
    BY <1>2, <1>3 DEF ChatInv, ChatFits, AsksOnce

\* The turn sends what asks nothing, while it does not ask.
LEMMA SendsPlainly ==
    ASSUME ChatInv, turn.at # "asking", NEW e, NEW events, Does(e, events), Plain(events),
           DOMAIN e = TurnFields, e.at # "asking", e.calls \in Seq(Words), steering' \in Nat
    PROVE  ChatInv'
  BY GoesOn DEF Does, ChatInv, ChatFits

LEMMA ReturnsPlainly ==
    ASSUME ChatInv, turn.at # "asking", NEW events, Returns(events), Plain(events),
           steering' \in Nat
    PROVE  ChatInv'
  <1>1. <<>> \in Seq(Words)
    OBVIOUS
  <1>. DEFINE e == [Engine("returned") EXCEPT !.how = IF events = <<>> THEN ""
                                                     ELSE Last(events).kind]
  <1>2. DOMAIN e = TurnFields /\ e.at = "returned" /\ e.calls = <<>>
    BY DEF Engine, TurnFields
  <1>3. Does(e, events)
    BY DEF Returns
  <1>. HIDE DEF e
  <1>. QED
    BY <1>1, <1>2, <1>3, SendsPlainly

LEMMA BetweenKeeps ==
    ASSUME ChatInv, \/ Delivers \/ \E notice \in BOOLEAN : AsksModel(notice)
                    \/ StopsBetween \/ FailsBetween
    PROVE  ChatInv'
  <1>0. steering \in Nat /\ DOMAIN turn = TurnFields /\ turn.calls \in Seq(Words)
        /\ <<>> \in Seq(Words)
    BY DEF ChatInv, ChatFits
  <1>1. CASE Delivers
    <2> DEFINE events == [i \in 1..steering |-> Report("steered", 0)]
    <2>1. Plain(events)
      <3>1. \A i \in 1..steering : events[i].kind # "permission"
        BY DEF Report
      <3>2. events = [i \in 1..steering |-> events[i]]
        OBVIOUS
      <3> HIDE DEF events
      <3>. QED
        BY <1>0, <3>1, <3>2, ManyPlain
    <2>2. turn.at = "between" /\ Does(turn, events) /\ steering' = 0
      BY <1>1 DEF Delivers, Free
    <2>. QED
      BY <1>0, <2>1, <2>2, SendsPlainly
  <1>2. ASSUME NEW notice \in BOOLEAN, AsksModel(notice) PROVE ChatInv'
    <2> DEFINE first == IF notice THEN <<Report("notice", 0)>> ELSE <<>>
               asides == IF notice THEN turn.asides + 1 ELSE turn.asides
               e == [[Engine("stream") EXCEPT !.pieces = turn.pieces, !.asides = turn.asides]
                        EXCEPT !.first = Len(told), !.asides = IF notice THEN @ + 1 ELSE @]
    <2>1. Plain(first \o <<Report("request", 0)>>)
      <3>1. Plain(first) /\ Plain(<<Report("request", 0)>>)
        BY OnePlain, NonePlain
      <3>. QED
        BY <3>1, PlainJoined
    <2>2. /\ turn.at = "between" /\ Does(e, first \o <<Report("request", 0)>>)
          /\ steering' = steering
      BY <1>2 DEF AsksModel, Free, Later
    <2>3. DOMAIN e = TurnFields /\ e.at = "stream" /\ e.calls = <<>>
      BY DEF Engine, TurnFields
    <2> HIDE DEF e, first
    <2>. QED
      BY <1>0, <2>1, <2>2, <2>3, SendsPlainly
  <1>3. CASE StopsBetween
    <2>1. Plain(<<Report("interrupted", 0)>>)
      BY OnePlain
    <2>. QED
      BY <1>0, <1>3, <2>1, ReturnsPlainly DEF StopsBetween, Free
  <1>4. CASE FailsBetween
    BY <1>0, <1>4, NonePlain, ReturnsPlainly DEF FailsBetween, Free
  <1>. QED
    BY <1>1, <1>2, <1>3, <1>4

LEMMA StreamKeeps ==
    ASSUME ChatInv, \/ Says \/ (\E kind \in {"reads", "acts"} : Announces(kind)) \/ AttemptFails
                    \/ StreamBreaks \/ StreamInterrupted \/ Responds
    PROVE  ChatInv'
  <1>0. steering \in Nat /\ DOMAIN turn = TurnFields /\ turn.calls \in Seq(Words)
        /\ <<>> \in Seq(Words) /\ Len(turn.calls) \in Nat /\ Batch = 1..Len(turn.calls)
    BY DEF ChatInv, ChatFits, Batch
  <1>1. CASE Says
    <2> DEFINE piece == turn.pieces + 1
               e == [turn EXCEPT !.pieces = piece, !.attempt = @ \union {piece}]
    <2>1. turn.at = "stream" /\ Does(e, <<Report("text", piece)>>) /\ steering' = steering
      BY <1>1 DEF Says, Free
    <2>2. DOMAIN e = TurnFields /\ e.at = turn.at /\ e.calls = turn.calls
      BY <1>0 DEF TurnFields
    <2>3. Plain(<<Report("text", piece)>>)
      BY OnePlain
    <2> HIDE DEF e
    <2>. QED
      BY <1>0, <2>1, <2>2, <2>3, SendsPlainly
  <1>2. ASSUME NEW kind \in {"reads", "acts"}, Announces(kind) PROVE ChatInv'
    <2> DEFINE e == [turn EXCEPT !.calls = Append(@, kind)]
    <2>1. /\ turn.at = "stream" /\ Does(e, <<Report("start", Len(told) + 1)>>)
          /\ steering' = steering
      BY <1>2 DEF Announces, Free
    <2>2. DOMAIN e = TurnFields /\ e.at = turn.at /\ e.calls \in Seq(Words)
      <3>0. kind \in Words
        BY DEF Words
      <3>1. Append(turn.calls, kind) \in Seq(Words)
        BY <1>0, <3>0
      <3>2. DOMAIN e = TurnFields /\ e.at = turn.at /\ e.calls = Append(turn.calls, kind)
        BY <1>0 DEF TurnFields
      <3>. QED
        BY <3>1, <3>2
    <2>3. Plain(<<Report("start", Len(told) + 1)>>)
      BY OnePlain
    <2> HIDE DEF e
    <2>. QED
      BY <1>0, <2>1, <2>2, <2>3, SendsPlainly
  <1>3. CASE AttemptFails
    <2> DEFINE e == [[Engine("between") EXCEPT !.pieces = turn.pieces, !.asides = turn.asides]
                        EXCEPT !.asides = @ + 1]
    <2>1. turn.at = "stream" /\ Does(e, <<Report("retry", 0)>>) /\ steering' = steering
      BY <1>3 DEF AttemptFails, Free, Later
    <2>2. DOMAIN e = TurnFields /\ e.at = "between" /\ e.calls = <<>>
      BY DEF Engine, TurnFields
    <2>3. Plain(<<Report("retry", 0)>>)
      BY OnePlain
    <2> HIDE DEF e
    <2>. QED
      BY <1>0, <2>1, <2>2, <2>3, SendsPlainly
  <1>4. CASE StreamBreaks
    <2> DEFINE events == [n \in 1..2 * Len(turn.calls) |->
                             IF n % 2 = 1 THEN Report("finished", <<(n + 1) \div 2, TRUE>>)
                                          ELSE Report("result", TRUE)]
    <2>1. \A n \in 1..2 * Len(turn.calls) : events[n].kind # "permission"
      BY DEF Report
    <2>2. events = [n \in 1..2 * Len(turn.calls) |-> events[n]]
      OBVIOUS
    <2>3. /\ turn.at = "stream" /\ Returns(events \o <<Report("error", 0)>>)
          /\ steering' = steering
      BY <1>4 DEF StreamBreaks, Free
    <2> HIDE DEF events
    <2>4. 2 * Len(turn.calls) \in Nat
      BY <1>0
    <2>5. Plain(events)
      BY <2>1, <2>2, <2>4, ManyPlain
    <2>6. Plain(events \o <<Report("error", 0)>>)
      BY <2>5, OnePlain, PlainJoined
    <2>. QED
      BY <1>0, <2>3, <2>6, ReturnsPlainly
  <1>5. CASE StreamInterrupted
    <2> DEFINE events == [i \in Batch |-> Report("result", TRUE)]
    <2>1. \A n \in 1..Len(turn.calls) : events[n].kind # "permission"
      BY <1>0 DEF Report
    <2>2. events = [n \in 1..Len(turn.calls) |-> events[n]]
      BY <1>0
    <2>3. /\ turn.at = "stream" /\ Returns(events \o <<Report("interrupted", 0)>>)
          /\ steering' = steering
      BY <1>5 DEF StreamInterrupted, Free
    <2> HIDE DEF events
    <2>5. Plain(events)
      BY <1>0, <2>1, <2>2, ManyPlain
    <2>6. Plain(events \o <<Report("interrupted", 0)>>)
      BY <2>5, OnePlain, PlainJoined
    <2>. QED
      BY <1>0, <2>3, <2>6, ReturnsPlainly
  <1>6. CASE Responds
    <2>1. turn.at = "stream" /\ steering' = steering
      BY <1>6 DEF Responds, Free
    <2>2. CASE Returns(<<Report("done", 0)>>)
      BY <1>0, <2>1, <2>2, OnePlain, ReturnsPlainly
    <2> DEFINE e == [turn EXCEPT !.at = "batch"]
    <2>3. CASE Does(e, <<>>)
      <3>1. DOMAIN e = TurnFields /\ e.at = "batch" /\ e.calls = turn.calls
        BY <1>0 DEF TurnFields
      <3> HIDE DEF e
      <3>. QED
        BY <1>0, <2>1, <2>3, <3>1, NonePlain, SendsPlainly
    <2>. QED
      BY <1>6, <2>2, <2>3 DEF Responds
  <1>. QED
    BY <1>1, <1>2, <1>3, <1>4, <1>5, <1>6

\* A call's entry is replaced, or the turn goes elsewhere, or both.
LEMMA MarksCall ==
    ASSUME DOMAIN turn = TurnFields, turn.calls \in Seq(Words), NEW i, NEW word \in Words,
           NEW at
    PROVE  /\ LET e == [turn EXCEPT !.calls[i] = word] IN
              DOMAIN e = TurnFields /\ e.at = turn.at /\ e.calls \in Seq(Words)
           /\ LET e == [turn EXCEPT !.at = at, !.calls[i] = word] IN
              DOMAIN e = TurnFields /\ e.at = at /\ e.calls \in Seq(Words)
  <1> DEFINE c == turn.calls
             f == [c EXCEPT ![i] = word]
  <1>1. f \in Seq(Words)
    <2>1. Len(c) \in Nat /\ DOMAIN c = 1..Len(c) /\ \A k \in 1..Len(c) : c[k] \in Words
      OBVIOUS
    <2> HIDE DEF c
    <2>2. DOMAIN f = 1..Len(c) /\ f = [k \in 1..Len(c) |-> f[k]]
      BY <2>1
    <2>3. \A k \in 1..Len(c) : f[k] \in Words
      BY <2>1
    <2> HIDE DEF f
    <2>. QED
      BY <2>1, <2>2, <2>3
  <1>2. LET e == [turn EXCEPT !.calls[i] = word] IN
        /\ DOMAIN e = TurnFields /\ e.at = turn.at
        /\ e.calls = f
    BY DEF TurnFields
  <1>3. LET e == [turn EXCEPT !.at = at, !.calls[i] = word] IN
        /\ DOMAIN e = TurnFields /\ e.at = at
        /\ e.calls = f
    BY DEF TurnFields
  <1>. QED
    BY <1>1, <1>2, <1>3

LEMMA BatchKeeps ==
    ASSUME ChatInv, \/ Starts \/ (\E i \in Batch, error \in BOOLEAN : Finishes(i, error))
                    \/ AsksPermission \/ AskCancelled \/ Skips \/ BatchEnds
    PROVE  ChatInv'
  <1>0. steering \in Nat /\ DOMAIN turn = TurnFields /\ turn.calls \in Seq(Words)
        /\ <<>> \in Seq(Words) /\ Len(turn.calls) \in Nat /\ Batch = 1..Len(turn.calls)
    BY DEF ChatInv, ChatFits, Batch
  <1>1. CASE Starts
    <2> DEFINE word == Doing(turn.calls[NextUp])
    <2>0. word \in Words
      BY DEF Doing, Words
    <2>1. Does([turn EXCEPT !.at = "batch", !.calls[NextUp] = word], <<Report("running", NextUp)>>)
      BY <1>1 DEF Starts, RunsCall
    <2>2. turn.at = "batch" /\ steering' = steering
      BY <1>1 DEF Starts, RunsCall, Free
    <2> DEFINE e == [turn EXCEPT !.at = "batch", !.calls[NextUp] = word]
    <2>3. DOMAIN e = TurnFields /\ e.at = "batch" /\ e.calls \in Seq(Words)
      BY <1>0, <2>0, MarksCall
    <2>4. Plain(<<Report("running", NextUp)>>)
      BY OnePlain
    <2> HIDE DEF e
    <2>. QED
      BY <1>0, <2>1, <2>2, <2>3, <2>4, SendsPlainly DEF e
  <1>2. ASSUME NEW i \in Batch, NEW error \in BOOLEAN, Finishes(i, error) PROVE ChatInv'
    <2>0. Ended(error) \in Words
      BY DEF Ended, Words
    <2> DEFINE e == [turn EXCEPT !.calls[i] = Ended(error)]
    <2>1. /\ turn.at = "batch" /\ Does(e, <<Report("finished", <<i, error>>)>>)
          /\ steering' = steering
      BY <1>2 DEF Finishes, Free
    <2>2. DOMAIN e = TurnFields /\ e.at = turn.at /\ e.calls \in Seq(Words)
      BY <1>0, <2>0, MarksCall
    <2> HIDE DEF e
    <2>3. Plain(<<Report("finished", <<i, error>>)>>)
      BY OnePlain
    <2>. QED
      BY <1>0, <2>1, <2>2, <2>3, SendsPlainly
  <1>3. CASE AsksPermission
    <2> DEFINE report == Report("permission", Call(NextUp))
    <2>1. /\ turn.at = "batch" /\ UnderWay = {} /\ steering' = steering /\ cancelled' = cancelled
          /\ screen' = screen
          /\ turn' = [turn EXCEPT !.at = "asking"] /\ channel' = channel \o <<report>>
      BY <1>3 DEF AsksPermission, Free, Does
    <2>2. /\ DOMAIN turn' = TurnFields /\ turn'.at = "asking" /\ turn'.calls = turn.calls
          /\ turn'.first = turn.first
      BY <1>0, <2>1 DEF TurnFields
    <2>3. UnderWay' = {} /\ Call(NextUp)' = Call(NextUp)
      BY <2>1, <2>2 DEF UnderWay, Batch, NextUp, Unbegun, Call
    <2>4. report.kind = "permission" /\ report.of = Call(NextUp)
      BY DEF Report
    <2> HIDE DEF report
    <2>5. PICK S : channel \in Seq(S)
      BY DEF ChatInv, ChatFits
    <2>6. <<report>> \in Seq({report}) /\ Len(<<report>>) = 1 /\ <<report>>[1] = report
      OBVIOUS
    <2>7. /\ channel' \in Seq(S \union {report})
          /\ Len(channel) \in Nat /\ DOMAIN channel = 1..Len(channel)
          /\ DOMAIN channel' = 1..Len(channel) + 1
          /\ \A k \in DOMAIN channel' :
                channel'[k] = IF k <= Len(channel) THEN channel[k] ELSE report
      BY <2>1, <2>5, <2>6, Joined
    <2>8. ChatFits'
      BY <1>0, <2>1, <2>2, <2>7 DEF ChatInv, ChatFits
    <2>9. ASSUME screen.open, ~cancelled
          PROVE  /\ screen.prompt = 0
                 /\ \A k \in DOMAIN channel' : IsRequest(channel', k) =>
                       /\ channel'[k].of = Call(NextUp) /\ k = Len(channel) + 1
      <3>1. screen.prompt = 0 /\ \A k \in DOMAIN channel : ~IsRequest(channel, k)
        BY <2>1, <2>9 DEF ChatInv, AsksOnce
      <3>2. ASSUME NEW k \in DOMAIN channel', IsRequest(channel', k)
            PROVE  channel'[k] = report /\ k = Len(channel) + 1
        BY <2>7, <3>1, <3>2 DEF IsRequest
      <3>. QED
        BY <2>4, <3>1, <3>2
    <2>10. AsksOnce'
      BY <2>1, <2>2, <2>3, <2>9 DEF AsksOnce
    <2>. QED
      BY <2>8, <2>10 DEF ChatInv
  <1>4. CASE AskCancelled
    <2> DEFINE e == [turn EXCEPT !.at = "batch", !.calls[NextUp] = "error"]
    <2>0. "error" \in Words
      BY DEF Words
    <2>1. cancelled /\ Does(e, <<>>) /\ steering' = steering
      BY <1>4 DEF AskCancelled
    <2>2. DOMAIN e = TurnFields /\ e.at = "batch" /\ e.calls \in Seq(Words)
      BY <1>0, <2>0, MarksCall
    <2> HIDE DEF e
    <2>. QED
      BY <1>0, <2>1, <2>2, NonePlain, GoesOn DEF Does, ChatInv, ChatFits
  <1>5. CASE Skips
    <2> DEFINE e == [turn EXCEPT !.calls[NextUp] = "error"]
    <2>0. "error" \in Words
      BY DEF Words
    <2>1. turn.at = "batch" /\ Does(e, <<>>) /\ steering' = steering
      BY <1>5 DEF Skips, Free
    <2>2. DOMAIN e = TurnFields /\ e.at = turn.at /\ e.calls \in Seq(Words)
      BY <1>0, <2>0, MarksCall
    <2> HIDE DEF e
    <2>. QED
      BY <1>0, <2>1, <2>2, NonePlain, SendsPlainly
  <1>6. CASE BatchEnds
    <2> DEFINE results == [i \in Batch |-> Report("result", turn.calls[i] = "error")]
    <2>1. \A n \in 1..Len(turn.calls) : results[n].kind # "permission"
      BY <1>0 DEF Report
    <2>2. results = [n \in 1..Len(turn.calls) |-> results[n]]
      BY <1>0
    <2>3. /\ turn.at = "batch" /\ steering' = steering
          /\ \/ Returns(Append(results, Report("interrupted", 0)))
             \/ Does(Later("between"), results)
      BY <1>6 DEF BatchEnds, Free
    <2> HIDE DEF results
    <2>4. Plain(results)
      BY <1>0, <2>1, <2>2, ManyPlain
    <2>5. Append(results, Report("interrupted", 0)) = results \o <<Report("interrupted", 0)>>
      BY <2>4 DEF Plain
    <2>6. Plain(Append(results, Report("interrupted", 0)))
      BY <2>4, <2>5, OnePlain, PlainJoined
    <2>7. LET e == Later("between") IN
          DOMAIN e = TurnFields /\ e.at = "between" /\ e.calls = <<>>
      BY DEF Later, Engine, TurnFields
    <2>. QED
      BY <1>0, <2>3, <2>4, <2>6, <2>7, ReturnsPlainly, SendsPlainly
  <1>. QED
    BY <1>1, <1>2, <1>3, <1>4, <1>5, <1>6

\* What is shown of an event asks only if the event asks.
LEMMA ShowingAsks ==
    ASSUME NEW s, DOMAIN s = ScreenFields, NEW e
    PROVE  LET t == Shows(s, e) IN
           /\ DOMAIN t = ScreenFields /\ t.open = s.open
           /\ t.prompt = IF e.kind = "permission" THEN e.of ELSE s.prompt
  <1> DEFINE t == Shows(s, e)
             SameBut(u) == DOMAIN u = ScreenFields /\ u.open = s.open /\ u.prompt = s.prompt
  <1>1. ASSUME NEW bubble, NEW u, SameBut(u) PROVE SameBut(Adds(u, bubble))
    BY <1>1 DEF Adds, ScreenFields
  <1>2. SameBut(Flushed(s))
    BY DEF Flushed, ScreenFields
  <1>3. ASSUME NEW places, NEW status PROVE SameBut(Marks(s, places, status))
    BY <1>3 DEF Marks, ScreenFields
  <1>4. SameBut(s)
    OBVIOUS
  <1>5. ASSUME NEW u, SameBut(u) PROVE SameBut(GivesUp(u))
    BY <1>5 DEF GivesUp, Marks, ScreenFields
  <1>6. ASSUME NEW i, NEW status PROVE SameBut(ShowsAt(s, i, status))
    BY <1>3, <1>4 DEF ShowsAt
  <1>7. ASSUME NEW error PROVE SameBut(ShowsResult(s, error))
    <2>1. SameBut([Marks(s, {Head(s.running)}, Ended(error)) EXCEPT !.running = Tail(@)])
      BY <1>3 DEF ScreenFields
    <2>. QED
      BY <1>4, <2>1 DEF ShowsResult
  <1>8. ASSUME NEW k PROVE SameBut(ShowsStart(s, k))
    <2>1. SameBut(Adds(Flushed(s), Tool(k)))
      BY <1>1, <1>2
    <2>. QED
      BY <2>1 DEF ShowsStart, ScreenFields
  <1>9. SameBut([s EXCEPT !.buffer = Append(@, e.of)]) /\ SameBut([s EXCEPT !.buffer = <<>>])
    BY DEF ScreenFields
  <1> HIDE DEF SameBut
  <1>10. CASE e.kind # "permission"
    <2>1. SameBut(t)
      BY <1>1, <1>2, <1>4, <1>5, <1>6, <1>7, <1>8, <1>9, <1>10 DEF Shows
    <2>. QED
      BY <1>10, <2>1 DEF SameBut
  <1>11. CASE e.kind = "permission"
    <2>1. t = [s EXCEPT !.prompt = e.of]
      BY <1>11 DEF Shows
    <2>. QED
      BY <1>11, <2>1 DEF ScreenFields
  <1>. QED
    BY <1>10, <1>11

LEMMA ReceivesKeeps == ASSUME ChatInv, Receives PROVE ChatInv'
  <1> DEFINE e == Head(channel)
  <1>1. /\ screen.open /\ screen.prompt = 0 /\ channel # <<>>
        /\ screen' = Shows(screen, e) /\ channel' = Tail(channel)
        /\ UNCHANGED <<turn, steering, cancelled>>
    BY DEF Receives
  <1>2. /\ DOMAIN screen' = ScreenFields /\ screen'.open
        /\ screen'.prompt = IF e.kind = "permission" THEN e.of ELSE 0
    BY <1>1, ShowingAsks DEF ChatInv, ChatFits
  <1>3. PICK S : channel \in Seq(S)
    BY DEF ChatInv, ChatFits
  <1>4. /\ channel' \in Seq(S) /\ 1 \in DOMAIN channel /\ e = channel[1]
        /\ DOMAIN channel' = 1..(Len(channel) - 1) /\ DOMAIN channel = 1..Len(channel)
        /\ \A k \in DOMAIN channel' : channel'[k] = channel[k + 1] /\ k + 1 \in DOMAIN channel
        /\ Len(channel) \in Nat
    BY <1>1, <1>3
  <1>5. ChatFits'
    BY <1>1, <1>2, <1>4 DEF ChatInv, ChatFits
  <1>6. UnderWay' = UnderWay /\ Call(NextUp)' = Call(NextUp)
    BY <1>1 DEF UnderWay, Batch, NextUp, Unbegun, Call
  <1> HIDE DEF e
  <1>7. SUFFICES ASSUME ~cancelled PROVE AsksOnce'
    BY <1>1, <1>5 DEF ChatInv, AsksOnce
  <1>8. /\ turn.at = "asking" => UnderWay = {}
        /\ \A k \in DOMAIN channel : IsRequest(channel, k) =>
              /\ turn.at = "asking" /\ channel[k].of = Call(NextUp)
              /\ \A j \in DOMAIN channel : IsRequest(channel, j) => j = k
    BY <1>1, <1>7 DEF ChatInv, AsksOnce
  <1>9. ASSUME NEW k \in DOMAIN channel', IsRequest(channel', k)
        PROVE  /\ turn.at = "asking" /\ channel'[k].of = Call(NextUp)
               /\ \A j \in DOMAIN channel' : IsRequest(channel', j) => j = k
               /\ e.kind # "permission"
    <2>1. /\ k + 1 \in DOMAIN channel /\ IsRequest(channel, k + 1) /\ channel'[k] = channel[k + 1]
          /\ k \in Nat
      BY <1>4, <1>9 DEF IsRequest
    <2>2. \A j \in DOMAIN channel : IsRequest(channel, j) => j = k + 1
      BY <1>8, <2>1
    <2>3. ASSUME NEW j \in DOMAIN channel', IsRequest(channel', j) PROVE j = k
      <3>1. j + 1 \in DOMAIN channel /\ IsRequest(channel, j + 1) /\ j \in Nat
        BY <1>4, <2>3 DEF IsRequest
      <3>2. j + 1 = k + 1
        BY <2>2, <3>1
      <3>. QED
        BY <2>1, <3>1, <3>2
    <2>4. ~IsRequest(channel, 1)
      BY <1>4, <2>1, <2>2
    <2>. QED
      BY <1>4, <1>8, <2>1, <2>3, <2>4 DEF IsRequest
  <1>10. ASSUME screen'.prompt # 0
         PROVE  /\ turn.at = "asking" /\ screen'.prompt = Call(NextUp)
                /\ \A k \in DOMAIN channel' : ~IsRequest(channel', k)
    <2>1. e.kind = "permission" /\ screen'.prompt = e.of
      BY <1>2, <1>10
    <2>2. IsRequest(channel, 1)
      BY <1>4, <2>1 DEF IsRequest
    <2>. QED
      BY <1>4, <1>8, <1>9, <2>1, <2>2
  <1>. QED
    BY <1>1, <1>2, <1>6, <1>8, <1>9, <1>10 DEF AsksOnce

LEMMA KeysKeep ==
    ASSUME ChatInv, Interrupts \/ Steers \/ TerminalGone PROVE ChatInv'
  <1>1. CASE Interrupts
    BY <1>1 DEF Interrupts, ChatInv, ChatFits, AsksOnce
  <1>2. CASE TerminalGone
    <2>1. /\ screen' = [Screen EXCEPT !.open = FALSE] /\ turn' = Engine("returned")
          /\ channel' = <<>> /\ steering' = 0
      BY <1>2 DEF TerminalGone
    <2>2. /\ DOMAIN screen' = ScreenFields /\ ~screen'.open
          /\ DOMAIN turn' = TurnFields /\ turn'.calls = <<>>
      BY <2>1 DEF Screen, Engine, TurnFields, ScreenFields
    <2>3. <<>> \in Seq(Words) /\ <<>> \in Seq({})
      OBVIOUS
    <2>. QED
      BY <2>1, <2>2, <2>3 DEF ChatInv, ChatFits, AsksOnce
  <1>3. CASE Steers
    <2>1. /\ screen' = [screen EXCEPT !.typings = @ + 1] /\ steering' = steering + 1
          /\ UNCHANGED <<turn, channel, cancelled>>
      BY <1>3 DEF Steers
    <2>2. DOMAIN screen' = ScreenFields /\ screen'.open = screen.open
          /\ screen'.prompt = screen.prompt
      BY <2>1 DEF ChatInv, ChatFits, ScreenFields
    <2>3. UnderWay' = UnderWay /\ Call(NextUp)' = Call(NextUp)
      BY <2>1 DEF UnderWay, Batch, NextUp, Unbegun, Call
    <2>. QED
      BY <2>1, <2>2, <2>3 DEF ChatInv, ChatFits, AsksOnce
  <1>. QED
    BY <1>1, <1>2, <1>3

LEMMA AnswersKeep ==
    ASSUME ChatInv, Allows \/ Denies \/ DeniesWithMessage PROVE ChatInv'
  <1>0. steering \in Nat /\ DOMAIN turn = TurnFields /\ turn.calls \in Seq(Words)
        /\ DOMAIN screen = ScreenFields
    BY DEF ChatInv, ChatFits
  <1>1. screen.prompt # 0 /\ screen' = [screen EXCEPT !.prompt = 0]
    BY DEF Allows, Denies, DeniesWithMessage, PromptCloses
  <1>2. DOMAIN screen' = ScreenFields /\ screen'.open = screen.open /\ screen'.prompt = 0
    BY <1>0, <1>1 DEF ScreenFields
  <1>3. PICK S : channel \in Seq(S)
    BY DEF ChatInv, ChatFits
  <1>4. channel = channel \o <<>>
    BY <1>3
  <1>5. (cancelled => cancelled') /\ steering' \in Nat
    BY <1>0 DEF Allows, Denies, DeniesWithMessage
  <1>6. PICK word \in Words :
          /\ turn' = IF Waits THEN [turn EXCEPT !.at = "batch", !.calls[NextUp] = word] ELSE turn
          /\ channel' \in {channel, Append(channel, Report("running", NextUp))}
    <2>1. "error" \in Words /\ Doing(turn.calls[NextUp]) \in Words
      BY DEF Doing, Words
    <2>2. CASE Allows
      BY <2>1, <2>2 DEF Allows
    <2>3. CASE Denies \/ DeniesWithMessage
      BY <2>1, <2>3 DEF Denies, DeniesWithMessage, Refused
    <2>. QED
      BY <2>2, <2>3
  <1>7. DOMAIN turn' = TurnFields /\ turn'.calls \in Seq(Words) /\ turn'.at # "asking"
    <2>1. CASE Waits
      BY <1>0, <1>6, <2>1, MarksCall
    <2>2. CASE ~Waits
      BY <1>0, <1>6, <2>2 DEF Waits
    <2>. QED
      BY <2>1, <2>2
  <1>8. Append(channel, Report("running", NextUp)) = channel \o <<Report("running", NextUp)>>
    BY <1>3
  <1>9. Plain(<<Report("running", NextUp)>>) /\ Plain(<<>>)
    BY OnePlain, NonePlain
  <1>10. PICK events : Plain(events) /\ channel' = channel \o events
    BY <1>4, <1>6, <1>8, <1>9
  <1>. QED
    BY <1>1, <1>2, <1>5, <1>7, <1>10, GoesOn

LEMMA ChatStep == ChatInv /\ [ChatNext]_chatVars => ChatInv'
  <1>1. SUFFICES ASSUME ChatInv, [ChatNext]_chatVars PROVE ChatInv'
    OBVIOUS
  <1>2. CASE UNCHANGED chatVars
    <2>1. UNCHANGED <<turn, channel, screen, steering, cancelled>>
      BY <1>2 DEF chatVars
    <2>. QED
      BY <1>1, <2>1 DEF ChatInv, ChatFits, AsksOnce, UnderWay, Batch, NextUp, Unbegun, Call
  <1>. QED
    BY <1>1, <1>2, BetweenKeeps, StreamKeeps, BatchKeeps, ReceivesKeeps, KeysKeep, AnswersKeep
    DEF ChatNext

\* A prompt is for the call that the turn waits with, and nothing runs beside it,
\* however the events, the keys and the turn interleave, in a chat that is open and
\* not told to stop (drive_streaming and its permission channel).
THEOREM PromptsAreForTheirCall == ChatSpec => []PromptIsForTheCall
  <1>1. ChatInv => PromptIsForTheCall
    BY DEF ChatInv, AsksOnce, PromptIsForTheCall, Waits
  <1>. QED
    BY ChatStart, ChatStep, <1>1, PTL DEF ChatSpec

-----------------------------------------------------------------------------
(* Settings                                                                *)

OwnerWrites == owner = Unset \/ IsDocument(owner)

\* A word of a list has a place in it.
LEMMA RanksAreNumbers ==
    ASSUME NEW order \in {PermissionModes, NativePolicies, BashPolicies}, NEW x \in Range(order)
    PROVE  Rank(order, x) \in Nat
  <1>1. DOMAIN order \subseteq Nat
    BY DEF PermissionModes, NativePolicies, BashPolicies
  <1>2. \E i \in DOMAIN order : order[i] = x
    BY DEF Range
  <1>. QED
    BY <1>1, <1>2 DEF Rank

LEMMA RanksArePlaces ==
    ASSUME NEW order, NEW x \in Range(order)
    PROVE  Rank(order, x) \in DOMAIN order
  BY DEF Rank, Range

\* What a project that is not trusted asks for is granted only if it is no looser.
LEMMA OverridesTighten ==
    ASSUME NEW order \in {PermissionModes, NativePolicies, BashPolicies},
           NEW current \in Range(order), NEW requested
    PROVE  /\ Overridden(order, current, requested, FALSE) \in Range(order)
           /\ Rank(order, Overridden(order, current, requested, FALSE)) <= Rank(order, current)
  <1>1. Rank(order, current) \in Nat
    BY RanksAreNumbers
  <1>. QED
    BY <1>1 DEF Overridden, Permits

LEMMA FieldsOfDocuments ==
    DOMAIN EmptyDocument =
        {"mode", "native", "bash", "strip", "generated", "deny", "ask", "allow", "servers",
         "trusted", "model", "url", "urlName", "key", "urlKey", "providers", "profiles",
         "default"}
  BY DEF EmptyDocument

LEMMA EmptyIsDocument == IsDocument(EmptyDocument)
  <1>1. EmptyDocument = [field \in DOMAIN EmptyDocument |-> EmptyDocument[field]]
    BY DEF EmptyDocument
  <1>2. "default" \in Range(PermissionModes) 
    <2>1. PermissionModes[2] = "default" /\ 2 \in DOMAIN PermissionModes
      BY DEF PermissionModes
    <2>. QED
      BY <2>1 DEF Range
  <1>3. "workspace_only" \in Range(NativePolicies)
    <2>1. NativePolicies[1] = "workspace_only" /\ 1 \in DOMAIN NativePolicies
      BY DEF NativePolicies
    <2>. QED
      BY <2>1 DEF Range
  <1>4. "auto" \in Range(BashPolicies)
    <2>1. BashPolicies[2] = "auto" /\ 2 \in DOMAIN BashPolicies
      BY DEF BashPolicies
    <2>. QED
      BY <2>1 DEF Range
  <1>5. EmptyDocument.mode = "default" /\ EmptyDocument.native = "workspace_only"
        /\ EmptyDocument.bash = "auto"
    BY DEF EmptyDocument
  <1>. QED
    BY <1>1, <1>2, <1>3, <1>4, <1>5 DEF IsDocument

\* The models of a document may change, and it is one.
LEMMA ModelsMayChange ==
    ASSUME NEW c, IsDocument(c), NEW providers, NEW profiles, NEW default
    PROVE  IsDocument([c EXCEPT !.providers = providers, !.profiles = profiles,
                                !.default = default])
  <1> DEFINE d == [c EXCEPT !.providers = providers, !.profiles = profiles, !.default = default]
  <1>1. DOMAIN c = DOMAIN EmptyDocument
    BY DEF IsDocument
  <1>2. d = [field \in DOMAIN EmptyDocument |-> d[field]]
    BY <1>1
  <1>3. d.mode = c.mode /\ d.native = c.native /\ d.bash = c.bash
    BY <1>1, FieldsOfDocuments
  <1>. QED
    BY <1>2, <1>3 DEF IsDocument

\* config init writes a document.
LEMMA MigrationIsDocument ==
    ASSUME NEW document, IsDocument(document) PROVE IsDocument(Migrated(document))
  <1> DEFINE c == Migrated(document)
  <1>1. \/ c = document
        \/ \E providers, profiles, default :
              c = [document EXCEPT !.providers = providers, !.profiles = profiles,
                                   !.default = default]
    BY DEF Migrated
  <1>2. CASE c = document
    BY <1>2, Zenon
  <1>3. ASSUME NEW providers, NEW profiles, NEW default,
               c = [document EXCEPT !.providers = providers, !.profiles = profiles,
                                    !.default = default]
        PROVE  IsDocument(c)
    <2> HIDE DEF c
    <2>1. IsDocument([document EXCEPT !.providers = providers, !.profiles = profiles,
                                      !.default = default])
      BY ModelsMayChange
    <2>. QED
      BY <1>3, <2>1, Zenon
  <1>. QED
    BY <1>1, <1>2, <1>3

LEMMA InitWritesDocuments ==
    ASSUME NEW document, IsDocument(document), NEW addition
    PROVE  IsDocument(WithProfile(document, addition))
  <1> DEFINE c == Migrated(document)
  <1>1. IsDocument(c)
    BY MigrationIsDocument
  <1> HIDE DEF c
  <1>2. PICK providers, profiles, default :
           WithProfile(document, addition) =
               [c EXCEPT !.providers = providers, !.profiles = profiles, !.default = default]
    BY DEF WithProfile, c
  <1>3. IsDocument([c EXCEPT !.providers = providers, !.profiles = profiles,
                             !.default = default])
    BY <1>1, ModelsMayChange
  <1>. QED
    BY <1>2, <1>3, Zenon

LEMMA OwnerKeepsWriting == OwnerWrites /\ [SettingsNext]_settingsVars => OwnerWrites'
  <1>1. SUFFICES ASSUME OwnerWrites, [SettingsNext]_settingsVars PROVE OwnerWrites'
    OBVIOUS
  <1>2. ASSUME NEW a, NEW force, ConfigInit(a, force) PROVE OwnerWrites'
    <2>1. PICK document : owner' = WithProfile(document, a) /\ document \in {EmptyDocument, owner}
                          /\ (document = owner => owner # Unset \/ document = EmptyDocument)
      BY <1>2 DEF ConfigInit
    <2>2. IsDocument(document)
      BY <1>1, <2>1, EmptyIsDocument DEF OwnerWrites
    <2>. QED
      BY <2>1, <2>2, InitWritesDocuments DEF OwnerWrites
  <1>3. ASSUME NEW d \in Documents, OwnerEdits(d) PROVE OwnerWrites'
    BY <1>3, SettingsAssumption DEF OwnerEdits, OwnerWrites
  <1>4. CASE \/ UNCHANGED settingsVars \/ SaveSession \/ ProcessEnds
             \/ \E f \in Flags : Launch(f)
             \/ \E s \in Sessions : OpenSession(s) \/ CreateSession(s)
             \/ \E m \in DOMAIN Slug : SwitchModel(m)
    <2>1. owner' = owner
      BY <1>4 DEF settingsVars, SaveSession, ProcessEnds, Launch, OpenSession, CreateSession,
         SwitchModel
    <2>. QED
      BY <1>1, <2>1 DEF OwnerWrites
  <1>. QED
    BY <1>1, <1>2, <1>3, <1>4 DEF SettingsNext

\* A project picks one of the profiles that there are.
LEMMA DefaultsAreTheOwners ==
    ASSUME NEW c, NEW model
    PROVE  ProjectDefault(c, model) \in {c.default} \union DOMAIN c.profiles
  <1> DEFINE named == {f \in DOMAIN c.profiles : c.profiles[f].model = model}
  <1>1. named \subseteq DOMAIN c.profiles
    OBVIOUS
  <1>2. Cardinality(named) = 1 => \E f : f \in named
    BY FS_EmptySet
  <1>3. ProjectDefault(c, model) =
            CASE model = Unset -> c.default
              [] model # Unset /\ Name(<<model>>) \in DOMAIN c.profiles -> Name(<<model>>)
              [] model # Unset /\ Name(<<model>>) \notin DOMAIN c.profiles
                    /\ Cardinality(named) = 1 -> CHOOSE f \in named : TRUE
              [] OTHER -> c.default
    BY Zenon DEF ProjectDefault
  <1> HIDE DEF named
  <1>4. Cardinality(named) = 1 => (CHOOSE f \in named : TRUE) \in DOMAIN c.profiles
    BY <1>1, <1>2
  <1>. QED
    BY <1>3, <1>4

\* What the process may do, if its project is not trusted.
LEMMA ProjectsTighten ==
    ASSUME NEW d, IsDocument(d), NEW p, NEW flags \in Flags,
           FlagsAllowed(WithProject(d, p, FALSE), flags, FALSE)
    PROVE  LET c == WithFlags(WithProject(d, p, FALSE), flags) IN
           /\ NoMoreUnasked([c EXCEPT !.mode = IF flags.mode = Unset THEN @ ELSE "plan"], d)
           /\ SameProviders(c, d)
  <1> DEFINE e == WithProject(d, p, FALSE)
             c == WithFlags(e, flags)
             k == [c EXCEPT !.mode = IF flags.mode = Unset THEN @ ELSE "plan"]
  <1>0. DOMAIN d = DOMAIN EmptyDocument
    BY DEF IsDocument
  <1>1. /\ DOMAIN e = DOMAIN EmptyDocument
        /\ e.mode = Overridden(PermissionModes, d.mode, p.mode, FALSE)
        /\ e.native = Overridden(NativePolicies, d.native, p.native, FALSE)
        /\ e.bash = Overridden(BashPolicies, d.bash, p.bash, FALSE)
        /\ e.deny = d.deny \union p.deny /\ e.ask = d.ask \union p.ask /\ e.allow = d.allow
        /\ e.generated = d.generated
        /\ e.providers = d.providers /\ e.profiles = d.profiles
        /\ e.url = d.url /\ e.urlName = d.urlName /\ e.key = d.key /\ e.urlKey = d.urlKey
        /\ DOMAIN d.profiles # {} => e.model = d.model
        /\ e.default = ProjectDefault(d, p.model)
    BY <1>0, FieldsOfDocuments DEF WithProject
  <1>2. d.strip => e.strip
    BY <1>0, FieldsOfDocuments DEF WithProject
  <1>3. /\ e.mode \in Range(PermissionModes)
        /\ Rank(PermissionModes, e.mode) <= Rank(PermissionModes, d.mode)
    BY <1>1, OverridesTighten DEF IsDocument
  <1>4. /\ e.native \in Range(NativePolicies)
        /\ Rank(NativePolicies, e.native) <= Rank(NativePolicies, d.native)
    BY <1>1, OverridesTighten DEF IsDocument
  <1>5. /\ e.bash \in Range(BashPolicies)
        /\ Rank(BashPolicies, e.bash) <= Rank(BashPolicies, d.bash)
    BY <1>1, OverridesTighten DEF IsDocument
  <1> HIDE DEF e
  <1>6. /\ DOMAIN c = DOMAIN EmptyDocument
        /\ c.native = (IF flags.native = Unset THEN e.native ELSE flags.native)
        /\ c.bash = (IF flags.bash = Unset THEN e.bash ELSE flags.bash)
        /\ c.mode = (IF flags.mode = Unset THEN e.mode ELSE flags.mode)
        /\ c.deny = e.deny /\ c.ask = e.ask /\ c.allow = e.allow /\ c.strip = e.strip
        /\ c.generated = e.generated /\ c.providers = e.providers /\ c.profiles = e.profiles
        /\ c.url = e.url /\ c.urlName = e.urlName /\ c.key = e.key /\ c.urlKey = e.urlKey
        /\ c.model = e.model /\ c.default = e.default
    BY <1>1, FieldsOfDocuments DEF WithFlags
  <1> HIDE DEF c
  <1>7. /\ k.native = c.native /\ k.bash = c.bash /\ k.deny = c.deny /\ k.ask = c.ask
        /\ k.allow = c.allow /\ k.strip = c.strip /\ k.generated = c.generated
        /\ k.mode = IF flags.mode = Unset THEN c.mode ELSE "plan"
    BY <1>6, FieldsOfDocuments
  <1> HIDE DEF k
  <1>8. Rank(PermissionModes, k.mode) <= Rank(PermissionModes, d.mode)
    <2>1. CASE flags.mode = Unset
      BY <1>3, <1>6, <1>7, <2>1
    <2>2. CASE flags.mode # Unset
      <3>1. k.mode = "plan"
        BY <1>7, <2>2
      <3>2. Rank(PermissionModes, "plan") = 1
        BY DEF Rank, PermissionModes
      <3>3. /\ Rank(PermissionModes, d.mode) \in Nat
            /\ Rank(PermissionModes, d.mode) \in DOMAIN PermissionModes
        BY RanksAreNumbers, RanksArePlaces DEF IsDocument
      <3>. QED
        BY <3>1, <3>2, <3>3 DEF PermissionModes
    <2>. QED
      BY <2>1, <2>2
  <1>9. Rank(NativePolicies, k.native) <= Rank(NativePolicies, d.native)
    <2>1. CASE flags.native = Unset
      BY <1>4, <1>6, <1>7, <2>1
    <2>2. CASE flags.native # Unset
      <3>1. k.native = flags.native /\ k.native \in Range(NativePolicies)
        BY <1>6, <1>7, <2>2, SettingsAssumption
      <3>2. Rank(NativePolicies, k.native) <= Rank(NativePolicies, e.native)
        BY <2>2, <3>1 DEF FlagsAllowed, Permits, e
      <3>3. /\ Rank(NativePolicies, d.native) \in Nat /\ Rank(NativePolicies, e.native) \in Nat
            /\ Rank(NativePolicies, k.native) \in Nat
        BY <1>4, <3>1, RanksAreNumbers DEF IsDocument
      <3>. QED
        BY <1>4, <3>2, <3>3
    <2>. QED
      BY <2>1, <2>2
  <1>10. Rank(BashPolicies, k.bash) <= Rank(BashPolicies, d.bash)
    <2>1. CASE flags.bash = Unset
      BY <1>5, <1>6, <1>7, <2>1
    <2>2. CASE flags.bash # Unset
      <3>1. k.bash = flags.bash /\ k.bash \in Range(BashPolicies)
        BY <1>6, <1>7, <2>2, SettingsAssumption
      <3>2. Rank(BashPolicies, k.bash) <= Rank(BashPolicies, e.bash)
        BY <2>2, <3>1 DEF FlagsAllowed, Permits, e
      <3>3. /\ Rank(BashPolicies, d.bash) \in Nat /\ Rank(BashPolicies, e.bash) \in Nat
            /\ Rank(BashPolicies, k.bash) \in Nat
        BY <1>5, <3>1, RanksAreNumbers DEF IsDocument
      <3>. QED
        BY <1>5, <3>2, <3>3
    <2>. QED
      BY <2>1, <2>2
  <1>11. NoMoreUnasked(k, d)
    BY <1>1, <1>2, <1>6, <1>7, <1>8, <1>9, <1>10 DEF NoMoreUnasked
  <1>12. SameProviders(c, d)
    BY <1>1, <1>6, DefaultsAreTheOwners DEF SameProviders
  <1>. QED
    BY <1>11, <1>12 DEF k, c, e

LEMMA ReadingDocuments == OwnerWrites => IsDocument(Read(owner))
  <1> DEFINE c == IF owner = Unset THEN EmptyDocument ELSE owner
             d == Read(owner)
  <1>1. SUFFICES ASSUME OwnerWrites PROVE IsDocument(d)
    OBVIOUS
  <1>2. IsDocument(c)
    BY <1>1, EmptyIsDocument DEF OwnerWrites
  <1>3. d = [c EXCEPT !.model = IF c.model = Unset THEN "sonnet" ELSE c.model]
    BY DEF Read
  <1> HIDE DEF c, d
  <1>4. DOMAIN c = DOMAIN EmptyDocument
    BY <1>2 DEF IsDocument
  <1>5. d.mode = c.mode /\ d.native = c.native /\ d.bash = c.bash
    BY <1>3, <1>4, FieldsOfDocuments
  <1>6. d = [field \in DOMAIN EmptyDocument |-> d[field]]
    BY <1>3, <1>4
  <1>. QED
    BY <1>2, <1>5, <1>6 DEF IsDocument

LEMMA LaunchesTighten ==
    ASSUME OwnerWrites, NEW flags \in Flags, Launch(flags) PROVE LoosensNothing
  <1> DEFINE d == Read(owner)
             e == WithProject(d, project, FALSE)
             c == WithFlags(e, flags)
  <1>1. SUFFICES ASSUME ~running'.trusted
                 PROVE  /\ NoMoreUnasked([running'.config EXCEPT
                              !.mode = IF running'.flags.mode = Unset THEN @ ELSE "plan"], d)
                        /\ running'.servers = d.servers
                        /\ SameProviders(running'.config, d)
    BY DEF LoosensNothing
  <1>2. PICK r : running' = Process("ready", Loaded(owner, project, flags), flags,
                                    Trusts(owner, flags), IF flags.tui THEN Unset ELSE r)
    BY DEF Launch
  <1>3. FlagsAllowed(Loaded(owner, project, flags), flags, Trusts(owner, flags))
    BY DEF Launch
  <1>4. running'.trusted = Trusts(owner, flags)
    BY <1>2 DEF Process
  <1>5. Trusts(owner, flags) = FALSE
    BY <1>1, <1>4 DEF Trusts
  <1>6. Loaded(owner, project, flags) = e
    BY <1>5 DEF Loaded
  <1>7. /\ running'.config = c /\ running'.flags = flags
        /\ running'.servers = Servers(e, FALSE)
    BY <1>2, <1>5, <1>6 DEF Process
  <1>8. IsDocument(d)
    BY ReadingDocuments
  <1>9. FlagsAllowed(e, flags, FALSE)
    BY <1>3, <1>5, <1>6
  <1> HIDE DEF d
  <1>10. /\ NoMoreUnasked([c EXCEPT !.mode = IF flags.mode = Unset THEN @ ELSE "plan"], d)
         /\ SameProviders(c, d)
    BY <1>8, <1>9, ProjectsTighten
  <1>11. Servers(e, FALSE) = d.servers
    BY <1>8, FieldsOfDocuments DEF Servers, WithProject, IsDocument
  <1> HIDE DEF c, e
  <1>. QED
    BY <1>7, <1>10, <1>11

-----------------------------------------------------------------------------

ProcessFields == {"at", "config", "flags", "trusted", "model", "key", "session", "servers"}

\* A process that has a session continues it with what it was saved with, and outside the full
\* screen a process has a model.
ProcessFits ==
    Running(running) =>
        /\ DOMAIN running = ProcessFields
        /\ running.at = "chatting" =>
              /\ running.session \in Sessions /\ bindings[running.session] # Unset
              /\ Continues(running.model, running.flags, bindings[running.session])
        /\ running.at = "chatting" \/ ~running.flags.tui => running.model # Unset

SettingsInv == OwnerWrites /\ DOMAIN bindings = Sessions /\ ProcessFits

\* A profile that makes a model makes the one it names.
LEMMA ProfilesResolve ==
    ASSUME NEW c, NEW flags, NEW f, ResolveProfile(c, flags, f) # Unset
    PROVE  /\ ResolveProfile(c, flags, f).provider = c.profiles[f].provider
           /\ ResolveProfile(c, flags, f).model = c.profiles[f].model
           /\ flags.protocol = Unset =>
                 ResolveProfile(c, flags, f).kind = c.providers[c.profiles[f].provider].kind
  <1> DEFINE profile == c.profiles[f]
             p == c.providers[profile.provider]
             name == IF p.name = Unset THEN profile.provider ELSE p.name
             builtin == Identify(p.kind, name, profile.provider, p.url)
             env == CASE p.env # Unset -> p.env
                      [] p.env = Unset /\ builtin # Unset -> Builtins[builtin].env
                      [] OTHER -> Builtins[Name(<<p.kind>>)].env
             r == Resolved(f, profile.provider, p.kind, name, profile.model, p.url, env, p.key,
                           profile.window)
  <1>1. ResolveProfile(c, flags, f) =
            IF profile.provider \notin DOMAIN c.providers THEN Unset
            ELSE IF p.kind = "openai" /\ p.url = Unset THEN Unset
            ELSE Transported(r, flags)
    BY Zenon DEF ResolveProfile
  <1>2. /\ DOMAIN r = {"profile", "provider", "kind", "name", "model", "url", "env", "key",
                        "window"}
        /\ r.provider = c.profiles[f].provider /\ r.model = c.profiles[f].model
        /\ r.kind = p.kind
    <2> HIDE DEF name, env, p
    <2>. QED
      BY DEF Resolved
  <1>3. p = c.providers[c.profiles[f].provider]
    OBVIOUS
  <1> HIDE DEF r, profile, p
  <1>4. ResolveProfile(c, flags, f) = Transported(r, flags)
    BY <1>1
  <1>. QED
    BY <1>2, <1>3, <1>4 DEF Transported

LEMMA BindingsKeepTheModel ==
    ASSUME NEW c, NEW flags, NEW b, NEW r, r = ResolveBinding(c, flags, b), r # Unset
    PROVE  Continues(r, flags, b)
  <1>1. CASE IsLegacy(b)
    <2>1. r = ResolveLegacy(c, flags, b.model)
      BY <1>1 DEF ResolveBinding
    <2>2. PICK q : /\ r = Transported(q, flags) /\ q.model = b.model /\ q.provider = Legacy
                   /\ DOMAIN q = {"profile", "provider", "kind", "name", "model", "url", "env",
                                  "key", "window"}
      BY <2>1 DEF ResolveLegacy, Resolved
    <2>. QED
      BY <1>1, <2>2 DEF Transported, Continues, IsLegacy
  <1>2. CASE ~IsLegacy(b)
    <2>1. /\ r = ResolveProfile(c, flags, b.profile)
          /\ c.profiles[b.profile].provider = b.provider
          /\ c.profiles[b.profile].model = b.model
          /\ c.providers[b.provider].kind = b.kind
      BY <1>2 DEF ResolveBinding
    <2>2. /\ r.provider = c.profiles[b.profile].provider
          /\ r.model = c.profiles[b.profile].model
          /\ flags.protocol = Unset => r.kind = c.providers[b.provider].kind
      BY <2>1, ProfilesResolve
    <2>. QED
      BY <2>1, <2>2 DEF Continues
  <1>. QED
    BY <1>1, <1>2

LEMMA SettingsStart == SettingsInit => SettingsInv
  BY SettingsAssumption
  DEF SettingsInit, SettingsInv, OwnerWrites, ProcessFits, Running, Stopped

LEMMA SettingsStep == SettingsInv /\ [SettingsNext]_settingsVars => SettingsInv'
  <1>1. SUFFICES ASSUME SettingsInv, [SettingsNext]_settingsVars PROVE SettingsInv'
    OBVIOUS
  <1>2. OwnerWrites'
    BY <1>1, OwnerKeepsWriting DEF SettingsInv
  <1>3. CASE \/ UNCHANGED settingsVars \/ ProcessEnds
             \/ \E d \in Documents : OwnerEdits(d)
             \/ \E a \in Additions, force \in BOOLEAN : ConfigInit(a, force)
    <2>1. bindings' = bindings /\ (running' = running \/ running' = Stopped)
      BY <1>3 DEF settingsVars, ProcessEnds, OwnerEdits, ConfigInit
    <2>. QED
      BY <1>1, <1>2, <2>1 DEF SettingsInv, ProcessFits, Running, Stopped
  <1>4. ASSUME NEW f \in Flags, Launch(f) PROVE SettingsInv'
    <2>1. PICK r, c : r # Unset /\ running' = Process("ready", c, f, Trusts(owner, f),
                                                      IF f.tui THEN Unset ELSE r)
      BY <1>4 DEF Launch
    <2>2. bindings' = bindings
      BY <1>4 DEF Launch
    <2>3. /\ DOMAIN running' = ProcessFields /\ running'.at = "ready" /\ running'.flags = f
          /\ running'.model = (IF f.tui THEN Unset ELSE r)
      BY <2>1 DEF Process, ProcessFields
    <2>. QED
      BY <1>1, <1>2, <2>1, <2>2, <2>3 DEF SettingsInv, ProcessFits, Running
  <1>5. ASSUME NEW s \in Sessions, OpenSession(s) PROVE SettingsInv'
    <2>1. /\ Running(running) /\ bindings[s] # Unset /\ bindings' = bindings
          /\ DOMAIN running = ProcessFields
      BY <1>1, <1>5 DEF OpenSession, SettingsInv, ProcessFits
    <2>2. CASE running' = Stopped
      BY <1>1, <1>2, <2>1, <2>2 DEF SettingsInv, ProcessFits, Running, Stopped
    <2>3. CASE running' = [running EXCEPT !.at = "ready"]
      <3>1. /\ DOMAIN running' = ProcessFields /\ running'.at = "ready"
            /\ running'.flags = running.flags /\ running'.model = running.model
        BY <2>1, <2>3 DEF ProcessFields
      <3>. QED
        BY <1>1, <1>2, <2>1, <3>1 DEF SettingsInv, ProcessFits, Running
    <2>4. PICK r, key : r = SessionModel(s) /\
             \/ running' \in {Stopped, [running EXCEPT !.at = "ready"]}
             \/ /\ r # Unset
                /\ running' = [running EXCEPT !.at = "chatting", !.model = r, !.session = s,
                                              !.key = key]
      BY <1>5 DEF OpenSession
    <2>5. CASE running' = [running EXCEPT !.at = "chatting", !.model = r, !.session = s,
                                          !.key = key] /\ r # Unset
      <3>1. Continues(r, running.flags, bindings[s])
        BY <2>4, <2>5, BindingsKeepTheModel DEF SessionModel
      <3>2. /\ DOMAIN running' = ProcessFields /\ running'.at = "chatting"
            /\ running'.flags = running.flags /\ running'.model = r /\ running'.session = s
        BY <2>1, <2>5 DEF ProcessFields
      <3>. QED
        BY <1>1, <1>2, <2>1, <2>5, <3>1, <3>2 DEF SettingsInv, ProcessFits, Running
    <2>. QED
      BY <2>2, <2>3, <2>4, <2>5
  <1>6. ASSUME NEW s \in Sessions, CreateSession(s) PROVE SettingsInv'
    <2>1. /\ Running(running) /\ bindings[s] = Unset /\ DOMAIN running = ProcessFields
          /\ DOMAIN bindings = Sessions
      BY <1>1, <1>6 DEF CreateSession, SettingsInv, ProcessFits
    <2>2. PICK r : /\ ~running.flags.tui => r = running.model
                   /\ bindings' = [bindings EXCEPT ![s] = r]
      BY <1>6 DEF CreateSession
    <2>3. /\ DOMAIN bindings' = Sessions /\ bindings'[s] = r
          /\ \A t \in Sessions \ {s} : bindings'[t] = bindings[t]
      BY <2>1, <2>2
    <2>4. CASE running.flags.tui
      <3>1. running' = running
        BY <1>6, <2>4 DEF CreateSession
      <3>. QED
        BY <1>1, <1>2, <2>1, <2>3, <3>1 DEF SettingsInv, ProcessFits, Running
    <2>5. CASE ~running.flags.tui
      <3>1. running' = [running EXCEPT !.at = "chatting", !.session = s]
        BY <1>6, <2>5 DEF CreateSession
      <3>2. /\ DOMAIN running' = ProcessFields /\ running'.at = "chatting"
            /\ running'.flags = running.flags /\ running'.model = running.model
            /\ running'.session = s
        BY <2>1, <3>1 DEF ProcessFields
      <3>3. r = running.model /\ running.model # Unset
        BY <1>1, <2>1, <2>2, <2>5 DEF SettingsInv, ProcessFits
      <3>. QED
        BY <1>2, <2>3, <3>2, <3>3 DEF SettingsInv, ProcessFits, Continues
    <2>. QED
      BY <2>4, <2>5
  <1>7. ASSUME NEW m, SwitchModel(m) PROVE SettingsInv'
    <2>1. running.at = "chatting" /\ Running(running) /\ DOMAIN running = ProcessFields
          /\ DOMAIN bindings = Sessions /\ running.session \in Sessions
      BY <1>1, <1>7 DEF SwitchModel, SettingsInv, ProcessFits, Running
    <2>2. PICK r, key : r # Unset /\
             \/ /\ running' = [running EXCEPT !.model = r, !.key = key]
                /\ bindings' = [bindings EXCEPT ![running.session] = r]
             \/ /\ running' \in {[running EXCEPT !.at = "ready"], running}
                /\ bindings' = bindings
      BY <1>7 DEF SwitchModel
    <2>3. CASE bindings' = bindings /\ running' = running
      BY <1>1, <1>2, <2>3 DEF SettingsInv, ProcessFits, Running
    <2>4. CASE bindings' = bindings /\ running' = [running EXCEPT !.at = "ready"]
      <3>1. /\ DOMAIN running' = ProcessFields /\ running'.at = "ready"
            /\ running'.flags = running.flags /\ running'.model = running.model
        BY <2>1, <2>4 DEF ProcessFields
      <3>. QED
        BY <1>1, <1>2, <2>1, <2>4, <3>1 DEF SettingsInv, ProcessFits, Running
    <2>5. CASE /\ running' = [running EXCEPT !.model = r, !.key = key]
               /\ bindings' = [bindings EXCEPT ![running.session] = r]
      <3>1. /\ DOMAIN running' = ProcessFields /\ running'.model = r
            /\ running'.flags = running.flags /\ running'.session = running.session
        BY <2>1, <2>5 DEF ProcessFields
      <3>2. DOMAIN bindings' = Sessions /\ bindings'[running.session] = r
        BY <2>1, <2>5
      <3>. QED
        BY <1>2, <2>1, <2>2, <3>1, <3>2 DEF SettingsInv, ProcessFits, Continues
    <2>. QED
      BY <2>2, <2>3, <2>4, <2>5
  <1>8. CASE SaveSession
    <2>1. /\ running.at = "chatting" /\ Running(running) /\ running' = running
          /\ bindings' = [bindings EXCEPT ![running.session] = running.model]
      BY <1>8 DEF SaveSession, Running
    <2>2. running.session \in Sessions /\ DOMAIN bindings = Sessions
      BY <1>1, <2>1 DEF SettingsInv, ProcessFits
    <2>3. DOMAIN bindings' = Sessions /\ bindings'[running.session] = running.model
      BY <2>1, <2>2
    <2>4. running.model # Unset
      BY <1>1, <2>1 DEF SettingsInv, ProcessFits
    <2>. QED
      BY <1>1, <1>2, <2>1, <2>2, <2>3, <2>4 DEF SettingsInv, ProcessFits, Continues
  <1>. QED
    BY <1>1, <1>3, <1>4, <1>5, <1>6, <1>7, <1>8 DEF SettingsNext

\* A step that does not launch a process loosens nothing, and one that does is a Launch.
LEMMA StepsTighten == SettingsInv /\ [SettingsNext]_settingsVars => [LoosensNothing]_settingsVars
  <1>1. SUFFICES ASSUME SettingsInv, SettingsNext PROVE LoosensNothing
    BY DEF settingsVars, LoosensNothing, Launches
  <1>2. ASSUME NEW f \in Flags, Launch(f) PROVE LoosensNothing
    BY <1>1, <1>2, LaunchesTighten DEF SettingsInv
  <1>3. CASE \/ SaveSession \/ ProcessEnds
             \/ \E d \in Documents : OwnerEdits(d)
             \/ \E a \in Additions, force \in BOOLEAN : ConfigInit(a, force)
             \/ \E s \in Sessions : OpenSession(s) \/ CreateSession(s)
             \/ \E m \in DOMAIN Slug : SwitchModel(m)
    <2>1. Running(running) \/ running' = running \/ running' = Stopped
      BY <1>3 DEF SaveSession, ProcessEnds, OwnerEdits, ConfigInit, OpenSession, CreateSession,
         SwitchModel, Running
    <2>2. ~Launches
      BY <2>1 DEF Launches, Running, Stopped
    <2>. QED
      BY <2>2 DEF LoosensNothing
  <1>. QED
    BY <1>1, <1>2, <1>3 DEF SettingsNext

LEMMA StepsResume == SettingsInv' => [ResumesItsModel]_settingsVars
  BY DEF SettingsInv, ProcessFits, ResumesItsModel, Running

\* Whatever a checkout's own files ask for, a process in a project that is not trusted
\* does nothing unasked that its owner's configuration asks about or refuses, starts none
\* of the checkout's servers, and asks its models of the owner's providers, with his keys:
\* of his profiles if he has any, and otherwise any model (apply_project_overrides,
\* apply_overrides of the command line).
THEOREM ProjectsLoosenNothing == SettingsSpec => [][LoosensNothing]_settingsVars
  BY SettingsStart, SettingsStep, StepsTighten, PTL DEF SettingsSpec

\* A session that is continued has the model that it was saved with, of a provider of the
\* same name and kind, whatever became of the configuration in between (resolve_binding).
\* The kind may be another one for a session without a profile, which follows the owner's
\* file, and for a process whose command line gives the protocol.
THEOREM SessionsResumeTheirModel == SettingsSpec => [][ResumesItsModel]_settingsVars
  BY SettingsStart, SettingsStep, StepsResume, PTL DEF SettingsSpec

-----------------------------------------------------------------------------

ModelFields ==
    {"profile", "provider", "kind", "name", "model", "url", "env", "key", "window"}

\* What a configuration makes of its profiles, or of a name without them.
Made(c, flags, r) ==
    \/ \E f \in DOMAIN c.profiles : r = ResolveProfile(c, flags, f)
    \/ \E m : r = ResolveLegacy(c, flags, m)

\* What is made is made again of its own binding.
LEMMA LegacyReopens ==
    ASSUME NEW c, NEW flags, NEW m
    PROVE  LET r == ResolveLegacy(c, flags, m) IN ResolveBinding(c, flags, r) = r
  <1> DEFINE r == ResolveLegacy(c, flags, m)
  <1>1. PICK q : /\ r = Transported(q, flags) /\ q.model = m /\ q.provider = Legacy
                 /\ q.profile = Name(<<"legacy", m>>) /\ DOMAIN q = ModelFields
    BY DEF ResolveLegacy, Resolved, ModelFields
  <1> HIDE DEF r
  <1>2. r.model = m /\ r.provider = Legacy /\ r.profile = Name(<<"legacy", m>>)
    BY <1>1 DEF Transported, ModelFields
  <1>3. ResolveBinding(c, flags, r) = ResolveLegacy(c, flags, r.model)
    BY <1>2 DEF ResolveBinding, IsLegacy
  <1>. QED
    BY <1>2, <1>3 DEF r

LEMMA ProfileReopens ==
    ASSUME NEW c, NEW flags, NEW f \in DOMAIN c.profiles, flags.protocol = Unset,
           ResolveProfile(c, flags, f) # Unset,
           ~(IsLegacy(ResolveProfile(c, flags, f)) /\ Legacy \in DOMAIN c.providers)
    PROVE  LET r == ResolveProfile(c, flags, f) IN ResolveBinding(c, flags, r) = r
  <1> DEFINE profile == c.profiles[f]
             p == c.providers[profile.provider]
             name == IF p.name = Unset THEN profile.provider ELSE p.name
             builtin == Identify(p.kind, name, profile.provider, p.url)
             env == CASE p.env # Unset -> p.env
                      [] p.env = Unset /\ builtin # Unset -> Builtins[builtin].env
                      [] OTHER -> Builtins[Name(<<p.kind>>)].env
             q == Resolved(f, profile.provider, p.kind, name, profile.model, p.url, env, p.key,
                           profile.window)
             r == ResolveProfile(c, flags, f)
  <1>1. r = IF profile.provider \notin DOMAIN c.providers THEN Unset
            ELSE IF p.kind = "openai" /\ p.url = Unset THEN Unset
            ELSE Transported(q, flags)
    BY Zenon DEF ResolveProfile
  <1>2. /\ DOMAIN q = ModelFields /\ q.provider = profile.provider /\ q.model = profile.model
        /\ q.profile = f /\ q.kind = p.kind
    <2> HIDE DEF name, env, p, profile
    <2>. QED
      BY DEF Resolved, ModelFields
  <1> HIDE DEF q, p
  <1>3. r = Transported(q, flags) /\ profile.provider \in DOMAIN c.providers
    BY <1>1
  <1> HIDE DEF r
  <1>4. /\ r.provider = profile.provider /\ r.model = profile.model /\ r.profile = f
        /\ r.kind = p.kind
    BY <1>2, <1>3 DEF Transported, ModelFields
  <1>5. ~IsLegacy(r)
    BY <1>3, <1>4 DEF IsLegacy, r
  <1>6. /\ r.provider \in DOMAIN c.providers /\ c.providers[r.provider].kind = r.kind
        /\ r.profile \in DOMAIN c.profiles /\ c.profiles[r.profile].provider = r.provider
        /\ c.profiles[r.profile].model = r.model
    BY <1>3, <1>4 DEF p
  <1> HIDE DEF profile
  <1>7. ResolveBinding(c, flags, r) = ResolveProfile(c, flags, r.profile)
    BY <1>5, <1>6, Zenon DEF ResolveBinding
  <1>. QED
    BY <1>4, <1>7 DEF r

LEMMA MadeReopens ==
    ASSUME NEW c, NEW flags, NEW r, Made(c, flags, r), r # Unset, flags.protocol = Unset,
           ~(IsLegacy(r) /\ Legacy \in DOMAIN c.providers)
    PROVE  ResolveBinding(c, flags, r) = r
  BY LegacyReopens, ProfileReopens DEF Made

\* All that can be chosen is made so.
LEMMA SelectableIsMade ==
    ASSUME NEW c, NEW flags, NEW r \in Selectable(c, flags) PROVE Made(c, flags, r)
  BY DEF Selectable, Made

LEMMA DefaultsAreMade ==
    ASSUME NEW c, NEW flags, NEW r \in Defaults(c, flags), r # Unset PROVE Made(c, flags, r)
  BY SelectableIsMade DEF Defaults, Usable, Made

LEMMA ResolvedIsMade ==
    ASSUME NEW c, NEW flags, NEW selector, Resolve(c, flags, selector) # Unset
    PROVE  Made(c, flags, Resolve(c, flags, selector))
  <1> DEFINE same == {r \in Selectable(c, flags) : r # Unset /\ r.model = selector}
             r == Resolve(c, flags, selector)
  <1>0. r = CASE Name(<<selector>>) \in DOMAIN c.profiles ->
                    ResolveProfile(c, flags, Name(<<selector>>))
              [] Name(<<selector>>) \notin DOMAIN c.profiles /\ Usable(c, flags)
                    /\ Cardinality(same) = 1 -> CHOOSE q \in same : TRUE
              [] DOMAIN c.profiles = {} /\ same = {} -> ResolveLegacy(c, flags, selector)
              [] OTHER -> Unset
    BY Zenon DEF Resolve
  <1>4. Cardinality(same) = 1 => \E q : q \in same
    BY FS_EmptySet
  <1>5. \A q \in same : Made(c, flags, q)
    BY SelectableIsMade
  <1> HIDE DEF r, same
  <1>1. CASE Name(<<selector>>) \in DOMAIN c.profiles
    <2>1. r = ResolveProfile(c, flags, Name(<<selector>>))
      BY <1>0, <1>1
    <2>. QED
      BY <1>1, <2>1 DEF Made, r
  <1>2. CASE /\ Name(<<selector>>) \notin DOMAIN c.profiles
             /\ Usable(c, flags) /\ Cardinality(same) = 1
    <2>1. same # {}
      BY <1>2, <1>4
    <2>2. r = CHOOSE q \in same : TRUE
      BY <1>0, <1>2, <2>1
    <2>3. r \in same
      BY <2>1, <2>2
    <2>. QED
      BY <2>3, <1>5 DEF r
  <1>3. CASE /\ Name(<<selector>>) \notin DOMAIN c.profiles
             /\ ~(Usable(c, flags) /\ Cardinality(same) = 1)
    <2>1. r # Unset
      BY DEF r
    <2>2. r = ResolveLegacy(c, flags, selector)
      BY <1>0, <1>3, <2>1
    <2>. QED
      BY <2>2 DEF Made, r
  <1>. QED
    BY <1>1, <1>2, <1>3

LEMMA BoundIsMade ==
    ASSUME NEW c, NEW flags, NEW b, ResolveBinding(c, flags, b) # Unset
    PROVE  Made(c, flags, ResolveBinding(c, flags, b))
  <1>1. CASE IsLegacy(b)
    <2>1. ResolveBinding(c, flags, b) = ResolveLegacy(c, flags, b.model)
      BY <1>1 DEF ResolveBinding
    <2>. QED
      BY <2>1 DEF Made
  <1>2. CASE ~IsLegacy(b)
    <2>1. /\ ResolveBinding(c, flags, b) = ResolveProfile(c, flags, b.profile)
          /\ b.profile \in DOMAIN c.profiles
      BY <1>2 DEF ResolveBinding
    <2>. QED
      BY <2>1 DEF Made
  <1>. QED
    BY <1>1, <1>2

-----------------------------------------------------------------------------

\* What a process runs with, its configuration has made.
ModelIsMade ==
    Running(running) /\ running.model # Unset =>
        Made(running.config, running.flags, running.model)

ReopenInv == SettingsInv /\ ModelIsMade

\* The flags and the project's file change no provider and no profile.
LEMMA FlagsMakeTheSame ==
    ASSUME NEW c, NEW flags, NEW r, DOMAIN c = DOMAIN EmptyDocument, Made(c, flags, r)
    PROVE  Made(WithFlags(c, flags), flags, r)
  <1> DEFINE d == WithFlags(c, flags)
  <1>1. /\ d.profiles = c.profiles /\ d.providers = c.providers /\ d.url = c.url
        /\ d.urlName = c.urlName /\ d.urlKey = c.urlKey /\ d.key = c.key
    BY FieldsOfDocuments DEF WithFlags
  <1> HIDE DEF d
  <1>2. \A f : ResolveProfile(d, flags, f) = ResolveProfile(c, flags, f)
    BY <1>1, Zenon DEF ResolveProfile
  <1>3. \A m : ResolveLegacy(d, flags, m) = ResolveLegacy(c, flags, m)
    BY <1>1, Zenon DEF ResolveLegacy
  <1>4. Made(d, flags, r)
    BY <1>1, <1>2, <1>3 DEF Made
  <1>. QED
    BY <1>4 DEF d

LEMMA LoadedDocuments ==
    ASSUME OwnerWrites, NEW flags
    PROVE  DOMAIN Loaded(owner, project, flags) = DOMAIN EmptyDocument
  <1> DEFINE d == Read(owner)
  <1>1. DOMAIN d = DOMAIN EmptyDocument
    BY ReadingDocuments DEF IsDocument
  <1> HIDE DEF d
  <1>2. PICK trusted : Loaded(owner, project, flags) = WithProject(d, project, trusted)
    BY DEF Loaded, d
  <1>. QED
    BY <1>1, <1>2 DEF WithProject

LEMMA ReopenStart == SettingsInit => ReopenInv
  BY SettingsStart DEF SettingsInit, ReopenInv, ModelIsMade, Running, Stopped

LEMMA LaunchesMake ==
    ASSUME ReopenInv, NEW flags \in Flags, Launch(flags) PROVE ModelIsMade'
  <1> DEFINE c == Loaded(owner, project, flags)
             d == WithFlags(c, flags)
  <1>1. PICK r \in IF flags.model = Unset THEN Defaults(c, flags)
                   ELSE {Resolve(c, flags, flags.model)} :
          /\ r # Unset
          /\ running' = Process("ready", c, flags, Trusts(owner, flags),
                                IF flags.tui THEN Unset ELSE r)
    BY DEF Launch
  <1>2. Made(c, flags, r)
    BY <1>1, DefaultsAreMade, ResolvedIsMade
  <1>3. DOMAIN c = DOMAIN EmptyDocument
    BY LoadedDocuments DEF ReopenInv, SettingsInv
  <1>4. /\ running'.config = d /\ running'.flags = flags
        /\ running'.model = IF flags.tui THEN Unset ELSE r
    BY <1>1 DEF Process
  <1> HIDE DEF c
  <1>5. Made(d, flags, r)
    BY <1>2, <1>3, FlagsMakeTheSame
  <1> HIDE DEF d
  <1>. QED
    BY <1>4, <1>5 DEF ModelIsMade

\* The invariant is kept by every step.
LEMMA ReopenStep == ReopenInv /\ [SettingsNext]_settingsVars => ReopenInv'
  <1>1. SUFFICES ASSUME ReopenInv, [SettingsNext]_settingsVars PROVE ReopenInv'
    OBVIOUS
  <1>2. SettingsInv'
    BY <1>1, SettingsStep DEF ReopenInv
  <1>3. CASE \/ UNCHANGED settingsVars \/ ProcessEnds
             \/ \E d \in Documents : OwnerEdits(d)
             \/ \E a \in Additions, force \in BOOLEAN : ConfigInit(a, force)
    <2>1. running' = running \/ running' = Stopped
      BY <1>3 DEF settingsVars, ProcessEnds, OwnerEdits, ConfigInit
    <2>. QED
      BY <1>1, <1>2, <2>1 DEF ReopenInv, ModelIsMade, Running, Stopped
  <1>4. ASSUME NEW f \in Flags, Launch(f) PROVE ReopenInv'
    BY <1>1, <1>2, <1>4, LaunchesMake DEF ReopenInv
  <1>5. ASSUME \/ running' \in {running, Stopped}
               \/ /\ Running(running)
                  /\ running'.config = running.config /\ running'.flags = running.flags
                  /\ \/ running'.model = running.model
                     \/ Made(running.config, running.flags, running'.model)
        PROVE  ReopenInv'
    BY <1>1, <1>2, <1>5 DEF ReopenInv, ModelIsMade, Running, Stopped
  <1>6. ASSUME NEW s \in Sessions, OpenSession(s) PROVE ReopenInv'
    <2>1. /\ Running(running) /\ DOMAIN running = ProcessFields
      BY <1>1, <1>6 DEF OpenSession, ReopenInv, SettingsInv, ProcessFits
    <2>2. PICK r, key : r = SessionModel(s) /\
             \/ running' \in {Stopped, [running EXCEPT !.at = "ready"]}
             \/ /\ r # Unset
                /\ running' = [running EXCEPT !.at = "chatting", !.model = r, !.session = s,
                                              !.key = key]
      BY <1>6 DEF OpenSession
    <2>3. r # Unset => Made(running.config, running.flags, r)
      BY <2>2, BoundIsMade DEF SessionModel
    <2>4. \/ running' = Stopped
          \/ /\ running'.config = running.config /\ running'.flags = running.flags
             /\ running'.model = running.model \/ (running'.model = r /\ r # Unset)
      BY <2>1, <2>2 DEF ProcessFields
    <2>. QED
      BY <1>5, <2>1, <2>3, <2>4
  <1>7. ASSUME NEW s \in Sessions, CreateSession(s) PROVE ReopenInv'
    <2>1. /\ Running(running) /\ DOMAIN running = ProcessFields
      BY <1>1, <1>7 DEF CreateSession, ReopenInv, SettingsInv, ProcessFits
    <2>2. running' = running \/ running' = [running EXCEPT !.at = "chatting", !.session = s]
      BY <1>7 DEF CreateSession
    <2>3. /\ running'.config = running.config /\ running'.flags = running.flags
          /\ running'.model = running.model
      BY <2>1, <2>2 DEF ProcessFields
    <2>. QED
      BY <1>5, <2>1, <2>3
  <1>8. ASSUME NEW m, SwitchModel(m) PROVE ReopenInv'
    <2>1. /\ Running(running) /\ DOMAIN running = ProcessFields
      BY <1>1, <1>8 DEF SwitchModel, ReopenInv, SettingsInv, ProcessFits, Running
    <2>2. PICK r, key : /\ r = Resolve(running.config, running.flags, m) /\ r # Unset
                        /\ \/ running' = [running EXCEPT !.model = r, !.key = key]
                           \/ running' \in {[running EXCEPT !.at = "ready"], running}
      BY <1>8 DEF SwitchModel
    <2>3. Made(running.config, running.flags, r)
      BY <2>2, ResolvedIsMade
    <2>4. /\ running'.config = running.config /\ running'.flags = running.flags
          /\ running'.model \in {r, running.model}
      BY <2>1, <2>2 DEF ProcessFields
    <2>. QED
      BY <1>5, <2>1, <2>3, <2>4
  <1>9. CASE SaveSession
    BY <1>5, <1>9 DEF SaveSession
  <1>. QED
    BY <1>1, <1>3, <1>4, <1>6, <1>7, <1>8, <1>9 DEF SettingsNext

\* What a step saves is what the process can make.
LEMMA StepsSaveWhatReopens ==
    ReopenInv /\ [SettingsNext]_settingsVars => [SavedReopens]_settingsVars
  <1>1. SUFFICES ASSUME ReopenInv, SettingsNext, NEW s \in Sessions, Running(running),
                        bindings'[s] # bindings[s], running.flags.protocol = Unset,
                        ~(IsLegacy(bindings'[s]) /\ Legacy \in DOMAIN running.config.providers)
                 PROVE  ResolveBinding(running.config, running.flags, bindings'[s]) = bindings'[s]
    BY DEF settingsVars, SavedReopens
  <1>2. SUFFICES bindings'[s] # Unset /\ Made(running.config, running.flags, bindings'[s])
    BY <1>1, MadeReopens DEF ReopenInv, ModelIsMade
  <1>3. DOMAIN bindings = Sessions /\ ProcessFits /\ ModelIsMade
    BY <1>1 DEF ReopenInv, SettingsInv
  <1>4. ASSUME NEW t \in Sessions, CreateSession(t)
        PROVE  bindings'[s] # Unset /\ Made(running.config, running.flags, bindings'[s])
    <2>1. PICK r : /\ r \in IF running.flags.tui THEN Offered ELSE {running.model}
                   /\ bindings' = [bindings EXCEPT ![t] = r]
      BY <1>4 DEF CreateSession
    <2>2. s = t /\ bindings'[s] = r
      BY <1>1, <1>3, <2>1
    <2>3. r # Unset
      BY <1>1, <1>4, <2>2 DEF CreateSession
    <2>4. CASE running.flags.tui
      BY <2>1, <2>2, <2>3, <2>4, SelectableIsMade, ResolvedIsMade DEF Offered
    <2>5. CASE ~running.flags.tui
      BY <1>1, <1>3, <2>1, <2>2, <2>3, <2>5 DEF ModelIsMade
    <2>. QED
      BY <2>4, <2>5
  <1>5. ASSUME NEW m, SwitchModel(m)
        PROVE  bindings'[s] # Unset /\ Made(running.config, running.flags, bindings'[s])
    <2>1. PICK r : /\ r = Resolve(running.config, running.flags, m) /\ r # Unset
                   /\ \/ bindings' = [bindings EXCEPT ![running.session] = r]
                      \/ bindings' = bindings
      BY <1>5 DEF SwitchModel
    <2>2. bindings'[s] = r
      BY <1>1, <1>3, <2>1
    <2>. QED
      BY <2>1, <2>2, ResolvedIsMade
  <1>6. CASE SaveSession
    <2>1. running.at = "chatting" /\ bindings' = [bindings EXCEPT ![running.session] = running.model]
      BY <1>6 DEF SaveSession
    <2>2. bindings'[s] = running.model
      BY <1>1, <1>3, <2>1
    <2>. QED
      BY <1>1, <1>3, <2>1, <2>2 DEF ProcessFits, ModelIsMade
  <1>7. bindings' = bindings \/ SaveSession \/ (\E t \in Sessions : CreateSession(t))
        \/ (\E m \in DOMAIN Slug : SwitchModel(m))
    BY <1>1 DEF SettingsNext, ProcessEnds, OwnerEdits, ConfigInit, Launch, OpenSession
  <1>. QED
    BY <1>1, <1>4, <1>5, <1>6, <1>7

\* "A typo or unavailable key must not strand an otherwise usable saved session"
\* (tui/mod.rs): a binding that a process saves, it can resolve, to the very same model.
\* Not so where the command line gave the protocol, and where a profile has the name
\* that stands for a session without one.
THEOREM SavedSessionsReopen == SettingsSpec => [][SavedReopens]_settingsVars
  BY ReopenStart, ReopenStep, StepsSaveWhatReopens, PTL DEF SettingsSpec

-----------------------------------------------------------------------------
(* HomeScreen                                                              *)

\* While the question is on the screen, it is what was done last, and about its session.
QuestionIsLast == Questioned => done = <<"asked", mode>>

HomeInv == QuestionIsLast /\ \E S : rows \in Seq(S)

\* A set of places that is not empty has a first one.
LEMMA LeastIsThere ==
    ASSUME NEW I \in SUBSET Nat, I # {}
    PROVE  Min(I) \in I /\ \A y \in I : Min(I) <= y
  <1> DEFINE R == OpToRel(<, Nat)
  <1>1. IsWellFoundedOn(R, Nat)
    BY NatLessThanWellFounded
  <1>2. \A x, y \in Nat : y < x => <<y, x>> \in R
    BY DEF OpToRel
  <1>3. \A x, y \in Nat : ~(y < x) => x <= y
    OBVIOUS
  <1>. HIDE DEF R
  <1>4. PICK x \in I : \A y \in I : ~(<<y, x>> \in R)
    BY <1>1, WFMin
  <1>5. \A y \in I : x <= y
    BY <1>2, <1>4, <1>3
  <1>. QED
    BY <1>5 DEF Min

\* Of rows in a sequence, removing one takes no other.
LEMMA WithoutOne ==
    ASSUME NEW S, rows \in Seq(S), NEW id
    PROVE  /\ Without(id) \in Seq(S)
           /\ ToSet(rows) \ ToSet(Without(id)) \subseteq {s \in ToSet(rows) : s.id = id}
  <1> DEFINE I == {i \in 1..Len(rows) : rows[i].id = id}
  <1>1. CASE I = {}
    <2>1. Without(id) = rows
      BY <1>1 DEF Without, RemoveFirstMatch
    <2>. QED
      BY <2>1
  <1>2. CASE I # {}
    <2> DEFINE i == Min(I)
               w == RemoveAt(rows, i)
    <2>1. Without(id) = w
      BY <1>2 DEF Without, RemoveFirstMatch, SelectInSeq
    <2>2. i \in 1..Len(rows) /\ rows[i].id = id
      <3>1. I \in SUBSET Nat
        OBVIOUS
      <3>. HIDE DEF I
      <3>2. i \in I
        BY <1>2, <3>1, LeastIsThere
      <3>. QED
        BY <3>2 DEF I
    <2>. HIDE DEF i
    <2>3. /\ w \in Seq(S) /\ Len(w) = Len(rows) - 1
          /\ \A k \in 1..(i - 1) : w[k] = rows[k]
          /\ \A k \in i..(Len(rows) - 1) : w[k] = rows[k + 1]
      <3> DEFINE a == SubSeq(rows, 1, i - 1)
                 b == SubSeq(rows, i + 1, Len(rows))
      <3>1. a \in Seq(S) /\ Len(a) = i - 1 /\ \A k \in 1..(i - 1) : a[k] = rows[k]
        BY <2>2, SubSeqProperties
      <3>2. /\ b \in Seq(S) /\ Len(b) = Len(rows) - i
            /\ \A k \in 1..(Len(rows) - i) : b[k] = rows[k + i]
        BY <2>2, SubSeqProperties
      <3>3. w = a \o b
        BY DEF RemoveAt
      <3>. HIDE DEF a, b, w
      <3>4. /\ w \in Seq(S) /\ Len(w) = Len(rows) - 1
            /\ \A k \in 1..(Len(rows) - 1) : w[k] = IF k <= i - 1 THEN a[k] ELSE b[k - (i - 1)]
        <4>1. /\ w \in Seq(S) /\ Len(w) = Len(a) + Len(b)
              /\ \A k \in 1..(Len(a) + Len(b)) :
                    w[k] = IF k <= Len(a) THEN a[k] ELSE b[k - Len(a)]
          BY <3>1, <3>2, <3>3, ConcatProperties
        <4>2. Len(a) = i - 1 /\ Len(a) + Len(b) = Len(rows) - 1
          BY <2>2, <3>1, <3>2
        <4>. QED
          BY <4>1, <4>2
      <3>5. ASSUME NEW k \in i..(Len(rows) - 1) PROVE w[k] = rows[k + 1]
        <4>1. w[k] = b[k - (i - 1)]
          BY <2>2, <3>4
        <4>2. k - (i - 1) \in 1..(Len(rows) - i) /\ k - (i - 1) + i = k + 1
          BY <2>2
        <4>. QED
          BY <3>2, <4>1, <4>2
      <3>. QED
        BY <2>2, <3>1, <3>4, <3>5
    <2>. HIDE DEF w
    <2>4. ASSUME NEW j \in 1..Len(rows), j # i
          PROVE  rows[j] \in ToSet(w)
      <3>1. CASE j < i
        <4>1. j \in DOMAIN w /\ w[j] = rows[j]
          BY <2>2, <2>3, <3>1
        <4>. QED
          BY <4>1 DEF ToSet
      <3>2. CASE j > i
        <4>1. j - 1 \in DOMAIN w /\ w[j - 1] = rows[j]
          BY <2>2, <2>3, <3>2
        <4>. QED
          BY <4>1 DEF ToSet
      <3>. QED
        BY <2>2, <2>4, <3>1, <3>2
    <2>5. \A s \in ToSet(rows) : s = rows[i] \/ s \in ToSet(w)
      BY <2>4 DEF ToSet
    <2>. QED
      BY <2>1, <2>2, <2>3, <2>5
  <1>. QED
    BY <1>1, <1>2

LEMMA HomeStart == HomeInit => HomeInv
  BY DEF HomeInit, HomeInv, QuestionIsLast, Questioned

\* The session in question is not asked about anew, and leaves with the answer.
LEMMA HomeStep == HomeInv /\ [HomeNext]_homeVars => HomeInv'
  <1>1. SUFFICES ASSUME HomeInv, [HomeNext]_homeVars PROVE HomeInv'
    OBVIOUS
  <1>2. PICK S : rows \in Seq(S)
    BY <1>1 DEF HomeInv
  <1>3. ASSUME NEW id PROVE Without(id) \in Seq(S)
    BY <1>2, WithoutOne
  <1>4. ASSUME NEW s PROVE \E R : <<s>> \o rows \in Seq(R) /\ <<s>> \o Without(s.id) \in Seq(R)
    <2>1. rows \in Seq(S \union {s}) /\ Without(s.id) \in Seq(S \union {s})
      BY <1>2, <1>3
    <2>2. <<s>> \in Seq(S \union {s})
      OBVIOUS
    <2>. QED
      BY <2>1, <2>2
  <1>5. CASE \/ \E place \in DOMAIN tree : MovesCursor(place)
             \/ Folds \/ Chooses \/ Quits \/ ComesBack \/ AsksToDelete \/ Keeps
    BY <1>1, <1>5 DEF HomeInv, QuestionIsLast, Questioned, MovesCursor, Folds, Reloads,
       Chooses, Quits, ComesBack, AsksToDelete, Keeps, Browsing
  <1>6. CASE ConfirmsDelete
    BY <1>1, <1>3, <1>6 DEF HomeInv, QuestionIsLast, Questioned, ConfirmsDelete
  <1>7. CASE \/ PicksModel \/ (\E at \in DOMAIN Listed : MovesInList(at)) \/ Searches
             \/ (\E query \in Queries : TypesQuery(query)) \/ EndsSearch \/ LeavesPicker
             \/ ChoosesModel
    BY <1>1, <1>7 DEF HomeInv, QuestionIsLast, Questioned, PicksModel, MovesInList, InPicker,
       Searches, TypesQuery, EndsSearch, LeavesPicker, ChoosesModel
  <1>8. CASE \E id \in NewIds : CreatesSession(id)
    BY <1>1, <1>4, <1>8 DEF HomeInv, QuestionIsLast, Questioned, CreatesSession
  <1>9. CASE NamesProject \/ (\E name \in ToSet(Projects) : CreatesProject(name)) \/ Forgets
    BY <1>1, <1>9 DEF HomeInv, QuestionIsLast, Questioned, NamesProject, CreatesProject,
       Reloads, Forgets
  <1>10. CASE \E id \in NewIds, p \in ToSet(Projects) : OthersMake(id, p)
    BY <1>1, <1>4, <1>10 DEF HomeInv, QuestionIsLast, Questioned, OthersMake
  <1>11. CASE \E s \in ToSet(rows) : OthersUse(s) \/ OthersDelete(s)
    BY <1>1, <1>3, <1>4, <1>11 DEF HomeInv, QuestionIsLast, Questioned, OthersUse, OthersDelete
  <1>12. CASE UNCHANGED homeVars
    BY <1>1, <1>12 DEF HomeInv, QuestionIsLast, Questioned, homeVars
  <1>. QED
    BY <1>1, <1>5, <1>6, <1>7, <1>8, <1>9, <1>10, <1>11, <1>12 DEF HomeNext

LEMMA StepsDeleteWhatTheyAsked ==
    HomeInv /\ [HomeNext]_homeVars => [DeletesWhatItAsked]_homeVars
  <1>1. SUFFICES ASSUME HomeInv, HomeNext PROVE DeletesWhatItAsked
    OBVIOUS
  <1>2. CASE done' = done \/ rows' = rows \/ \E id \in NewIds : CreatesSession(id)
    <2>1. CASE \E id \in NewIds : CreatesSession(id)
      <3>1. done'[1] = "open"
        BY <2>1 DEF CreatesSession
      <3>. QED
        BY <3>1 DEF DeletesWhatItAsked, Created
    <2>. QED
      BY <1>2, <2>1 DEF DeletesWhatItAsked
  <1>3. CASE ConfirmsDelete
    <2>1. done = <<"asked", mode>> /\ done' = <<"deleted", mode>> /\ rows' = Without(mode)
      BY <1>1, <1>3 DEF HomeInv, QuestionIsLast, ConfirmsDelete
    <2>2. PICK S : rows \in Seq(S)
      BY <1>1 DEF HomeInv
    <2>3. ToSet(rows) \ ToSet(Without(mode)) \subseteq {s \in ToSet(rows) : s.id = mode}
      BY <2>2, WithoutOne
    <2>. QED
      BY <2>1, <2>3 DEF DeletesWhatItAsked
  <1>4. \/ ConfirmsDelete \/ done' = done \/ rows' = rows
        \/ \E id \in NewIds : CreatesSession(id)
    BY <1>1 DEF HomeNext, MovesCursor, Folds, Chooses, Quits, ComesBack, AsksToDelete, Keeps,
       PicksModel, MovesInList, InPicker, Searches, TypesQuery, EndsSearch, LeavesPicker,
       ChoosesModel, NamesProject, CreatesProject, Forgets, OthersMake, OthersUse, OthersDelete
  <1>. QED
    BY <1>2, <1>3, <1>4

\* A session is deleted on the screen that lists them only after a question that named
\* it, and with the answer only it goes, whatever other processes did to the database
\* since (handle_delete_confirmation and delete_session).
THEOREM DeletionsWereAsked == HomeSpec => [][DeletesWhatItAsked]_homeVars
  BY HomeStart, HomeStep, StepsDeleteWhatTheyAsked, PTL DEF HomeSpec

\* The model that was chosen is one of the list, and the list is of what is typed.
PickerFits ==
    /\ DOMAIN picker = {"model", "at", "query", "searching"}
    /\ picker.query \in Queries /\ (~picker.searching => picker.query = "")
    /\ Listing[""] # <<>> => picker.model \in ToSet(Listing[""])

PlaceIsListed == Listed = <<>> \/ picker.at \in DOMAIN Listed

\* The place is kept in the list even while the list is not shown.
PickerInv == PickerFits /\ PlaceIsListed

LEMMA SequencesHavePlaces ==
    ASSUME NEW S, NEW s \in Seq(S)
    PROVE  /\ Len(s) \in Nat /\ DOMAIN s = 1..Len(s) /\ ToSet(s) = {s[i] : i \in 1..Len(s)}
           /\ s # <<>> => 1 \in 1..Len(s)
  BY DEF ToSet

\* A list for what is typed has no more places than the whole one.
LEMMA ListsHavePlaces ==
    ASSUME NEW query \in Queries
    PROVE  /\ DOMAIN Listing[query] = 1..Len(Listing[query]) /\ Len(Listing[query]) \in Nat
           /\ DOMAIN Listing[query] \subseteq DOMAIN Listing[""]
           /\ ToSet(Listing[query]) \subseteq ToSet(Listing[""])
           /\ Listing[query] # <<>> => 1 \in DOMAIN Listing[query] /\ Listing[""] # <<>>
  <1> DEFINE W == Listing[""]
             q == Listing[query]
  <1>1. W \in Seq(ToSet(W)) /\ q \in Seq(ToSet(W)) /\ Len(q) <= Len(W)
    BY HomeAssumption
  <1>. HIDE DEF W, q
  <1>2. /\ Len(W) \in Nat /\ DOMAIN W = 1..Len(W)
        /\ Len(q) \in Nat /\ DOMAIN q = 1..Len(q) /\ ToSet(q) = {q[i] : i \in 1..Len(q)}
        /\ q # <<>> => 1 \in 1..Len(q)
    BY <1>1, SequencesHavePlaces
  <1>3. \A i \in 1..Len(q) : q[i] \in ToSet(W)
    BY <1>1
  <1>4. W = <<>> => Len(W) = 0
    OBVIOUS
  <1>5. DOMAIN q \subseteq DOMAIN W
    BY <1>1, <1>2
  <1>6. q # <<>> => W # <<>>
    BY <1>1, <1>2, <1>4
  <1>. QED
    BY <1>2, <1>3, <1>5, <1>6 DEF W, q

LEMMA NoPickFits ==
    /\ DOMAIN NoPick = {"model", "at", "query", "searching"} /\ NoPick.query = ""
    /\ NoPick.at = 1
    /\ Listing[""] # <<>> => NoPick.model \in ToSet(Listing[""]) /\ 1 \in DOMAIN Listing[""]
  <1>1. NoPick.model = Listing[""][1]
    BY DEF NoPick
  <1>2. Listing[""] # <<>> => 1 \in DOMAIN Listing[""]
    BY HomeAssumption, ListsHavePlaces
  <1>3. \A i \in DOMAIN Listing[""] : Listing[""][i] \in ToSet(Listing[""])
    BY DEF ToSet
  <1>. QED
    BY <1>1, <1>2, <1>3 DEF NoPick

LEMMA PickerStart == HomeInit => PickerInv
  BY NoPickFits, HomeAssumption DEF HomeInit, PickerInv, PickerFits, PlaceIsListed, Listed

LEMMA PlacesAreNumbers ==
    ASSUME NEW n \in Nat, NEW I, I \subseteq 1..n
    PROVE  I \in SUBSET Nat
  OBVIOUS

\* What was chosen last has a place in the whole list.
LEMMA ChosenIsThere ==
    ASSUME PickerFits
    PROVE  Listing[""] = <<>> \/ ChosenPlace \in DOMAIN Listing[""]
  <1>1. SUFFICES ASSUME Listing[""] # <<>> PROVE ChosenPlace \in DOMAIN Listing[""]
    OBVIOUS
  <1>2. DOMAIN Listing[""] = 1..Len(Listing[""]) /\ Len(Listing[""]) \in Nat
    BY HomeAssumption, ListsHavePlaces
  <1> DEFINE I == {i \in 1..Len(Listing[""]) : Listing[""][i] = picker.model}
  <1>3. I # {} /\ I \in SUBSET Nat
    <2>1. PICK i \in DOMAIN Listing[""] : Listing[""][i] = picker.model
      BY <1>1 DEF PickerFits, ToSet
    <2>2. i \in I
      BY <1>2, <2>1
    <2>3. I \subseteq 1..Len(Listing[""])
      OBVIOUS
    <2>. QED
      BY <1>2, <2>2, <2>3, PlacesAreNumbers
  <1>4. ChosenPlace = Min(I)
    BY <1>3 DEF ChosenPlace, SelectInSeq
  <1>5. I \subseteq DOMAIN Listing[""]
    BY <1>2
  <1>. HIDE DEF I
  <1>. QED
    BY <1>3, <1>4, <1>5, LeastIsThere

LEMMA PickerStep == PickerInv /\ [HomeNext]_homeVars => PickerInv'
  <1>1. SUFFICES ASSUME PickerInv, [HomeNext]_homeVars PROVE PickerInv'
    OBVIOUS
  <1>2. CASE picker' = picker
    BY <1>1, <1>2 DEF PickerInv, PickerFits, PlaceIsListed, Listed
  <1>3. CASE ComesBack
    BY <1>3, NoPickFits, HomeAssumption DEF ComesBack, PickerInv, PickerFits, PlaceIsListed, Listed
  <1>4. CASE PicksModel \/ EndsSearch
    BY <1>1, <1>4, ChosenIsThere, HomeAssumption
    DEF PicksModel, EndsSearch, InPicker, PickerInv, PickerFits, PlaceIsListed, Listed
  <1>5. CASE \E at \in DOMAIN Listed : MovesInList(at)
    BY <1>1, <1>5
    DEF MovesInList, InPicker, PickerInv, PickerFits, PlaceIsListed, Listed
  <1>6. CASE Searches
    BY <1>1, <1>6, HomeAssumption, ListsHavePlaces
    DEF Searches, InPicker, PickerInv, PickerFits, PlaceIsListed, Listed
  <1>7. CASE \E query \in Queries : TypesQuery(query)
    BY <1>1, <1>7, ListsHavePlaces
    DEF TypesQuery, InPicker, PickerInv, PickerFits, PlaceIsListed, Listed
  <1>8. CASE LeavesPicker
    BY <1>1, <1>8, HomeAssumption, ListsHavePlaces
    DEF LeavesPicker, PickerInv, PickerFits, PlaceIsListed, Listed
  <1>9. CASE ChoosesModel
    <2>1. /\ picker.query \in Queries /\ picker.at \in DOMAIN Listing[picker.query]
          /\ picker' = [picker EXCEPT !.model = Listing[picker.query][picker.at], !.query = ""]
      BY <1>1, <1>9 DEF ChoosesModel, PickerInv, PickerFits, Listed
    <2>2. Listing[picker.query][picker.at] \in ToSet(Listing[picker.query])
      BY <2>1 DEF ToSet
    <2>3. /\ Listing[picker.query][picker.at] \in ToSet(Listing[""])
          /\ picker.at \in DOMAIN Listing[""]
      BY <2>1, <2>2, ListsHavePlaces
    <2>. QED
      BY <1>1, <2>1, <2>3, HomeAssumption DEF PickerInv, PickerFits, PlaceIsListed, Listed
  <1>10. \/ picker' = picker \/ ComesBack \/ PicksModel \/ EndsSearch
         \/ (\E at \in DOMAIN Listed : MovesInList(at)) \/ Searches
         \/ (\E query \in Queries : TypesQuery(query)) \/ LeavesPicker \/ ChoosesModel
    BY <1>1 DEF HomeNext, MovesCursor, Folds, Reloads, Chooses, Quits, ConfirmsDelete,
       AsksToDelete, Keeps, CreatesSession, NamesProject, CreatesProject, Forgets, OthersMake,
       OthersUse, OthersDelete, homeVars
  <1>. QED
    BY <1>2, <1>3, <1>4, <1>5, <1>6, <1>7, <1>8, <1>9, <1>10

\* Whatever is typed to find a model and whatever was chosen before, the model that
\* Enter would take is one of those on the screen (filtered_model_indices and
\* handle_model_picker_key of home.rs).
THEOREM PicksAreListed == HomeSpec => []PickIsListed
  <1>1. PickerInv => PickIsListed
    BY DEF PickerInv, PlaceIsListed, PickIsListed
  <1>. QED
    BY PickerStart, PickerStep, <1>1, PTL DEF HomeSpec

-----------------------------------------------------------------------------
(* InputLine                                                               *)

VoiceFits == DOMAIN voice = {"on", "recording", "queue"}

MicrophoneInv == VoiceFits /\ (did.kind = "turn" => ~voice.recording)

LEMMA LineStart == LineInit => MicrophoneInv
  BY DEF LineInit, MicrophoneInv, VoiceFits, NothingDone

\* A turn or a command is of a line that was sent; only the keys of the chat leave it
\* without one.
LEMMA SendingIsNotAccident ==
    ASSUME NEW text, Sends(text)
    PROVE  did'.kind = "exit" => did'.text # <<>>
  BY DEF Sends, NoToken

LEMMA LineStep ==
    MicrophoneInv /\ [LineNext]_lineVars => MicrophoneInv' /\ [NothingByAccident]_lineVars
  <1>1. SUFFICES ASSUME MicrophoneInv, [LineNext]_lineVars
                 PROVE  MicrophoneInv' /\ [NothingByAccident]_lineVars
    OBVIOUS
  <1>2. CASE did' = NothingDone /\ DOMAIN voice' = DOMAIN voice
    BY <1>1, <1>2 DEF MicrophoneInv, VoiceFits, NothingDone, NothingByAccident
  <1>3. CASE \E c \in Letters \union {Blank, Slash}, sent \in BOOLEAN : Transcribes(<<c>>, sent)
    <2>1. PICK heard, sent : Transcribes(heard, sent)
      BY <1>3
    <2>2. voice' = [voice EXCEPT !.recording = FALSE]
      BY <2>1 DEF Transcribes
    <2>3. did' = NothingDone \/ Sends(heard)
      BY <2>1 DEF Transcribes
    <2>. QED
      BY <1>1, <2>2, <2>3, SendingIsNotAccident
      DEF MicrophoneInv, VoiceFits, NothingDone, NothingByAccident
  <1>4. CASE Submits
    <2>1. voice' = [voice EXCEPT !.recording = FALSE] /\ Sends(line)
      BY <1>4 DEF Submits
    <2>. QED
      BY <1>1, <2>1, SendingIsNotAccident DEF MicrophoneInv, VoiceFits, NothingByAccident
  <1>5. CASE PressesCtrlC \/ PressesCtrlD
    BY <1>1, <1>5 DEF PressesCtrlC, PressesCtrlD, NothingDone, MicrophoneInv, VoiceFits,
       NothingByAccident
  <1>6. CASE TwoSecondsPass \/ UNCHANGED lineVars
    BY <1>1, <1>6 DEF TwoSecondsPass, lineVars, MicrophoneInv, VoiceFits, NothingByAccident
  <1>7. CASE Speaks
    BY <1>1, <1>7 DEF Speaks, MicrophoneInv, VoiceFits, NothingByAccident
  <1>8. CASE \E r \in Replies : Replied(r)
    BY <1>1, <1>8 DEF Replied, NothingDone, MicrophoneInv, VoiceFits, NothingByAccident
  <1>9. \/ did' = NothingDone /\ DOMAIN voice' = DOMAIN voice
        \/ \E c \in Letters \union {Blank, Slash}, sent \in BOOLEAN : Transcribes(<<c>>, sent)
        \/ Submits \/ PressesCtrlC \/ PressesCtrlD \/ TwoSecondsPass \/ UNCHANGED lineVars
        \/ Speaks \/ \E r \in Replies : Replied(r)
    <2>1. ASSUME NEW text, NEW at, NEW m, Edits(text, at, m)
          PROVE  did' = NothingDone /\ DOMAIN voice' = DOMAIN voice
      BY <2>1 DEF Edits
    <2>. QED
      BY <1>1, <2>1 DEF LineNext, Types, Pastes, Backspaces, Deletes, MovesTo, Empties,
         MovesInMenu, Accepts, Dismisses, TogglesJobs, TogglesVoice, StartsRecording, StopsSpeech
  <1>. QED
    BY <1>2, <1>3, <1>4, <1>5, <1>6, <1>7, <1>8, <1>9

\* While a turn runs the microphone is closed, however the line was sent; and one press
\* of Ctrl+C alone leaves no chat (CtrlCArm; take_input and the recorder of chat.rs).
THEOREM AccidentsDoNothing == LineSpec => [][NothingByAccident]_lineVars
  BY LineStart, LineStep, PTL DEF LineSpec

-----------------------------------------------------------------------------
(* FileTools                                                               *)

ToolFields == {"name", "path", "step", "place", "text", "all", "found", "cut", "wrote", "out"}

\* Nothing was written, or made, before a call stores or has failed to.
NothingYet ==
    /\ DOMAIN tool = ToolFields
    /\ tool.step \in {"called", "look", "write", "read"} => ~tool.wrote
    /\ tool.step # "over" => tool.out = ""

LEMMA ToolsStart == ToolsInit => NothingYet /\ ReportIsTrue
  <1>1. SUFFICES ASSUME ToolsInit PROVE NothingYet /\ ReportIsTrue
    OBVIOUS
  <1>2. tool = NoTool
    BY <1>1 DEF ToolsInit
  <1>3. DOMAIN NoTool = ToolFields /\ NoTool.step = "" /\ NoTool.out = "" /\ ~NoTool.wrote
    BY DEF NoTool, ToolFields
  <1>. QED
    BY <1>2, <1>3 DEF NothingYet, ReportIsTrue

LEMMA ToolsStep == NothingYet /\ ReportIsTrue /\ [ToolsNext]_toolVars => (NothingYet /\ ReportIsTrue)'
  <1>1. SUFFICES ASSUME NothingYet, ReportIsTrue, [ToolsNext]_toolVars
                 PROVE  (NothingYet /\ ReportIsTrue)'
    OBVIOUS
  <1>2. ASSUME NEW name, NEW path, NEW text, NEW all, CallsFileTool(name, path, text, all)
        PROVE  (NothingYet /\ ReportIsTrue)'
    BY <1>2 DEF CallsFileTool, NoTool, ToolFields, NothingYet, ReportIsTrue
  <1>3. CASE Authorizes
    BY <1>1, <1>3 DEF Authorizes, AtStep, OverWith, ToolFields, NothingYet, ReportIsTrue
  <1>4. CASE LooksForWord
    BY <1>1, <1>4 DEF LooksForWord, AtStep, OverWith, ToolFields, NothingYet, ReportIsTrue
  <1>5. CASE MakesDirectories
    <2>1. CASE stopped
      BY <1>1, <1>5, <2>1
      DEF MakesDirectories, AtStep, OverWith, ToolFields, NothingYet, ReportIsTrue
    <2>2. CASE ~stopped
      <3>1. tool' = [tool EXCEPT !.step = "store", !.wrote = files' # files] /\ tool.out = ""
        BY <1>1, <1>5, <2>2 DEF MakesDirectories, AtStep, NothingYet
      <3>2. tool'.step = "store" /\ tool'.out = "" /\ DOMAIN tool' = ToolFields
        BY <1>1, <3>1 DEF ToolFields, NothingYet
      <3>. QED
        BY <3>2 DEF NothingYet, ReportIsTrue
    <2>. QED
      BY <2>1, <2>2
  <1>6. CASE \E fails \in BOOLEAN : StoresText(fails)
    <2>1. CASE tool' = [tool EXCEPT !.step = "over", !.out = "failed"]
      BY <1>1, <2>1 DEF ToolFields, NothingYet, ReportIsTrue
    <2>2. ASSUME NEW out \in {"failed", "written"},
                 tool' = [tool EXCEPT !.step = "over", !.wrote = TRUE, !.out = out]
          PROVE  (NothingYet /\ ReportIsTrue)'
      BY <1>1, <2>2 DEF ToolFields, NothingYet, ReportIsTrue
    <2>. QED
      BY <1>6, <2>1, <2>2 DEF StoresText, OverWith
  <1>7. CASE AuthorizesRead
    BY <1>1, <1>7 DEF AuthorizesRead, AtStep, OverWith, ToolFields, NothingYet, ReportIsTrue
  <1>8. CASE ReadsFile
    BY <1>1, <1>8 DEF ReadsFile, AtStep, OverWith, ToolFields, NothingYet, ReportIsTrue
  <1>9. CASE Greps
    BY <1>1, <1>9 DEF Greps, AtStep, OverWith, ToolFields, NothingYet, ReportIsTrue
  <1>10. CASE \/ UserStops \/ UNCHANGED toolVars
              \/ \E place, node : Meddles(place, node)
    BY <1>1, <1>10 DEF UserStops, Meddles, toolVars, NothingYet, ReportIsTrue
  <1>. QED
    BY <1>1, <1>2, <1>3, <1>4, <1>5, <1>6, <1>7, <1>8, <1>9, <1>10 DEF ToolsNext

\* A call of Write or Edit that reports that it was interrupted, denied or unclear made
\* and changed nothing, at whatever step the user interrupted it (write.rs, edit.rs).
THEOREM ReportsAreTrue == ToolsSpec => []ReportIsTrue
  BY ToolsStart, ToolsStep, PTL DEF ToolsSpec
=============================================================================
