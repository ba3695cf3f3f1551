--------------------------- MODULE CommandSandbox ---------------------------
(***************************************************************************)
(* What the processes that claux starts for the model and for the owner's  *)
(* hooks, servers and voice are given (command_sandbox.rs): an environment *)
(* without keys, but for what the owner adds to a server's, and for        *)
(* commands, and for servers that the model may have written, the writing  *)
(* of the workspace alone.  A contained program is started by a second     *)
(* process of claux, the helper, which has read no configuration and       *)
(* contains itself first.  The folders for temporary files and for git     *)
(* that stay writable are left out.  What claux starts for itself has all  *)
(* of its environment: the probe of the kernel, the worker of a task, git, *)
(* the browser and the command that prints a key.                          *)
(***************************************************************************)
EXTENDS FiniteSets

CONSTANTS
    Variables,      \* of claux's environment
    Folded,         \* the name of each in capitals
    BlankName,      \* a name that the configuration leaves empty
    Keyed, Sockets, \* names of keys, and of agents that hold some
    Configurations, \* [named, strip, bash, adds]: what the owner's file says; adds:
                    \* to the environment of a server
    NoPolicy        \* of children, before the file is loaded

VARIABLES
    configuration,
    childPolicy,    \* CHILD_ENVIRONMENT_POLICY
    host,           \* what containment needs: see Host
    box,            \* effective_policy of the CommandSandbox, "" while there is none
    child           \* the process started last

boxVars == <<configuration, childPolicy, host, box, child>>

\* The platform, a kernel that enforces Landlock fully, claux's own executable, and
\* the workspace; the last two may go away and come back.
Host == [linux : BOOLEAN, kernel : BOOLEAN, executable : BOOLEAN, workspace : BOOLEAN]

NoChild == [kind |-> "", stage |-> "", env |-> {}, added |-> {}, contained |-> FALSE]

BoxInit ==
    /\ configuration \in Configurations
    /\ childPolicy = NoPolicy /\ host \in Host /\ host.workspace
    /\ box = "" /\ child = NoChild

-----------------------------------------------------------------------------

\* ChildEnvironmentPolicy::default, for a process that read no configuration.
DefaultPolicy == [extra |-> {}, strip |-> TRUE]

Configures ==
    /\ childPolicy = NoPolicy
    /\ childPolicy' = [extra |-> {Folded[n] : n \in configuration.named \ {BlankName}},
                       strip |-> configuration.strip]
    /\ UNCHANGED <<configuration, host, box, child>>

Sensitive(v, policy) ==
    \/ policy.strip /\ Folded[v] \in Sockets
    \/ Folded[v] \in policy.extra \union Keyed

Sanitized(env, policy) == {v \in env : ~Sensitive(v, policy)}

-----------------------------------------------------------------------------

\* The probe is claux itself, contained.
Availability ==
    IF ~host.linux THEN "unsupported"
    ELSE IF host.executable /\ host.kernel THEN "available" ELSE "unavailable"

Diagnosis(bash) ==
    LET contains == bash # "unrestricted" /\ Availability = "available"
    IN  [effective |-> IF bash = "workspace_write" \/ contains THEN "workspace_write"
                       ELSE "unrestricted",
         healthy |-> bash = "workspace_write" => contains]

\* With each engine; one that is refused ends the start, or leaves the engine before.
BuildsSandbox ==
    /\ childPolicy # NoPolicy /\ host.workspace /\ Diagnosis(configuration.bash).healthy
    /\ box' = Diagnosis(configuration.bash).effective
    /\ UNCHANGED <<configuration, childPolicy, host, child>>

Child(kind, stage, env, contained) ==
    [kind |-> kind, stage |-> stage, env |-> env, added |-> {}, contained |-> contained]

\* A command, or a server that is contained, in a shell of the helper or at once;
\* the next process after the helper has become its shell, since they share nothing.
RunsInBox(kind) ==
    /\ box # "" /\ child.stage # "helper"
    /\ child' = IF box = "unrestricted"
                THEN Child(kind, "runs", Sanitized(Variables, childPolicy), FALSE)
                ELSE IF host.executable
                THEN Child(kind, "helper", Sanitized(Variables, childPolicy), FALSE)
                ELSE Child(kind, "failed", {}, FALSE)
    /\ UNCHANGED <<configuration, childPolicy, host, box>>

\* A hook, a command of the voice, or a server of the owner, to whose environment
\* the file's own variables are added after the others were taken out.
RunsBeside(added) ==
    /\ childPolicy # NoPolicy /\ child.stage # "helper"
    /\ child' = [Child("beside", "runs", Sanitized(Variables, childPolicy) \union added, FALSE)
                    EXCEPT !.added = added]
    /\ UNCHANGED <<configuration, childPolicy, host, box>>

\* A process of claux's own: it inherits everything.
RunsItsOwn ==
    /\ child.stage # "helper" /\ child' = Child("own", "runs", Variables, FALSE)
    /\ UNCHANGED <<configuration, childPolicy, host, box>>

\* (mutant) The helper goes on if the kernel enforces too little.
HelperRunsAnyway ==
    /\ child.stage = "helper"
    /\ child' = Child(child.kind, "runs", Sanitized(child.env, DefaultPolicy),
                      host.linux /\ host.kernel /\ host.workspace)
    /\ UNCHANGED <<configuration, childPolicy, host, box>>

\* run_helper: the helper contains itself, or does not become the shell.
HelperRuns ==
    /\ child.stage = "helper"
    /\ child' = IF host.linux /\ host.kernel /\ host.workspace
                THEN Child(child.kind, "runs", Sanitized(child.env, DefaultPolicy), TRUE)
                ELSE Child(child.kind, "failed", {}, FALSE)
    /\ UNCHANGED <<configuration, childPolicy, host, box>>

\* claux is replaced by a newer one, or a folder is renamed, while it runs.
HostChanges(part) ==
    /\ host' = [host EXCEPT ![part] = ~@]
    /\ UNCHANGED <<configuration, childPolicy, box, child>>

BoxNext ==
    \/ Configures \/ BuildsSandbox \/ HelperRuns \/ RunsItsOwn
    \/ \E added \in {{}, configuration.adds} : RunsBeside(added)
    \/ \E kind \in {"command", "server"} : RunsInBox(kind)
    \/ \E part \in {"executable", "workspace"} : HostChanges(part)

BoxSpec == BoxInit /\ [][BoxNext]_boxVars

-----------------------------------------------------------------------------

\* No command, server, hook or voice, and no helper that is started to start one,
\* has a variable that is named like a key or that the owner's file names, in
\* capitals or not; nor one of an agent, if the file says so; but for those that
\* the file itself adds for a server (command_sandbox.rs, README.md:636).
ChildrenAreClean ==
    child.kind # "own" =>
        \A v \in child.env \ (child.added \intersect configuration.adds) :
            /\ Folded[v] \notin Keyed
            /\ \A n \in configuration.named \ {BlankName} : Folded[n] # Folded[v]
            /\ configuration.strip => Folded[v] \notin Sockets

\* Where the owner asks for containment, a command is contained or does not run,
\* although the executable, the workspace or the helper is lost after the probe.
ContainedAsPromised ==
    child.kind \in {"command", "server"} /\ child.stage = "runs" =>
        /\ configuration.bash = "workspace_write" => child.contained
        /\ child.contained => host.linux /\ host.kernel /\ configuration.bash # "unrestricted"

\* What was started to be contained does not begin without: not even where the owner
\* leaves it to claux whether commands are contained (run_helper).
HelperContains == child.stage = "helper" /\ child'.stage = "runs" => child'.contained
=============================================================================
