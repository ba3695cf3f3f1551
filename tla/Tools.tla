------------------------------- MODULE Tools -------------------------------
(***************************************************************************)
(* The tools that a model calls, beside commands: those for files, those   *)
(* of servers, the one that fetches pages, and what commands run in.       *)
(***************************************************************************)
EXTENDS FileTools, McpServers, WebFetch, CommandSandbox

\* What a tool does stays within its bounds, and what it reports is what it did,
\* although the files, the servers and the names change while it runs: the tools
\* for files and their policy (sandbox.rs, tools/edit.rs, tools/grep.rs), the
\* registry and what depends on it (tools/mod.rs, query.rs), and the fetched pages
\* (tools/web_fetch.rs), and what any process they start is given
\* (command_sandbox.rs).
ToolsKeepTheirBounds ==
    /\ [][StaysInside /\ ReportIsTrue' /\ SearchIsComplete]_toolVars
    /\ [][/\ RegistryIsWhole' /\ GrantsAreForTheTool'
          /\ OnlyOwnersAreBelieved']_serverVars
    /\ [][FetchIsBounded']_fetchVars
    /\ [][ChildrenAreClean' /\ ContainedAsPromised' /\ HelperContains]_boxVars
=============================================================================
