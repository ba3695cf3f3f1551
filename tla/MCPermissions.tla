-------------------------- MODULE MCPermissions ---------------------------
EXTENDS Permissions, BashCommands

\* A command with a granted family, the same command with more, a command joined
\* to another by an operator and by one that is glued to its word, an edit, a
\* read, a server's tool with a hint and a sub-agent, under a policy with each
\* kind of rule and each mode.

CONSTANTS none, noSubject

Program(name) == Word("name", name)
Test == <<Program("cargo"), Program("test")>>
TestAll == Append(Test, Word("flag", "--all"))
TestAndRemove == Test \o <<Word("operator", "&&"), Program("rm"), Word("path", "target")>>

ListThenRemove == <<Word("glued", "ls;"), Program("rm"), Word("path", "target")>>

Asked(tool, readonly, subject) == [tool |-> tool, readonly |-> readonly, subject |-> subject]

MCCalls ==
    {Asked("Bash", FALSE, s) : s \in {Test, TestAll, TestAndRemove, ListThenRemove}} \union
    {Asked("Edit", FALSE, <<Word("path", "a")>>), Asked("Read", TRUE, <<Word("path", "a")>>),
     Asked("mcp__docs__find", TRUE, noSubject), Asked("Agent", FALSE, noSubject)}

MCPolicies ==
    {[mode |-> m, deny |-> {[tool |-> "Bash", pattern |-> {TestAndRemove}]},
      ask |-> {[tool |-> "Edit", pattern |-> AnySubject]}, allow |-> {}] :
        m \in {"default", "plan", "bypass"}} \union
    {[mode |-> m, deny |-> {}, ask |-> {}, allow |-> {[tool |-> "*", pattern |-> {Test}]}] :
        m \in {"auto", "accept-edits"}}

MCFamily(c) ==
    IF c.subject = noSubject \/ FamilyOf(c.subject) = NoType THEN NoFamily
    ELSE FamilyOf(c.subject)

MCRecognized(c) == c.subject # noSubject /\ AutoAllows(c.subject)
=============================================================================
