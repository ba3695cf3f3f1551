----------------------------- MODULE Permissions -----------------------------
(***************************************************************************)
(* What a tool call needs to run: the checker of permissions.rs with its   *)
(* rules, modes and session grants, the hooks of plugin.rs that may        *)
(* tighten or clear its answer, the user's answer, and the sub-agents of   *)
(* tools/agent.rs, which ask nobody.                                       *)
(*                                                                         *)
(* One call is decided at a time.  While a sub-agent runs, the call of the *)
(* main engine is its Agent call.                                          *)
(***************************************************************************)
EXTENDS FiniteSets, Sequences

CONSTANTS
    Calls,          \* tool calls: the tool, whether it only reads, its subject
    NoCall,
    NoSubject,      \* of a call whose input has none
    AnySubject,            \* of a rule that has no pattern
    Policies,       \* mode and rules a session may be configured with
    Hooks,          \* the on_permission_check hooks
    Family(_),      \* the family of commands a call of Bash is of, or NoFamily
    NoFamily,
    Recognized(_)   \* whether auto mode runs a call of Bash by itself

Modes == {"default", "accept-edits", "auto", "bypass", "plan"}

ASSUME PermissionsAssumption ==
    /\ \A p \in Policies : p.mode \in Modes
    /\ \A c \in Calls : c.readonly \in BOOLEAN

Engines == {"main", "sub-agent"}

VARIABLES
    policy,     \* the configuration
    checker,    \* per engine, its PermissionChecker
    engine,     \* the engine whose call is decided
    phase,      \* of that call
    call,
    proposed,   \* what the checker said
    answers,    \* what the hooks said
    granted,    \* history: per engine, the calls the user always allows
    ran         \* history: the call that runs, and why; like: a grant was for it

permissionVars == <<policy, checker, engine, phase, call, proposed, answers, granted, ran>>

Answers == {"pending", "nothing", "allow", "ask", "deny"}

Fresh(mode) ==
    [mode |-> mode, previous |-> "none", tools |-> {}, commands |-> {}, families |-> {}]

-----------------------------------------------------------------------------
(* The checker *)

\* A pattern is the set of the subjects it matches.
Matches(rule, c) ==
    /\ rule.tool \in {"*", c.tool}
    /\ rule.pattern = AnySubject \/ (c.subject # NoSubject /\ c.subject \in rule.pattern)

Matched(rules, c) == \E r \in rules : Matches(r, c)

\* What the mode says if no rule and no grant does.
ByMode(mode, c) ==
    CASE mode = "bypass" -> "allow"
      [] mode = "plan" -> IF c.readonly THEN "allow" ELSE "deny"
      [] mode = "accept-edits" ->
            IF c.readonly \/ c.tool \in {"Write", "Edit"} THEN "allow" ELSE "ask"
      [] mode = "auto" ->
            IF \/ c.readonly \/ c.tool \in {"Write", "Edit", "Agent"}
               \/ c.tool = "Bash" /\ Recognized(c)
            THEN "allow" ELSE "ask"
      [] mode = "default" ->
            IF c.readonly /\ c.tool # "WebFetch" THEN "allow" ELSE "ask"

\* Allowed for the session.
Granted(k, c) ==
    \/ c.tool \in k.tools
    \/ /\ c.tool = "Bash"
       /\ c.subject \in k.commands \/ (Family(c) # NoFamily /\ Family(c) \in k.families)

Check(k, c) ==
    CASE Matched(policy.deny, c) -> "deny"
      [] ~Matched(policy.deny, c) /\ Granted(k, c) -> "allow"
      [] ~Matched(policy.deny, c) /\ ~Granted(k, c) /\ Matched(policy.ask, c) -> "ask"
      [] OTHER -> IF Matched(policy.allow, c) /\ (c.readonly \/ k.mode # "plan")
                  THEN "allow" ELSE ByMode(k.mode, c)

\* The checker's answer and the hooks', of which the most restrictive counts.
Verdict ==
    LET said(answer) == \E h \in Hooks : answers[h] = answer
    IN  CASE proposed = "deny" \/ said("deny") -> "deny"
          [] proposed # "deny" /\ ~said("deny") /\ said("ask") -> "ask"
          [] proposed # "deny" /\ ~said("deny") /\ ~said("ask") /\ said("allow") -> "allow"
          [] OTHER -> proposed

-----------------------------------------------------------------------------

NothingRan ==
    [call |-> NoCall, engine |-> "main", why |-> "policy", proposed |-> "deny",
     mode |-> "default", hooks |-> {}, like |-> FALSE]

\* The user said "always" to this call or to one like it, in this conversation.
LikeGranted(e, c) ==
    \E g \in granted[e] :
        /\ g.tool = c.tool
        /\ c.tool = "Bash" => \/ g.subject = c.subject
                              \/ Family(g) # NoFamily /\ Family(g) = Family(c)

Idle ==
    /\ phase' = "idle" /\ call' = NoCall /\ proposed' = "deny"
    /\ answers' = [h \in Hooks |-> "nothing"] /\ ran' = NothingRan

Runs(why) ==
    /\ ran' = [call |-> call, engine |-> engine, why |-> why, proposed |-> proposed,
               mode |-> checker[engine].mode, hooks |-> {answers[h] : h \in Hooks},
               like |-> LikeGranted(engine, call)]
    /\ phase' = "running"
    /\ UNCHANGED <<policy, engine, call, proposed, answers>>

\* A sub-agent has no Agent tool and no hooks.
Decide(c) ==
    /\ phase = "idle" /\ (engine = "sub-agent" => c.tool # "Agent")
    /\ call' = c /\ proposed' = Check(checker[engine], c) /\ phase' = "hooks"
    /\ answers' = [h \in Hooks |-> IF engine = "main" THEN "pending" ELSE "nothing"]
    /\ UNCHANGED <<policy, checker, engine, granted, ran>>

\* They run at the same time.  One that fails, is late or prints anything else
\* says nothing.
HookAnswers(h) ==
    /\ phase = "hooks" /\ answers[h] = "pending"
    /\ \E answer \in Answers \ {"pending"} : answers' = [answers EXCEPT ![h] = answer]
    /\ UNCHANGED <<policy, checker, engine, phase, call, proposed, granted, ran>>

Answered == phase = "hooks" /\ \A h \in Hooks : answers[h] # "pending"

Allowed ==
    /\ Answered /\ Verdict = "allow"
    /\ Runs("policy")
    /\ UNCHANGED <<checker, granted>>

\* Denied; or there is nobody to ask.
Denied ==
    /\ Answered
    /\ Verdict = "deny" \/ (Verdict = "ask" /\ engine = "sub-agent")
    /\ Idle
    /\ UNCHANGED <<policy, checker, engine, granted>>

Asks ==
    /\ Answered /\ Verdict = "ask" /\ engine = "main"
    /\ phase' = "asking"
    /\ UNCHANGED <<policy, checker, engine, call, proposed, answers, granted, ran>>

UserAllows ==
    /\ phase = "asking"
    /\ Runs("user")
    /\ UNCHANGED <<checker, granted>>

\* always_allow_for: a tool; of Bash, the command or its family.  A call of Bash
\* without a command is allowed this once.
WithGrant(k, c) ==
    CASE c.tool # "Bash" -> [k EXCEPT !.tools = @ \union {c.tool}]
      [] c.tool = "Bash" /\ c.subject = NoSubject -> k
      [] OTHER -> IF Family(c) = NoFamily THEN [k EXCEPT !.commands = @ \union {c.subject}]
                  ELSE [k EXCEPT !.families = @ \union {Family(c)}]

UserAlwaysAllows ==
    /\ phase = "asking"
    /\ checker' = [checker EXCEPT ![engine] = WithGrant(@, call)]
    /\ granted' = [granted EXCEPT ![engine] = @ \union {call}]
    /\ Runs("user")

UserDenies ==
    /\ phase = "asking"
    /\ Idle
    /\ UNCHANGED <<policy, checker, engine, granted>>

\* The Agent call starts an engine with the policy the session was started with.
AgentStarts ==
    /\ phase = "running" /\ call.tool = "Agent"
    /\ engine' = "sub-agent"
    /\ checker' = [checker EXCEPT !["sub-agent"] = Fresh(policy.mode)]
    /\ granted' = [granted EXCEPT !["sub-agent"] = {}]
    /\ Idle
    /\ UNCHANGED <<policy>>

\* It has its answer, its rounds, its time or the user's patience is spent.
AgentEnds ==
    /\ phase = "idle" /\ engine = "sub-agent"
    /\ engine' = "main"
    /\ Idle
    /\ UNCHANGED <<policy, checker, granted>>

CallEnds ==
    /\ phase = "running" /\ call.tool # "Agent"
    /\ Idle
    /\ UNCHANGED <<policy, checker, engine, granted>>

-----------------------------------------------------------------------------
(* Between turns *)

\* Auto mode, or back to the mode it replaced: default if it replaced none.
Toggled(k) ==
    IF k.mode = "auto"
    THEN [k EXCEPT !.mode = IF k.previous = "none" THEN "default" ELSE k.previous,
                   !.previous = "none"]
    ELSE [k EXCEPT !.mode = "auto", !.previous = k.mode]

\* /auto
ToggleAuto ==
    /\ phase = "idle" /\ engine = "main"
    /\ checker' = [checker EXCEPT !["main"] = Toggled(@)]
    /\ UNCHANGED <<policy, engine, phase, call, proposed, answers, granted, ran>>

\* (mutant) keeps the families
WithoutGrantsButFamilies(k) == [k EXCEPT !.tools = {}, !.commands = {}]

WithoutGrants(k) == [k EXCEPT !.tools = {}, !.commands = {}, !.families = {}]

\* reset_session: another conversation, or other MCP tools.
ResetSession ==
    /\ phase = "idle" /\ engine = "main"
    /\ checker' = [checker EXCEPT !["main"] = WithoutGrants(@)]
    /\ granted' = [granted EXCEPT !["main"] = {}]
    /\ UNCHANGED <<policy, engine, phase, call, proposed, answers, ran>>

PermissionsInit ==
    /\ policy \in Policies
    /\ checker = [e \in Engines |-> Fresh(policy.mode)]
    /\ engine = "main" /\ phase = "idle" /\ call = NoCall
    /\ proposed = "deny" /\ answers = [h \in Hooks |-> "nothing"]
    /\ granted = [e \in Engines |-> {}] /\ ran = NothingRan

PermissionsNext ==
    \/ \E c \in Calls : Decide(c)
    \/ \E h \in Hooks : HookAnswers(h)
    \/ Allowed \/ Denied \/ Asks
    \/ UserAllows \/ UserAlwaysAllows \/ UserDenies
    \/ AgentStarts \/ AgentEnds \/ CallEnds
    \/ ToggleAuto \/ ResetSession

PermissionsSpec == PermissionsInit /\ [][PermissionsNext]_permissionVars

-----------------------------------------------------------------------------
(* Properties *)

ReadingTools == {"Read", "Glob", "Grep", "WebFetch", "TodoWrite"}

\* A tool of an MCP server that counts as read-only on its server's word.
Hinted(c) == c.readonly /\ c.tool \notin ReadingTools

\* What runs without a prompt by the documentation's account of the modes
\* (README.md:757-785).  What it calls a recognized development command is what
\* the code takes for one: what comes behind a newline, or behind an operator
\* that is glued to a word, is not looked at (permissions.rs:264), although the
\* documentation keeps a prompt for everything destructive.
Documented(mode, c) ==
    \/ mode = "bypass"
    \/ c.readonly /\ (mode = "plan" => ~Hinted(c)) /\ (mode = "default" => c.tool # "WebFetch")
    \/ c.tool \in {"Write", "Edit"} /\ mode \in {"accept-edits", "auto"}
    \/ mode = "auto" /\ (c.tool = "Agent" \/ (c.tool = "Bash" /\ Recognized(c)))

\* Where the code lets more run: the documentation excepts plan mode from what a
\* hint allows (README.md:771), the code does not (permissions.rs:814).
HintedInPlan(mode, c) == mode = "plan" /\ Hinted(c)

\* Whatever was toggled, granted and reset before, a call that ran was denied by
\* no rule and no hook, and either the user said yes to it or nobody had asked
\* for a prompt: it is like a call the user always allowed in this conversation,
\* or rules and mode let it run, or a hook cleared the prompt.  A sub-agent goes
\* by rules and mode alone: by the mode that was configured, where the
\* documentation says that it inherits its parent's (README.md:775).
\* In plan mode nothing runs that may change something, but for what was always
\* allowed and what a rule says to ask about: of that the documentation says
\* that plan mode denies it for good (README.md:753), while the code makes it a
\* prompt that the user or a hook may clear (permissions.rs:802).
NothingRunsUnasked ==
    LET c == ran.call
        unprompted ==
            /\ ~Matched(policy.ask, c)
            /\ \/ Documented(ran.mode, c) \/ HintedInPlan(ran.mode, c)
               \/ Matched(policy.allow, c) /\ (c.readonly \/ ran.mode # "plan")
        agreed ==
            \/ ran.why = "user"
            \/ "ask" \notin ran.hooks /\ (unprompted \/ ran.like \/ "allow" \in ran.hooks)
    IN  phase = "running" =>
          /\ ~Matched(policy.deny, c) /\ "deny" \notin ran.hooks
          /\ IF ran.engine = "main" THEN agreed ELSE unprompted
          /\ ran.mode = "plan" /\ ~c.readonly => ran.like \/ Matched(policy.ask, c)
=============================================================================
