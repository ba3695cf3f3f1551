---------------------------- MODULE BashCommands ----------------------------
(***************************************************************************)
(* How permissions.rs reads a shell command: which family of commands an   *)
(* "always allow" covers, and what auto mode runs by itself.               *)
(*                                                                         *)
(* A command is the sequence of its words as shlex splits them, and of its *)
(* newlines, which shlex takes for spaces.  A word has a kind, a name (of  *)
(* a path, its last component) and, if it is a quoted command, the words   *)
(* of that.  A word that ends in an operator, as "ls;" does, is "glued":   *)
(* to shlex it is one word, whose name is no program's.                    *)
(***************************************************************************)
EXTENDS Naturals, SequencesExt

Kinds ==
    {"name", "path", "assignment", "flag", "operator", "glued", "newline", "redirect",
     "dynamic", "quoted"}

Word(kind, name) == [kind |-> kind, name |-> name, words |-> <<>>]
Quoted(words)    == [kind |-> "quoted", name |-> "", words |-> words]

Names(words) == {words[i].name : i \in DOMAIN words}
From(words, i) == SubSeq(words, i, Len(words))

\* The text of the i-th word; that of a path is nothing the code looks for.
Text(words, i) ==
    IF i \in DOMAIN words /\ words[i].kind # "path" THEN words[i].name ELSE ""

\* What the text contains, in a quoted word too.
RECURSIVE Mentions(_, _)
Mentions(words, kinds) ==
    \E i \in DOMAIN words : words[i].kind \in kinds \/ Mentions(words[i].words, kinds)

-----------------------------------------------------------------------------
(* Families *)

NoType == <<>>

Subcommands ==
    [cargo |-> {"bench", "build", "check", "clippy", "doc", "fmt", "test"},
     go    |-> {"build", "test", "vet"},
     git   |-> {"diff", "log", "show", "status"}]

GhActions ==
    [pr    |-> {"checks", "diff", "list", "status", "view"},
     issue |-> {"list", "status", "view"},
     run   |-> {"list", "view", "watch"},
     repo  |-> {"list", "view"}]

MakeTargets == {"check", "ci", "fmt", "format", "lint", "spec", "test", "verify"}
Runners == {"pytest", "rspec", "rubocop"}
Inspectors ==
    {"cat", "df", "du", "file", "grep", "head", "ls", "pwd", "rg", "stat", "tail",
     "type", "wc", "which"}

\* Flags are not skipped: an option's value is no subcommand.
TypedSubcommand(words) ==
    IF Text(words, 2) \in Subcommands[words[1].name]
    THEN <<words[1].name, Text(words, 2)>> ELSE NoType

GhCommandType(words) ==
    IF /\ Text(words, 2) \in DOMAIN GhActions
       /\ Text(words, 3) \in GhActions[Text(words, 2)]
    THEN <<"gh", Text(words, 2), Text(words, 3)>> ELSE NoType

PackageScriptType(words) ==
    CASE Text(words, 2) = "test" -> <<words[1].name, "test">>
      [] Text(words, 2) = "run" /\ Text(words, 3) # "" -> <<words[1].name, "run", Text(words, 3)>>
      [] OTHER -> NoType

TestRunnerType(words) ==
    IF Len(words) >= 3 /\ words[3].name \in Runners
    THEN <<"bundle", "exec", words[3].name>> ELSE NoType

MakeCommandType(words) ==
    IF Text(words, 2) \in MakeTargets THEN <<"make", Text(words, 2)>> ELSE NoType

First(words, name) == SelectInSeq(words, LAMBDA w : w.name = name)

RECURSIVE CommandType(_)

\* The family of the command a wrapper runs, in the context before its flag.
NestedCommandType(words, flag) ==
    LET at == First(words, flag)
        command == IF flag # "--run" THEN From(words, at + 1)
                   ELSE IF at < Len(words) /\ words[at + 1].kind = "quoted" THEN words[at + 1].words
                   ELSE SubSeq(words, at + 1, at + 1)
        nested == IF at = 0 THEN NoType ELSE CommandType(command)
    IN  IF nested = NoType THEN NoType
        ELSE [i \in 1..(at - 1) |-> words[i].name] \o <<"|">> \o nested

CommandType(words) ==
    IF words = <<>> \/ words[1].kind # "name" THEN NoType
    ELSE LET executable == words[1].name
             second == Text(words, 2)
         IN  CASE executable \in DOMAIN Subcommands -> TypedSubcommand(words)
               [] executable = "gh" -> GhCommandType(words)
               [] executable \in {"npm", "pnpm", "yarn", "bun"} -> PackageScriptType(words)
               [] executable = "bundle" /\ second = "exec" -> TestRunnerType(words)
               [] executable = "make" -> MakeCommandType(words)
               [] executable = "nix-shell" -> NestedCommandType(words, "--run")
               [] executable = "nix" /\ second = "develop" -> NestedCommandType(words, "-c")
               [] executable = "cargo-nextest" /\ second = "run" -> <<"cargo-nextest", "run">>
               [] executable \in Runners \union Inspectors -> <<executable>>
               [] OTHER -> NoType

\* bash_command_type
FamilyOf(words) ==
    IF Mentions(words, {"operator", "glued", "newline", "redirect", "dynamic"}) THEN NoType
    ELSE CommandType(words)

-----------------------------------------------------------------------------
(* Auto mode *)

\* A few of the executables it asks about.
Dangerous == {"chmod", "curl", "dd", "kill", "rm", "ssh", "sudo", "wget"}
Wrappers  == {"command", "env", "nohup"}
Shells    == {"bash", "dash", "fish", "sh", "zsh"}

\* The position of the first word from i on that is none of some kinds.
Skip(words, i, kinds) ==
    LET rest == {k \in i..Len(words) : words[k].kind \notin kinds}
    IN  IF rest = {} THEN Len(words) + 1 ELSE CHOOSE k \in rest : \A m \in rest : k <= m

\* The position of the executable, after assignments and wrappers.
RECURSIVE Unwrapped(_, _)
Unwrapped(words, i) ==
    IF i <= Len(words) /\ words[i].name \in Wrappers
    THEN Unwrapped(words, Skip(words, i + 1, {"assignment", "flag"}))
    ELSE i

\* The first argument of git that is no option or the value of one.
RECURSIVE GitAction(_)
GitAction(arguments) ==
    IF arguments = <<>> THEN ""
    ELSE LET argument == Head(arguments)
         IN  IF argument.name \in {"-C", "-c", "--git-dir", "--work-tree", "--namespace"}
             THEN GitAction(From(arguments, 3))
             ELSE IF argument.kind = "flag" THEN GitAction(Tail(arguments))
             ELSE argument.name

RECURSIVE AutoAllows(_)

AutoAllowsSegment(words) ==
    LET at == Unwrapped(words, Skip(words, 1, {"assignment"}))
        arguments == From(words, at + 1)
        named(names) == Names(arguments) \intersect names # {}
        action == Text(arguments, 1)
        program == SelectSeq(arguments, LAMBDA w : w.kind # "flag")
        run == First(arguments, "--run")
        name == words[at].name
    IN  /\ at <= Len(words)
        /\ name \notin Dangerous
        /\ name \in Shells \union {"python", "python3"} => ~named({"-c"})
        /\ name = "ruby" => ~named({"-e"})
        /\ name = "node" => ~named({"-e", "--eval"})
        /\ name = "git" =>
              GitAction(arguments) \notin {"clean", "push", "reset", "restore", "filter-branch"}
        /\ name = "gh" => GhCommandType(From(words, at)) # NoType
        /\ name \in {"cargo", "npm", "pnpm", "yarn", "bun", "gem", "docker"} =>
              action \notin {"deploy", "publish", "push"}
        /\ name = "make" => ~named({"deploy", "publish", "release"})
        /\ name = "find" => ~named({"-delete", "-exec", "-execdir"})
        /\ name = "nix-shell" /\ run \in 1..(Len(arguments) - 1) =>
              AutoAllows(arguments[run + 1].words)
        /\ name = "xargs" => program = <<>> \/ program[1].name \notin Dangerous

\* auto_allows_bash: every segment between operators that is not empty.  An
\* operator is a word of its own here; a newline ends no segment.
AutoAllows(command) ==
    LET words == SelectSeq(command, LAMBDA w : w.kind # "newline")
        ends == {i \in DOMAIN words : words[i].kind = "operator"} \union {0, Len(words) + 1}
    IN  /\ words # <<>> /\ ~Mentions(words, {"dynamic"})
        /\ \A i, k \in ends :
              /\ i < k - 1
              /\ \A m \in ends : m <= i \/ k <= m
              => AutoAllowsSegment(SubSeq(words, i + 1, k - 1))
=============================================================================
