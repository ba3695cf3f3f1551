----------------------------- MODULE FileTools -----------------------------
(***************************************************************************)
(* The tools that touch files themselves: Read, Write, Edit and Grep       *)
(* (tools/read.rs, write.rs, edit.rs, grep.rs), under the policy that       *)
(* keeps them in the workspace (sandbox.rs).  Between any two of their      *)
(* steps other processes may change the files, links included, and the     *)
(* user may interrupt.                                                     *)
(*                                                                         *)
(* A place is a path without links, as a sequence of names from the root;  *)
(* a file's text is a sequence of words, of which an edit replaces one.    *)
(***************************************************************************)
EXTENDS Naturals, Sequences, SequencesExt, FiniteSets

CONSTANTS
    Places,         \* all places, the root <<>> among them
    Workspace,      \* one of them
    NamedPaths,       \* paths that a call may name; a name may be ".."
    Links,          \* places that a link may lead to
    Old, New,       \* the word an edit looks for, and the one it puts
    Long,           \* a line that is found too, and is over the bytes by itself
    Texts,          \* what a file may say
    MaxResults,     \* MAX_RESULTS of Grep
    MaxBytes,       \* MAX_OUTPUT_BYTES of it, where a line but Long is one
    MaxMeddling     \* bound: how often other processes change a file

ASSUME PlacesAssumption ==
    /\ <<>> \in Places /\ Workspace \in Places /\ Links \subseteq Places
    /\ \A p \in Places : p # <<>> => Front(p) \in Places
    /\ NamedPaths \subseteq Seq(UNION {Range(p) : p \in Places} \union {".."})

VARIABLES
    confined,   \* workspace_only, or unrestricted
    files,      \* per place, what is there
    tool,       \* the call that runs
    stopped,    \* the user interrupted
    meddling

toolVars == <<confined, files, tool, stopped, meddling>>

Node(kind, text, to) == [kind |-> kind, text |-> text, to |-> to]
Empty == Node("absent", <<>>, <<>>)
MadeFolder == Node("directory", <<>>, <<>>)
TextFile(text) == Node("file", text, <<>>)
LinkTo(to) == Node("link", <<>>, to)

Inside(place) == IsPrefix(Workspace, place)

\* What is under a place that is no directory is gone.
Put(fs, place, node) ==
    [p \in Places |->
        IF p = place THEN node ELSE IF IsPrefix(place, p) THEN Empty ELSE fs[p]]

NoTool == [name |-> "none", path |-> <<>>, step |-> "", place |-> <<>>, text |-> <<>>,
           all |-> FALSE, found |-> <<>>, cut |-> FALSE, wrote |-> FALSE, out |-> ""]

ToolsInit ==
    /\ confined \in BOOLEAN
    /\ files = [p \in Places |->
                  IF p \in {<<>>} \union {Front(q) : q \in Places \ {<<>>}} THEN MadeFolder ELSE Empty]
    /\ tool = NoTool /\ stopped = FALSE /\ meddling = 0

-----------------------------------------------------------------------------
(* NamedPaths. *)

Nowhere == <<"nowhere">>
IsDirectory(fs, at) == at \in Places /\ fs[at].kind = "directory"

\* One name further; a link is followed, and may hang in the air.
Follows(fs, at, name) ==
    LET next == IF name = ".." THEN IF at = <<>> THEN at ELSE Front(at) ELSE Append(at, name) IN
    IF ~IsDirectory(fs, at) \/ next \notin Places \/ fs[next].kind = "absent" THEN Nowhere
    ELSE IF fs[next].kind # "link" THEN next
    ELSE IF fs[fs[next].to].kind = "absent" THEN Nowhere ELSE fs[next].to

\* canonicalize.
Real(fs, path) ==
    FoldLeft(LAMBDA at, name : IF at = Nowhere THEN at ELSE Follows(fs, at, name), <<>>, path)

Exists(path) == Real(files, path) # Nowhere

\* resolve_for_write: what exists is made real, and the rest is added to it.
ResolvedForWrite(path) ==
    LET there == {k \in 0..Len(path) : Exists(SubSeq(path, 1, k))}
        last == CHOOSE k \in there : \A j \in there : j <= k
        rest == SubSeq(path, last + 1, Len(path))
    IN  IF Contains(rest, "..") THEN Nowhere ELSE Real(files, SubSeq(path, 1, last)) \o rest

InPolicy(place) == place # Nowhere /\ (confined => Inside(place))

\* Input and output: confined, the names are followed from the directory that was
\* opened when the session began, and never out of it; else from the root.
\* (mutant) As if the path that was checked were still the same.
FollowsAnywhere(fs, at, name) == Follows(fs, at, name)

FollowsIn(fs, at, name) ==
    LET next == Follows(fs, at, name)
    IN  IF confined /\ Inside(at) /\ next # Nowhere /\ ~Inside(next) THEN Nowhere ELSE next

Opened(fs, place) ==
    FoldLeft(LAMBDA at, name : IF at = Nowhere THEN at ELSE FollowsIn(fs, at, name), <<>>, place)

\* create_dir_all, of the places on the way that can be made.
WithDirectories(place) ==
    FoldLeft(LAMBDA fs, k :
        LET way == SubSeq(place, 1, k)
            at == Opened(fs, Front(way))
            new == Append(at, Last(way))
        IN  IF at # Nowhere /\ IsDirectory(fs, at) /\ new \in Places /\ fs[new] = Empty
            THEN Put(fs, new, MadeFolder) ELSE fs,
        files, [k \in 1..(Len(place) - 1) |-> k])

\* Where a file is written: a link that ends the path is followed.
Target(place) ==
    LET at == Opened(files, Front(place))
        new == Append(at, Last(place))
        to == IF at # Nowhere /\ new \in Places /\ files[new].kind = "link"
              THEN IF confined /\ Inside(at) /\ ~Inside(files[new].to) THEN Nowhere ELSE files[new].to
              ELSE new
    IN  IF at = Nowhere \/ to \notin Places \/ ~IsDirectory(files, at) THEN Nowhere
        ELSE IF files[to].kind \notin {"file", "absent"} THEN Nowhere ELSE to

-----------------------------------------------------------------------------
(* Write and Edit. *)

OverWith(out) == tool' = [tool EXCEPT !.step = "over", !.out = out]
AtStep(name, step) == tool.name \in name /\ tool.step = step

CallsFileTool(name, path, text, all) ==
    /\ tool.step \in {"", "over"} /\ path # <<>>
    /\ tool' = [NoTool EXCEPT !.name = name, !.path = path, !.step = "called",
                              !.text = text, !.all = all]
    /\ stopped' = FALSE /\ UNCHANGED <<confined, files, meddling>>

Authorizes ==
    /\ AtStep({"Write", "Edit"}, "called") /\ UNCHANGED <<confined, files, stopped, meddling>>
    /\ LET place == ResolvedForWrite(tool.path) IN
       IF stopped THEN OverWith("interrupted")
       ELSE IF tool.name = "Edit" /\ ~Exists(tool.path) THEN OverWith("missing")
       ELSE IF ~InPolicy(place) THEN OverWith("denied")
       ELSE tool' = [tool EXCEPT !.place = place,
                                 !.step = IF tool.name = "Edit" THEN "look" ELSE "write"]

\* What the file says with the word replaced, once or everywhere.
Replaced(text, all) ==
    LET places == {i \in DOMAIN text : text[i] = Old} IN
    [i \in DOMAIN text |->
        IF i \in places /\ (all \/ \A j \in places : i <= j) THEN New ELSE text[i]]

LooksForWord ==
    /\ AtStep({"Edit"}, "look") /\ UNCHANGED <<confined, files, stopped, meddling>>
    /\ LET place == Opened(files, tool.place)
           text == files[place].text
           count == Cardinality({i \in DOMAIN text : text[i] = Old})
       IN  IF place = Nowhere \/ (place # Nowhere => files[place].kind # "file")
           THEN OverWith("failed")
           ELSE IF count = 0 \/ (count > 1 /\ ~tool.all) THEN OverWith("unclear")
           ELSE tool' = [tool EXCEPT !.text = Replaced(text, tool.all), !.step = "write"]

\* Then nothing holds it any more.
MakesDirectories ==
    /\ AtStep({"Write", "Edit"}, "write") /\ UNCHANGED <<confined, stopped, meddling>>
    /\ IF stopped THEN OverWith("interrupted") /\ UNCHANGED files
       ELSE /\ files' = WithDirectories(tool.place)
            /\ tool' = [tool EXCEPT !.step = "store", !.wrote = files' # files]

\* The file is cut short before it is written, and the write may fail.
StoresText(fails) ==
    /\ AtStep({"Write", "Edit"}, "store") /\ UNCHANGED <<confined, stopped, meddling>>
    /\ LET to == Target(tool.place) IN
       IF to = Nowhere THEN OverWith("failed") /\ UNCHANGED files
       ELSE /\ files' = [files EXCEPT ![to] = TextFile(IF fails THEN <<>> ELSE tool.text)]
            /\ tool' = [tool EXCEPT !.step = "over", !.wrote = TRUE,
                                    !.out = IF fails THEN "failed" ELSE "written"]

-----------------------------------------------------------------------------
(* Read and Grep. *)

AuthorizesRead ==
    /\ AtStep({"Read", "Grep"}, "called") /\ UNCHANGED <<confined, files, stopped, meddling>>
    /\ LET place == Real(files, tool.path) IN
       IF tool.name = "Read" /\ stopped THEN OverWith("interrupted")
       ELSE IF place = Nowhere THEN OverWith("missing")
       ELSE IF ~InPolicy(place) THEN OverWith("denied")
       ELSE IF tool.name = "Read" /\ files[place].kind # "file" THEN OverWith("not a file")
       ELSE tool' = [tool EXCEPT !.place = place, !.step = "read"]

\* The file is opened by its name and read line by line.
ReadsFile ==
    /\ AtStep({"Read"}, "read") /\ UNCHANGED <<confined, files, stopped, meddling>>
    /\ LET place == Real(files, tool.place) IN
       IF stopped THEN OverWith("interrupted")
       ELSE IF place = Nowhere \/ (place # Nowhere => files[place].kind # "file") THEN OverWith("failed")
       ELSE tool' = [tool EXCEPT !.step = "over", !.out = "read", !.found = files[place].text]

\* The files under the base, in an order.  Links to directories are not followed,
\* but for the base itself; a link to a file is, if the policy lets that be read.
Walk(base) ==
    LET root == Real(files, base)
        reads(p) == /\ p # Nowhere /\ files[p].kind = "file" /\ InPolicy(p)
        reached == {p \in Places : root # Nowhere /\ IsPrefix(root, p) /\ reads(Real(files, p))}
    IN  SetToSeq(reached)

MatchingLines(text) == SelectSeq(text, LAMBDA word : word \in {Old, Long})

\* Of the output so far, with what is between its lines.
OutputBytes(found) ==
    FoldLeft(LAMBDA n, word : n + (IF word = Long THEN MaxBytes + 1 ELSE 1),
             IF found = <<>> THEN 0 ELSE Len(found) - 1, found)

\* A file is searched, for its lines, until one does not fit.
Grepped(t, text) ==
    FoldLeft(LAMBDA s, word :
        IF s.full \/ Len(s.found) >= MaxResults \/ OutputBytes(<<word>>) > s.room
        THEN [s EXCEPT !.full = TRUE, !.cut = TRUE]
        ELSE [s EXCEPT !.found = Append(@, word), !.room = @ - OutputBytes(<<word>>)],
        [t EXCEPT !.room = IF OutputBytes(t.found) > MaxBytes THEN 0 ELSE MaxBytes - OutputBytes(t.found),
                  !.full = FALSE],
        MatchingLines(text))

\* The next entry after the output is full is left out.  An output of no lines says
\* that nothing was found, and not what was left out.
Greps ==
    /\ AtStep({"Grep"}, "read") /\ UNCHANGED <<confined, files, stopped, meddling>>
    /\ IF stopped THEN OverWith("interrupted")
       ELSE LET all == FoldLeft(LAMBDA t, p :
                        IF Len(t.found) >= MaxResults \/ OutputBytes(t.found) >= MaxBytes
                        THEN [t EXCEPT !.cut = TRUE] ELSE Grepped(t, files[Real(files, p)].text),
                        [found |-> <<>>, cut |-> FALSE, room |-> MaxBytes, full |-> FALSE],
                        Walk(tool.place))
            IN  tool' = [tool EXCEPT !.found = all.found, !.cut = all.cut /\ all.found # <<>>,
                                     !.step = "over", !.out = "read"]

-----------------------------------------------------------------------------

\* Other processes; one thing is put in the place of another in two steps.  Between two
\* calls is as good as before the second one's first step.
Meddles(place, node) ==
    /\ tool.step \notin {"", "over"} /\ meddling < MaxMeddling /\ place # Workspace /\ place \in Places \ {<<>>}
    /\ files[Front(place)].kind = "directory" /\ (node = Empty) # (files[place] = Empty)
    /\ node.kind = "link" => node.to # place /\ ~IsPrefix(place, node.to)
    /\ files' = Put(files, place, node) /\ meddling' = meddling + 1
    /\ UNCHANGED <<confined, tool, stopped>>

UserStops ==
    /\ ~stopped /\ tool.step \notin {"", "over"} /\ stopped' = TRUE
    /\ UNCHANGED <<confined, files, tool, meddling>>

ToolsNext ==
    \/ \E path \in NamedPaths : \/ \E text \in Texts : CallsFileTool("Write", path, text, FALSE)
                              \/ \E all \in BOOLEAN : CallsFileTool("Edit", path, <<>>, all)
                              \/ \E name \in {"Read", "Grep"} : CallsFileTool(name, path, <<>>, FALSE)
    \/ Authorizes \/ LooksForWord \/ MakesDirectories \/ (\E fails \in BOOLEAN : StoresText(fails))
    \/ AuthorizesRead \/ ReadsFile \/ Greps
    \/ (\E place \in Places, node \in {Empty, MadeFolder} \union {TextFile(t) : t \in Texts}
            \union {LinkTo(to) : to \in Links} : Meddles(place, node))
    \/ UserStops

ToolsSpec == ToolsInit /\ [][ToolsNext]_toolVars

-----------------------------------------------------------------------------

\* A confined tool changes nothing outside of the workspace, whatever became of
\* the path after it was checked.
StaysInside ==
    confined /\ tool' # tool => \A p \in Places : files'[p] # files[p] => Inside(p)

\* A call that says it was interrupted, denied or unclear changed nothing, a
\* directory included, and one that says it wrote did.
ReportIsTrue ==
    /\ tool.out = "written" => tool.wrote
    /\ tool.out \notin {"", "written", "failed"} => ~tool.wrote

\* Grep lists each line of every file that it may read, through links to files too,
\* or says that it does not; and it says that it found nothing only if there is
\* nothing, or the first line of some file that matches is over the bytes by
\* itself: then grep.rs:231 answers "No matches found" and forgets that it had left
\* something out (grep.rs:194).
SearchIsComplete ==
    LET root == Real(files, tool.place)
        there == {at \in {p \in Places : root # Nowhere /\ IsPrefix(root, p)} \X (1..2) :
            LET file == Real(files, at[1]) IN
            /\ file # Nowhere /\ InPolicy(file)
            /\ at[2] \in DOMAIN files[file].text /\ files[file].text[at[2]] \in {Old, Long}}
    IN  tool'.name = "Grep" /\ tool'.out = "read" /\ tool.out = "" =>
            \/ tool'.cut /\ tool'.found # <<>>
            \/ Len(tool'.found) = Cardinality(there)
            \/ /\ tool'.found = <<>>
               /\ \E at \in there : /\ files[Real(files, at[1])].text[at[2]] = Long
                                   /\ \A k \in 1..(at[2] - 1) : <<at[1], k>> \notin there
=============================================================================
