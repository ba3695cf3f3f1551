----------------------------- MODULE HomeScreen -----------------------------
(***************************************************************************)
(* The screen that lists projects and sessions (tui/home.rs).  It shows    *)
(* the database as it was when the tree was last built, while other        *)
(* processes write to it; rows are found by their place.                   *)
(***************************************************************************)
EXTENDS Naturals, Sequences, SequencesExt, FiniteSets

CONSTANTS
    Uncategorized,      \* the project of a session that has none
    Projects,           \* their names, in order
    NewIds,             \* ids a new session may get
    Queries,            \* what may be typed to find a model
    Listing             \* per query, the models that match, as they are listed

ASSUME HomeAssumption ==
    /\ Uncategorized \in ToSet(Projects)
    /\ "" \in Queries /\ Listing \in [Queries -> Seq(ToSet(Listing[""]))]
    /\ \A query \in Queries : Len(Listing[query]) <= Len(Listing[""])

VARIABLES
    rows,       \* list_sessions: [id, project], the last one used first
    tree,       \* what is shown
    selected,   \* the place of the row under the cursor, from 1
    mode,       \* what the keys mean
    empty,      \* projects that were made here and have no session yet
    picker,     \* the model chosen, the place in the list, and what is typed
    done        \* what was done last

homeVars == <<rows, tree, selected, mode, empty, picker, done>>

Session(id, project) == [id |-> id, project |-> project]
Folder(name, expanded) == [row |-> "project", of |-> name, expanded |-> expanded]
Entry(session) == [row |-> "session", of |-> session.id, expanded |-> TRUE]


\* The rows of a project: itself, and its sessions if it is expanded.
Unfolded(project, expanded, sessions) ==
    <<Folder(project, expanded)>> \o
    IF expanded THEN [i \in DOMAIN sessions |-> Entry(sessions[i])] ELSE <<>>

\* A project is as it was shown, and expanded if it was not shown.
WasExpanded(shown, project) ==
    \A i \in DOMAIN shown : shown[i].row = "project" /\ shown[i].of = project => shown[i].expanded

\* reload, of these rows.
Built(shown, sessions, made) ==
    LET of(project) == SelectSeq(sessions, LAMBDA s : s.project = project)
        there == SelectSeq(Projects, LAMBDA p : of(p) # <<>> \/ p \in made)
    IN  FlattenSeq([i \in DOMAIN there |->
            Unfolded(there[i], WasExpanded(shown, there[i]), of(there[i]))])

\* (mutant) The cursor stays where it was.
UnclampedIn(place, shown) == place

\* The cursor is moved to the last row if its own is gone.
ClampedIn(place, shown) == IF shown # <<>> /\ place > Len(shown) THEN Len(shown) ELSE place

Reloads(shown, sessions, made) ==
    /\ tree' = Built(shown, sessions, made)
    /\ selected' = ClampedIn(selected, tree')

NoPick == [model |-> Listing[""][1], at |-> 1, query |-> "", searching |-> FALSE]

HomeInit ==
    /\ rows = <<>> /\ tree = <<>> /\ selected = 1 /\ mode = "browse" /\ empty = {}
    /\ picker = NoPick /\ done = <<"nothing">>

Known(id) == \E s \in ToSet(rows) : s.id = id
IsListed(id) == \E r \in ToSet(tree) : r.row = "session" /\ r.of = id

Under == tree[selected]
OnRow(row) == tree # <<>> /\ Under.row = row

Browsing == mode = "browse" /\ done[1] \notin {"open", "quit"}

-----------------------------------------------------------------------------
(* The tree. *)

\* Up and Down, k and j.
MovesCursor(place) ==
    /\ Browsing /\ place \in {selected - 1, selected + 1} /\ place \in DOMAIN tree
    /\ selected' = place /\ done' = <<"nothing">>
    /\ UNCHANGED <<rows, tree, mode, empty, picker>>

\* Enter: a project is folded or unfolded, and the database is read again.
Folds ==
    /\ Browsing /\ OnRow("project")
    /\ Reloads([tree EXCEPT ![selected].expanded = ~@], rows, empty)
    /\ done' = <<"nothing">> /\ UNCHANGED <<rows, mode, empty, picker>>

Chooses == /\ Browsing /\ OnRow("session") /\ done' = <<"open", Under.of>>
           /\ UNCHANGED <<rows, tree, selected, mode, empty, picker>>

\* q, Ctrl+C, Ctrl+D, or the program is told to end.
Quits ==
    /\ done[1] \notin {"open", "quit"} /\ done' = <<"quit">>
    /\ UNCHANGED <<rows, tree, selected, mode, empty, picker>>

\* The chat is left, and the screen is built anew.
ComesBack ==
    /\ done[1] = "open" /\ tree' = Built(<<>>, rows, {}) /\ selected' = 1 /\ mode' = "browse"
    /\ empty' = {} /\ picker' = NoPick /\ done' = <<"nothing">> /\ UNCHANGED rows

\* d, then y, or n and Esc.
AsksToDelete ==
    /\ Browsing /\ OnRow("session") /\ mode' = Under.of /\ done' = <<"asked", Under.of>>
    /\ UNCHANGED <<rows, tree, selected, empty, picker>>

Questioned == mode \notin {"browse", "model", "session", "project"} /\ done[1] # "quit"

\* An id names one row.
Without(id) == RemoveFirstMatch(rows, LAMBDA s : s.id = id)

ConfirmsDelete ==
    /\ Questioned /\ rows' = Without(mode) /\ mode' = "browse"
    /\ Reloads(tree, rows', empty) /\ done' = <<"deleted", mode>> /\ UNCHANGED <<empty, picker>>

Keeps ==
    /\ Questioned /\ mode' = "browse" /\ done' = <<"nothing">>
    /\ UNCHANGED <<rows, tree, selected, empty, picker>>

-----------------------------------------------------------------------------
(* A new session, a new project. *)

Listed == Listing[picker.query]

\* The place of the chosen model in the whole list.
ChosenPlace == SelectInSeq(Listing[""], LAMBDA m : m = picker.model)

PicksModel ==
    /\ Browsing /\ mode' = "model" /\ done' = <<"nothing">>
    /\ picker' = [picker EXCEPT !.query = "", !.searching = FALSE, !.at = ChosenPlace]
    /\ UNCHANGED <<rows, tree, selected, empty>>

InPicker(p) ==
    /\ mode = "model" /\ done[1] # "quit" /\ picker' = p /\ done' = <<"nothing">>
    /\ UNCHANGED <<rows, tree, selected, mode, empty>>

MovesInList(at) ==
    /\ at \in {picker.at - 1, picker.at + 1} /\ at \in DOMAIN Listed
    /\ InPicker([picker EXCEPT !.at = at])

\* "/", and then what is typed.
Searches == ~picker.searching /\ InPicker([picker EXCEPT !.searching = TRUE, !.query = ""])

TypesQuery(query) ==
    /\ picker.searching /\ query # picker.query
    /\ InPicker([picker EXCEPT !.query = query, !.at = 1])

EndsSearch ==
    /\ picker.searching
    /\ InPicker([picker EXCEPT !.searching = FALSE, !.query = "", !.at = ChosenPlace])

LeavesPicker ==
    /\ mode = "model" /\ ~picker.searching /\ mode' = "browse" /\ done' = <<"nothing">>
    /\ done[1] # "quit" /\ picker' = [picker EXCEPT !.query = "", !.at = 1]
    /\ UNCHANGED <<rows, tree, selected, empty>>

ChoosesModel ==
    /\ mode = "model" /\ done[1] # "quit" /\ picker.at \in DOMAIN Listed
    /\ mode' = "session" /\ done' = <<"nothing">>
    /\ picker' = [picker EXCEPT !.model = Listed[picker.at], !.query = ""]
    /\ UNCHANGED <<rows, tree, selected, empty>>

\* selected_project: the folder above the cursor.
SelectedProject ==
    LET above == {i \in 1..selected : i \in DOMAIN tree /\ tree[i].row = "project"}
    IN  IF above = {} THEN Uncategorized ELSE tree[CHOOSE i \in above : \A j \in above : j <= i].of

CreatesSession(id) ==
    /\ mode = "session" /\ done[1] # "quit" /\ ~Known(id) /\ ~IsListed(id)
    /\ rows' = <<Session(id, SelectedProject)>> \o rows
    /\ mode' = "browse" /\ Reloads(tree, rows', empty)
    /\ done' = <<"open", id>> /\ UNCHANGED <<empty, picker>>

NamesProject ==
    /\ Browsing /\ mode' = "project" /\ done' = <<"nothing">>
    /\ UNCHANGED <<rows, tree, selected, empty, picker>>

CreatesProject(name) ==
    /\ mode = "project" /\ done[1] # "quit" /\ empty' = empty \union {name}
    /\ mode' = "browse" /\ Reloads(tree, rows, empty')
    /\ done' = <<"nothing">> /\ UNCHANGED <<rows, picker>>

\* Esc at a name.
Forgets ==
    /\ mode \in {"session", "project"} /\ done[1] # "quit"
    /\ mode' = "browse" /\ done' = <<"nothing">>
    /\ UNCHANGED <<rows, tree, selected, empty, picker>>

-----------------------------------------------------------------------------

\* Another process makes, uses or deletes a session; an id is not used twice.
OthersMake(id, project) ==
    /\ ~Known(id) /\ ~IsListed(id) /\ done[1] # "quit"
    /\ rows' = <<Session(id, project)>> \o rows
    /\ UNCHANGED <<tree, selected, mode, empty, picker, done>>

OthersUse(s) ==
    /\ rows' = <<s>> \o Without(s.id) /\ rows' # rows /\ done[1] # "quit"
    /\ UNCHANGED <<tree, selected, mode, empty, picker, done>>

OthersDelete(s) ==
    /\ rows' = Without(s.id) /\ done[1] # "quit"
    /\ UNCHANGED <<tree, selected, mode, empty, picker, done>>

HomeNext ==
    \/ (\E place \in DOMAIN tree : MovesCursor(place)) \/ Folds \/ Chooses \/ Quits \/ ComesBack
    \/ AsksToDelete \/ ConfirmsDelete \/ Keeps
    \/ PicksModel \/ (\E at \in DOMAIN Listed : MovesInList(at)) \/ Searches
    \/ (\E query \in Queries : TypesQuery(query)) \/ EndsSearch \/ LeavesPicker \/ ChoosesModel
    \/ (\E id \in NewIds : CreatesSession(id)) \/ NamesProject
    \/ (\E name \in ToSet(Projects) : CreatesProject(name)) \/ Forgets
    \/ (\E id \in NewIds, project \in ToSet(Projects) : OthersMake(id, project))
    \/ (\E s \in ToSet(rows) : OthersUse(s) \/ OthersDelete(s))

HomeSpec == HomeInit /\ [][HomeNext]_homeVars

-----------------------------------------------------------------------------

Folders(shown) == {r \in ToSet(shown) : r.row = "project"}
Created == rows' # rows /\ done' # done /\ done'[1] = "open"

\* The model that Enter would take is on the screen, whatever is typed to find one.
PickIsListed == mode = "model" => Listed = <<>> \/ picker.at \in DOMAIN Listed

\* What Enter and d mean is under the cursor too.
CursorsAreShown ==
    /\ tree # <<>> => selected \in DOMAIN tree
    /\ PickIsListed

\* A session is deleted here only after a question that named it, whatever other
\* processes did since.
DeletesWhatItAsked ==
    done' # done /\ ToSet(rows') # ToSet(rows) /\ ~Created =>
        /\ done[1] = "asked" /\ done' = <<"deleted", done[2]>>
        /\ ToSet(rows) \ ToSet(rows') \subseteq {s \in ToSet(rows) : s.id = done[2]}

\* What was folded stays folded when the tree is built again.
FoldsAreKept ==
    tree' # tree /\ done[1] # "open" =>
        Cardinality({r \in Folders(tree) :
            r \notin Folders(tree') /\ \E q \in Folders(tree') : q.of = r.of})
        <= IF mode = "browse" THEN 1 ELSE 0

\* A new session is of the project in which the cursor is.
CreatesInTheProject ==
    Created /\ OnRow("session") =>
        \A s \in ToSet(rows) : s.id = Under.of => Head(rows').project = s.project
=============================================================================
