------------------------------ MODULE Frontends ------------------------------
(***************************************************************************)
(* The processes that share a session database: full-screen ones           *)
(* (tui/mod.rs, tui/chat.rs) that go from screen to screen with one        *)
(* engine, and line ones (repl.rs).                                        *)
(*                                                                         *)
(* A process holds a conversation in memory.  It saves after every turn    *)
(* and after every command that may rewrite the conversation; what a       *)
(* process does when that fails, when it changes sessions and when it is   *)
(* told to end is what the properties are about.                           *)
(*                                                                         *)
(* Conversations are of plain messages, which repair_history returns as    *)
(* they are; what it does to others is in module History.                  *)
(***************************************************************************)
EXTENDS SessionStore, FiniteSets

CONSTANTS
    Screens,        \* the processes with a full screen
    Lines,          \* the processes of the line interface
    NoSession,      \* not a session
    Budgets         \* bounds: how often each thing may happen

Processes == Screens \union Lines

\* A fault is a save that fails for no reason modelled; a line, a start of a REPL.
Countable == {"said", "faults", "compactions", "deletions", "signals", "lines"}

ASSUME FrontendsAssumption ==
    /\ NoSession \notin Sessions
    /\ Screens \intersect Lines = {}
    /\ Budgets \subseteq [Countable -> Nat]

VARIABLES
    proc,       \* per process: where it is, and its engine
    exported,   \* the messages in recovery files
    reported,   \* the messages a process said it could not preserve
    said,       \* history: per session, the messages its conversation got
    deleted,    \* history: the messages deleted with their session
    overwritten,\* history: the sessions saved by a process that failed to load them
    left        \* what is left of the budget

vars == <<db, proc, exported, reported, said, deleted, overwritten, left>>

Places ==
    {"start", "home", "opening", "preparing", "loading", "loading archive",
     "chat", "turn", "switching", "leaving", "ending", "exited"}

Process ==
    [at: Places, next: {"home", "opening", "switching", "exited"},
     session: Sessions \union {NoSession},  \* the screen's, or the target's
     active: Sessions \union {NoSession},   \* active_session of tui/mod.rs
     engine: BOOLEAN,                       \* there is one
     messages: Seq(Messages), archive: Seq(Events),
     of: Sessions \union {NoSession},       \* history: whose messages these are
     unsaved: BOOLEAN,                      \* save_error
     signalled: BOOLEAN,                    \* the shutdown token
     blind: BOOLEAN]                        \* history: a load failed

TypeOK ==
    /\ db \in [Sessions -> Rows]
    /\ proc \in [Processes -> Process]
    /\ {exported, reported, deleted} \subseteq SUBSET Nat
    /\ said \in [Sessions -> SUBSET Nat] /\ overwritten \subseteq Sessions
    /\ left \in [Countable -> Nat]

\* The numbers of the messages of an older build, and of those said since.
Old == UNION {Numbers(OldMessages[s]) \union Archived(OldArchives[s]) : s \in DOMAIN OldMessages}
Said == UNION {said[s] : s \in Sessions}

\* A number no message has.
Fresh ==
    LET used == Old \union Said
    IN  CHOOSE n \in 1..(Cardinality(used) + 1) : n \notin used

Spend(what) == left[what] > 0 /\ left' = [left EXCEPT ![what] = @ - 1]

Moves(p, r) == proc' = [proc EXCEPT ![p] = r]

Begin(p) ==
    [at |-> IF p \in Screens THEN "home" ELSE "start", next |-> "home",
     session |-> NoSession, active |-> NoSession, engine |-> FALSE,
     messages |-> <<>>, archive |-> <<>>, of |-> NoSession, unsaved |-> FALSE,
     signalled |-> FALSE, blind |-> FALSE]

Gone(p) == [Begin(p) EXCEPT !.at = "exited"]

Held(p) == Archived(proc[p].archive)

At(p, place) == proc[p].at = place

-----------------------------------------------------------------------------
(* Saving: to session s, which a process takes for its own *)

Saved(p, s) == SaveConversation(s, proc[p].messages, proc[p].archive)

SaveSucceeds(p, s) ==
    /\ Saved(p, s)
    /\ UNCHANGED <<exported, reported, left>>

SaveFails(p, s) ==
    /\ \/ ~Accepts(s, proc[p].archive) /\ UNCHANGED left
       \/ Spend("faults")
    /\ UNCHANGED db

\* write_recovery, which may fail as well.
Exports(p) ==
    \/ exported' = exported \union Held(p) /\ UNCHANGED reported
    \/ reported' = reported \union Held(p) /\ UNCHANGED exported

\* save_session of the chat: a failure is kept on the screen.
ChatSaves(p, s, r) ==
    \/ SaveSucceeds(p, s) /\ Moves(p, [r EXCEPT !.unsaved = FALSE])
    \/ /\ SaveFails(p, s) /\ Moves(p, [r EXCEPT !.unsaved = TRUE])
       /\ UNCHANGED <<exported, reported>>

\* save_session of the REPL: a failure is exported at once.
LineSaves(p, s, r) ==
    \/ SaveSucceeds(p, s) /\ Moves(p, r)
    \/ SaveFails(p, s) /\ Exports(p) /\ Moves(p, r)

Saves(p, s, r) ==
    IF p \in Screens THEN ChatSaves(p, s, r) ELSE LineSaves(p, s, r)

Quietly == UNCHANGED <<db, exported, reported, said, deleted, overwritten, left>>

-----------------------------------------------------------------------------
(* The home screen *)

\* Enter on a session of the list, which may be older than the database.
HomeOpens(p, s) ==
    /\ At(p, "home") /\ db[s].life # "never"
    /\ Moves(p, [proc[p] EXCEPT !.at = "opening", !.session = s])
    /\ Quietly

HomeCreates(p, s) ==
    /\ At(p, "home") /\ CreateSession(s)
    /\ Moves(p, [proc[p] EXCEPT !.at = "opening", !.session = s])
    /\ UNCHANGED <<exported, reported, said, deleted, overwritten, left>>

HomeDeletes(p, s) ==
    /\ At(p, "home") /\ Live(s)
    /\ DeleteSession(s)
    /\ deleted' = deleted \union Archived(db[s].archive)
    /\ Spend("deletions")
    /\ UNCHANGED <<proc, exported, reported, said, overwritten>>

\* A key, a signal, or an error of the terminal or the database.
HomeQuits(p) ==
    /\ At(p, "home")
    /\ Moves(p, Gone(p))
    /\ Quietly

-----------------------------------------------------------------------------
(* Between screens: Action::Chat and Action::SwitchModel *)

\* The session is gone: an error that ends the program.
OpenFails(p) ==
    /\ At(p, "opening") /\ ~Live(proc[p].session)
    /\ Moves(p, [proc[p] EXCEPT !.at = "ending"])
    /\ Quietly

\* Its profile, or its provider, is not to be had: back to the home screen.
OpenRefused(p) ==
    /\ At(p, "opening") /\ Live(proc[p].session)
    /\ Moves(p, [proc[p] EXCEPT !.at = "home", !.session = NoSession])
    /\ Quietly

NewEngine(r) ==
    [r EXCEPT !.engine = TRUE, !.messages = <<>>, !.archive = <<>>, !.of = NoSession]

\* The engine at hand is kept if the session is bound to the same model.
Opens(p) ==
    /\ At(p, "opening") /\ Live(proc[p].session)
    /\ \/ Moves(p, [NewEngine(proc[p]) EXCEPT !.at = "preparing"])
       \/ proc[p].engine /\ Moves(p, [proc[p] EXCEPT !.at = "preparing"])
    /\ Quietly

\* The system prompt is built by hooks, which may fail; then the chat is run.
Prepared(p) ==
    /\ At(p, "preparing")
    /\ \/ Moves(p, [proc[p] EXCEPT !.at = "loading", !.active = proc[p].session])
       \/ Moves(p, [proc[p] EXCEPT !.at = "ending"])
    /\ Quietly

\* /model: the choice is stored with the session once the engine is built.
Switches(p) ==
    /\ At(p, "switching")
    /\ \/ /\ Live(proc[p].session)
          /\ \/ Moves(p, [NewEngine(proc[p]) EXCEPT !.at = "opening"])
             \/ Moves(p, [proc[p] EXCEPT !.at = "home", !.session = NoSession])
       \/ Moves(p, [proc[p] EXCEPT !.at = "ending"])
    /\ Quietly

-----------------------------------------------------------------------------
(* Opening a session: two reads, others may save between them *)

LineStarts(p, s) ==
    /\ p \in Lines /\ At(p, "start")
    /\ \/ Live(s) /\ UNCHANGED db
       \/ CreateSession(s)
    /\ Moves(p, [proc[p] EXCEPT !.at = "loading", !.session = s])
    /\ Spend("lines")
    /\ UNCHANGED <<exported, reported, said, deleted, overwritten>>

\* set_messages: the archive follows the messages until it is read.
LoadMessages(p) ==
    LET s == proc[p].session
        messages == ReadMessages(db[s].messages)
    IN  /\ At(p, "loading")
        /\ ReadMessagesOf(s)
        /\ Moves(p, [proc[p] EXCEPT
               !.at = "loading archive", !.engine = TRUE, !.of = s,
               !.messages = messages, !.archive = Recorded(messages)])
        /\ UNCHANGED <<exported, reported, said, deleted, overwritten, left>>

\* set_archive, unless there is none.
LoadArchive(p) ==
    LET archive == ReadArchive(proc[p].session)
    IN  /\ At(p, "loading archive")
        /\ Moves(p, [proc[p] EXCEPT
               !.at = "chat", !.unsaved = FALSE,
               !.archive = IF archive = <<>> THEN @ ELSE archive])
        /\ Quietly

LoadFails(p) ==
    /\ At(p, "loading") \/ At(p, "loading archive")
    /\ Moves(p, IF p \in Screens THEN [proc[p] EXCEPT !.at = "ending", !.blind = TRUE]
                ELSE Gone(p))
    /\ Quietly

-----------------------------------------------------------------------------
(* The chat *)

Adds(r, m, more) ==
    [r EXCEPT !.messages = more \o <<m>>, !.archive = Append(@, Event(m.n, m))]

\* A message of the turn, the prompt first.
Says(p) ==
    LET r == proc[p]
        m == Message(Fresh, "plain")
    IN  /\ (At(p, "chat") /\ ~r.signalled) \/ At(p, "turn")
        /\ Spend("said")
        /\ Moves(p, [Adds(r, m, r.messages) EXCEPT !.at = "turn"])
        /\ said' = [said EXCEPT ![r.session] = @ \union {m.n}]
        /\ UNCHANGED <<db, exported, reported, deleted, overwritten>>

\* By itself or by /compact, the conversation shrinks to a summary and its
\* last message.
Compacts(p) ==
    LET messages == proc[p].messages
    IN  /\ At(p, "chat") \/ At(p, "turn")
        /\ Len(messages) > 2
        /\ Spend("compactions")
        /\ Moves(p, [proc[p] EXCEPT
               !.at = "turn",
               !.messages = <<Message(0, "summary"), Last(messages)>>])
        /\ UNCHANGED <<db, exported, reported, said, deleted, overwritten>>

\* However the turn ends, the conversation is saved.
TurnEnds(p) ==
    /\ At(p, "turn")
    /\ Saves(p, proc[p].session, [proc[p] EXCEPT !.at = "chat"])
    /\ UNCHANGED <<said, deleted, overwritten>>

\* /compact and its like, and Ctrl+S: saved whatever they did.
CommandSaves(p) ==
    /\ At(p, "chat")
    /\ Saves(p, proc[p].session, proc[p])
    /\ UNCHANGED <<said, deleted, overwritten>>

\* (mutant) leaves whether or not the conversation is saved
LeavesAtOnce(p, r) == Moves(p, r) /\ UNCHANGED <<db, exported, reported, left>>

\* A way out of the chat is open if there is no save error, or if a retry of
\* the save succeeds.
LeavesSaved(p, r) ==
    \/ /\ ~proc[p].unsaved /\ Moves(p, r)
       /\ UNCHANGED <<db, exported, reported, left>>
    \/ proc[p].unsaved /\ SaveSucceeds(p, proc[p].session) /\ Moves(p, r)

Leaving(p, next) ==
    [proc[p] EXCEPT !.at = "leaving", !.next = next, !.unsaved = FALSE]

\* /home, /exit, /resume, and two Ctrl+C.
ChatLeaves(p) ==
    /\ p \in Screens /\ At(p, "chat")
    /\ \/ \E next \in {"home", "exited"} : LeavesSaved(p, Leaving(p, next))
       \/ \E s \in Sessions : LeavesSaved(p, [Leaving(p, "opening") EXCEPT !.session = s])
    /\ UNCHANGED <<said, deleted, overwritten>>

\* /model with a name saves first.
ChatSwitches(p) ==
    /\ p \in Screens /\ At(p, "chat")
    /\ SaveSucceeds(p, proc[p].session) /\ Moves(p, Leaving(p, "switching"))
    /\ UNCHANGED <<said, deleted, overwritten>>

\* An error of the terminal, or an ambiguous prefix.
ChatFails(p) ==
    /\ At(p, "chat") \/ At(p, "turn")
    /\ p \in Screens
    /\ Moves(p, [proc[p] EXCEPT !.at = "ending"])
    /\ Quietly

\* (mutant) keeps active_session
LeftActive(p) ==
    /\ At(p, "leaving")
    /\ Moves(p, [proc[p] EXCEPT !.at = proc[p].next])
    /\ Quietly

\* The jobs have been shut down.
Left(p) ==
    /\ At(p, "leaving")
    /\ Moves(p, IF proc[p].next = "exited" THEN Gone(p)
                ELSE [proc[p] EXCEPT !.at = proc[p].next, !.active = NoSession])
    /\ Quietly

\* /resume of the REPL, whose conversation is saved or exported.
LineResumes(p, s) ==
    /\ p \in Lines /\ At(p, "chat") /\ Live(s)
    /\ Moves(p, [proc[p] EXCEPT !.at = "loading", !.session = s])
    /\ Quietly

LineExits(p) ==
    /\ p \in Lines /\ At(p, "chat")
    /\ Moves(p, Gone(p))
    /\ Quietly

-----------------------------------------------------------------------------
(* The end *)

Signal(p) ==
    /\ p \in Screens /\ ~At(p, "exited") /\ ~proc[p].signalled
    /\ Spend("signals")
    /\ Moves(p, [proc[p] EXCEPT !.signalled = TRUE])
    /\ UNCHANGED <<db, exported, reported, said, deleted, overwritten>>

\* The loop of the chat sees the signal: it saves, or fails.
ChatShutsDown(p) ==
    LET r == proc[p]
    IN  /\ At(p, "chat") /\ r.signalled
        /\ \/ SaveSucceeds(p, r.session) /\ Moves(p, Leaving(p, "exited"))
           \/ /\ SaveFails(p, r.session) /\ Moves(p, [r EXCEPT !.at = "ending"])
              /\ UNCHANGED <<exported, reported>>
        /\ UNCHANGED <<said, deleted, overwritten>>

\* Five seconds after it everything that waits is dropped.
Forced(p) ==
    /\ proc[p].signalled /\ proc[p].at \in {"opening", "preparing", "switching", "turn", "leaving"}
    /\ Moves(p, [proc[p] EXCEPT !.at = "ending"])
    /\ Quietly

\* What a program that did not end well does for the active session.
Ends(p) ==
    LET s == proc[p].active
    IN  /\ At(p, "ending")
        /\ IF s = NoSession \/ ~proc[p].engine
           THEN Moves(p, Gone(p)) /\ UNCHANGED <<db, exported, reported, left>>
           ELSE LineSaves(p, s, Gone(p))
        /\ overwritten' = overwritten \union (IF proc[p].blind THEN {s} ELSE {})
        /\ UNCHANGED <<said, deleted>>

-----------------------------------------------------------------------------

Init ==
    /\ StoreInit
    /\ proc = [p \in Processes |-> Begin(p)]
    /\ exported = {} /\ reported = {} /\ deleted = {} /\ overwritten = {}
    /\ said = [s \in Sessions |-> {}]
    /\ left \in Budgets

Home(p) ==
    \/ HomeQuits(p)
    \/ \E s \in Sessions : HomeOpens(p, s) \/ HomeCreates(p, s) \/ HomeDeletes(p, s)

Open(p) ==
    \/ OpenFails(p) \/ OpenRefused(p) \/ Opens(p) \/ Prepared(p) \/ Switches(p)
    \/ LoadMessages(p) \/ LoadArchive(p) \/ LoadFails(p)

Chat(p) ==
    \/ Says(p) \/ Compacts(p) \/ TurnEnds(p) \/ CommandSaves(p)
    \/ ChatLeaves(p) \/ ChatSwitches(p) \/ ChatFails(p) \/ Left(p)

Line(p) ==
    \/ LineExits(p)
    \/ \E s \in Sessions : LineStarts(p, s) \/ LineResumes(p, s)

End(p) == Signal(p) \/ ChatShutsDown(p) \/ Forced(p) \/ Ends(p)

Next == \E p \in Processes : Home(p) \/ Open(p) \/ Chat(p) \/ Line(p) \/ End(p)

Spec == Init /\ [][Next]_vars

-----------------------------------------------------------------------------
(* Properties *)

Log == INSTANCE ArchiveLog WITH
         life <- [s \in Sessions |-> db[s].life],
         log  <- [s \in Sessions |-> db[s].archive]

\* Whatever processes save, compact, fail and delete, the archive of a session
\* is the log ArchiveLog describes.
ArchiveIsALog == Log!Spec

\* Something said is in the archive, or in a recovery file, or reported as
\* lost, or still in the memory of a process that is on that session; or it was
\* deleted with the session.  And a chat that shows no save error has it on disk.
NothingLost ==
    /\ \A s \in Sessions : \A n \in said[s] \ (exported \union reported \union deleted) :
          \/ n \in Archived(db[s].archive)
          \/ \E p \in Processes :
                proc[p].of = s /\ ~At(p, "exited") /\ n \in Held(p)
    /\ \A p \in Screens :
          At(p, "chat") /\ ~proc[p].unsaved =>
              (Held(p) \intersect Said) \ deleted
                  \subseteq Archived(db[proc[p].session].archive)

Writes(p, s) ==
    /\ proc'[p] # proc[p] /\ db'[s].messages # db[s].messages
    /\ Live(s) /\ db'[s].life = "live"

\* A conversation is written only over the session it was loaded from, by a
\* process whose load did not fail.
SavedOverItsOwn ==
    [][\A p \in Processes, s \in Sessions :
          Writes(p, s) /\ ~proc[p].blind => proc[p].of = s]_vars

\* A message no build can read is still there as it was: in the conversation, or
\* put aside.  Exempt are the sessions a process saved without having read them.
OriginalsKept ==
    \A s \in DOMAIN OldMessages :
        Live(s) /\ s \notin overwritten => Having(Damaged, OldMessages[s])
                     \subseteq Having(Damaged, db[s].messages) \union db[s].unreadable
=============================================================================
