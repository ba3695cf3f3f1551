------------------------------ MODULE Workspace ------------------------------
(***************************************************************************)
(* One engine in its work tree: the sessions it holds one after another,   *)
(* the turns of a session, the background jobs those turns start, the      *)
(* checkpoint of the last turn, and everybody who writes files.            *)
(*                                                                         *)
(* Jobs and Checkpoint meet in /undo-turn, which looks at the job table    *)
(* before it touches a file, and in set_messages, which resets both.       *)
(***************************************************************************)
EXTENDS Jobs, Checkpoint

CONSTANT Budgets    \* bounds: how often each thing may happen

Countable == {"turns", "starts", "cancels", "forks", "writes", "undos", "sessions"}

ASSUME WorkspaceAssumption == Budgets \subseteq [Countable -> Nat]

VARIABLES
    turn,   \* whether a turn runs
    left    \* what is left of the budget

vars == <<jobVars, checkpointVars, turn, left>>

TypeOK ==
    /\ JobsTypeOK /\ CheckpointTypeOK
    /\ turn \in BOOLEAN
    /\ left \in [Countable -> Nat]

Spend(what) == left[what] > 0 /\ left' = [left EXCEPT ![what] = @ - 1]

Open == closing.stage = "open"

-----------------------------------------------------------------------------

\* submit_streaming: capture, the turn, finish.
BeginTurn ==
    /\ Open /\ ~turn /\ ~Undoing
    /\ Begin /\ turn' = TRUE /\ Spend("turns")
    /\ UNCHANGED jobVars

\* A turn ends when its tools have; the hooks of OnTurnEnd come after finish,
\* as writers like any other.
EndTurn ==
    /\ turn /\ ~starting
    /\ Finish /\ turn' = FALSE
    /\ UNCHANGED <<jobVars, left>>

\* The Bash tool, asked for a background job.
AskForJob ==
    /\ turn /\ StartAsked /\ Spend("starts")
    /\ UNCHANGED <<checkpointVars, turn>>

CancelJob ==
    /\ \E j \in JobIds : CancelAsked(j)
    /\ Spend("cancels")
    /\ UNCHANGED <<checkpointVars, turn>>

\* (mutant) asks only for jobs that were not cancelled
NoneRunning == \A j \in Listed : Status(job[j]) # "running"

\* undo_last_turn: no job may be active.  It does not yield, so the engine
\* does nothing else until it is over.
NoneActive == \A j \in Listed : ~Active(j)

UndoTurn ==
    /\ Open /\ ~turn /\ LockFree
    /\ NoneActive
    /\ UndoVerified /\ Spend("undos")
    /\ UNCHANGED <<jobVars, turn>>

UndoStep ==
    /\ Restore \/ \E f \in Files : Reread(f)
    /\ UNCHANGED <<jobVars, turn, left>>

\* A tool of the turn, a hook, or a person at the editor.
EditFile ==
    /\ \E f \in Files, c \in States : Write(f, c)
    /\ Spend("writes")
    /\ UNCHANGED <<jobVars, turn>>

\* The screen is left: a turn still at work is dropped, but a start it has
\* sent on its way may still come through.
CloseSession ==
    /\ ~Undoing
    /\ Shutdown
    /\ turn' = FALSE
    /\ UNCHANGED <<checkpointVars, left>>

\* chat::run on the same engine: enable, then set_messages.
OpenSession ==
    /\ Reopen /\ SetMessages /\ Spend("sessions")
    /\ UNCHANGED turn

JobStep ==
    /\ Manager \/ Tick \/ \E j \in JobIds : Task(j)
    /\ UNCHANGED <<checkpointVars, turn, left>>

\* A command's own doings: it forks, exits, writes.
CommandForks ==
    /\ \E j \in JobIds, p \in {"child", "daemon"} : Forks(j, p)
    /\ Spend("forks")
    /\ UNCHANGED <<checkpointVars, turn>>

CommandExits ==
    /\ \E j \in JobIds, p \in Processes : Exits(j, p)
    /\ UNCHANGED <<checkpointVars, turn, left>>

-----------------------------------------------------------------------------

Init ==
    /\ JobsInit /\ CheckpointInit
    /\ turn = FALSE
    /\ left \in Budgets

Next ==
    \/ BeginTurn \/ EndTurn \/ AskForJob \/ CancelJob
    \/ UndoTurn \/ UndoStep \/ EditFile
    \/ CloseSession \/ OpenSession
    \/ JobStep \/ CommandForks \/ CommandExits

\* The manager's calls return, a job's task is polled, seconds pass.
Fairness == WF_vars(JobStep)

Spec == Init /\ [][Next]_vars /\ Fairness

-----------------------------------------------------------------------------

\* While undo verifies and restores, no command of a job writes beside it:
\* a job counts as active until its process tree is gone.
UndoRunsAlone ==
    Undoing => \A j \in JobIds : tree[j] \intersect Group = {}

\* Leaving a session does not hang on a job, whatever its command does.
SessionCloses == closing.stage = "disabled" ~> closing.stage = "closed"
=============================================================================
