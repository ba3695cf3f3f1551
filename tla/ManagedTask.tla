---------------------------- MODULE ManagedTask ----------------------------
(***************************************************************************)
(* One background task of src/src/managed.rs: a directory of files that    *)
(* detached WORKER processes and short-lived COMMAND processes read and    *)
(* replace, each file atomically and no two of them together.              *)
(*                                                                         *)
(* start, send, retry and cancel hold control.lock, so one of them runs at *)
(* a time; a worker holds worker.lock from before it looks at the prompt   *)
(* until it exits.  No lock covers both sides, and status and wait hold    *)
(* none.  Any process may die between two steps; its locks go with it.     *)
(*                                                                         *)
(* A prompt is its number.  The event log, the session and the task record *)
(* are left out: writing them is a step that may fail.                     *)
(***************************************************************************)
EXTENDS Naturals, Sequences, FiniteSets

CONSTANTS
  Workers,      \* worker processes, each spawned at most once
  None,         \* no worker
  MaxPrompts,   \* bound: prompts accepted
  MaxExtras     \* bound: retries, cancels and waits begun, and deaths

ASSUME TaskAssumption ==
  /\ None \notin Workers
  /\ MaxPrompts \in Nat /\ MaxExtras \in Nat

VARIABLES
  pending,      \* pending.json: the prompt to run, or 0
  status,       \* state.json
  young,        \* started_at_ms of that "starting" is less than 10 s old
  cancelFile,   \* the file named cancel exists
  result,       \* result.json: whose turn, and whether it completed
  lock,         \* worker.lock: its holder
  worker,       \* where each worker process stands
  command,      \* the command that holds control.lock
  wait,         \* a wait command
  accepted,     \* history: prompts written to pending.json
  begun,        \* history: the prompts taken from it, in order
  asked,        \* history: the prompts accepted when a cancel was requested
  launched,     \* history: the last prompt whose command launched a worker
  hasty,        \* history: a retry was let through while a worker still lived
  extras        \* what happened beyond sends, see MaxExtras

files == <<pending, status, young, cancelFile, result>>
history == <<accepted, begun, asked, launched, hasty>>
vars == <<pending, status, young, cancelFile, result, lock, worker, command,
          wait, accepted, begun, asked, launched, hasty, extras>>

Prompts == 1 .. MaxPrompts
Statuses == {"idle", "starting", "running", "failed", "cancelled"}
Unfinished == {"starting", "running"}

WorkerSteps == {"unused", "spawned", "locked", "loading", "read", "taken",
                "marked", "turn", "ended", "answered", "failing",
                "exiting", "gone"}
CommandSteps == {"none", "probe", "state", "confirm", "pending", "uncancel",
                 "write", "mark", "launch", "unlaunched"}

\* The turn's token is live, or cancelled by a request or by the deadline.
Tokens == {"live", "asked", "late"}
Process(at, prompt, token, ok) ==
  [at |-> at, prompt |-> prompt, token |-> token, ok |-> ok]
Gone == Process("gone", 0, "live", FALSE)
Free == [op |-> "send", at |-> "none", seen |-> "idle"]

Poll(at, for) == [at |-> at, for |-> for, seen |-> "idle"]

Active == lock # None
Living == {w \in Workers : worker[w].at \notin {"unused", "gone"}}

Init ==
  /\ pending = 0 /\ status = "idle" /\ young = FALSE /\ cancelFile = FALSE
  /\ result = [of |-> 0, ok |-> FALSE]
  /\ lock = None
  /\ worker = [w \in Workers |-> Process("unused", 0, "live", FALSE)]
  /\ command = Free
  /\ wait = Poll("none", 0)
  /\ accepted = 0 /\ begun = <<>> /\ asked = {}
  /\ launched = 0 /\ hasty = FALSE
  /\ extras = 0

-----------------------------------------------------------------------------
(* Commands.  A command goes through its checks in the order of the code.  *)

At(op, at) == command.op = op /\ command.at = at
Goto(at) == command' = [command EXCEPT !.at = at]
Refuse == command' = Free

\* control_lock: a second command fails at once.
Command(op) ==
  /\ command = Free
  /\ command' = [Free EXCEPT !.op = op, !.at = "probe"]
  /\ UNCHANGED <<files, lock, worker, wait, history>>

Extra == extras < MaxExtras /\ extras' = extras + 1

\* The first send is the one start makes.
Send == accepted < MaxPrompts /\ Command("send") /\ UNCHANGED extras
Retry == Command("retry") /\ Extra
Cancel == Command("cancel") /\ Extra

\* worker_active takes the lock shared, and lets go.
Probe ==
  /\ command.at = "probe"
  /\ \/ Active /\ command.op # "cancel" /\ Refuse
     \/ Active /\ command.op = "cancel" /\ Goto("write")
     \/ ~Active /\ command.op = "cancel" /\ Goto("pending")
     \/ ~Active /\ command.op # "cancel" /\ Goto("state")
  /\ UNCHANGED <<files, lock, worker, wait, history, extras>>

\* (mutant) A launch that never came is starting for ever.
ReportedWithoutGrace(seen, active) ==
  IF seen = "running" /\ ~active THEN "interrupted"
  ELSE IF seen = "late" THEN "starting" ELSE seen

\* (mutant) A worker that died is running for ever.
ReportedByFile(seen, active) ==
  IF seen = "late" THEN (IF active THEN "starting" ELSE "interrupted") ELSE seen

\* What status calls the state it has read, the worker seen active or not.
Reported(seen, active) ==
  IF seen = "running" /\ ~active THEN "interrupted"
  ELSE IF seen = "late" THEN (IF active THEN "starting" ELSE "interrupted")
  ELSE seen

\* state.json, and for "starting" whether the ten seconds are over.
Seen == IF status = "starting" /\ ~young THEN "late" ELSE status

ReadState ==
  /\ command.at = "state"
  /\ \/ command.op = "send" /\ status \in Unfinished /\ Refuse
     \/ command.op = "send" /\ status \notin Unfinished /\ Goto("pending")
     \/ /\ command.op = "retry"
        /\ command' = [command EXCEPT !.at = "confirm", !.seen = Seen]
  /\ UNCHANGED <<files, lock, worker, wait, history, extras>>

\* retry asks status, which probes the lock after it has read the state.
Confirm ==
  /\ At("retry", "confirm")
  /\ IF Reported(command.seen, Active) \in {"failed", "interrupted"}
     THEN Goto("pending") ELSE Refuse
  /\ UNCHANGED <<files, lock, worker, wait, history, extras>>

\* (mutant) Send does not ask whether a turn is pending.
CheckPendingOfOthers ==
  /\ command.at = "pending"
  /\ \/ command.op = "send" /\ Goto("uncancel")
     \/ command.op = "retry" /\ (IF pending # 0 THEN Goto("uncancel") ELSE Refuse)
     \/ command.op = "cancel" /\ (IF pending # 0 THEN Goto("write") ELSE Refuse)
  /\ hasty' = (hasty \/ (command.op = "retry" /\ pending # 0 /\ Living # {}))
  /\ UNCHANGED <<files, lock, worker, wait, accepted, begun, asked, launched,
                 extras>>

CheckPending ==
  /\ command.at = "pending"
  /\ \/ command.op = "send" /\ (IF pending = 0 THEN Goto("uncancel") ELSE Refuse)
     \/ command.op = "retry" /\ (IF pending # 0 THEN Goto("uncancel") ELSE Refuse)
     \/ command.op = "cancel" /\ (IF pending # 0 THEN Goto("write") ELSE Refuse)
  /\ hasty' = (hasty \/ (command.op = "retry" /\ pending # 0 /\ Living # {}))
  /\ UNCHANGED <<files, lock, worker, wait, accepted, begun, asked, launched,
                 extras>>

\* (mutant) The cancel file of the turn before stays.
UncancelNothing ==
  /\ command.at = "uncancel"
  /\ Goto(IF command.op = "send" THEN "write" ELSE "mark")
  /\ UNCHANGED <<files, lock, worker, wait, history, extras>>

Uncancel ==
  /\ command.at = "uncancel"
  /\ cancelFile' = FALSE
  /\ Goto(IF command.op = "send" THEN "write" ELSE "mark")
  /\ UNCHANGED <<pending, status, young, result, lock, worker, wait, history,
                 extras>>

WritePending ==
  /\ At("send", "write")
  /\ accepted' = accepted + 1
  /\ pending' = accepted'
  /\ Goto("mark")
  /\ UNCHANGED <<status, young, cancelFile, result, lock, worker, wait, begun,
                 asked, launched, hasty, extras>>

\* (mutant) State.json is left to the worker.
MarkStartingLater ==
  /\ command.at = "mark"
  /\ Goto("launch")
  /\ UNCHANGED <<files, lock, worker, wait, history, extras>>

MarkStarting ==
  /\ command.at = "mark"
  /\ status' = "starting" /\ young' = TRUE
  /\ Goto("launch")
  /\ UNCHANGED <<pending, cancelFile, result, lock, worker, wait, history,
                 extras>>

\* spawn_worker returns as soon as the process exists.
Launch ==
  /\ command.at = "launch"
  /\ \E w \in Workers :
       /\ worker[w].at = "unused"
       /\ worker' = [worker EXCEPT ![w].at = "spawned"]
  /\ launched' = accepted
  /\ command' = Free
  /\ UNCHANGED <<files, lock, wait, accepted, begun, asked, hasty, extras>>

LaunchFails ==
  /\ command.at = "launch"
  /\ Goto("unlaunched")
  /\ UNCHANGED <<files, lock, worker, wait, history, extras>>

MarkUnlaunched ==
  /\ command.at = "unlaunched"
  /\ status' = "failed" /\ young' = FALSE
  /\ command' = Free
  /\ UNCHANGED <<pending, cancelFile, result, lock, worker, wait, history,
                 extras>>

RequestCancel ==
  /\ At("cancel", "write")
  /\ cancelFile' = TRUE
  /\ asked' = asked \cup {accepted}
  /\ command' = Free
  /\ UNCHANGED <<pending, status, young, result, lock, worker, wait, accepted,
                 begun, launched, hasty, extras>>

CommandDies ==
  /\ command # Free
  /\ Extra
  /\ command' = Free
  /\ UNCHANGED <<files, lock, worker, wait, history>>

\* Ten seconds have passed since the launch.
GraceEnds ==
  /\ young
  /\ young' = FALSE
  /\ UNCHANGED <<pending, status, cancelFile, result, lock, worker, command,
                 wait, history, extras>>

-----------------------------------------------------------------------------
(* The worker process.                                                     *)

Step(w, from, to) ==
  /\ worker[w].at = from
  /\ worker' = [worker EXCEPT ![w].at = to]

\* lock_exclusive waits for the worker before it.
Acquire(w) ==
  /\ lock = None
  /\ Step(w, "spawned", "locked")
  /\ lock' = w
  /\ UNCHANGED <<files, command, wait, history, extras>>

FindPrompt(w) ==
  /\ Step(w, "locked", IF pending = 0 THEN "exiting" ELSE "loading")
  /\ UNCHANGED <<files, lock, command, wait, history, extras>>

\* A slot, the configuration, the engine, the session, then the prompt.
ReadPrompt(w) ==
  /\ worker[w].at = "loading"
  /\ worker' = [worker EXCEPT ![w].at = "read", ![w].prompt = pending]
  /\ UNCHANGED <<files, lock, command, wait, history, extras>>

RemovePending(w) ==
  /\ Step(w, "read", "taken")
  /\ pending' = 0
  /\ begun' = Append(begun, worker[w].prompt)
  /\ UNCHANGED <<status, young, cancelFile, result, lock, command, wait,
                 accepted, asked, launched, hasty, extras>>

MarkRunning(w) ==
  /\ Step(w, "taken", "marked")
  /\ status' = "running" /\ young' = FALSE
  /\ UNCHANGED <<pending, cancelFile, result, lock, command, wait, history,
                 extras>>

\* After turn_started; a cancellation may have been requested by now.
BeginTurn(w) ==
  /\ worker[w].at = "marked"
  /\ worker' = [worker EXCEPT ![w].at = "turn",
                              ![w].token = IF cancelFile THEN "asked" ELSE "live"]
  /\ UNCHANGED <<files, lock, command, wait, history, extras>>

\* The monitor looks at the file; aborting it does not wait for it.
InTurn(w) == worker[w].at \in {"turn", "ended", "answered"}

SeeCancel(w) ==
  /\ InTurn(w) /\ cancelFile /\ worker[w].token = "live"
  /\ worker' = [worker EXCEPT ![w].token = "asked"]
  /\ UNCHANGED <<files, lock, command, wait, history, extras>>

\* The turn's time is up, or the process is told to stop.
Deadline(w) ==
  /\ InTurn(w) /\ worker[w].token = "live"
  /\ worker' = [worker EXCEPT ![w].token = "late"]
  /\ UNCHANGED <<files, lock, command, wait, history, extras>>

\* Saving the session is part of this step; completed is decided after it.
TurnEnds(w) ==
  /\ worker[w].at = "turn"
  /\ \E answered \in BOOLEAN :
       worker' = [worker EXCEPT ![w].at = "ended",
                                ![w].ok = answered /\ worker[w].token = "live"]
  /\ UNCHANGED <<files, lock, command, wait, history, extras>>

WriteResult(w) ==
  /\ Step(w, "ended", "answered")
  /\ result' = [of |-> worker[w].prompt, ok |-> worker[w].ok]
  /\ UNCHANGED <<pending, status, young, cancelFile, lock, command, wait,
                 history, extras>>

\* (mutant) A turn that failed leaves the task idle.
WriteIdle(w) ==
  /\ Step(w, "answered", "exiting")
  /\ status' = IF worker[w].token = "live" THEN "idle" ELSE "cancelled"
  /\ young' = FALSE
  /\ UNCHANGED <<pending, cancelFile, result, lock, command, wait, history,
                 extras>>

WriteOutcome(w) ==
  /\ Step(w, "answered", "exiting")
  /\ status' = IF worker[w].ok THEN "idle"
               ELSE IF worker[w].token = "live" THEN "failed" ELSE "cancelled"
  /\ young' = FALSE
  /\ UNCHANGED <<pending, cancelFile, result, lock, command, wait, history,
                 extras>>

\* Any of the calls of work may fail; a full event log makes event fail.
WorkFails(w) ==
  /\ worker[w].at \in {"loading", "read", "taken", "marked", "turn", "ended",
                       "answered"}
  /\ worker' = [worker EXCEPT ![w].at = "failing"]
  /\ UNCHANGED <<files, lock, command, wait, history, extras>>

MarkFailed(w) ==
  /\ Step(w, "failing", "exiting")
  /\ status' = "failed" /\ young' = FALSE
  /\ UNCHANGED <<pending, cancelFile, result, lock, command, wait, history,
                 extras>>

Exit(w) ==
  /\ worker[w].at = "exiting"
  /\ worker' = [worker EXCEPT ![w] = Gone]
  /\ lock' = None
  /\ UNCHANGED <<files, command, wait, history, extras>>

\* (mutant) Liveness from a saved PID, which outlives a crash.
WorkerDiesUnnoticed(w) ==
  /\ worker[w].at \notin {"unused", "exiting", "gone"}
  /\ Extra
  /\ worker' = [worker EXCEPT ![w] = Gone]
  /\ UNCHANGED <<files, lock, command, wait, history>>

WorkerDies(w) ==
  /\ worker[w].at \notin {"unused", "exiting", "gone"}
  /\ Extra
  /\ worker' = [worker EXCEPT ![w] = Gone]
  /\ lock' = IF lock = w THEN None ELSE lock
  /\ UNCHANGED <<files, command, wait, history>>

-----------------------------------------------------------------------------
(* wait polls: the state, the lock inside status, the lock again.  It is   *)
(* for the last prompt launched when it began.                             *)

Wait ==
  /\ wait.at \notin {"state", "status", "worker", "result"}
  /\ accepted > 0
  /\ Extra
  /\ wait' = Poll("state", launched)
  /\ UNCHANGED <<files, lock, worker, command, history>>

WaitReads ==
  /\ wait.at = "state"
  /\ wait' = [wait EXCEPT !.at = "status", !.seen = Seen]
  /\ UNCHANGED <<files, lock, worker, command, history, extras>>

WaitProbes ==
  /\ wait.at = "status"
  /\ wait' = [wait EXCEPT !.at = "worker", !.seen = Reported(wait.seen, Active)]
  /\ UNCHANGED <<files, lock, worker, command, history, extras>>

WaitDecides ==
  /\ wait.at = "worker"
  /\ wait' = IF Active \/ wait.seen = "starting" THEN Poll("state", wait.for)
             ELSE IF wait.seen = "idle" THEN Poll("result", wait.for)
             ELSE Poll("refused", 0)
  /\ UNCHANGED <<files, lock, worker, command, history, extras>>

WaitPrints ==
  /\ wait.at = "result"
  /\ wait' = Poll(IF result.of = 0 THEN "refused" ELSE "printed", 0)
  /\ UNCHANGED <<files, lock, worker, command, history, extras>>

-----------------------------------------------------------------------------
CommandStep ==
  \/ Probe \/ ReadState \/ Confirm \/ CheckPending \/ Uncancel
  \/ WritePending \/ MarkStarting \/ Launch \/ LaunchFails \/ MarkUnlaunched
  \/ RequestCancel

WorkerStep(w) ==
  \/ Acquire(w) \/ FindPrompt(w) \/ ReadPrompt(w) \/ RemovePending(w)
  \/ MarkRunning(w) \/ BeginTurn(w) \/ TurnEnds(w) \/ WriteResult(w)
  \/ WriteOutcome(w) \/ MarkFailed(w) \/ Exit(w)

WaitStep == WaitReads \/ WaitProbes \/ WaitDecides \/ WaitPrints

Next ==
  \/ Send \/ Retry \/ Cancel \/ CommandStep \/ CommandDies \/ GraceEnds
  \/ \E w \in Workers :
       WorkerStep(w) \/ SeeCancel(w) \/ Deadline(w) \/ WorkFails(w) \/ WorkerDies(w)
  \/ Wait \/ WaitStep

\* A process that runs goes on, and the clock does; nobody has to type.
Fairness ==
  /\ WF_vars(CommandStep) /\ WF_vars(GraceEnds) /\ WF_vars(WaitStep)
  /\ \A w \in Workers : WF_vars(WorkerStep(w))

Spec == Init /\ [][Next]_vars /\ Fairness
-----------------------------------------------------------------------------
\* Types; and worker.lock is held by the worker between taking it and exit.
TypeOK ==
  /\ pending \in 0 .. MaxPrompts /\ status \in Statuses /\ young \in BOOLEAN
  /\ cancelFile \in BOOLEAN
  /\ result \in [of : 0 .. MaxPrompts, ok : BOOLEAN]
  /\ lock \in Workers \cup {None}
  /\ worker \in [Workers -> [at : WorkerSteps, prompt : 0 .. MaxPrompts,
                             token : Tokens, ok : BOOLEAN]]
  /\ command \in [op : {"send", "retry", "cancel"}, at : CommandSteps,
                  seen : Statuses \cup {"late"}]
  /\ wait \in [at : {"none", "state", "status", "worker", "result", "printed",
                     "refused"},
               for : 0 .. MaxPrompts,
               seen : Statuses \cup {"late", "interrupted"}]
  /\ accepted \in 0 .. MaxPrompts /\ begun \in Seq(Prompts)
  /\ asked \subseteq 0 .. MaxPrompts /\ launched \in 0 .. MaxPrompts /\ hasty \in BOOLEAN
  /\ extras \in 0 .. MaxExtras
  /\ (young => status = "starting")
  /\ \A w \in Workers :
       (lock = w) <=> (worker[w].at \notin {"unused", "spawned", "gone"})

\* No prompt is lost, replaced, run twice or run early, whatever dies and
\* however often a launch is retried: those taken to be run, and the one in
\* pending.json, are all the prompts accepted, in order (enqueue, work).
PromptsOnceInOrder ==
  begun \o (IF pending = 0 THEN <<>> ELSE <<pending>>)
    = [n \in 1 .. accepted |-> n]

\* A cancel file left over from one turn never cancels a later one: a turn
\* whose monitor saw the file was accepted when a cancel was requested.
CancelsItsOwnTurn ==
  \A w \in Workers :
    worker[w].token = "asked" => \E n \in asked : n >= worker[w].prompt

\* A task that is idle with no worker shows the completed result of the last
\* prompt taken, unless a retry was let through beside a living worker: then
\* two processes write state.json and the last of them need not be the turn's.
IdleShowsItsResult ==
  status = "idle" /\ ~Active /\ ~hasty /\ begun # <<>> =>
    result = [of |-> begun[Len(begun)], ok |-> TRUE]

\* What wait prints is the completed result of the turn it was called for, or
\* the result of a later one; never an earlier turn's (managed.rs, Wait).
WaitPrintsItsTurn ==
  [][~hasty /\ wait.at = "result" /\ wait'.at = "printed" =>
       result.of > wait.for \/ result = [of |-> wait.for, ok |-> TRUE]]_vars

\* wait does not report "task did not complete" of a turn that has: it exits
\* nonzero for failed and cancelled turns (docs/managed-agent-spike.md).
WaitRefusesOnlyUnfinished ==
  [][~hasty /\ wait.at = "worker" /\ wait'.at = "refused" =>
       ~(status = "idle" /\ ~Active /\ result = [of |-> wait.for, ok |-> TRUE])]_vars

Reports == Reported(Seen, Active)

\* A launch leads to the prompt being taken, or to a state retry accepts.
LaunchIsTakenOrRetryable ==
  (pending # 0 /\ status \in Unfinished /\ ~hasty)
    ~> (hasty \/ pending = 0 \/ Reports \in {"failed", "interrupted"})

\* A task does not stay active, starting or running: a death shows as
\* interrupted, by the lock or by the grace of a launch (status).
ReportSettles ==
  (Active \/ Reports \in Unfinished) ~> (~Active /\ Reports \notin Unfinished)
=============================================================================
