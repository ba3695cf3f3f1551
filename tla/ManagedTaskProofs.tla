------------------------ MODULE ManagedTaskProofs ------------------------
(***************************************************************************)
(* Theorems about ManagedTask, for any number of worker processes, prompts *)
(* and disturbances: prompts run once and in order, a cancel file never    *)
(* reaches a turn it was not meant for, a task that reads as idle shows    *)
(* the result of its last prompt, and a wait prints no earlier one.        *)
(*                                                                         *)
(* No lock covers both a command and a worker, so neither is inductive.    *)
(* What is needed besides: what a command has made sure of stays true      *)
(* until it writes, although workers go on (SendReady), and what a worker  *)
(* has read stays in the file until it removes it, although commands do    *)
(* (PromptHeld).  For the results, OutcomeInv says besides what the status *)
(* and result files hold while a worker, a command or a wait is between    *)
(* two of its steps.                                                       *)
(***************************************************************************)
EXTENDS ManagedTask, SequenceTheorems, TLAPS

-----------------------------------------------------------------------------
(* The inductive invariant.                                                *)

\* The prompts taken are the first ones, and the one pending is the next.
InOrder ==
  /\ \A i \in 1..Len(begun) : begun[i] = i
  /\ pending = 0 => accepted = Len(begun)
  /\ pending # 0 => pending = accepted /\ accepted = Len(begun) + 1

\* A send past its check of pending.json finds it as it was.
SendReady ==
  command.op = "send" =>
    /\ command.at \in {"probe", "state", "pending", "uncancel", "write"}
         => accepted < MaxPrompts
    /\ command.at \in {"uncancel", "write"} => pending = 0
    /\ command.at = "write" => ~cancelFile

\* The prompt a worker has found, and the one it has read, are still there.
PromptHeld ==
  \A w \in Workers :
    /\ worker[w].at = "loading" => pending # 0
    /\ worker[w].at = "read" => pending # 0 /\ worker[w].prompt = pending

\* A cancel file was asked for after the last prompt was accepted; a token is
\* live until its turn begins.
CancelFresh ==
  /\ cancelFile => accepted \in asked
  /\ \A w \in Workers :
       /\ worker[w].prompt <= accepted
       /\ worker[w].at \in {"unused", "spawned", "locked", "loading", "read",
                            "taken", "marked"} => worker[w].token = "live"

\* TypeOK, by the variables a step may change.
FilesTyped ==
  /\ pending \in 0 .. MaxPrompts /\ status \in Statuses /\ young \in BOOLEAN
  /\ cancelFile \in BOOLEAN
  /\ result \in [of : 0 .. MaxPrompts, ok : BOOLEAN]
  /\ (young => status = "starting")

Processes == [at : WorkerSteps, prompt : 0 .. MaxPrompts, token : Tokens, ok : BOOLEAN]
HoldsLock(p) == p.at \notin {"unused", "spawned", "gone"}

WorkersTyped ==
  /\ lock \in Workers \cup {None}
  /\ worker \in [Workers -> Processes]
  /\ \A w \in Workers : (lock = w) <=> HoldsLock(worker[w])

Commands == [op : {"send", "retry", "cancel"}, at : CommandSteps,
             seen : Statuses \cup {"late"}]
Waits == [at : {"none", "state", "status", "worker", "result", "printed", "refused"},
          for : 0 .. MaxPrompts, seen : Statuses \cup {"late", "interrupted"}]

CountsTyped ==
  /\ accepted \in 0 .. MaxPrompts /\ begun \in Seq(Prompts)
  /\ asked \subseteq 0 .. MaxPrompts /\ launched \in 0 .. MaxPrompts
  /\ hasty \in BOOLEAN /\ extras \in 0 .. MaxExtras

LEMMA TypeParts ==
  TypeOK <=> /\ FilesTyped /\ WorkersTyped /\ CountsTyped
             /\ command \in Commands /\ wait \in Waits
BY DEF TypeOK, FilesTyped, WorkersTyped, CountsTyped, Commands, Waits, Processes, HoldsLock

TaskInv ==
  /\ FilesTyped /\ WorkersTyped /\ CountsTyped
  /\ command \in Commands /\ wait \in Waits
  /\ InOrder /\ SendReady /\ PromptHeld /\ CancelFresh /\ CancelsItsOwnTurn

\* What a part of the invariant depends on.
LEMMA Frames ==
  ASSUME TaskInv
  PROVE  /\ UNCHANGED files => FilesTyped'
         /\ UNCHANGED <<lock, worker>> => WorkersTyped'
         /\ UNCHANGED command => command' \in Commands
         /\ UNCHANGED wait => wait' \in Waits
         /\ UNCHANGED <<accepted, begun, asked, launched, hasty, extras>> => CountsTyped'
         /\ UNCHANGED <<pending, accepted, begun>> => InOrder'
         /\ UNCHANGED <<command, accepted, pending, cancelFile>> => SendReady'
         /\ UNCHANGED <<worker, pending>> => PromptHeld'
         /\ UNCHANGED <<cancelFile, accepted, asked, worker>> => CancelFresh'
         /\ UNCHANGED <<worker, asked>> => CancelsItsOwnTurn'
PROOF
<1> USE DEF TaskInv
<1>1. UNCHANGED files => FilesTyped'
  BY DEF FilesTyped, files
<1>2. UNCHANGED <<lock, worker>> => WorkersTyped'
  BY DEF WorkersTyped
<1>3. UNCHANGED <<accepted, begun, asked, launched, hasty, extras>> => CountsTyped'
  BY DEF CountsTyped
<1>4. UNCHANGED <<pending, accepted, begun>> => InOrder'
  BY DEF InOrder
<1>5. UNCHANGED <<command, accepted, pending, cancelFile>> => SendReady'
  BY DEF SendReady
<1>6. UNCHANGED <<worker, pending>> => PromptHeld'
  BY DEF PromptHeld
<1>7. UNCHANGED <<cancelFile, accepted, asked, worker>> => CancelFresh'
  BY DEF CancelFresh
<1>8. UNCHANGED <<worker, asked>> => CancelsItsOwnTurn'
  BY DEF CancelsItsOwnTurn
<1> QED BY <1>1, <1>2, <1>3, <1>4, <1>5, <1>6, <1>7, <1>8

\* A worker's process may become p, if p keeps what is known of it.
LEMMA WorkerMoves ==
  ASSUME TaskInv, NEW w \in Workers, NEW p \in Processes,
         worker' = [worker EXCEPT ![w] = p],
         UNCHANGED <<pending, cancelFile, accepted, asked>>,
         IF HoldsLock(worker[w]) <=> HoldsLock(p) THEN lock' = lock
           ELSE IF HoldsLock(p) THEN lock = None /\ lock' = w
           ELSE lock' = None,
         p.at = "loading" => pending # 0,
         p.at = "read" => pending # 0 /\ p.prompt = pending,
         p.prompt <= accepted,
         p.at \in {"unused", "spawned", "locked", "loading", "read", "taken",
                   "marked"} => p.token = "live",
         p.token = "asked" => \E n \in asked : n >= p.prompt
  PROVE  WorkersTyped' /\ PromptHeld' /\ CancelFresh' /\ CancelsItsOwnTurn'
PROOF
<1> USE DEF TaskInv
<1>1. worker' \in [Workers -> Processes] /\ worker'[w] = p
      /\ \A v \in Workers \ {w} : worker'[v] = worker[v]
  BY DEF WorkersTyped
<1>2. lock' \in Workers \cup {None}
  BY DEF WorkersTyped
<1>3. \A v \in Workers : (lock' = v) <=> HoldsLock(worker'[v])
  <2> SUFFICES ASSUME NEW v \in Workers
               PROVE  (lock' = v) <=> HoldsLock(worker'[v])
    OBVIOUS
  <2>1. (lock = v <=> HoldsLock(worker[v])) /\ (lock = w <=> HoldsLock(worker[w]))
    BY DEF WorkersTyped
  <2>2. None \notin Workers
    BY TaskAssumption
  <2>3. CASE v = w
    BY <1>1, <2>1, <2>2, <2>3
  <2>4. CASE v # w
    BY <1>1, <2>1, <2>2, <2>4
  <2> QED BY <2>3, <2>4
<1>4. WorkersTyped'
  BY <1>1, <1>2, <1>3 DEF WorkersTyped
<1>5. PromptHeld'
  BY <1>1 DEF PromptHeld
<1>6. CancelFresh'
  BY <1>1 DEF CancelFresh
<1>7. CancelsItsOwnTurn'
  BY <1>1 DEF CancelsItsOwnTurn
<1> QED BY <1>4, <1>5, <1>6, <1>7

-----------------------------------------------------------------------------
LEMMA InitTaskInv == Init => TaskInv
PROOF
<1> SUFFICES ASSUME Init PROVE TaskInv
  OBVIOUS
<1> USE TaskAssumption DEF Init
<1>1. begun \in Seq(Prompts) /\ Len(begun) = 0
  BY EmptySeq
<1>2. FilesTyped
  <2>1. 0 \in 0 .. MaxPrompts
    OBVIOUS
  <2>2. result \in [of : 0 .. MaxPrompts, ok : BOOLEAN]
    BY <2>1
  <2> QED BY <2>1, <2>2 DEF FilesTyped, Statuses
<1>3. \A w \in Workers : worker[w] = Process("unused", 0, "live", FALSE)
  OBVIOUS
<1>4. WorkersTyped
  BY <1>3 DEF WorkersTyped, Processes, Process, WorkerSteps, Tokens, HoldsLock
<1>5. CountsTyped
  <2>1. accepted \in 0 .. MaxPrompts /\ launched \in 0 .. MaxPrompts
        /\ extras \in 0 .. MaxExtras
    OBVIOUS
  <2>2. asked \subseteq 0 .. MaxPrompts /\ hasty \in BOOLEAN
    OBVIOUS
  <2> QED BY <1>1, <2>1, <2>2 DEF CountsTyped
<1>6. command \in Commands /\ wait \in Waits
  BY DEF Commands, Waits, Free, Poll, CommandSteps, Statuses
<1>7. InOrder /\ SendReady
  BY <1>1 DEF InOrder, SendReady, Free
<1>8. PromptHeld /\ CancelFresh /\ CancelsItsOwnTurn
  BY <1>3 DEF PromptHeld, CancelFresh, CancelsItsOwnTurn, Process
<1> QED BY <1>2, <1>4, <1>5, <1>6, <1>7, <1>8 DEF TaskInv

-----------------------------------------------------------------------------
(* Commands.                                                               *)

LEMMA CommandChecks ==
  ASSUME TaskInv,
         \/ Send \/ Retry \/ Cancel \/ Probe \/ ReadState \/ Confirm
         \/ CheckPending \/ LaunchFails \/ CommandDies
  PROVE  TaskInv'
PROOF
<1> USE DEF At, Goto, Refuse, Free, Command, Extra
<1>1. /\ UNCHANGED <<files, lock, worker, wait, accepted, begun, asked, launched>>
      /\ hasty' \in BOOLEAN /\ extras' \in 0 .. MaxExtras
  <2> USE DEF history, TaskInv, CountsTyped
  <2>1. CASE Send \/ Retry \/ Cancel
    BY <2>1, TaskAssumption DEF Send, Retry, Cancel
  <2>2. CASE Probe \/ ReadState \/ Confirm \/ LaunchFails
    BY <2>2 DEF Probe, ReadState, Confirm, LaunchFails
  <2>3. CASE CheckPending
    BY <2>3 DEF CheckPending
  <2>4. CASE CommandDies
    BY <2>4, TaskAssumption DEF CommandDies
  <2> QED BY <2>1, <2>2, <2>3, <2>4
<1>2. CountsTyped'
  BY <1>1 DEF CountsTyped, TaskInv
<1>3. command' \in Commands
  <2> USE DEF TaskInv, Commands, CommandSteps
  <2>1. CASE Send \/ Retry \/ Cancel
    BY <2>1 DEF Send, Retry, Cancel, Statuses
  <2>2. CASE Probe
    BY <2>2 DEF Probe, Statuses
  <2>3. CASE ReadState
    <3>1. Seen \in Statuses \cup {"late"}
      BY DEF Seen, FilesTyped
    <3>2. [command EXCEPT !.at = "pending"] \in Commands
      OBVIOUS
    <3>3. [command EXCEPT !.at = "confirm", !.seen = Seen] \in Commands
      BY <3>1
    <3>4. [op |-> "send", at |-> "none", seen |-> "idle"] \in Commands
      BY DEF Statuses
    <3> QED BY <2>3, <3>2, <3>3, <3>4 DEF ReadState
  <2>4. CASE Confirm \/ CheckPending \/ LaunchFails \/ CommandDies
    BY <2>4 DEF Confirm, CheckPending, LaunchFails, CommandDies, Statuses
  <2> QED BY <2>1, <2>2, <2>3, <2>4
<1>4. SendReady'
  <2> USE <1>1 DEF TaskInv, SendReady, files, Commands
  <2>1. CASE Send \/ Retry \/ Cancel
    BY <2>1 DEF Send, Retry, Cancel
  <2>2. CASE Probe
    BY <2>2 DEF Probe
  <2>3. CASE ReadState
    <3>1. CASE command' = Free
      BY <3>1
    <3>2. CASE command.op = "send" /\ command' = [command EXCEPT !.at = "pending"]
      BY <2>3, <3>2 DEF ReadState
    <3>4. CASE command.op = "retry"
               /\ command' = [command EXCEPT !.at = "confirm", !.seen = Seen]
      BY <3>4
    <3> QED BY <2>3, <3>1, <3>2, <3>4 DEF ReadState
  <2>4. CASE CheckPending
    BY <2>4 DEF CheckPending
  <2>5. CASE Confirm \/ LaunchFails \/ CommandDies
    BY <2>5 DEF Confirm, LaunchFails, CommandDies
  <2> QED BY <2>1, <2>2, <2>3, <2>4, <2>5
<1> QED BY <1>1, <1>2, <1>3, <1>4, Frames DEF TaskInv, files

\* A command writes a file, and its next step is known.
LEMMA CommandWrites ==
  ASSUME TaskInv,
         \/ Uncancel \/ WritePending \/ MarkStarting \/ MarkUnlaunched
         \/ RequestCancel
  PROVE  TaskInv'
PROOF
<1> USE DEF TaskInv, At, Goto
<1>1. command' \in Commands
  <2> USE DEF Commands, CommandSteps, Free, Statuses
  <2>1. CASE Uncancel \/ WritePending \/ MarkStarting
    BY <2>1 DEF Uncancel, WritePending, MarkStarting
  <2>2. CASE MarkUnlaunched \/ RequestCancel
    BY <2>2 DEF MarkUnlaunched, RequestCancel
  <2> QED BY <2>1, <2>2
<1>2. CASE Uncancel
  <2> USE <1>2 DEF Uncancel
  <2>1. FilesTyped'
    BY DEF FilesTyped
  <2>2. SendReady' /\ CancelFresh'
    BY DEF SendReady, CancelFresh, Commands, history
  <2> QED BY <1>1, <2>1, <2>2, Frames DEF history
<1>3. CASE WritePending
  <2> USE <1>3 DEF WritePending
  <2>1. accepted < MaxPrompts /\ pending = 0 /\ ~cancelFile
    BY DEF SendReady
  <2>2. accepted' \in Nat /\ accepted' # 0 /\ accepted' <= MaxPrompts
    BY <2>1, TaskAssumption DEF CountsTyped
  <2>3. FilesTyped' /\ CountsTyped'
    BY <2>2, TaskAssumption DEF FilesTyped, CountsTyped
  <2>4. InOrder'
    BY <2>1, <2>2 DEF InOrder
  <2>5. SendReady'
    BY DEF SendReady, Commands
  <2>6. PromptHeld'
    BY <2>1 DEF PromptHeld
  <2>7. \A w \in Workers : worker[w].prompt \in Nat
    BY TaskAssumption DEF WorkersTyped, Processes
  <2>8. \A w \in Workers : worker[w].prompt <= accepted'
    BY <2>7, TaskAssumption DEF CancelFresh, CountsTyped
  <2>9. CancelFresh'
    BY <2>1, <2>8 DEF CancelFresh
  <2> QED BY <1>1, <2>3, <2>4, <2>5, <2>6, <2>9, Frames
<1>4. CASE MarkStarting \/ MarkUnlaunched
  <2> USE <1>4 DEF MarkStarting, MarkUnlaunched
  <2>1. FilesTyped'
    BY DEF FilesTyped, Statuses
  <2>2. SendReady'
    BY DEF SendReady, Commands, Free, history
  <2> QED BY <1>1, <2>1, <2>2, Frames DEF history
<1>5. CASE RequestCancel
  <2> USE <1>5 DEF RequestCancel
  <2>1. FilesTyped' /\ CountsTyped'
    BY DEF FilesTyped, CountsTyped
  <2>2. SendReady'
    BY DEF SendReady, Free
  <2>3. CancelFresh' /\ CancelsItsOwnTurn'
    BY DEF CancelFresh, CancelsItsOwnTurn
  <2> QED BY <1>1, <2>1, <2>2, <2>3, Frames
<1> QED BY <1>2, <1>3, <1>4, <1>5

LEMMA LaunchSpawns == ASSUME TaskInv, Launch PROVE TaskInv'
PROOF
<1> USE DEF TaskInv
<1>1. PICK w \in Workers : worker[w].at = "unused"
                          /\ worker' = [worker EXCEPT ![w].at = "spawned"]
  BY DEF Launch
<1> DEFINE p == [worker[w] EXCEPT !.at = "spawned"]
<1>2. worker[w] \in Processes
  BY DEF WorkersTyped
<1>3. p \in Processes
  BY <1>2 DEF Processes, WorkerSteps
<1>4. worker' = [worker EXCEPT ![w] = p]
  BY <1>1, <1>2 DEF WorkersTyped
<1>5. p.at = "spawned" /\ p.prompt = worker[w].prompt /\ p.token = worker[w].token
  BY <1>2 DEF Processes
<1>6. p.prompt <= accepted /\ p.token = "live"
  BY <1>1, <1>5 DEF CancelFresh
<1> HIDE DEF p
<1>7. WorkersTyped' /\ PromptHeld' /\ CancelFresh' /\ CancelsItsOwnTurn'
  <2>1. UNCHANGED <<pending, cancelFile, accepted, asked, lock>>
    BY DEF Launch, files
  <2> QED BY <1>1, <1>3, <1>4, <1>5, <1>6, <2>1, WorkerMoves DEF HoldsLock
<1>8. CountsTyped' /\ command' \in Commands /\ SendReady'
  BY DEF Launch, CountsTyped, Commands, CommandSteps, Free, Statuses, SendReady
<1> QED BY <1>7, <1>8, Frames DEF Launch, files

LEMMA GraceMoves == ASSUME TaskInv, GraceEnds PROVE TaskInv'
PROOF
<1>1. FilesTyped'
  BY DEF TaskInv, FilesTyped, GraceEnds
<1> QED BY <1>1, Frames DEF TaskInv, GraceEnds, history

-----------------------------------------------------------------------------
(* The worker.                                                             *)

\* A step of a worker that changes its own process and perhaps state.json.
LEMMA WorkerLocal ==
  ASSUME TaskInv, NEW w \in Workers, NEW p \in Processes,
         worker' = [worker EXCEPT ![w] = p],
         p.prompt = worker[w].prompt,
         HoldsLock(worker[w]) /\ HoldsLock(p),
         p.at = "loading" => pending # 0,
         p.at # "read",
         p.at \in {"unused", "spawned", "locked", "loading", "taken", "marked"}
           => p.token = "live",
         p.token = "asked" => worker[w].token = "asked" \/ cancelFile,
         UNCHANGED <<lock, pending, cancelFile, command, wait, history, extras>>,
         FilesTyped'
  PROVE  TaskInv'
PROOF
<1> USE DEF TaskInv
<1>1. p.token = "asked" => \E n \in asked : n >= p.prompt
  <2>1. CASE worker[w].token = "asked"
    BY <2>1 DEF CancelsItsOwnTurn
  <2>2. CASE cancelFile
    <3>1. accepted \in asked /\ worker[w].prompt <= accepted
      BY <2>2 DEF CancelFresh
    <3>2. accepted \in Nat /\ worker[w].prompt \in Nat
      BY TaskAssumption DEF CountsTyped, WorkersTyped, Processes
    <3> QED BY <3>1, <3>2
  <2> QED BY <2>1, <2>2
<1>2. p.prompt <= accepted
  BY DEF CancelFresh
<1>3. WorkersTyped' /\ PromptHeld' /\ CancelFresh' /\ CancelsItsOwnTurn'
  BY <1>1, <1>2, WorkerMoves DEF history
<1> QED BY <1>3, Frames DEF history

\* A worker step, seen from the process it changes.
LEMMA Advanced ==
  ASSUME WorkersTyped, NEW w \in Workers, NEW to \in WorkerSteps,
         worker' = [worker EXCEPT ![w].at = to]
  PROVE  /\ worker'[w] \in Processes
         /\ worker' = [worker EXCEPT ![w] = worker'[w]]
         /\ worker'[w].at = to
         /\ worker'[w].prompt = worker[w].prompt
         /\ worker'[w].token = worker[w].token
         /\ worker'[w].ok = worker[w].ok
PROOF
<1>1. worker[w] \in Processes
  BY DEF WorkersTyped
<1>2. worker'[w] = [worker[w] EXCEPT !.at = to]
  BY DEF WorkersTyped
<1>3. worker' = [worker EXCEPT ![w] = worker'[w]]
  BY <1>2 DEF WorkersTyped
<1> QED BY <1>1, <1>2, <1>3 DEF Processes

\* Two fields at once.
LEMMA EditedToken ==
  \A q \in Processes, to \in WorkerSteps, token \in Tokens :
    [q EXCEPT !.at = to, !.token = token] \in Processes
PROOF
<1> SUFFICES ASSUME NEW q \in Processes, NEW to \in WorkerSteps, NEW token \in Tokens
             PROVE  [q EXCEPT !.at = to, !.token = token] \in Processes
  OBVIOUS
<1>1. [q EXCEPT !.at = to] \in Processes
  BY DEF Processes
<1>2. [[q EXCEPT !.at = to] EXCEPT !.token = token] \in Processes
  BY <1>1 DEF Processes
<1> QED BY <1>2

LEMMA EditedPrompt ==
  \A q \in Processes, to \in WorkerSteps, n \in 0 .. MaxPrompts :
    [q EXCEPT !.at = to, !.prompt = n] \in Processes
PROOF
<1> SUFFICES ASSUME NEW q \in Processes, NEW to \in WorkerSteps, NEW n \in 0 .. MaxPrompts
             PROVE  [q EXCEPT !.at = to, !.prompt = n] \in Processes
  OBVIOUS
<1>1. [q EXCEPT !.at = to] \in Processes
  BY DEF Processes
<1>2. [[q EXCEPT !.at = to] EXCEPT !.prompt = n] \in Processes
  BY <1>1 DEF Processes
<1> QED BY <1>2

LEMMA Tokened ==
  ASSUME WorkersTyped, NEW w \in Workers, NEW to \in WorkerSteps,
         NEW token \in Tokens,
         worker' = [worker EXCEPT ![w].at = to, ![w].token = token]
  PROVE  /\ worker'[w] \in Processes
         /\ worker' = [worker EXCEPT ![w] = worker'[w]]
         /\ worker'[w].at = to
         /\ worker'[w].prompt = worker[w].prompt
         /\ worker'[w].token = token
PROOF
<1>1. worker[w] \in Processes
  BY DEF WorkersTyped
<1>2. worker'[w] = [worker[w] EXCEPT !.at = to, !.token = token]
  BY <1>1 DEF WorkersTyped, Processes
<1>3. worker' = [worker EXCEPT ![w] = worker'[w]]
  BY <1>2 DEF WorkersTyped
<1>4. [worker[w] EXCEPT !.at = to, !.token = token] \in Processes
  BY <1>1, EditedToken
<1>5. worker'[w].at = to /\ worker'[w].prompt = worker[w].prompt
      /\ worker'[w].token = token
  BY <1>1, <1>2 DEF Processes
<1> QED BY <1>2, <1>3, <1>4, <1>5

\* Steps that move the process on, and may write result.json or state.json.
LEMMA WorkerAdvances ==
  ASSUME TaskInv, NEW w \in Workers,
         \/ FindPrompt(w) \/ MarkRunning(w) \/ WriteResult(w)
         \/ WriteOutcome(w) \/ WorkFails(w) \/ MarkFailed(w)
  PROVE  TaskInv'
PROOF
<1> USE DEF TaskInv, Step
<1>1. PICK to \in WorkerSteps :
        /\ worker' = [worker EXCEPT ![w].at = to]
        /\ HoldsLock(worker[w]) /\ to \notin {"unused", "spawned", "gone", "read"}
        /\ to = "loading" => pending # 0
        /\ to \in {"unused", "spawned", "locked", "loading", "taken", "marked"}
             => worker[w].at \in {"locked", "taken"}
  <2> USE DEF WorkerSteps, HoldsLock
  <2>1. CASE FindPrompt(w)
    BY <2>1 DEF FindPrompt
  <2>2. CASE MarkRunning(w)
    BY <2>2 DEF MarkRunning
  <2>3. CASE WriteResult(w)
    BY <2>3 DEF WriteResult
  <2>4. CASE WriteOutcome(w)
    BY <2>4 DEF WriteOutcome
  <2>5. CASE WorkFails(w)
    BY <2>5 DEF WorkFails
  <2>6. CASE MarkFailed(w)
    BY <2>6 DEF MarkFailed
  <2> QED BY <2>1, <2>2, <2>3, <2>4, <2>5, <2>6
<1>2. FilesTyped'
  <2>1. worker[w].prompt \in 0 .. MaxPrompts /\ worker[w].ok \in BOOLEAN
    BY DEF WorkersTyped, Processes
  <2>2. [of |-> worker[w].prompt, ok |-> worker[w].ok] \in [of : 0 .. MaxPrompts, ok : BOOLEAN]
    BY <2>1
  <2>3. CASE WriteResult(w)
    BY <2>2, <2>3 DEF WriteResult, FilesTyped
  <2>4. CASE MarkRunning(w) \/ WriteOutcome(w) \/ MarkFailed(w)
    BY <2>4 DEF MarkRunning, WriteOutcome, MarkFailed, FilesTyped, Statuses
  <2>5. CASE FindPrompt(w) \/ WorkFails(w)
    BY <2>5 DEF FindPrompt, WorkFails, FilesTyped, files
  <2> QED BY <2>3, <2>4, <2>5
<1>3. UNCHANGED <<lock, pending, cancelFile, command, wait, history, extras>>
  BY DEF FindPrompt, MarkRunning, WriteResult, WriteOutcome, WorkFails, MarkFailed, files
<1>4. worker[w].at \in {"locked", "taken"} => worker[w].token = "live"
  BY DEF CancelFresh
<1>5. /\ worker'[w] \in Processes
      /\ worker' = [worker EXCEPT ![w] = worker'[w]]
      /\ worker'[w].at = to
      /\ worker'[w].prompt = worker[w].prompt
      /\ worker'[w].token = worker[w].token
  BY <1>1, Advanced
<1>6. HoldsLock(worker'[w])
  BY <1>1, <1>5 DEF HoldsLock
<1> QED BY <1>1, <1>2, <1>3, <1>4, <1>5, <1>6, WorkerLocal

\* Steps that decide the turn's token or its outcome.
LEMMA TurnMoves ==
  ASSUME TaskInv, NEW w \in Workers,
         BeginTurn(w) \/ SeeCancel(w) \/ Deadline(w) \/ TurnEnds(w)
  PROVE  TaskInv'
PROOF
<1> USE DEF TaskInv
<1>0. worker[w] \in Processes
  BY DEF WorkersTyped
<1>1. UNCHANGED <<files, lock, command, wait, history, extras>>
  BY DEF BeginTurn, SeeCancel, Deadline, TurnEnds
<1>2. FilesTyped'
  BY <1>1, Frames
<1>3. HoldsLock(worker[w])
  BY DEF BeginTurn, SeeCancel, Deadline, TurnEnds, InTurn, HoldsLock
<1>4. /\ worker'[w] \in Processes
      /\ worker' = [worker EXCEPT ![w] = worker'[w]]
      /\ worker'[w].at \in {"turn", "ended", "answered"}
      /\ worker'[w].prompt = worker[w].prompt
      /\ worker'[w].token = "asked" => worker[w].token = "asked" \/ cancelFile
  <2>1. CASE BeginTurn(w)
    <3> DEFINE token == IF cancelFile THEN "asked" ELSE "live"
    <3>1. token \in Tokens /\ (token = "asked" => cancelFile) /\ "turn" \in WorkerSteps
      BY DEF Tokens, WorkerSteps
    <3>2. worker' = [worker EXCEPT ![w].at = "turn", ![w].token = token]
      BY <2>1 DEF BeginTurn
    <3> HIDE DEF token
    <3>3. /\ worker'[w] \in Processes
          /\ worker' = [worker EXCEPT ![w] = worker'[w]]
          /\ worker'[w].at = "turn"
          /\ worker'[w].prompt = worker[w].prompt
          /\ worker'[w].token = token
      BY <3>1, <3>2, Tokened
    <3> QED BY <3>1, <3>3
  <2>2. CASE SeeCancel(w) \/ Deadline(w)
    <3>1. PICK token \in {"asked", "late"} :
            /\ worker' = [worker EXCEPT ![w].token = token]
            /\ token = "asked" => cancelFile
      BY <2>2 DEF SeeCancel, Deadline
    <3>2. worker[w].at \in {"turn", "ended", "answered"}
      BY <2>2 DEF SeeCancel, Deadline, InTurn
    <3>3. worker'[w] = [worker[w] EXCEPT !.token = token]
      BY <3>1 DEF WorkersTyped
    <3>4. worker' = [worker EXCEPT ![w] = worker'[w]]
      BY <3>1, <3>3 DEF WorkersTyped
    <3> QED BY <1>0, <3>1, <3>2, <3>3, <3>4 DEF Processes, Tokens
  <2>3. CASE TurnEnds(w)
    <3>1. PICK ok \in BOOLEAN : worker' = [worker EXCEPT ![w].at = "ended", ![w].ok = ok]
      BY <2>3 DEF TurnEnds
    <3>2. worker'[w] = [worker[w] EXCEPT !.at = "ended", !.ok = ok]
      BY <1>0, <3>1 DEF WorkersTyped, Processes
    <3>3. worker' = [worker EXCEPT ![w] = worker'[w]]
      BY <3>1, <3>2 DEF WorkersTyped
    <3> QED BY <1>0, <3>2, <3>3 DEF Processes, WorkerSteps
  <2> QED BY <2>1, <2>2, <2>3
<1>5. HoldsLock(worker'[w])
  BY <1>4 DEF HoldsLock
<1> QED BY <1>1, <1>2, <1>3, <1>4, <1>5, WorkerLocal DEF files

\* Steps that take or leave worker.lock.
LEMMA LockMoves ==
  ASSUME TaskInv, NEW w \in Workers, Acquire(w) \/ Exit(w) \/ WorkerDies(w)
  PROVE  TaskInv'
PROOF
<1> USE DEF TaskInv
<1>0. worker[w] \in Processes /\ (lock = w <=> HoldsLock(worker[w]))
  BY DEF WorkersTyped
<1>1. UNCHANGED <<files, command, wait, history>>
  BY DEF Acquire, Exit, WorkerDies
<1>2. extras' \in 0 .. MaxExtras
  BY TaskAssumption DEF Acquire, Exit, WorkerDies, Extra, CountsTyped
<1>3. CountsTyped'
  BY <1>1, <1>2 DEF CountsTyped, history
<1>4. CASE Acquire(w)
  <2>1. worker' = [worker EXCEPT ![w].at = "locked"] /\ worker[w].at = "spawned"
        /\ lock = None /\ lock' = w /\ "locked" \in WorkerSteps
    BY <1>4 DEF Acquire, Step, WorkerSteps
  <2>2. /\ worker'[w] \in Processes
        /\ worker' = [worker EXCEPT ![w] = worker'[w]]
        /\ worker'[w].at = "locked"
        /\ worker'[w].prompt = worker[w].prompt
        /\ worker'[w].token = worker[w].token
    BY <2>1, Advanced
  <2>3. worker[w].token = "live" /\ worker[w].prompt <= accepted
    BY <2>1 DEF CancelFresh
  <2>4. HoldsLock(worker'[w]) /\ ~HoldsLock(worker[w])
    BY <2>1, <2>2 DEF HoldsLock
  <2>5. WorkersTyped' /\ PromptHeld' /\ CancelFresh' /\ CancelsItsOwnTurn'
    BY <1>1, <2>1, <2>2, <2>3, <2>4, WorkerMoves DEF files, history
  <2> QED BY <1>1, <1>3, <2>5, Frames DEF files, history
<1>5. CASE Exit(w) \/ WorkerDies(w)
  <2>1. worker' = [worker EXCEPT ![w] = Gone]
    BY <1>5 DEF Exit, WorkerDies
  <2>2. Gone \in Processes /\ Gone.at = "gone" /\ Gone.prompt = 0 /\ Gone.token = "live"
    BY TaskAssumption DEF Gone, Process, Processes, WorkerSteps, Tokens
  <2>3. ~HoldsLock(Gone)
    BY <2>2 DEF HoldsLock
  <2>4. lock' = IF HoldsLock(worker[w]) THEN None ELSE lock
    BY <1>0, <1>5 DEF Exit, WorkerDies, HoldsLock
  <2>5. 0 <= accepted
    BY TaskAssumption DEF CountsTyped
  <2> HIDE DEF Gone
  <2>6. WorkersTyped' /\ PromptHeld' /\ CancelFresh' /\ CancelsItsOwnTurn'
    BY <1>1, <2>1, <2>2, <2>3, <2>4, <2>5, WorkerMoves DEF files, history
  <2> QED BY <1>1, <1>3, <2>6, Frames DEF files, history
<1> QED BY <1>4, <1>5

\* The prompt is read: nobody can replace it before it is removed.
LEMMA ReadMoves == ASSUME TaskInv, NEW w \in Workers, ReadPrompt(w) PROVE TaskInv'
PROOF
<1> USE DEF TaskInv
<1>a. /\ worker[w].at = "loading"
      /\ worker' = [worker EXCEPT ![w].at = "read", ![w].prompt = pending]
      /\ UNCHANGED <<files, lock, command, wait, history, extras>>
  BY DEF ReadPrompt
<1>0. worker[w] \in Processes
  BY DEF WorkersTyped
<1>1. worker'[w] = [worker[w] EXCEPT !.at = "read", !.prompt = pending]
  BY <1>0, <1>a DEF WorkersTyped, Processes
<1>2. worker' = [worker EXCEPT ![w] = worker'[w]]
  BY <1>1, <1>a DEF WorkersTyped
<1>3. pending \in 0 .. MaxPrompts
  BY DEF FilesTyped
<1>4. worker'[w] \in Processes /\ worker'[w].at = "read"
      /\ worker'[w].prompt = pending /\ worker'[w].token = worker[w].token
  <2>1. "read" \in WorkerSteps
    BY DEF WorkerSteps
  <2>2. worker'[w] \in Processes
    BY <1>0, <1>1, <1>3, <2>1, EditedPrompt
  <2> QED BY <1>0, <1>1, <2>2 DEF Processes
<1>5. worker[w].token = "live" /\ pending # 0
  BY <1>a DEF CancelFresh, PromptHeld
<1>6. pending <= accepted
  BY <1>5, TaskAssumption DEF InOrder, CountsTyped
<1>7. HoldsLock(worker[w]) /\ HoldsLock(worker'[w])
  BY <1>4, <1>a DEF HoldsLock
<1>8. UNCHANGED <<pending, cancelFile, accepted, asked, lock>>
  BY <1>a DEF files, history
<1>9. worker'[w].token = "live" /\ worker'[w].token # "asked"
      /\ worker'[w].prompt <= accepted /\ worker'[w].at # "loading"
  BY <1>4, <1>5, <1>6
<1>10. WorkersTyped' /\ PromptHeld' /\ CancelFresh' /\ CancelsItsOwnTurn'
  BY <1>2, <1>4, <1>5, <1>6, <1>7, <1>8, <1>9, WorkerMoves
<1> QED BY <1>a, <1>10, Frames DEF files, history

\* The prompt is taken: the worker holds the lock, so nobody else has read it.
LEMMA TakeMoves == ASSUME TaskInv, NEW w \in Workers, RemovePending(w) PROVE TaskInv'
PROOF
<1> USE DEF TaskInv
<1>1. /\ worker' = [worker EXCEPT ![w].at = "taken"] /\ worker[w].at = "read"
      /\ pending' = 0 /\ begun' = Append(begun, worker[w].prompt)
      /\ "taken" \in WorkerSteps
      /\ UNCHANGED <<status, young, cancelFile, result, lock, command, wait,
                     accepted, asked, launched, hasty, extras>>
  BY DEF RemovePending, Step, WorkerSteps
<1>2. /\ worker'[w] \in Processes
      /\ worker' = [worker EXCEPT ![w] = worker'[w]]
      /\ worker'[w].at = "taken"
      /\ worker'[w].prompt = worker[w].prompt
      /\ worker'[w].token = worker[w].token
  BY <1>1, Advanced
<1>3. pending # 0 /\ worker[w].prompt = pending /\ worker[w].token = "live"
  BY <1>1 DEF PromptHeld, CancelFresh
<1>4. pending = accepted /\ accepted = Len(begun) + 1
  BY <1>3 DEF InOrder
<1>5. FilesTyped'
  BY <1>1, TaskAssumption DEF FilesTyped
<1>6. worker[w].prompt \in Prompts
  BY <1>3, TaskAssumption DEF FilesTyped, Prompts
<1>7. begun' \in Seq(Prompts) /\ Len(begun') = Len(begun) + 1
      /\ \A i \in 1 .. Len(begun) : begun'[i] = begun[i]
  BY <1>1, <1>6, AppendProperties DEF CountsTyped
<1>8. CountsTyped'
  BY <1>1, <1>7 DEF CountsTyped
<1>9. InOrder'
  <2>1. Len(begun) \in Nat
    BY LenProperties DEF CountsTyped
  <2>2. \A i \in 1 .. Len(begun) : begun'[i] = i
    BY <1>7 DEF InOrder
  <2>3. begun'[Len(begun) + 1] = Len(begun) + 1
    <3>1. worker[w].prompt = Len(begun) + 1
      BY <1>3, <1>4
    <3>2. begun'[Len(begun) + 1] = worker[w].prompt
      BY <1>1, <1>6, <2>1, AppendProperties DEF CountsTyped
    <3> QED BY <3>1, <3>2
  <2>4. \A n \in Nat : \A i \in 1 .. (n + 1) : i \in 1 .. n \/ i = n + 1
    OBVIOUS
  <2>5. \A i \in 1 .. Len(begun') : begun'[i] = i
    BY <1>7, <2>1, <2>2, <2>3, <2>4
  <2> QED BY <1>1, <1>4, <1>7, <2>5 DEF InOrder
<1>10. HoldsLock(worker[w]) /\ HoldsLock(worker'[w])
  BY <1>1, <1>2 DEF HoldsLock
<1>11. WorkersTyped'
  <2>1. \A v \in Workers : HoldsLock(worker'[v]) <=> HoldsLock(worker[v])
    BY <1>2, <1>10 DEF WorkersTyped
  <2>2. worker' \in [Workers -> Processes]
    BY <1>2 DEF WorkersTyped
  <2> QED BY <1>1, <2>1, <2>2 DEF WorkersTyped
<1>12. PromptHeld'
  <2>1. \A v \in Workers \ {w} : worker'[v] = worker[v] /\ ~HoldsLock(worker[v])
    BY <1>2, <1>10 DEF WorkersTyped
  <2>2. \A v \in Workers \ {w} : worker'[v].at \notin {"loading", "read"}
    BY <2>1 DEF HoldsLock
  <2> QED BY <1>2, <2>2 DEF PromptHeld
<1>13. CancelFresh' /\ CancelsItsOwnTurn'
  <2>1. \A v \in Workers \ {w} : worker'[v] = worker[v]
    BY <1>2 DEF WorkersTyped
  <2> QED BY <1>1, <1>2, <1>3, <2>1 DEF CancelFresh, CancelsItsOwnTurn
<1>14. SendReady'
  BY <1>1 DEF SendReady
<1> QED BY <1>1, <1>5, <1>8, <1>9, <1>11, <1>12, <1>13, <1>14

-----------------------------------------------------------------------------
(* wait changes nothing but itself.                                        *)

LEMMA WaitMoves == ASSUME TaskInv, Wait \/ WaitStep PROVE TaskInv'
PROOF
<1> USE DEF TaskInv
<1>1. UNCHANGED <<files, lock, worker, command, history>>
  BY DEF Wait, WaitStep, WaitReads, WaitProbes, WaitDecides, WaitPrints
<1>2. extras' \in 0 .. MaxExtras
  BY TaskAssumption DEF Wait, WaitStep, WaitReads, WaitProbes, WaitDecides, WaitPrints, Extra, CountsTyped
<1>3. CountsTyped'
  BY <1>1, <1>2 DEF CountsTyped, history
<1>4. wait' \in Waits
  <2> USE DEF Waits, Poll
  <2>0. 0 \in 0 .. MaxPrompts /\ launched \in 0 .. MaxPrompts
    BY TaskAssumption DEF CountsTyped
  <2>1. CASE Wait
    BY <2>0, <2>1 DEF Wait, Statuses
  <2>2. CASE WaitReads
    <3>1. Seen \in Statuses \cup {"late", "interrupted"}
      BY DEF Seen, FilesTyped
    <3> QED BY <2>2, <3>1 DEF WaitReads
  <2>3. CASE WaitProbes
    <3>1. Reported(wait.seen, Active) \in Statuses \cup {"late", "interrupted"}
      BY DEF Reported, Statuses
    <3> QED BY <2>3, <3>1 DEF WaitProbes
  <2>4. CASE WaitDecides
    BY <2>0, <2>4 DEF WaitDecides, Statuses
  <2>5. CASE WaitPrints
    BY <2>0, <2>5 DEF WaitPrints, Statuses
  <2> QED BY <2>1, <2>2, <2>3, <2>4, <2>5 DEF WaitStep
<1> QED BY <1>1, <1>3, <1>4, Frames DEF files, history

-----------------------------------------------------------------------------
LEMMA NextTaskInv == TaskInv /\ [Next]_vars => TaskInv'
PROOF
<1> SUFFICES ASSUME TaskInv, [Next]_vars PROVE TaskInv'
  OBVIOUS
<1>1. CASE CommandStep \/ Send \/ Retry \/ Cancel \/ CommandDies \/ GraceEnds
  BY <1>1, CommandChecks, CommandWrites, LaunchSpawns, GraceMoves DEF CommandStep
<1>2. ASSUME NEW w \in Workers,
             WorkerStep(w) \/ SeeCancel(w) \/ Deadline(w) \/ WorkFails(w) \/ WorkerDies(w)
      PROVE  TaskInv'
  BY <1>2, WorkerAdvances, TurnMoves, LockMoves, ReadMoves, TakeMoves DEF WorkerStep
<1>3. CASE Wait \/ WaitStep
  BY <1>3, WaitMoves
<1>4. CASE UNCHANGED vars
  BY <1>4, Frames DEF vars, TaskInv, files
<1> QED BY <1>1, <1>2, <1>3, <1>4 DEF Next

LEMMA TaskInvHolds == Spec => []TaskInv
PROOF
<1> QED BY InitTaskInv, NextTaskInv, PTL DEF Spec

\* Types, and worker.lock is held from the time a worker takes it until it
\* exits or dies.
THEOREM TaskTyped == Spec => []TypeOK
PROOF
<1>1. TaskInv => TypeOK
  BY TypeParts DEF TaskInv
<1> QED BY <1>1, TaskInvHolds, PTL

\* Every prompt accepted is taken once and in order, or still pending:
\* whatever dies, however many workers are launched for it.
THEOREM PromptsRunOnceInOrder == Spec => []PromptsOnceInOrder
PROOF
<1>1. TaskInv => PromptsOnceInOrder
  <2> SUFFICES ASSUME TaskInv PROVE PromptsOnceInOrder
    OBVIOUS
  <2> USE DEF TaskInv
  <2>1. begun \in Seq(Prompts) /\ Len(begun) \in Nat /\ pending \in Nat
    BY LenProperties, TaskAssumption DEF CountsTyped, FilesTyped
  <2>2. DOMAIN begun = 1 .. Len(begun) /\ begun = [i \in 1 .. Len(begun) |-> begun[i]]
    BY <2>1
  <2>3. CASE pending = 0
    <3>1. begun \o <<>> = begun
      BY <2>1, ConcatEmptySeq
    <3> QED BY <2>2, <2>3, <3>1 DEF InOrder, PromptsOnceInOrder
  <2>4. CASE pending # 0
    <3>1. pending = accepted /\ accepted = Len(begun) + 1
      BY <2>4 DEF InOrder
    <3>2. begun \o <<pending>> = [i \in 1 .. (Len(begun) + 1) |->
                                  IF i <= Len(begun) THEN begun[i] ELSE pending]
      BY <2>1
    <3>3. \A i \in 1 .. (Len(begun) + 1) :
            (IF i <= Len(begun) THEN begun[i] ELSE pending) = i
      BY <2>1, <3>1 DEF InOrder
    <3>4. begun \o <<pending>> = [i \in 1 .. accepted |-> i]
      BY <3>1, <3>2, <3>3
    <3> QED BY <2>4, <3>4 DEF PromptsOnceInOrder
  <2> QED BY <2>3, <2>4
<1> QED BY <1>1, TaskInvHolds, PTL

\* A turn is cancelled on request only if a cancel was requested when its
\* prompt, or a later one, had been accepted.
THEOREM CancelsReachTheirTurn == Spec => []CancelsItsOwnTurn
PROOF
<1>1. TaskInv => CancelsItsOwnTurn
  BY DEF TaskInv
<1> QED BY <1>1, TaskInvHolds, PTL

-----------------------------------------------------------------------------
(* What state.json and result.json say.  Two processes never write them at *)
(* a time unless a retry was let through beside a living worker.           *)

\* A process that writes nothing any more, or not yet.
Resting(p) == p.at \in {"unused", "exiting", "gone"}

\* A worker before it writes state.json, and one that has written "running".
Early(p) == p.at \in {"spawned", "locked", "loading", "read", "taken"}
Late(p) == p.at \in {"marked", "turn", "ended", "answered"}

\* A worker with a prompt that is no longer in pending.json.
AtWork(p) == p.at = "taken" \/ Late(p)

\* A command past the checks that a worker can fail.
Committed ==
  \/ command.op = "send" /\ command.at \in {"pending", "write"}
  \/ command.at \in {"uncancel", "mark", "launch", "unlaunched"}

TurnIsOfLast ==
  \A w \in Workers :
    /\ AtWork(worker[w]) => worker[w].prompt = Len(begun) /\ begun # <<>>
    /\ worker[w].at = "answered" =>
         result = [of |-> worker[w].prompt, ok |-> worker[w].ok]

LaunchedInOrder == launched <= accepted /\ wait.for <= launched

CommittedIsAlone == Committed => \A w \in Workers : Resting(worker[w])

OneWorks ==
  \A v, w \in Workers : ~Resting(worker[v]) /\ ~Resting(worker[w]) => v = w

\* What state.json says of the worker that is there.
StatusTells ==
  /\ command.at = "launch" => status = "starting"
  /\ \A w \in Workers :
       /\ Early(worker[w]) => status = "starting"
       /\ Late(worker[w]) => status = "running"
       /\ worker[w].at = "failing" => status \in Unfinished
       /\ AtWork(worker[w]) => pending = 0

IdleShows ==
  status = "idle" =>
    /\ launched <= Len(begun)
    /\ begun # <<>> => result = [of |-> Len(begun), ok |-> TRUE]

\* A wait that has read "idle": what it will print is of its turn or later,
\* and so is whatever a worker may write before it does.
WaitKnows ==
  wait.at = "result" \/ (wait.at \in {"status", "worker"} /\ wait.seen = "idle") =>
    /\ wait.for <= Len(begun)
    /\ \/ result.of > wait.for
       \/ result = [of |-> wait.for, ok |-> TRUE]
       \/ result.of = 0
    /\ \A w \in Workers : AtWork(worker[w]) => worker[w].prompt > wait.for

OutcomeInv ==
  /\ TurnIsOfLast /\ LaunchedInOrder
  /\ ~hasty => CommittedIsAlone /\ OneWorks /\ StatusTells /\ IdleShows /\ WaitKnows

\* What a part of it depends on.
LEMMA OutcomeFrames ==
  /\ TurnIsOfLast /\ UNCHANGED <<worker, begun, result>> => TurnIsOfLast'
  /\ LaunchedInOrder /\ UNCHANGED <<launched, accepted, wait>> => LaunchedInOrder'
  /\ CommittedIsAlone /\ UNCHANGED <<command, worker>> => CommittedIsAlone'
  /\ OneWorks /\ UNCHANGED worker => OneWorks'
  /\ StatusTells /\ UNCHANGED <<command, worker, status, pending>> => StatusTells'
  /\ IdleShows /\ UNCHANGED <<status, launched, begun, result>> => IdleShows'
  /\ WaitKnows /\ UNCHANGED <<wait, begun, result, worker>> => WaitKnows'
PROOF
<1>1. TurnIsOfLast /\ UNCHANGED <<worker, begun, result>> => TurnIsOfLast'
  BY DEF TurnIsOfLast
<1>2. LaunchedInOrder /\ UNCHANGED <<launched, accepted, wait>> => LaunchedInOrder'
  BY DEF LaunchedInOrder
<1>3. CommittedIsAlone /\ UNCHANGED <<command, worker>> => CommittedIsAlone'
  BY DEF CommittedIsAlone, Committed
<1>4. OneWorks /\ UNCHANGED worker => OneWorks'
  BY DEF OneWorks
<1>5. StatusTells /\ UNCHANGED <<command, worker, status, pending>> => StatusTells'
  BY DEF StatusTells
<1>6. IdleShows /\ UNCHANGED <<status, launched, begun, result>> => IdleShows'
  BY DEF IdleShows
<1>7. WaitKnows /\ UNCHANGED <<wait, begun, result, worker>> => WaitKnows'
  BY DEF WaitKnows
<1> QED BY <1>1, <1>2, <1>3, <1>4, <1>5, <1>6, <1>7

LEMMA InitOutcome == Init => OutcomeInv
PROOF
<1> SUFFICES ASSUME Init PROVE OutcomeInv
  OBVIOUS
<1> USE DEF Init
<1>1. \A w \in Workers : worker[w].at = "unused"
  BY DEF Process
<1>2. TurnIsOfLast /\ CommittedIsAlone /\ OneWorks
  BY <1>1 DEF TurnIsOfLast, CommittedIsAlone, OneWorks, AtWork, Late, Committed, Free, Resting
<1>3. StatusTells
  BY <1>1 DEF StatusTells, Early, Late, AtWork, Free
<1>4. LaunchedInOrder /\ IdleShows /\ WaitKnows
  BY DEF LaunchedInOrder, IdleShows, WaitKnows, Poll
<1> QED BY <1>2, <1>3, <1>4 DEF OutcomeInv

\* A worker that is not at rest shows in state.json.
LEMMA IdleIsAlone ==
  ASSUME WorkersTyped, StatusTells, status \notin Unfinished
  PROVE  \A w \in Workers : Resting(worker[w])
PROOF
<1> SUFFICES ASSUME NEW w \in Workers PROVE Resting(worker[w])
  OBVIOUS
<1>1. worker[w].at \in WorkerSteps
  BY DEF WorkersTyped, Processes
<1>2. ~Early(worker[w]) /\ ~Late(worker[w]) /\ worker[w].at # "failing"
  BY DEF StatusTells, Unfinished
<1>3. worker[w].at \notin {"spawned", "locked", "loading", "read", "taken",
                          "marked", "turn", "ended", "answered", "failing"}
  BY <1>2 DEF Early, Late
<1>4. worker[w].at \in {"unused", "exiting", "gone"}
  BY <1>1, <1>3 DEF WorkerSteps
<1> QED BY <1>4 DEF Resting

\* Commands that write neither state.json nor pending.json.
LEMMA ChecksKeepOutcome ==
  ASSUME TaskInv, OutcomeInv,
         \/ Send \/ Retry \/ Cancel \/ Probe \/ ReadState \/ Confirm
         \/ CheckPending \/ LaunchFails \/ CommandDies \/ Uncancel \/ RequestCancel
  PROVE  OutcomeInv'
PROOF
<1> USE DEF At, Goto, Refuse, Free, Command, files, history
<1>0. command \in Commands /\ WorkersTyped
  BY DEF TaskInv
<1>1. UNCHANGED <<worker, begun, result, launched, accepted, wait, status, pending>>
      /\ (~hasty' => ~hasty)
  <2>1. CASE Send \/ Retry \/ Cancel
    BY <2>1 DEF Send, Retry, Cancel
  <2>2. CASE Probe \/ ReadState \/ Confirm \/ LaunchFails \/ CommandDies
    BY <2>2 DEF Probe, ReadState, Confirm, LaunchFails, CommandDies
  <2>3. CASE CheckPending
    <3>1. hasty \in BOOLEAN
      BY DEF TaskInv, CountsTyped
    <3> QED BY <2>3, <3>1 DEF CheckPending
  <2>4. CASE Uncancel \/ RequestCancel
    BY <2>4 DEF Uncancel, RequestCancel
  <2> QED BY <2>1, <2>2, <2>3, <2>4
<1>2. TurnIsOfLast' /\ LaunchedInOrder'
  BY <1>1, OutcomeFrames DEF OutcomeInv
<1>3. ASSUME ~hasty'
      PROVE  CommittedIsAlone' /\ OneWorks' /\ StatusTells' /\ IdleShows' /\ WaitKnows'
  <2>1. CommittedIsAlone /\ OneWorks /\ StatusTells /\ IdleShows /\ WaitKnows
    BY <1>1, <1>3 DEF OutcomeInv
  <2>2. OneWorks' /\ IdleShows' /\ WaitKnows'
    BY <1>1, <2>1, OutcomeFrames
  <2>3. command'.at = "launch" => FALSE
    <3> USE <1>0 DEF Commands
    <3>1. CASE Send \/ Retry \/ Cancel
      BY <3>1 DEF Send, Retry, Cancel
    <3>3. CASE Probe \/ Confirm
      BY <3>3 DEF Probe, Confirm
    <3>4. CASE ReadState
      <4>1. \/ command' = [op |-> "send", at |-> "none", seen |-> "idle"]
            \/ command' = [command EXCEPT !.at = "pending"]
            \/ command' = [command EXCEPT !.at = "confirm", !.seen = Seen]
        BY <3>4 DEF ReadState
      <4>2. CASE command' = [command EXCEPT !.at = "confirm", !.seen = Seen]
        <5>1. command'.at = "confirm"
          BY <4>2
        <5> QED BY <5>1
      <4>3. CASE command' = [command EXCEPT !.at = "pending"]
        BY <4>3
      <4>4. CASE command' = [op |-> "send", at |-> "none", seen |-> "idle"]
        BY <4>4
      <4> QED BY <4>1, <4>2, <4>3, <4>4
    <3>2. CASE CheckPending \/ LaunchFails \/ CommandDies \/ Uncancel \/ RequestCancel
      BY <3>2 DEF CheckPending, LaunchFails, CommandDies, Uncancel, RequestCancel
    <3> QED BY <3>1, <3>2, <3>3, <3>4
  <2>4. StatusTells'
    BY <1>1, <2>1, <2>3 DEF StatusTells
  <2>5. CommittedIsAlone'
    <3> SUFFICES ASSUME Committed' PROVE \A w \in Workers : Resting(worker[w])
      BY <1>1 DEF CommittedIsAlone
    <3>1. CASE Committed
      BY <2>1, <3>1 DEF CommittedIsAlone
    <3>2. CASE ReadState /\ status \notin Unfinished
      BY <1>0, <2>1, <3>2, IdleIsAlone
    <3>3. CASE CheckPending /\ command.op = "retry" /\ pending # 0
      BY <1>3, <3>3 DEF CheckPending, Living, Resting
    <3>4. Committed \/ (ReadState /\ status \notin Unfinished)
            \/ (CheckPending /\ command.op = "retry" /\ pending # 0)
      <4> USE <1>0 DEF Commands, Committed
      <4>1. CASE Send \/ Retry \/ Cancel
        BY <4>1 DEF Send, Retry, Cancel
      <4>6. CASE CommandDies \/ RequestCancel
        BY <4>6 DEF CommandDies, RequestCancel
      <4>2. CASE Probe \/ Confirm
        <5>1. CASE Probe
          BY <5>1 DEF Probe
        <5>2. CASE Confirm
          BY <5>2 DEF Confirm
        <5> QED BY <4>2, <5>1, <5>2
      <4>3. CASE ReadState
        <5>1. \/ command' = [op |-> "send", at |-> "none", seen |-> "idle"]
              \/ status \notin Unfinished
              \/ command' = [command EXCEPT !.at = "confirm", !.seen = Seen]
          BY <4>3 DEF ReadState
        <5>2. CASE command' = [command EXCEPT !.at = "confirm", !.seen = Seen]
          <6>1. command'.at = "confirm"
            BY <5>2
          <6> QED BY <6>1
        <5>3. CASE command' = [op |-> "send", at |-> "none", seen |-> "idle"]
          BY <5>3
        <5> QED BY <4>3, <5>1, <5>2, <5>3
      <4>4. CASE CheckPending
        BY <4>4 DEF CheckPending
      <4>5. CASE LaunchFails \/ Uncancel
        BY <4>5 DEF LaunchFails, Uncancel
      <4> QED BY <4>1, <4>2, <4>3, <4>4, <4>5, <4>6
    <3> QED BY <3>1, <3>2, <3>3, <3>4
  <2> QED BY <2>2, <2>4, <2>5
<1> QED BY <1>2, <1>3 DEF OutcomeInv

\* Commands that write: no worker is there to write as well.
LEMMA WritesKeepOutcome ==
  ASSUME TaskInv, OutcomeInv, WritePending \/ MarkStarting \/ MarkUnlaunched
  PROVE  OutcomeInv'
PROOF
<1> USE DEF At, Goto, files, history
<1>0. command \in Commands /\ WorkersTyped
  BY DEF TaskInv
<1>1. UNCHANGED <<worker, begun, result, launched, wait, hasty>>
  BY DEF WritePending, MarkStarting, MarkUnlaunched
<1>2. accepted <= accepted' /\ accepted \in Nat /\ accepted' \in Nat /\ launched \in Nat
  BY TaskAssumption DEF TaskInv, CountsTyped, WritePending, MarkStarting, MarkUnlaunched
<1>3. TurnIsOfLast' /\ LaunchedInOrder'
  BY <1>1, <1>2, OutcomeFrames DEF OutcomeInv, LaunchedInOrder
<1>4. ASSUME ~hasty'
      PROVE  CommittedIsAlone' /\ OneWorks' /\ StatusTells' /\ IdleShows' /\ WaitKnows'
  <2>1. CommittedIsAlone /\ OneWorks /\ StatusTells /\ IdleShows /\ WaitKnows
    BY <1>1, <1>4 DEF OutcomeInv
  <2>2. OneWorks' /\ WaitKnows'
    BY <1>1, <2>1, OutcomeFrames
  <2>3. \A w \in Workers : Resting(worker[w])
    BY <2>1 DEF CommittedIsAlone, Committed, WritePending, MarkStarting, MarkUnlaunched
  <2>4. CommittedIsAlone'
    BY <1>1, <2>3 DEF CommittedIsAlone
  <2>5. IdleShows'
    BY <1>1, <2>1 DEF IdleShows, WritePending, MarkStarting, MarkUnlaunched
  <2>6. \A w \in Workers : ~Early(worker[w]) /\ ~Late(worker[w])
                           /\ worker[w].at # "failing" /\ ~AtWork(worker[w])
    BY <2>3 DEF Resting, Early, Late, AtWork
  <2>7. command'.at = "launch" => status' = "starting"
    <3> USE <1>0 DEF Commands
    <3>1. CASE WritePending
      BY <3>1 DEF WritePending
    <3>2. CASE MarkStarting
      BY <3>2 DEF MarkStarting
    <3>3. CASE MarkUnlaunched
      BY <3>3 DEF MarkUnlaunched, Free
    <3> QED BY <3>1, <3>2, <3>3
  <2>8. StatusTells'
    BY <1>1, <2>6, <2>7 DEF StatusTells
  <2> QED BY <2>2, <2>4, <2>5, <2>8
<1> QED BY <1>3, <1>4 DEF OutcomeInv

LEMMA LaunchKeepsOutcome ==
  ASSUME TaskInv, OutcomeInv, Launch PROVE OutcomeInv'
PROOF
<1>0. WorkersTyped
  BY DEF TaskInv
<1>1. PICK w \in Workers : worker[w].at = "unused"
                          /\ worker' = [worker EXCEPT ![w].at = "spawned"]
  BY DEF Launch
<1>2. /\ UNCHANGED <<pending, status, result, wait, accepted, begun, hasty>>
      /\ launched' = accepted /\ command' = Free
  BY DEF Launch, files
<1>3. worker'[w].at = "spawned" /\ \A v \in Workers : v # w => worker'[v] = worker[v]
  BY <1>0, <1>1 DEF WorkersTyped
<1>4. ~AtWork(worker'[w]) /\ Early(worker'[w]) /\ ~Late(worker'[w])
  BY <1>3 DEF AtWork, Early, Late
<1>5. TurnIsOfLast'
  BY <1>2, <1>3, <1>4 DEF TurnIsOfLast, OutcomeInv
<1>6. LaunchedInOrder'
  <2>1. launched \in Nat /\ accepted \in Nat /\ wait.for \in Nat
    BY TaskAssumption DEF TaskInv, CountsTyped, Waits
  <2> QED BY <1>2, <2>1 DEF LaunchedInOrder, OutcomeInv
<1>7. ASSUME ~hasty'
      PROVE  CommittedIsAlone' /\ OneWorks' /\ StatusTells' /\ IdleShows' /\ WaitKnows'
  <2>1. CommittedIsAlone /\ OneWorks /\ StatusTells /\ IdleShows /\ WaitKnows
    BY <1>2, <1>7 DEF OutcomeInv
  <2>2. status = "starting" /\ \A v \in Workers : Resting(worker[v])
    BY <2>1 DEF StatusTells, CommittedIsAlone, Committed, Launch
  <2>3. CommittedIsAlone'
    BY <1>2 DEF CommittedIsAlone, Committed, Free
  <2>4. \A v \in Workers : v # w => Resting(worker'[v])
    BY <1>3, <2>2
  <2>5. OneWorks'
    BY <2>4 DEF OneWorks
  <2>6. \A v \in Workers : v # w =>
          ~Early(worker'[v]) /\ ~Late(worker'[v]) /\ worker'[v].at # "failing"
          /\ ~AtWork(worker'[v])
    BY <2>4 DEF Resting, Early, Late, AtWork
  <2>7. StatusTells'
    BY <1>2, <1>3, <1>4, <2>2, <2>6 DEF StatusTells, Free
  <2>8. IdleShows' /\ WaitKnows'
    BY <1>2, <1>3, <1>4, <2>1, <2>2 DEF IdleShows, WaitKnows
  <2> QED BY <2>3, <2>5, <2>7, <2>8
<1> QED BY <1>5, <1>6, <1>7 DEF OutcomeInv

\* Steps of a worker that write neither of the files.
LEMMA WorkerKeepsOutcome ==
  ASSUME TaskInv, OutcomeInv, NEW w \in Workers, NEW p \in Processes,
         worker' = [worker EXCEPT ![w] = p],
         UNCHANGED <<pending, status, result, command, wait, accepted, begun,
                     launched, hasty>>,
         Resting(worker[w]) => Resting(p),
         Early(p) => Early(worker[w]),
         Late(p) => Late(worker[w]),
         AtWork(p) => AtWork(worker[w]) /\ p.prompt = worker[w].prompt,
         p.at = "answered" => worker[w].at = "answered" /\ p.ok = worker[w].ok,
         p.at = "failing" => Early(worker[w]) \/ Late(worker[w])
  PROVE  OutcomeInv'
PROOF
<1>1. worker'[w] = p /\ \A v \in Workers : v # w => worker'[v] = worker[v]
  BY DEF TaskInv, WorkersTyped
<1>2. p.at = "answered" => AtWork(p)
  BY DEF AtWork, Late
<1>3. TurnIsOfLast'
  BY <1>1, <1>2 DEF TurnIsOfLast, OutcomeInv
<1>4. LaunchedInOrder'
  BY OutcomeFrames DEF OutcomeInv
<1>5. ASSUME ~hasty'
      PROVE  CommittedIsAlone' /\ OneWorks' /\ StatusTells' /\ IdleShows' /\ WaitKnows'
  <2>1. CommittedIsAlone /\ OneWorks /\ StatusTells /\ IdleShows /\ WaitKnows
    BY <1>5 DEF OutcomeInv
  <2>2. CommittedIsAlone'
    BY <1>1, <2>1 DEF CommittedIsAlone, Committed
  <2>3. OneWorks'
    BY <1>1, <2>1 DEF OneWorks
  <2>4. StatusTells'
    BY <1>1, <2>1 DEF StatusTells, Unfinished
  <2>5. IdleShows'
    BY <2>1, OutcomeFrames
  <2>6. WaitKnows'
    BY <1>1, <2>1 DEF WaitKnows
  <2> QED BY <2>2, <2>3, <2>4, <2>5, <2>6
<1> QED BY <1>3, <1>4, <1>5 DEF OutcomeInv

LEMMA QuietWorkersKeepOutcome ==
  ASSUME TaskInv, OutcomeInv, NEW w \in Workers,
         \/ Acquire(w) \/ FindPrompt(w) \/ ReadPrompt(w) \/ BeginTurn(w)
         \/ SeeCancel(w) \/ Deadline(w) \/ TurnEnds(w) \/ WorkFails(w)
         \/ Exit(w) \/ WorkerDies(w)
  PROVE  OutcomeInv'
PROOF
<1>0. WorkersTyped /\ worker[w] \in Processes /\ pending \in 0 .. MaxPrompts
  BY DEF TaskInv, WorkersTyped, FilesTyped
<1>1. UNCHANGED <<pending, status, result, command, wait, accepted, begun,
                  launched, hasty>>
  <2> USE DEF files, history
  <2>1. CASE Acquire(w) \/ FindPrompt(w) \/ ReadPrompt(w) \/ BeginTurn(w)
    BY <2>1 DEF Acquire, FindPrompt, ReadPrompt, BeginTurn
  <2>2. CASE SeeCancel(w) \/ Deadline(w) \/ TurnEnds(w) \/ WorkFails(w)
    BY <2>2 DEF SeeCancel, Deadline, TurnEnds, WorkFails
  <2>3. CASE Exit(w) \/ WorkerDies(w)
    BY <2>3 DEF Exit, WorkerDies
  <2> QED BY <2>1, <2>2, <2>3
<1> USE DEF Resting, Early, Late, AtWork
<1>2. CASE Acquire(w) \/ FindPrompt(w) \/ WorkFails(w)
  <2>1. PICK to \in WorkerSteps :
          /\ worker' = [worker EXCEPT ![w].at = to]
          /\ \/ worker[w].at \in {"spawned", "locked"}
                /\ to \in {"locked", "exiting", "loading"}
             \/ /\ worker[w].at \in {"loading", "read", "taken", "marked", "turn",
                                     "ended", "answered"}
                /\ to = "failing"
    <3> USE DEF Step, WorkerSteps
    <3>1. CASE Acquire(w)
      BY <3>1 DEF Acquire
    <3>2. CASE FindPrompt(w)
      BY <3>2 DEF FindPrompt
    <3>3. CASE WorkFails(w)
      BY <3>3 DEF WorkFails
    <3> QED BY <1>2, <3>1, <3>2, <3>3
  <2>2. /\ worker'[w] \in Processes
        /\ worker' = [worker EXCEPT ![w] = worker'[w]]
        /\ worker'[w].at = to
    BY <1>0, <2>1, Advanced
  <2> QED BY <1>1, <2>1, <2>2, WorkerKeepsOutcome
<1>3. CASE ReadPrompt(w)
  <2>1. worker[w].at = "loading"
        /\ worker' = [worker EXCEPT ![w].at = "read", ![w].prompt = pending]
    BY <1>3 DEF ReadPrompt
  <2>2. worker'[w] = [worker[w] EXCEPT !.at = "read", !.prompt = pending]
    BY <1>0, <2>1 DEF WorkersTyped, Processes
  <2>3. worker' = [worker EXCEPT ![w] = worker'[w]]
    BY <1>0, <2>1, <2>2 DEF WorkersTyped
  <2>4. worker'[w] \in Processes /\ worker'[w].at = "read"
    <3>1. "read" \in WorkerSteps
      BY DEF WorkerSteps
    <3>2. worker'[w] \in Processes
      BY <1>0, <2>2, <3>1, EditedPrompt
    <3> QED BY <1>0, <2>2, <3>2 DEF Processes
  <2> QED BY <1>1, <2>1, <2>3, <2>4, WorkerKeepsOutcome
<1>4. CASE BeginTurn(w)
  <2> DEFINE token == IF cancelFile THEN "asked" ELSE "live"
  <2>1. worker[w].at = "marked" /\ token \in Tokens /\ "turn" \in WorkerSteps
        /\ worker' = [worker EXCEPT ![w].at = "turn", ![w].token = token]
    BY <1>4 DEF BeginTurn, Tokens, WorkerSteps
  <2> HIDE DEF token
  <2>2. /\ worker'[w] \in Processes
        /\ worker' = [worker EXCEPT ![w] = worker'[w]]
        /\ worker'[w].at = "turn"
        /\ worker'[w].prompt = worker[w].prompt
    BY <1>0, <2>1, Tokened
  <2> QED BY <1>1, <2>1, <2>2, WorkerKeepsOutcome
<1>5. CASE SeeCancel(w) \/ Deadline(w)
  <2>1. PICK token \in Tokens : worker' = [worker EXCEPT ![w].token = token]
    BY <1>5 DEF SeeCancel, Deadline, Tokens
  <2>2. worker'[w] = [worker[w] EXCEPT !.token = token]
    BY <1>0, <2>1 DEF WorkersTyped
  <2>3. worker' = [worker EXCEPT ![w] = worker'[w]]
    BY <1>0, <2>1, <2>2 DEF WorkersTyped
  <2>4. /\ worker'[w] \in Processes /\ worker'[w].at = worker[w].at
        /\ worker'[w].prompt = worker[w].prompt /\ worker'[w].ok = worker[w].ok
    BY <1>0, <2>2 DEF Processes
  <2>5. worker[w].at # "failing"
    BY <1>5 DEF SeeCancel, Deadline, InTurn
  <2> QED BY <1>1, <2>3, <2>4, <2>5, WorkerKeepsOutcome
<1>6. CASE TurnEnds(w)
  <2>1. PICK ok \in BOOLEAN : worker[w].at = "turn"
          /\ worker' = [worker EXCEPT ![w].at = "ended", ![w].ok = ok]
    BY <1>6 DEF TurnEnds
  <2>2. worker'[w] = [worker[w] EXCEPT !.at = "ended", !.ok = ok]
    BY <1>0, <2>1 DEF WorkersTyped, Processes
  <2>3. worker' = [worker EXCEPT ![w] = worker'[w]]
    BY <1>0, <2>1, <2>2 DEF WorkersTyped
  <2>4. /\ worker'[w] \in Processes /\ worker'[w].at = "ended"
        /\ worker'[w].prompt = worker[w].prompt
    BY <1>0, <2>2 DEF Processes, WorkerSteps
  <2> QED BY <1>1, <2>1, <2>3, <2>4, WorkerKeepsOutcome
<1>7. CASE Exit(w) \/ WorkerDies(w)
  <2>1. worker' = [worker EXCEPT ![w] = Gone]
    BY <1>7 DEF Exit, WorkerDies
  <2>2. Gone \in Processes /\ Gone.at = "gone"
    BY TaskAssumption DEF Gone, Process, Processes, WorkerSteps, Tokens
  <2> HIDE DEF Gone
  <2> QED BY <1>1, <2>1, <2>2, WorkerKeepsOutcome
<1> QED BY <1>2, <1>3, <1>4, <1>5, <1>6, <1>7

\* Only the holder of worker.lock is past it.
LEMMA HolderIsAlone ==
  ASSUME WorkersTyped, NEW w \in Workers, HoldsLock(worker[w])
  PROVE  \A v \in Workers : v # w =>
           ~AtWork(worker[v]) /\ worker[v].at \in {"unused", "spawned", "gone"}
BY DEF WorkersTyped, HoldsLock, AtWork, Late

LEMMA TakeKeepsOutcome ==
  ASSUME TaskInv, TaskInv', OutcomeInv, NEW w \in Workers, RemovePending(w)
  PROVE  OutcomeInv'
PROOF
<1>0. WorkersTyped /\ worker[w] \in Processes /\ wait.for \in Nat
      /\ Len(begun) \in Nat
  BY LenProperties, TaskAssumption DEF TaskInv, WorkersTyped, CountsTyped, Waits
<1>1. /\ worker' = [worker EXCEPT ![w].at = "taken"] /\ worker[w].at = "read"
      /\ pending' = 0 /\ begun' = Append(begun, worker[w].prompt)
      /\ UNCHANGED <<status, result, command, wait, accepted, launched, hasty>>
      /\ "taken" \in WorkerSteps
  BY DEF RemovePending, Step, WorkerSteps
<1>2. /\ worker'[w].at = "taken" /\ worker'[w].prompt = worker[w].prompt
      /\ \A v \in Workers : v # w => worker'[v] = worker[v]
  BY <1>0, <1>1, Advanced DEF WorkersTyped
<1>3. HoldsLock(worker[w])
  BY <1>1 DEF HoldsLock
<1>4. \A v \in Workers : v # w =>
        ~AtWork(worker'[v]) /\ worker'[v].at \in {"unused", "spawned", "gone"}
  BY <1>0, <1>2, <1>3, HolderIsAlone
<1>5. worker[w].prompt = Len(begun) + 1
  BY <1>1 DEF TaskInv, PromptHeld, InOrder
<1>6. Len(begun') = Len(begun) + 1
  BY <1>1 DEF TaskInv, CountsTyped
<1>7. begun' # <<>>
  BY <1>0, <1>6
<1>8. TurnIsOfLast'
  BY <1>2, <1>4, <1>5, <1>6, <1>7 DEF TurnIsOfLast
<1>9. LaunchedInOrder'
  BY <1>1, OutcomeFrames DEF OutcomeInv
<1>10. ASSUME ~hasty'
       PROVE  CommittedIsAlone' /\ OneWorks' /\ StatusTells' /\ IdleShows' /\ WaitKnows'
  <2>1. CommittedIsAlone /\ OneWorks /\ StatusTells /\ IdleShows /\ WaitKnows
    BY <1>1, <1>10 DEF OutcomeInv
  <2>2. status = "starting" /\ ~Resting(worker[w])
    BY <1>1, <2>1 DEF StatusTells, Early, Resting
  <2>3. CommittedIsAlone'
    BY <1>1, <2>1, <2>2 DEF CommittedIsAlone, Committed
  <2>4. OneWorks'
    BY <1>2, <2>1, <2>2 DEF OneWorks
  <2>5. StatusTells'
    BY <1>1, <1>2, <1>4, <2>1, <2>2 DEF StatusTells, Early, Late
  <2>6. IdleShows'
    BY <1>1, <2>2 DEF IdleShows
  <2>7. WaitKnows'
    <3> SUFFICES ASSUME wait.at = "result"
                          \/ (wait.at \in {"status", "worker"} /\ wait.seen = "idle")
                 PROVE  /\ wait.for <= Len(begun')
                        /\ \/ result.of > wait.for
                           \/ result = [of |-> wait.for, ok |-> TRUE]
                           \/ result.of = 0
                        /\ \A v \in Workers : AtWork(worker'[v]) => worker'[v].prompt > wait.for
      BY <1>1 DEF WaitKnows
    <3>1. /\ wait.for <= Len(begun)
          /\ \/ result.of > wait.for
             \/ result = [of |-> wait.for, ok |-> TRUE]
             \/ result.of = 0
      BY <2>1 DEF WaitKnows
    <3>2. wait.for <= Len(begun') /\ worker'[w].prompt > wait.for
      BY <1>0, <1>2, <1>5, <1>6, <3>1
    <3> QED BY <1>4, <3>1, <3>2
  <2> QED BY <2>3, <2>4, <2>5, <2>6, <2>7
<1> QED BY <1>8, <1>9, <1>10 DEF OutcomeInv

LEMMA MarksKeepOutcome ==
  ASSUME TaskInv, OutcomeInv, NEW w \in Workers, MarkRunning(w) \/ MarkFailed(w)
  PROVE  OutcomeInv'
PROOF
<1>0. WorkersTyped /\ worker[w] \in Processes
  BY DEF TaskInv, WorkersTyped
<1>1. PICK to \in {"marked", "exiting"} :
        /\ worker' = [worker EXCEPT ![w].at = to]
        /\ \/ to = "marked" /\ worker[w].at = "taken" /\ status' = "running"
           \/ to = "exiting" /\ worker[w].at = "failing" /\ status' = "failed"
  BY DEF MarkRunning, MarkFailed, Step
<1>2. UNCHANGED <<pending, result, command, wait, accepted, begun, launched, hasty>>
  BY DEF MarkRunning, MarkFailed, history
<1>3. /\ worker'[w].at = to /\ worker'[w].prompt = worker[w].prompt
      /\ \A v \in Workers : v # w => worker'[v] = worker[v]
  <2>1. to \in WorkerSteps
    BY DEF WorkerSteps
  <2> QED BY <1>0, <1>1, <2>1, Advanced DEF WorkersTyped
<1>4. ~Resting(worker[w]) /\ (AtWork(worker'[w]) => AtWork(worker[w]))
  BY <1>1, <1>3 DEF Resting, AtWork, Late
<1>5. TurnIsOfLast'
  BY <1>1, <1>2, <1>3, <1>4 DEF TurnIsOfLast, OutcomeInv
<1>6. LaunchedInOrder'
  BY <1>2, OutcomeFrames DEF OutcomeInv
<1>7. ASSUME ~hasty'
      PROVE  CommittedIsAlone' /\ OneWorks' /\ StatusTells' /\ IdleShows' /\ WaitKnows'
  <2>1. CommittedIsAlone /\ OneWorks /\ StatusTells /\ IdleShows /\ WaitKnows
    BY <1>2, <1>7 DEF OutcomeInv
  <2>2. ~Committed
    BY <1>4, <2>1 DEF CommittedIsAlone
  <2>3. CommittedIsAlone'
    BY <1>2, <2>2 DEF CommittedIsAlone, Committed
  <2>4. OneWorks'
    BY <1>3, <1>4, <2>1 DEF OneWorks
  <2>5. \A v \in Workers : v # w => Resting(worker[v])
    BY <1>4, <2>1 DEF OneWorks
  <2>6. \A v \in Workers : v # w =>
          ~Early(worker'[v]) /\ ~Late(worker'[v]) /\ worker'[v].at # "failing"
          /\ ~AtWork(worker'[v])
    BY <1>3, <2>5 DEF Resting, Early, Late, AtWork
  <2>7. /\ ~Early(worker'[w]) /\ worker'[w].at # "failing"
        /\ Late(worker'[w]) => status' = "running"
        /\ AtWork(worker'[w]) => pending = 0
    BY <1>1, <1>3, <1>4, <2>1 DEF Early, Late, StatusTells
  <2>8. command.at # "launch"
    BY <2>2 DEF Committed
  <2>9. StatusTells'
    BY <1>2, <2>6, <2>7, <2>8 DEF StatusTells
  <2>10. IdleShows'
    BY <1>1 DEF IdleShows
  <2>11. WaitKnows'
    BY <1>2, <1>3, <1>4, <2>1 DEF WaitKnows
  <2> QED BY <2>3, <2>4, <2>9, <2>10, <2>11
<1> QED BY <1>5, <1>6, <1>7 DEF OutcomeInv

LEMMA ResultKeepsOutcome ==
  ASSUME TaskInv, OutcomeInv, NEW w \in Workers, WriteResult(w)
  PROVE  OutcomeInv'
PROOF
<1>0. WorkersTyped /\ worker[w] \in Processes
  BY DEF TaskInv, WorkersTyped
<1>1. /\ worker' = [worker EXCEPT ![w].at = "answered"] /\ worker[w].at = "ended"
      /\ result' = [of |-> worker[w].prompt, ok |-> worker[w].ok]
      /\ UNCHANGED <<pending, status, command, wait, accepted, begun, launched, hasty>>
      /\ "answered" \in WorkerSteps
  BY DEF WriteResult, Step, history, WorkerSteps
<1>2. /\ worker'[w].at = "answered" /\ worker'[w].prompt = worker[w].prompt
      /\ worker'[w].ok = worker[w].ok
      /\ \A v \in Workers : v # w => worker'[v] = worker[v]
  BY <1>0, <1>1, Advanced DEF WorkersTyped
<1>3. HoldsLock(worker[w]) /\ ~Resting(worker[w]) /\ AtWork(worker[w]) /\ Late(worker[w])
  BY <1>1 DEF HoldsLock, Resting, AtWork, Late
<1>4. \A v \in Workers : v # w =>
        ~AtWork(worker'[v]) /\ worker'[v].at \in {"unused", "spawned", "gone"}
  BY <1>0, <1>2, <1>3, HolderIsAlone
<1>5. TurnIsOfLast'
  BY <1>1, <1>2, <1>3, <1>4 DEF TurnIsOfLast, OutcomeInv
<1>6. LaunchedInOrder'
  BY <1>1, OutcomeFrames DEF OutcomeInv
<1>7. ASSUME ~hasty'
      PROVE  CommittedIsAlone' /\ OneWorks' /\ StatusTells' /\ IdleShows' /\ WaitKnows'
  <2>1. CommittedIsAlone /\ OneWorks /\ StatusTells /\ IdleShows /\ WaitKnows
    BY <1>1, <1>7 DEF OutcomeInv
  <2>2. ~Committed
    BY <1>3, <2>1 DEF CommittedIsAlone
  <2>3. CommittedIsAlone'
    BY <1>1, <2>2 DEF CommittedIsAlone, Committed
  <2>4. OneWorks'
    BY <1>2, <1>3, <2>1 DEF OneWorks
  <2>5. status = "running" /\ pending = 0
    BY <1>3, <2>1 DEF StatusTells
  <2>6. StatusTells'
    BY <1>1, <1>2, <2>1, <2>5 DEF StatusTells, Early, Late
  <2>7. IdleShows'
    BY <1>1, <2>5 DEF IdleShows
  <2>8. WaitKnows'
    BY <1>1, <1>2, <1>3, <1>4, <2>1 DEF WaitKnows
  <2> QED BY <2>3, <2>4, <2>6, <2>7, <2>8
<1> QED BY <1>5, <1>6, <1>7 DEF OutcomeInv

LEMMA StatusKeepsOutcome ==
  ASSUME TaskInv, OutcomeInv, NEW w \in Workers, WriteOutcome(w)
  PROVE  OutcomeInv'
PROOF
<1>0. WorkersTyped /\ worker[w] \in Processes
  BY DEF TaskInv, WorkersTyped
<1>1. /\ worker' = [worker EXCEPT ![w].at = "exiting"] /\ worker[w].at = "answered"
      /\ status' = "idle" => worker[w].ok = TRUE
      /\ UNCHANGED <<pending, result, command, wait, accepted, begun, launched, hasty>>
      /\ "exiting" \in WorkerSteps
  BY <1>0 DEF WriteOutcome, Step, history, WorkerSteps, Processes
<1>2. /\ worker'[w].at = "exiting"
      /\ \A v \in Workers : v # w => worker'[v] = worker[v]
  BY <1>0, <1>1, Advanced DEF WorkersTyped
<1>3. ~Resting(worker[w]) /\ AtWork(worker[w]) /\ Resting(worker'[w]) /\ ~AtWork(worker'[w])
      /\ ~Early(worker'[w]) /\ ~Late(worker'[w])
  BY <1>1, <1>2 DEF Resting, AtWork, Late, Early
<1>4. TurnIsOfLast'
  BY <1>1, <1>2, <1>3 DEF TurnIsOfLast, OutcomeInv
<1>5. LaunchedInOrder'
  BY <1>1, OutcomeFrames DEF OutcomeInv
<1>6. ASSUME ~hasty'
      PROVE  CommittedIsAlone' /\ OneWorks' /\ StatusTells' /\ IdleShows' /\ WaitKnows'
  <2>1. CommittedIsAlone /\ OneWorks /\ StatusTells /\ IdleShows /\ WaitKnows
    BY <1>1, <1>6 DEF OutcomeInv
  <2>2. ~Committed
    BY <1>3, <2>1 DEF CommittedIsAlone
  <2>3. CommittedIsAlone'
    BY <1>1, <2>2 DEF CommittedIsAlone, Committed
  <2>4. \A v \in Workers : Resting(worker'[v])
    BY <1>2, <1>3, <2>1 DEF OneWorks
  <2>5. OneWorks'
    BY <2>4 DEF OneWorks
  <2>6. \A v \in Workers :
          ~Early(worker'[v]) /\ ~Late(worker'[v]) /\ worker'[v].at # "failing"
          /\ ~AtWork(worker'[v])
    BY <2>4 DEF Resting, Early, Late, AtWork
  <2>7. command.at # "launch"
    BY <2>2 DEF Committed
  <2>8. StatusTells'
    BY <1>1, <2>6, <2>7 DEF StatusTells
  <2>9. launched <= Len(begun)
    <3>1. pending = 0
      BY <1>3, <2>1 DEF StatusTells
    <3> QED BY <3>1 DEF OutcomeInv, LaunchedInOrder, TaskInv, InOrder
  <2>10. status' = "idle" => result = [of |-> Len(begun), ok |-> TRUE]
    BY <1>1, <1>3 DEF OutcomeInv, TurnIsOfLast
  <2>11. IdleShows'
    BY <1>1, <2>9, <2>10 DEF IdleShows
  <2>12. WaitKnows'
    BY <1>1, <2>1, <2>6 DEF WaitKnows
  <2> QED BY <2>3, <2>5, <2>8, <2>11, <2>12
<1> QED BY <1>4, <1>5, <1>6 DEF OutcomeInv

\* What wait reads is true of the turn it is for, and stays so.
LEMMA WaitsKeepOutcome ==
  ASSUME TaskInv, OutcomeInv, Wait \/ WaitStep PROVE OutcomeInv'
PROOF
<1>0. /\ WorkersTyped /\ wait \in Waits /\ launched \in Nat /\ Len(begun) \in Nat
      /\ result.of \in Nat /\ wait.for \in Nat
  BY LenProperties, TaskAssumption DEF TaskInv, CountsTyped, FilesTyped, Waits
<1>1. UNCHANGED <<pending, status, result, lock, worker, command, accepted, begun,
                  launched, hasty>>
  BY DEF Wait, WaitStep, WaitReads, WaitProbes, WaitDecides, WaitPrints, files, history
<1>2. TurnIsOfLast'
  BY <1>1, OutcomeFrames DEF OutcomeInv
<1>3. LaunchedInOrder'
  <2>1. wait'.for \in {0, launched, wait.for}
    <3> USE <1>0 DEF Poll, Waits
    <3>1. CASE Wait
      BY <3>1 DEF Wait
    <3>2. CASE WaitReads
      BY <3>2 DEF WaitReads
    <3>3. CASE WaitProbes
      BY <3>3 DEF WaitProbes
    <3>4. CASE WaitDecides
      BY <3>4 DEF WaitDecides
    <3>5. CASE WaitPrints
      BY <3>5 DEF WaitPrints
    <3> QED BY <3>1, <3>2, <3>3, <3>4, <3>5 DEF WaitStep
  <2> QED BY <1>0, <1>1, <2>1 DEF OutcomeInv, LaunchedInOrder
<1>4. ASSUME ~hasty'
      PROVE  CommittedIsAlone' /\ OneWorks' /\ StatusTells' /\ IdleShows' /\ WaitKnows'
  <2>1. CommittedIsAlone /\ OneWorks /\ StatusTells /\ IdleShows /\ WaitKnows
    BY <1>1, <1>4 DEF OutcomeInv
  <2>2. CommittedIsAlone' /\ OneWorks' /\ StatusTells' /\ IdleShows'
    BY <1>1, <2>1, OutcomeFrames
  <2>3. WaitKnows'
    <3> USE <1>0 DEF Poll, Waits
    <3>1. CASE Wait
      BY <3>1 DEF Wait, WaitKnows
    <3>2. CASE WaitReads
      <4>1. wait'.for = wait.for /\ wait'.at = "status" /\ wait'.seen = Seen
        BY <3>2 DEF WaitReads
      <4>2. CASE wait'.seen # "idle"
        BY <4>1, <4>2 DEF WaitKnows
      <4>3. CASE wait'.seen = "idle"
        <5>1. status = "idle"
          BY <4>1, <4>3 DEF Seen
        <5>2. \A w \in Workers : ~AtWork(worker[w])
          BY <5>1, <2>1 DEF StatusTells, AtWork, Early, Late
        <5>3. wait.for <= launched /\ launched <= Len(begun)
          BY <5>1, <2>1 DEF IdleShows, OutcomeInv, LaunchedInOrder
        <5>4. \/ result.of > wait.for
              \/ result = [of |-> wait.for, ok |-> TRUE]
              \/ result.of = 0
          <6>1. CASE begun = <<>>
            BY <1>0, <5>3, <6>1
          <6>2. CASE begun # <<>>
            <7>1. result = [of |-> Len(begun), ok |-> TRUE]
              BY <5>1, <6>2, <2>1 DEF IdleShows
            <7>2. wait.for <= Len(begun)
              BY <1>0, <5>3
            <7>3. CASE wait.for = Len(begun)
              BY <7>1, <7>3
            <7>4. CASE wait.for # Len(begun)
              <8>1. Len(begun) > wait.for
                BY <1>0, <7>2, <7>4
              <8>2. result.of = Len(begun)
                BY <7>1
              <8> QED BY <8>1, <8>2
            <7> QED BY <7>3, <7>4
          <6> QED BY <6>1, <6>2
        <5> QED BY <1>0, <1>1, <4>1, <5>2, <5>3, <5>4 DEF WaitKnows
      <4> QED BY <4>2, <4>3
    <3>3. CASE WaitProbes
      <4>1. wait'.for = wait.for /\ wait'.at = "worker" /\ wait.at = "status"
            /\ wait'.seen = Reported(wait.seen, Active)
        BY <3>3 DEF WaitProbes
      <4>2. wait'.seen = "idle" => wait.seen = "idle"
        BY <4>1 DEF Reported
      <4> QED BY <1>1, <4>1, <4>2, <2>1 DEF WaitKnows
    <3>4. CASE WaitDecides
      <4>1. wait.at = "worker"
            /\ \/ wait' = Poll("state", wait.for) \/ wait' = Poll("refused", 0)
               \/ wait.seen = "idle" /\ wait' = Poll("result", wait.for)
        BY <3>4 DEF WaitDecides
      <4> QED BY <1>1, <4>1, <2>1 DEF WaitKnows
    <3>5. CASE WaitPrints
      BY <3>5 DEF WaitPrints, WaitKnows
    <3> QED BY <3>1, <3>2, <3>3, <3>4, <3>5 DEF WaitStep
  <2> QED BY <2>2, <2>3
<1> QED BY <1>2, <1>3, <1>4 DEF OutcomeInv

LEMMA NextOutcome == TaskInv /\ TaskInv' /\ OutcomeInv /\ [Next]_vars => OutcomeInv'
PROOF
<1> SUFFICES ASSUME TaskInv, TaskInv', OutcomeInv, [Next]_vars PROVE OutcomeInv'
  OBVIOUS
<1>1. CASE CommandStep \/ Send \/ Retry \/ Cancel \/ CommandDies
  BY <1>1, ChecksKeepOutcome, WritesKeepOutcome, LaunchKeepsOutcome DEF CommandStep
<1>2. ASSUME NEW w \in Workers,
             WorkerStep(w) \/ SeeCancel(w) \/ Deadline(w) \/ WorkFails(w) \/ WorkerDies(w)
      PROVE  OutcomeInv'
  BY <1>2, QuietWorkersKeepOutcome, TakeKeepsOutcome, MarksKeepOutcome,
     ResultKeepsOutcome, StatusKeepsOutcome DEF WorkerStep
<1>3. CASE Wait \/ WaitStep
  BY <1>3, WaitsKeepOutcome
<1>4. CASE GraceEnds \/ UNCHANGED vars
  <2>1. UNCHANGED <<worker, begun, result, launched, accepted, wait, command, status,
                    pending, hasty>>
    BY <1>4 DEF GraceEnds, vars, history
  <2> QED BY <2>1, OutcomeFrames DEF OutcomeInv
<1> QED BY <1>1, <1>2, <1>3, <1>4 DEF Next

LEMMA OutcomeHolds == Spec => [](TaskInv /\ OutcomeInv)
PROOF
<1>1. Init => TaskInv /\ OutcomeInv
  BY InitTaskInv, InitOutcome
<1>2. TaskInv /\ OutcomeInv /\ [Next]_vars => (TaskInv /\ OutcomeInv)'
  BY NextTaskInv, NextOutcome
<1> QED BY <1>1, <1>2, PTL DEF Spec

\* A task that is idle with no worker shows the completed result of the last
\* prompt taken, unless a retry was let through beside a living worker.
THEOREM IdleIsDone == Spec => []IdleShowsItsResult
PROOF
<1>1. TaskInv /\ OutcomeInv => IdleShowsItsResult
  <2> SUFFICES ASSUME TaskInv, OutcomeInv, status = "idle", ~hasty, begun # <<>>
               PROVE  result = [of |-> begun[Len(begun)], ok |-> TRUE]
    BY DEF IdleShowsItsResult
  <2>1. result = [of |-> Len(begun), ok |-> TRUE]
    BY DEF OutcomeInv, IdleShows
  <2>2. Len(begun) \in 1 .. Len(begun)
    <3>1. Len(begun) \in Nat /\ Len(begun) # 0
      BY EmptySeq, LenProperties DEF TaskInv, CountsTyped
    <3> QED BY <3>1
  <2>3. begun[Len(begun)] = Len(begun)
    BY <2>2 DEF TaskInv, InOrder
  <2> QED BY <2>1, <2>3
<1> QED BY <1>1, OutcomeHolds, PTL

\* What wait prints is the completed result of the turn it was called for, or
\* the result of a later one; under the same proviso.
THEOREM WaitIsForItsTurn == Spec => WaitPrintsItsTurn
PROOF
<1>1. TaskInv /\ OutcomeInv /\ [Next]_vars =>
        [~hasty /\ wait.at = "result" /\ wait'.at = "printed" =>
           result.of > wait.for \/ result = [of |-> wait.for, ok |-> TRUE]]_vars
  <2> SUFFICES ASSUME TaskInv, OutcomeInv, [Next]_vars, ~hasty,
                      wait.at = "result", wait'.at = "printed"
               PROVE  result.of > wait.for \/ result = [of |-> wait.for, ok |-> TRUE]
    OBVIOUS
  <2>1. \/ result.of > wait.for \/ result = [of |-> wait.for, ok |-> TRUE]
        \/ result.of = 0
    BY DEF OutcomeInv, WaitKnows
  <2>2. result.of # 0
    <3>1. WaitPrints
      <4>1. wait' # wait
        OBVIOUS
      <4>2. UNCHANGED wait => FALSE
        BY <4>1
      <4>3. CASE CommandStep \/ Send \/ Retry \/ Cancel \/ CommandDies \/ GraceEnds
        BY <4>2, <4>3 DEF CommandStep, Send, Retry, Cancel, CommandDies, GraceEnds,
          Command, Probe, ReadState, Confirm, CheckPending, Uncancel, WritePending,
          MarkStarting, Launch, LaunchFails, MarkUnlaunched, RequestCancel
      <4>4. ASSUME NEW w \in Workers,
                   WorkerStep(w) \/ SeeCancel(w) \/ Deadline(w) \/ WorkFails(w) \/ WorkerDies(w)
            PROVE  FALSE
        BY <4>2, <4>4 DEF WorkerStep, SeeCancel, Deadline, WorkFails, WorkerDies,
          Acquire, FindPrompt, ReadPrompt, RemovePending, MarkRunning, BeginTurn,
          TurnEnds, WriteResult, WriteOutcome, MarkFailed, Exit
      <4>5. CASE Wait \/ WaitReads \/ WaitProbes \/ WaitDecides
        BY <4>5 DEF Wait, WaitReads, WaitProbes, WaitDecides
      <4>6. CASE UNCHANGED vars
        BY <4>2, <4>6 DEF vars
      <4> QED BY <4>3, <4>4, <4>5, <4>6 DEF Next, WaitStep
    <3>2. wait' = Poll(IF result.of = 0 THEN "refused" ELSE "printed", 0)
      BY <3>1 DEF WaitPrints
    <3> QED BY <3>2 DEF Poll
  <2> QED BY <2>1, <2>2
<1> QED BY <1>1, OutcomeHolds, PTL DEF Spec, WaitPrintsItsTurn

=============================================================================
