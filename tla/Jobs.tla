-------------------------------- MODULE Jobs --------------------------------
(***************************************************************************)
(* The background jobs of a session: the table of tools/jobs.rs, and for   *)
(* each job the run of its command by tools/bash.rs.                       *)
(*                                                                         *)
(* The table is shared.  Its lock is held by a start from its second look  *)
(* at `enabled' to its push, and by a cancellation from its first job to   *)
(* its last; a job's own task takes only the lock of its result, so it may *)
(* finish between the moment a cancellation looks at the job and the       *)
(* moment it cancels it.  Time is counted in seconds, and only for what    *)
(* the code bounds: reaping, draining each pipe, and joining at shutdown.  *)
(***************************************************************************)
EXTENDS Naturals, FiniteSets, SequencesExt

CONSTANTS
    JobIds,         \* the jobs that may be started
    NoJob,          \* not a job
    MaxRunning,     \* MAX_RUNNING
    MaxRetained,    \* MAX_RETAINED
    ReapLimit,      \* CHILD_REAP_TIMEOUT
    DrainLimit,     \* OUTPUT_DRAIN_TIMEOUT
    Patience        \* how long shutdown joins a job before it aborts it

ASSUME JobsAssumption ==
    /\ NoJob \notin JobIds
    /\ {MaxRunning, MaxRetained, ReapLimit, DrainLimit, Patience} \subseteq Nat
    /\ MaxRunning <= MaxRetained

\* A cancelled job is reaped and its two pipes are drained one after the
\* other: one second each, and shutdown waits for four.
ASSUME PatienceAssumption == ReapLimit + DrainLimit + DrainLimit < Patience

VARIABLES
    enabled,    \* JobManager.enabled
    table,      \* JobManager.jobs, oldest first
    job,        \* per id: its Job, and where execute_with_progress stands
    tree,       \* per id: the live processes of its command
    starting,   \* a start has passed its first look at `enabled'
    cancelling, \* the jobs a cancellation that holds the lock still visits
    aimed,      \* the job it has found without a result
    closing     \* where the session's end stands in shutdown

jobVars == <<enabled, table, job, tree, starting, cancelling, aimed, closing>>

Timed    == {"reaping", "draining stdout", "draining stderr"}
Phases   == {"unused", "queued", "running", "finished"} \union Timed
Outcomes == {"none", "succeeded", "failed", "cancelled", "timed out"}
Statuses == {"none", "running", "cancelling", "succeeded", "failed", "cancelled"}
Stages   == {"open", "disabled", "cancelling", "joining", "closed"}

Processes == {"shell", "child", "daemon"}    \* a daemon has left the group
Group     == {"shell", "child"}

JobRecords ==
    [phase: Phases, age: Nat, outcome: Outcomes, spoilt: BOOLEAN,
     cancelled: BOOLEAN, result: {"none", "ok", "error"}, told: Statuses,
     joined: BOOLEAN]

Unused == [phase |-> "unused", age |-> 0, outcome |-> "none", spoilt |-> FALSE,
           cancelled |-> FALSE, result |-> "none", told |-> "none",
           joined |-> FALSE]

JobsTypeOK ==
    /\ enabled \in BOOLEAN
    /\ table \in Seq(JobIds)
    /\ job \in [JobIds -> JobRecords]
    /\ tree \in [JobIds -> SUBSET Processes]
    /\ starting \in BOOLEAN
    /\ cancelling \in Seq(JobIds)
    /\ aimed \in JobIds \union {NoJob}
    /\ closing \in [stage: Stages, age: Nat]

-----------------------------------------------------------------------------
(* What a snapshot says of a job *)

Status(r) ==
    CASE r.result = "none" /\ r.cancelled   -> "cancelling"
      [] r.result = "none" /\ ~r.cancelled  -> "running"
      [] r.result # "none" /\ r.cancelled   -> "cancelled"
      [] r.result = "error" /\ ~r.cancelled -> "failed"
      [] r.result = "ok" /\ ~r.cancelled    -> "succeeded"

Active(j) == Status(job[j]) \in {"running", "cancelling"}

Listed   == ToSet(table)
LockFree == cancelling = <<>>

\* (mutant) takes the first entry, whether it still runs or not
EvictOldest(t) == IF Len(t) >= MaxRetained THEN Tail(t) ELSE t

\* Room for one more entry: the first job that has ended goes.
Evict(t) ==
    LET ended == SelectInSeq(t, LAMBDA j : ~Active(j))
    IN  IF Len(t) >= MaxRetained /\ ended > 0 THEN RemoveAt(t, ended) ELSE t

-----------------------------------------------------------------------------
(* The manager *)

\* The first look at `enabled', before the lock.
StartAsked ==
    /\ ~starting /\ enabled
    /\ starting' = TRUE
    /\ UNCHANGED <<enabled, table, job, tree, cancelling, aimed, closing>>

Refused == ~enabled \/ Cardinality({j \in Listed : Active(j)}) >= MaxRunning

StartRefused ==
    /\ starting /\ LockFree /\ Refused
    /\ starting' = FALSE
    /\ UNCHANGED <<enabled, table, job, tree, cancelling, aimed, closing>>

Fresh == {j \in JobIds : job[j].phase = "unused"}

\* The new job gets an id no job has had.
Start ==
    /\ starting /\ LockFree /\ ~Refused
    /\ Fresh # {}
    /\ LET j == CHOOSE j \in Fresh : TRUE
       IN  /\ table' = Append(Evict(table), j)
           /\ job' = [job EXCEPT ![j].phase = "queued"]
    /\ starting' = FALSE
    /\ UNCHANGED <<enabled, tree, cancelling, aimed, closing>>

\* /jobs cancel, the Jobs tool, the job list's key: takes the lock.
CancelAsked(j) ==
    /\ LockFree /\ j \in Listed /\ closing.stage = "open"
    /\ cancelling' = <<j>>
    /\ UNCHANGED <<enabled, table, job, tree, starting, aimed, closing>>

\* (mutant) cancels whatever it finds
CancelLooksAway ==
    /\ ~LockFree /\ aimed = NoJob
    /\ aimed' = Head(cancelling)
    /\ UNCHANGED <<enabled, table, job, tree, starting, cancelling, closing>>

\* A job that has a result is left alone.
CancelLooks ==
    /\ ~LockFree /\ aimed = NoJob
    /\ IF job[Head(cancelling)].result = "none"
       THEN aimed' = Head(cancelling) /\ UNCHANGED cancelling
       ELSE cancelling' = Tail(cancelling) /\ UNCHANGED aimed
    /\ UNCHANGED <<enabled, table, job, tree, starting, closing>>

CancelFires ==
    /\ aimed # NoJob
    /\ job' = [job EXCEPT ![aimed].cancelled = TRUE]
    /\ cancelling' = Tail(cancelling)
    /\ aimed' = NoJob
    /\ UNCHANGED <<enabled, table, tree, starting, closing>>

\* The prompt's tick tells of each job once that has ended.
Completions ==
    /\ LockFree /\ closing.stage = "open"
    /\ \E j \in Listed : ~Active(j) /\ job[j].told = "none"
    /\ job' = [j \in JobIds |->
                 IF j \in Listed /\ ~Active(j) /\ job[j].told = "none"
                 THEN [job[j] EXCEPT !.told = Status(job[j])] ELSE job[j]]
    /\ UNCHANGED <<enabled, table, tree, starting, cancelling, aimed, closing>>

\* The next session of this engine: enable, then set_messages resets the
\* table, after cancelling what has no result.
Reopen ==
    /\ closing.stage = "closed" /\ LockFree
    /\ enabled' = TRUE
    /\ job' = [j \in JobIds |->
                 IF j \in Listed /\ job[j].result = "none"
                 THEN [job[j] EXCEPT !.cancelled = TRUE] ELSE job[j]]
    /\ table' = <<>>
    /\ closing' = [stage |-> "open", age |-> 0]
    /\ UNCHANGED <<tree, starting, cancelling, aimed>>

-----------------------------------------------------------------------------
(* Shutdown *)

Shutdown ==
    /\ closing.stage = "open"
    /\ enabled' = FALSE
    /\ closing' = [closing EXCEPT !.stage = "disabled"]
    /\ UNCHANGED <<table, job, tree, starting, cancelling, aimed>>

CancelAll ==
    /\ closing.stage = "disabled" /\ LockFree
    /\ cancelling' = table
    /\ closing' = [closing EXCEPT !.stage = "cancelling"]
    /\ UNCHANGED <<enabled, table, job, tree, starting, aimed>>

\* Takes the handles of the tasks of the table.
Collect ==
    /\ closing.stage = "cancelling" /\ LockFree
    /\ job' = [j \in JobIds |->
                 IF j \in Listed THEN [job[j] EXCEPT !.joined = TRUE] ELSE job[j]]
    /\ closing' = [stage |-> "joining", age |-> 0]
    /\ UNCHANGED <<enabled, table, tree, starting, cancelling, aimed>>

Ended(j) == job[j].phase \in {"unused", "finished"}

Joined ==
    /\ closing.stage = "joining"
    /\ \A j \in JobIds : job[j].joined => Ended(j)
    /\ closing' = [closing EXCEPT !.stage = "closed"]
    /\ UNCHANGED <<enabled, table, job, tree, starting, cancelling, aimed>>

\* When shutdown aborts a job: its future would be dropped, which kills the
\* process it spawned and nothing below it, and leaves the job without a result.
AbortDue ==
    /\ closing.stage = "joining" /\ closing.age >= Patience
    /\ \E j \in JobIds : job[j].joined /\ ~Ended(j)

\* The TUI gives its screens five seconds after a signal and then drops them,
\* a shutdown that joins included; the second shutdown finds no handle.  The five
\* seconds run from the signal (tui/mod.rs:192); that the screens end at once and leave
\* some of them for the jobs to hear of it, age > 0, is assumed.
CutShort ==
    /\ closing.stage = "joining" /\ closing.age > 0
    /\ closing' = [closing EXCEPT !.stage = "closed"]
    /\ UNCHANGED <<enabled, table, job, tree, starting, cancelling, aimed>>

-----------------------------------------------------------------------------
(* A job's task: execute_with_progress of a foreground command *)

Advance(j, r) ==
    /\ job' = [job EXCEPT ![j] = r]
    /\ UNCHANGED <<enabled, table, starting, cancelling, aimed, closing>>

\* The output is stored; what led to it is forgotten.
End(r, ok) ==
    [r EXCEPT !.phase = "finished", !.result = IF ok THEN "ok" ELSE "error",
              !.age = 0, !.outcome = "none", !.spoilt = FALSE]

\* The task's first poll: up to the select, without an await.
FirstPoll(j) ==
    /\ job[j].phase = "queued"
    /\ \/ /\ job[j].cancelled
          /\ Advance(j, End(job[j], FALSE))
          /\ UNCHANGED tree
       \/ /\ ~job[j].cancelled
          /\ \/ Advance(j, End(job[j], FALSE)) /\ UNCHANGED tree
             \/ /\ Advance(j, [job[j] EXCEPT !.phase = "running"])
                /\ tree' = [tree EXCEPT ![j] = {"shell"}]

Forks(j, p) ==
    /\ tree[j] \intersect Group # {} /\ p \in {"child", "daemon"} \ tree[j]
    /\ tree' = [tree EXCEPT ![j] = @ \union {p}]
    /\ UNCHANGED <<enabled, table, job, starting, cancelling, aimed, closing>>

Exits(j, p) ==
    /\ p \in tree[j]
    /\ tree' = [tree EXCEPT ![j] = @ \ {p}]
    /\ UNCHANGED <<enabled, table, job, starting, cancelling, aimed, closing>>

\* (mutant) leaves the children of a shell that ended by itself
SettlesShellOnly(j, o) ==
    /\ job[j].phase = "running"
    /\ CASE o \in {"succeeded", "failed"} -> "shell" \notin tree[j]
         [] o = "cancelled"               -> job[j].cancelled
         [] o = "timed out"               -> TRUE
    /\ tree' = [tree EXCEPT ![j] = @ \ {"shell"}]
    /\ Advance(j, [job[j] EXCEPT
           !.phase = "draining stdout", !.age = 0, !.outcome = o])

\* The select's outcome, and the group is killed at once.  A child left by a
\* shell that succeeded spoils the result.
Settles(j, o) ==
    /\ job[j].phase = "running"
    /\ CASE o \in {"succeeded", "failed"} -> "shell" \notin tree[j]
         [] o = "cancelled"               -> job[j].cancelled
         [] o = "timed out"               -> TRUE
    /\ tree' = [tree EXCEPT ![j] = @ \ Group]
    /\ Advance(j, [job[j] EXCEPT
           !.phase = IF o \in {"cancelled", "timed out"}
                     THEN "reaping" ELSE "draining stdout",
           !.age = 0, !.outcome = o, !.spoilt = "child" \in tree[j]])

\* A killed process is gone soon, or the wait for it is given up.
Reaped(j) ==
    /\ job[j].phase = "reaping"
    /\ Advance(j, [job[j] EXCEPT !.phase = "draining stdout", !.age = 0])
    /\ UNCHANGED tree

\* (mutant) reads a pipe to its end
DrainedToTheEnd(j) ==
    /\ job[j].phase \in {"draining stdout", "draining stderr"}
    /\ tree[j] = {}
    /\ IF job[j].phase = "draining stdout"
       THEN Advance(j, [job[j] EXCEPT !.phase = "draining stderr", !.age = 0])
       ELSE Advance(j, End(job[j], job[j].outcome = "succeeded" /\ ~job[j].spoilt))
    /\ UNCHANGED tree

\* A pipe is at its end when nobody holds it; else its reader is abandoned.
Drained(j) ==
    /\ job[j].phase \in {"draining stdout", "draining stderr"}
    /\ tree[j] = {} \/ job[j].age >= DrainLimit
    /\ LET r == [job[j] EXCEPT !.spoilt = @ \/ tree[j] # {}, !.age = 0]
       IN  IF r.phase = "draining stdout"
           THEN Advance(j, [r EXCEPT !.phase = "draining stderr"])
           ELSE Advance(j, End(r, r.outcome = "succeeded" /\ ~r.spoilt))
    /\ UNCHANGED tree

-----------------------------------------------------------------------------
(* Time: what is ready is not kept waiting for a second *)

Limit(phase) == IF phase = "reaping" THEN ReapLimit ELSE DrainLimit

Prompt(j) ==
    /\ job[j].phase # "queued"
    /\ ~(job[j].phase = "running" /\ job[j].cancelled)
    /\ job[j].phase \in Timed => job[j].age < Limit(job[j].phase)

Tick ==
    /\ \A j \in JobIds : Prompt(j)
    /\ closing.stage \in {"open", "joining"}
    /\ \E j \in JobIds : job[j].phase \in Timed
    /\ job' = [j \in JobIds |->
                 IF job[j].phase \in Timed
                 THEN [job[j] EXCEPT !.age = @ + 1] ELSE job[j]]
    /\ closing' = IF closing.stage = "joining"
                  THEN [closing EXCEPT !.age = @ + 1] ELSE closing
    /\ UNCHANGED <<enabled, table, tree, starting, cancelling, aimed>>

-----------------------------------------------------------------------------

JobsInit ==
    /\ enabled = TRUE
    /\ table = <<>>
    /\ job = [j \in JobIds |-> Unused]
    /\ tree = [j \in JobIds |-> {}]
    /\ starting = FALSE
    /\ cancelling = <<>>
    /\ aimed = NoJob
    /\ closing = [stage |-> "open", age |-> 0]

Manager ==
    \/ StartRefused \/ Start \/ CancelLooks \/ CancelFires \/ Completions
    \/ CancelAll \/ Collect \/ Joined \/ CutShort

Task(j) ==
    \/ FirstPoll(j) \/ Reaped(j) \/ Drained(j)
    \/ \E o \in Outcomes \ {"none"} : Settles(j, o)

-----------------------------------------------------------------------------
(* Properties *)

\* What was reported of a job that ended stays what the list says of it: a
\* cancellation that comes late must not turn a success into "cancelled".
ToldIsFinal ==
    \A j \in JobIds : job[j].told # "none" => Status(job[j]) = job[j].told

\* A command nobody has cancelled can be found in the list and cancelled: an
\* entry is never evicted, and a session never left, while it runs.
RunningIsListed ==
    \A j \in JobIds :
        tree[j] \intersect Group # {} /\ ~job[j].cancelled => j \in Listed

\* After shutdown, cut short or not, no process of a command's group is left;
\* and shutdown never aborts a job: the limits of a cancelled job add up to less
\* than the patience of shutdown, and an aborted one would stay listed as
\* cancelling, which nothing but a new session could end.
ClosedIsQuiet ==
    /\ ~AbortDue
    /\ closing.stage = "closed" => \A j \in JobIds : tree[j] \intersect Group = {}
=============================================================================
