------------------------------- MODULE Turn -------------------------------
(***************************************************************************)
(* One user turn of the query engine (src/src/query.rs): the loop that     *)
(* sends the conversation to the provider, reads the streamed answer,      *)
(* executes the batch of tool calls in it, and goes round again until the  *)
(* assistant stops asking for tools.                                       *)
(*                                                                         *)
(* Four actors interleave.  The ENGINE runs the loop and stops at every    *)
(* await; the PROVIDER decides what a request answers and when a stream    *)
(* ends; the TOOLS of a parallel group finish in any order; the USER types *)
(* prompts, steers a running turn, answers permission prompts and cancels. *)
(*                                                                         *)
(* Text, reasoning and tool output are abstracted to their presence;       *)
(* tokens to the choice of whether a conversation is over its threshold    *)
(* and of how long a tail fits the budget.  What is kept is every message  *)
(* the engine appends, the ids that pair a tool call with its result, the  *)
(* order in which tools start and end, and all of the loop's control.      *)
(***************************************************************************)
EXTENDS Naturals, Sequences, FiniteSets

CONSTANTS
  Blank,           \* a tool_use id the provider omitted
  RawIds,          \* tool_use ids it may send: base names in Nat, Blank
  Tools,           \* kinds of tool it may call: "read", "write", "manage"
  FailureKinds,    \* how a request may fail: see Failures below
  Verdicts,        \* what the permission checker may say: see AllVerdicts
  AutoCompact,     \* auto_compact_threshold > 0
  Interactive,     \* run_turn's interactive flag: somebody can be asked
  MaxBatch,        \* bound: tool calls in one response
  MaxTurns,        \* bound: prompts in a session
  MaxSteers,       \* bound: steering messages in a session
  MaxRounds,       \* self.max_rounds
  MaxParallel,     \* MAX_PARALLEL_TOOLS
  MaxTransient,    \* MAX_TRANSIENT_RETRIES
  MaxMalformed,    \* MAX_MALFORMED_TOOL_RETRIES
  MaxRecovery,     \* MAX_RECOVERY
  MaxEscalations   \* doublings that take max_tokens to its cap of 64000

Failures == {"transient", "malformed", "outputLimit", "context", "other"}
ToolKinds == {"read", "write", "manage"}
AllVerdicts == {"allow", "ask", "deny"}

ASSUME TurnAssumption ==
  /\ Blank \notin Nat /\ RawIds \subseteq Nat \cup {Blank}
  /\ Tools \subseteq ToolKinds
  /\ FailureKinds \subseteq Failures
  /\ Verdicts \subseteq AllVerdicts
  /\ {AutoCompact, Interactive} \subseteq BOOLEAN
  /\ {MaxBatch, MaxTurns, MaxSteers} \subseteq Nat
  /\ {MaxRounds, MaxParallel} \subseteq Nat \ {0}
  /\ {MaxTransient, MaxMalformed, MaxRecovery, MaxEscalations} \subseteq Nat

VARIABLES
  messages,     \* self.messages: what the next request sends
  archive,      \* self.archive: everything ever appended, never compacted
  baseline,     \* last_request_usage: the messages it measured, or <<>>
  steering,     \* the SteeringQueue, as the numbers of the messages in it
  steers,       \* how many steering messages the user has typed
  cleared,      \* how many of them a session reload has thrown away
  turns,        \* how many prompts the user has submitted
  cancelled,    \* the turn's CancellationToken
  pc,           \* the await the engine stands at
  outcome,      \* how the last turn ended
  turn,         \* run_turn's locals
  retries,      \* recoveries used up, per kind of failure
  calls,        \* tool_uses: the calls of the response, until it is over
  announced,    \* history: tool calls shown to the user (ToolStart events)
  batch         \* execute_tool_batch's locals

vars == <<messages, archive, baseline, steering, steers, cleared, turns,
          cancelled, pc, outcome, turn, retries, calls, announced, batch>>

conversation == <<messages, archive, baseline>>
typing == <<steering, steers, cleared, turns>>
response == <<calls, announced>>

-----------------------------------------------------------------------------
(* Messages.  n numbers prompts and steering messages; calls are the tool  *)
(* calls of an assistant message, or the ones a results message answers.   *)

Message(kind, n, cs) == [kind |-> kind, n |-> n, calls |-> cs]
Prompt(n) == Message("prompt", n, <<>>)
Steer(n) == Message("steer", n, <<>>)
Assistant(cs) == Message("assistant", 0, cs)
Results(cs) == Message("results", 0, cs)

\* The three messages only a compaction writes; no archive holds them.
Handoff == Message("handoff", 0, <<>>)
Summary == Message("summary", 0, <<>>)
Continue == Message("continue", 0, <<>>)
Markers == {Handoff, Summary, Continue}

MessageKinds == {"prompt", "steer", "assistant", "results",
                 "handoff", "summary", "continue"}
Ids == (Nat \X Nat)
Calls == [id : Ids, tool : ToolKinds]
Messages == [kind : MessageKinds, n : Nat, calls : Seq(Calls)]

IdsOf(cs) == {cs[i].id : i \in DOMAIN cs}

\* The ids of the tool calls (or of the tool results) among s[1 .. n].
IdsIn(s, kind, n) ==
  UNION {IdsOf(s[j].calls) : j \in {k \in 1..n : s[k].kind = kind}}

\* (mutant) Only the batch is searched for a repeated id, not the history.
UniqueInBatch(raw) ==
  LET base == IF raw = Blank THEN Len(calls) + 1 ELSE raw
      taken == IdsOf(calls)
  IN {<<base, k>> : k \in {k \in 1..(Cardinality(taken) + 1) :
        /\ <<base, k>> \notin taken
        /\ \A j \in 1..(k - 1) : <<base, j>> \in taken}}

\* unique_tool_use_id: the id itself when it is new, else its first free
\* suffix; an omitted id is synthesized from its place in the batch.
UniqueId(raw) ==
  LET base == IF raw = Blank THEN Len(calls) + 1 ELSE raw
      taken == IdsOf(calls) \cup IdsIn(messages, "assistant", Len(messages))
  IN {<<base, k>> : k \in {k \in 1..(Cardinality(taken) + 1) :
        /\ <<base, k>> \notin taken
        /\ \A j \in 1..(k - 1) : <<base, j>> \in taken}}

-----------------------------------------------------------------------------
(* Compaction: a summary of everything before a tail, and the tail.        *)

\* compact::recent_tail_start.  A tail never starts inside an outstanding
\* batch; the token budget picks one of the last four user messages, else a
\* later boundary, else nothing.  A handoff is never all that is summarized:
\* the result would be no smaller, and such a compaction is refused.
Boundaries(s) ==
  {t \in 2..Len(s) :
     IdsIn(s, "assistant", t - 1) \subseteq IdsIn(s, "results", t - 1)}
UserKinds == {"prompt", "steer", "handoff", "continue"}
TailStarts(s) ==
  LET users == {t \in Boundaries(s) : s[t].kind \in UserKinds}
      recent == {t \in users : Cardinality({u \in users : u > t}) < 4}
      later == {t \in Boundaries(s) : \A u \in users : u < t}
  IN {t \in recent \cup later \cup {Len(s) + 1} : s[1] = Handoff => t > 2}

\* summarize_conversation, with Continuation::ResumeTask when resume holds.
Compacted(s, t, resume) ==
  LET kept == <<Handoff, Summary>> \o SubSeq(s, t, Len(s))
  IN IF resume /\ kept[Len(kept)].kind \in {"assistant", "summary"}
     THEN Append(kept, Continue)
     ELSE kept

-----------------------------------------------------------------------------
(* The engine's locals.                                                    *)

PCs == {"idle", "compactPrompt", "top", "compactRound", "request", "stream",
        "compactRecover", "retryWait", "batch", "decided", "grouping",
        "launch", "asking", "exclusive", "compactBatch", "draining"}
Outcomes == {"none", "running", "done", "error", "interrupted"}

\* superseded is a history flag: the last batch skipped calls for steering.
FreshTurn == [rounds |-> 0, meaningful |-> FALSE, superseded |-> FALSE]

\* The locals that count recoveries; max_tokens stays raised for later turns.
FreshRetries ==
  [kind \in Failures |-> IF kind = "outputLimit" THEN retries[kind] ELSE 0]

\* A tool whose start is being reported to the frontend is admitted: it has
\* had its last look at the user's word, and is not running yet.
Inflight == {"admitted", "running"}
Unsettled == Inflight \cup {"waiting"}
NotRun == {"interrupted", "skipped", "denied"}
Outputs == Unsettled \cup NotRun \cup {"ok", "failed"}

\* decision, checks, unheeding and late are history: what the checker said of
\* each call, how often it was consulted, and which calls were admitted, and
\* which started, although the turn was cancelled or steered.
FreshBatch(n) ==
  [out      |-> [i \in 1..n |-> "waiting"],
   end      |-> 1,
   verdict  |-> "none",
   pending  |-> "none",
   decision |-> [i \in 1..n |-> "none"],
   checks   |-> [i \in 1..n |-> 0],
   approved |-> {},
   unheeding |-> {},
   late     |-> {}]
NoBatch == FreshBatch(0)

Size == Len(calls)
Left == {i \in 1..Size : batch.out[i] \in Unsettled}
\* The call the batch loop stands at: every earlier one has its output.
Current == CHOOSE i \in Left : \A j \in Left : i <= j
ReadOnly(i) == calls[i].tool = "read"
Committed == calls # <<>>

Init ==
  /\ messages = <<>> /\ archive = <<>> /\ baseline = <<>>
  /\ steering = <<>> /\ steers = 0 /\ cleared = 0
  /\ turns = 0 /\ cancelled = FALSE
  /\ pc = "idle" /\ outcome = "none"
  /\ turn = FreshTurn /\ retries = [kind \in Failures |-> 0]
  /\ calls = <<>> /\ announced = 0
  /\ batch = NoBatch

\* (mutant) The archive is only written when a session is saved.
AppendUnarchived(new) ==
  /\ messages' = messages \o new
  /\ UNCHANGED archive

\* append_message, for each message of new.
AppendMessages(new) ==
  /\ messages' = messages \o new
  /\ archive' = archive \o new

\* (mutant) The usage baseline of the old history is kept.
CommitKeepingBaseline(compacted) == messages' = compacted /\ UNCHANGED baseline

\* commit_compacted_messages.
CommitCompacted(compacted) == messages' = compacted /\ baseline' = <<>>

\* run_turn returns; the frontend still has events of the turn to render.
Finish(how) == pc' = "draining" /\ outcome' = how
Goto(where) == pc' = where /\ UNCHANGED outcome

-----------------------------------------------------------------------------
(* The user, through a frontend.                                           *)

SubmitPrompt ==
  /\ pc = "idle" /\ turns < MaxTurns
  /\ turns' = turns + 1
  /\ cancelled' = FALSE
  /\ AppendMessages(<<Prompt(turns')>>)
  /\ turn' = FreshTurn /\ retries' = FreshRetries
  /\ pc' = "compactPrompt" /\ outcome' = "running"
  /\ UNCHANGED <<baseline, steering, steers, cleared, response, batch>>

\* A shutdown or a managed task's cancel file precedes the turn.
SubmitCancelled ==
  /\ pc = "idle" /\ turns < MaxTurns
  /\ turns' = turns + 1
  /\ cancelled' = TRUE
  /\ turn' = FreshTurn /\ retries' = FreshRetries
  /\ Finish("interrupted")
  /\ UNCHANGED <<conversation, steering, steers, cleared, response, batch>>

\* A line typed while the turn runs, or while its last events are rendered.
TypeSteering ==
  /\ pc # "idle" /\ steers < MaxSteers
  /\ steers' = steers + 1
  /\ steering' = Append(steering, steers')
  /\ UNCHANGED <<conversation, cleared, turns, cancelled, pc, outcome, turn,
                 retries, response, batch>>

Cancel ==
  /\ pc \notin {"idle", "draining"} /\ ~cancelled
  /\ cancelled' = TRUE
  /\ UNCHANGED <<conversation, typing, pc, outcome, turn, retries, response, batch>>

\* The last event is rendered and the frontend prompts again.
Drain ==
  /\ pc = "draining"
  /\ Goto("idle")
  /\ UNCHANGED <<conversation, typing, cancelled, turn, retries, response, batch>>

\* set_messages and set_archive, with what the session last saved.
Reload ==
  /\ pc = "idle" /\ turns > 0
  /\ baseline' = <<>>
  /\ steering' = <<>>
  /\ cleared' = cleared + Len(steering)
  /\ UNCHANGED <<messages, archive, steers, turns, cancelled, pc, outcome, turn,
                 retries, response, batch>>

\* /compact: Continuation::AwaitUserTurn, under a token nobody cancels.
CompactCommand ==
  /\ pc = "idle" /\ messages # <<>>
  /\ \E t \in TailStarts(messages) : CommitCompacted(Compacted(messages, t, FALSE))
  /\ UNCHANGED <<archive, typing, cancelled, pc, outcome, turn, retries,
                 response, batch>>

-----------------------------------------------------------------------------
(* The head of the loop, and the compactions around a round.               *)

\* (mutant) One message is taken from the queue, which is then cleared.
InjectedFirst == IF steering = <<>> THEN <<>> ELSE <<Steer(Head(steering))>>

\* The messages inject_steering drains from the queue.
Injected == [i \in 1..Len(steering) |-> Steer(steering[i])]

\* inject_steering, then the two ways the loop ends before a request.
BeginRound ==
  /\ pc = "top"
  /\ AppendMessages(Injected)
  /\ steering' = <<>>
  /\ \/ cancelled /\ Finish("interrupted") /\ UNCHANGED turn
     \/ ~cancelled /\ turn.rounds >= MaxRounds /\ Finish("error") /\ UNCHANGED turn
     \/ /\ ~cancelled /\ turn.rounds < MaxRounds
        /\ turn' = [turn EXCEPT !.rounds = @ + 1]
        /\ Goto("compactRound")
  /\ UNCHANGED <<baseline, steers, cleared, turns, cancelled, retries, response, batch>>

\* (mutant) The next round of a tool loop does not pass the head of the loop.
AfterCompactionNoHead ==
  [compactPrompt |-> "top", compactRound |-> "request",
   compactBatch |-> "compactRound", compactRecover |-> "top"]

\* Where the turn goes on after each of its compaction points.
AfterCompaction ==
  [compactPrompt |-> "top", compactRound |-> "request",
   compactBatch |-> "top", compactRecover |-> "top"]
CompactionPoints == DOMAIN AfterCompaction

BelowThreshold ==
  /\ pc \in CompactionPoints \ {"compactRecover"}
  /\ Goto(AfterCompaction[pc])
  /\ UNCHANGED <<conversation, typing, cancelled, turn, retries, response, batch>>

CompactSucceeds ==
  /\ pc \in CompactionPoints
  /\ AutoCompact \/ pc = "compactRecover"
  /\ ~cancelled
  /\ \E t \in TailStarts(messages) :
       CommitCompacted(Compacted(messages, t, pc # "compactPrompt"))
  /\ Goto(AfterCompaction[pc])
  /\ UNCHANGED <<archive, typing, cancelled, turn, retries, response, batch>>

CompactFails ==
  /\ pc \in CompactionPoints
  /\ AutoCompact \/ pc = "compactRecover"
  /\ Finish(IF cancelled THEN "interrupted" ELSE "error")
  /\ UNCHANGED <<conversation, typing, cancelled, turn, retries, response, batch>>

-----------------------------------------------------------------------------
(* A request, its failures, and the stream that answers it.                *)

\* How often each kind of failure is recovered from by reissuing the request,
\* and where the engine goes to do so.
Limit == [transient |-> MaxTransient, malformed |-> MaxMalformed,
          outputLimit |-> MaxEscalations, context |-> MaxRecovery, other |-> 0]
RetryPoint == [transient |-> "retryWait", malformed |-> "top",
               outputLimit |-> "top", context |-> "compactRecover"]

\* (mutant) Off by one.
RecoverableOnceMore(kind) == kind \in DOMAIN RetryPoint /\ retries[kind] <= Limit[kind]

Recoverable(kind) == retries[kind] < Limit[kind]

\* (mutant) An attempt is reissued although a call of it was announced.
MayRetryCommitted(kind) == Recoverable(kind)

MayRetry(kind) == ~Committed /\ Recoverable(kind)

Recover(kind) ==
  /\ MayRetry(kind)
  /\ retries' = [retries EXCEPT ![kind] = @ + 1]
  /\ Goto(RetryPoint[kind])

\* stream() fails before there is a stream.
RequestFails ==
  /\ pc = "request"
  /\ \E kind \in FailureKinds :
       \/ cancelled /\ Finish("interrupted") /\ UNCHANGED retries
       \/ ~cancelled /\ Recover(kind)
       \/ /\ ~cancelled /\ ~MayRetry(kind)
          /\ Finish("error") /\ UNCHANGED retries
  /\ UNCHANGED <<conversation, typing, cancelled, turn, response, batch>>

RequestAccepted ==
  /\ pc = "request"
  /\ turn' = [turn EXCEPT !.superseded = FALSE]
  /\ Goto("stream")
  /\ UNCHANGED <<conversation, typing, cancelled, retries, response, batch>>

\* (mutant) Only the token is awaited.
RetryWaitForever ==
  /\ pc = "retryWait" /\ cancelled /\ Finish("interrupted")
  /\ UNCHANGED <<conversation, typing, cancelled, turn, retries, response, batch>>

\* wait_before_retry: the sleep and the token race.
RetryWaitEnds ==
  /\ pc = "retryWait"
  /\ \/ Goto("top")
     \/ cancelled /\ Finish("interrupted")
  /\ UNCHANGED <<conversation, typing, cancelled, turn, retries, response, batch>>

StreamToolUse ==
  /\ pc = "stream" /\ Size < MaxBatch
  /\ \E raw \in RawIds, tool \in Tools :
       \E id \in UniqueId(raw) : calls' = Append(calls, [id |-> id, tool |-> tool])
  /\ announced' = announced + 1
  /\ UNCHANGED <<conversation, typing, cancelled, pc, outcome, turn, retries, batch>>

\* record_request_usage, paired with the messages the request carried.
StreamUsage ==
  /\ pc = "stream"
  /\ baseline' = messages
  /\ UNCHANGED <<messages, archive, typing, cancelled, pc, outcome, turn, retries,
                 response, batch>>

\* (mutant) The calls are kept, their results are not.
WithoutResults == IF Committed THEN <<Assistant(calls)>> ELSE <<>>

\* The messages an attempt that ends before its batch ran leaves behind.
WithoutRunning ==
  IF Committed
  THEN <<Assistant(calls), Results(calls)>>
  ELSE <<>>

\* The channel closes without Done: finalize_unrun_tools, then the error.
StreamCloses ==
  /\ pc = "stream"
  /\ AppendMessages(WithoutRunning)
  /\ Finish("error")
  /\ calls' = <<>>
  /\ UNCHANGED <<baseline, typing, cancelled, turn, retries, announced, batch>>

StreamFails ==
  /\ pc = "stream"
  /\ \E kind \in FailureKinds :
       \/ Recover(kind) /\ UNCHANGED <<messages, archive>>
       \/ /\ ~MayRetry(kind)
          /\ AppendMessages(WithoutRunning)
          /\ Finish("error") /\ UNCHANGED retries
  /\ calls' = <<>>
  /\ UNCHANGED <<baseline, typing, cancelled, turn, announced, batch>>

\* The token fires in mid-stream: what arrived is kept, its calls are paired
\* with interrupted results.
StreamInterrupted ==
  /\ pc = "stream" /\ cancelled
  /\ \E left \in (IF Committed THEN {WithoutRunning} ELSE {<<>>, <<Assistant(<<>>)>>}) :
       AppendMessages(left)
  /\ Finish("interrupted")
  /\ calls' = <<>>
  /\ UNCHANGED <<baseline, typing, cancelled, turn, retries, announced, batch>>

\* A complete response also ends the scope of a malformed-arguments retry.
MeaningfulResponse ==
  /\ turn' = [turn EXCEPT !.meaningful = TRUE]
  /\ retries' = [retries EXCEPT !["malformed"] = 0]

\* Done after tool calls: the assistant's message is kept, the batch runs.
StreamDoneWithCalls ==
  /\ pc = "stream" /\ Committed
  /\ AppendMessages(<<Assistant(calls)>>)
  /\ MeaningfulResponse
  /\ batch' = FreshBatch(Size)
  /\ Goto("batch")
  /\ UNCHANGED <<baseline, typing, cancelled, response>>

\* Done without any: the turn is complete.  Text and reasoning may have come
\* at any point of the stream; a turn whose first answer has no text fails,
\* an empty one that follows a tool round ends it.
StreamDone ==
  /\ pc = "stream" /\ ~Committed
  /\ \E text, reasoning \in BOOLEAN :
       IF text \/ turn.meaningful
       THEN /\ AppendMessages(IF text \/ reasoning THEN <<Assistant(<<>>)>> ELSE <<>>)
            /\ MeaningfulResponse
            /\ Finish("done")
       ELSE Finish("error") /\ UNCHANGED <<messages, archive, turn, retries>>
  /\ UNCHANGED <<baseline, typing, cancelled, response, batch>>

-----------------------------------------------------------------------------
(* execute_tool_batch: one call after the other, except that consecutive   *)
(* read-only calls the checker allows run as a parallel group.             *)

InBatch == <<conversation, typing, cancelled, outcome, turn, retries, response>>

\* The user's word, looked at before each call; a cancellation comes first.
Stopped == cancelled \/ steering # <<>>
Unrun(i) ==
  [batch EXCEPT !.out[i] = IF cancelled THEN "interrupted" ELSE "skipped"]

MarkUnrun ==
  /\ pc = "batch" /\ Left # {} /\ Stopped
  /\ batch' = Unrun(Current)
  /\ UNCHANGED <<InBatch, pc>>

\* batch after decide_permission has answered v for call i.
Checked(i, v) ==
  [batch EXCEPT !.decision[i] = v, !.checks[i] = @ + 1]

\* (mutant) The kept decision is copied, not taken.
TakeCopied(v) ==
  LET checked == IF batch.pending = "none" THEN Checked(Current, v) ELSE batch
  IN [checked EXCEPT !.verdict = v, !.end = Current + 1]

\* batch after the current call's decision v is taken: the one kept from
\* building a group, else a new one.
Take(v) ==
  LET checked == IF batch.pending = "none" THEN Checked(Current, v) ELSE batch
  IN [checked EXCEPT !.pending = "none", !.verdict = v, !.end = Current + 1]

\* The loop body's first step.  The checker's hooks are awaited, so anything
\* may happen before the verdict is acted on.
Decide ==
  /\ pc = "batch" /\ Left # {} /\ ~Stopped
  /\ \E v \in Verdicts :
       /\ batch.pending \in {"none", v}
       /\ batch' = Take(v)
       /\ pc' = IF ReadOnly(Current) /\ v = "allow" THEN "grouping" ELSE "decided"
  /\ UNCHANGED InBatch

\* (mutant) A call that may change something joins a group.
AnyToolMayJoin ==
  /\ batch.end <= Size /\ batch.end - Current < MaxParallel
  /\ ~Stopped

GroupMayGrow ==
  /\ batch.end <= Size /\ batch.end - Current < MaxParallel
  /\ ReadOnly(batch.end)
  /\ ~Stopped

GrowGroup ==
  /\ pc = "grouping" /\ GroupMayGrow
  /\ \E v \in Verdicts :
       IF v = "allow"
       THEN batch' = [Checked(batch.end, v) EXCEPT !.end = @ + 1] /\ UNCHANGED pc
       ELSE batch' = [Checked(batch.end, v) EXCEPT !.pending = v] /\ pc' = "launch"
  /\ UNCHANGED InBatch

CloseGroup ==
  /\ pc = "grouping" /\ ~GroupMayGrow
  /\ pc' = "launch"
  /\ UNCHANGED <<InBatch, batch>>

\* The set of calls with i noted in it, when the turn is stopped by now.
Noted(noted, i) == noted \cup {j \in {i} : Stopped}

\* execute_tool_reporting is entered: ToolRunning goes to the frontend over a
\* bounded channel, and whoever waits for room looks at nothing meanwhile.
Admitted(i) ==
  [batch EXCEPT !.out[i] = "admitted", !.unheeding = Noted(@, i)]

\* ToolRunning is sent: the tool is called.
ToolStarts ==
  /\ pc \in {"launch", "exclusive"}
  /\ \E i \in 1..Size :
       /\ batch.out[i] = "admitted"
       /\ batch' = [batch EXCEPT !.out[i] = "running", !.late = Noted(@, i)]
  /\ UNCHANGED <<InBatch, pc>>

\* (mutant) A member of a group is admitted without looking again.
LaunchUnchecked(i) == Admitted(i)

Launch(i) == IF Stopped THEN Unrun(i) ELSE Admitted(i)

\* join_all polls the members in order; each looks once more before it runs.
LaunchMember ==
  /\ pc = "launch"
  /\ \E i \in 1..Size :
       /\ i < batch.end /\ batch.out[i] = "waiting"
       /\ \A j \in 1..(i - 1) : batch.out[j] # "waiting"
       /\ batch' = Launch(i)
  /\ UNCHANGED <<InBatch, pc>>

MemberEnds ==
  /\ pc = "launch"
  /\ \E i \in 1..Size, how \in {"ok", "failed"} :
       /\ batch.out[i] = "running"
       /\ batch' = [batch EXCEPT !.out[i] = how]
  /\ UNCHANGED <<InBatch, pc>>

GroupEnds ==
  /\ pc = "launch"
  /\ \A i \in Left : i >= batch.end
  /\ pc' = "batch"
  /\ UNCHANGED <<InBatch, batch>>

\* The verdict on a call that runs alone.  It is not looked at again whether
\* the turn was cancelled or steered while the hooks were consulted.
ActOnVerdict ==
  /\ pc = "decided"
  /\ \/ batch.verdict = "allow" /\ batch' = Admitted(Current) /\ pc' = "exclusive"
     \/ /\ batch.verdict = "deny" \/ (batch.verdict = "ask" /\ ~Interactive)
        /\ batch' = [batch EXCEPT !.out[Current] = "denied"] /\ pc' = "batch"
     \/ batch.verdict = "ask" /\ Interactive /\ UNCHANGED batch /\ pc' = "asking"
  /\ UNCHANGED InBatch

\* ask_permission: an answer wins over a cancellation that is there as well.
UserAllows ==
  /\ pc = "asking"
  /\ batch' = [Admitted(Current) EXCEPT !.approved = @ \cup {Current}]
  /\ pc' = "exclusive"
  /\ UNCHANGED InBatch

UserDenies ==
  /\ pc = "asking"
  /\ batch' = [batch EXCEPT !.out[Current] = "denied"]
  /\ pc' = "batch"
  /\ UNCHANGED InBatch

\* DenyAndCancel: the message typed at the prompt is queued as steering.
UserDeniesWithMessage ==
  /\ pc = "asking" /\ steers < MaxSteers
  /\ steers' = steers + 1
  /\ steering' = Append(steering, steers')
  /\ batch' = [batch EXCEPT !.out[Current] = "denied"]
  /\ pc' = "batch"
  /\ UNCHANGED <<conversation, cleared, turns, cancelled, outcome, turn, retries,
                 response>>

\* (mutant) The answer alone is awaited.
PromptUncancellable == FALSE

PromptCancelled ==
  /\ pc = "asking" /\ cancelled
  /\ batch' = [batch EXCEPT !.out[Current] = "denied"]
  /\ pc' = "batch"
  /\ UNCHANGED InBatch

ExclusiveEnds ==
  /\ pc = "exclusive" /\ batch.out[Current] = "running"
  /\ \E how \in {"ok", "failed"} : batch' = [batch EXCEPT !.out[Current] = how]
  /\ pc' = "batch"
  /\ UNCHANGED InBatch

\* McpManage changed the tool schemas: refresh_mcp_context.  Its select is
\* biased, so a cancelled turn never takes this way.
SchemasChange ==
  /\ pc = "exclusive" /\ batch.out[Current] = "running"
  /\ calls[Current].tool = "manage" /\ ~cancelled
  /\ batch' = [batch EXCEPT !.out[Current] = "ok"]
  /\ baseline' = <<>>
  /\ pc' = "batch"
  /\ UNCHANGED <<messages, archive, typing, cancelled, outcome, turn, retries, response>>

\* Every call has its output: the results message, in the calls' order.
CollectBatch ==
  /\ pc = "batch" /\ Left = {}
  /\ AppendMessages(<<Results(calls)>>)
  /\ turn' = [turn EXCEPT !.superseded = \E i \in 1..Size : batch.out[i] = "skipped"]
  /\ IF cancelled THEN Finish("interrupted") ELSE Goto("compactBatch")
  /\ calls' = <<>>
  /\ batch' = NoBatch
  /\ UNCHANGED <<baseline, typing, cancelled, retries, announced>>

-----------------------------------------------------------------------------
User ==
  \/ SubmitPrompt \/ SubmitCancelled \/ TypeSteering \/ Cancel \/ Reload
  \/ CompactCommand \/ UserAllows \/ UserDenies \/ UserDeniesWithMessage

Loop ==
  \/ BeginRound \/ BelowThreshold \/ CompactSucceeds \/ CompactFails
  \/ RetryWaitEnds

Response ==
  \/ RequestFails \/ RequestAccepted \/ StreamToolUse \/ StreamUsage
  \/ StreamCloses \/ StreamFails \/ StreamInterrupted
  \/ StreamDoneWithCalls \/ StreamDone

Batch ==
  \/ MarkUnrun \/ Decide \/ GrowGroup \/ CloseGroup \/ LaunchMember
  \/ ToolStarts \/ MemberEnds \/ GroupEnds \/ ActOnVerdict \/ PromptCancelled
  \/ ExclusiveEnds \/ SchemasChange \/ CollectBatch

Engine == Loop \/ Response \/ Batch \/ Drain

Next == User \/ Engine

Spec == Init /\ [][Next]_vars

\* The engine is one task of the runtime and is polled until it returns; a
\* provider's stream ends or times out, a tool returns or is timed out, and a
\* frontend renders what it received, which makes room in its channel.  Nobody
\* has to type or to answer.
FairSpec == Spec /\ WF_vars(Engine)

-----------------------------------------------------------------------------
(* Properties.                                                             *)

BatchPhases == {"batch", "decided", "grouping", "launch", "asking", "exclusive"}

Locals == [rounds : 0..MaxRounds, meaningful : BOOLEAN, superseded : BOOLEAN]
BatchLocals(n) ==
  [out : [1..n -> Outputs], end : Nat \ {0},
   verdict : AllVerdicts \cup {"none"}, pending : AllVerdicts \cup {"none"},
   decision : [1..n -> AllVerdicts \cup {"none"}], checks : [1..n -> Nat],
   approved : SUBSET (1..n), unheeding : SUBSET (1..n), late : SUBSET (1..n)]

ConversationType ==
  messages \in Seq(Messages) /\ archive \in Seq(Messages) /\ baseline \in Seq(Messages)

UserType ==
  /\ steering \in Seq(Nat) /\ steers \in Nat /\ cleared \in Nat
  /\ turns \in Nat /\ cancelled \in BOOLEAN

ControlType == pc \in PCs /\ outcome \in Outcomes /\ turn \in Locals

RetriesType ==
  retries \in [Failures -> Nat] /\ \A kind \in Failures : retries[kind] <= Limit[kind]

ResponseType ==
  /\ calls \in Seq(Calls) /\ announced \in Nat
  /\ pc \notin BatchPhases \cup {"stream"} => calls = <<>>

BatchType == batch \in BatchLocals(IF pc \in BatchPhases THEN Size ELSE 0)

\* Every variable has its type, no recovery is used more often than its limit
\* allows, and the locals of a batch are as many as its calls while it runs
\* and none otherwise.
TypeOK ==
  /\ ConversationType /\ UserType /\ ControlType
  /\ RetriesType /\ ResponseType /\ BatchType

\* The history stays acceptable to a provider: each assistant message with
\* tool calls is followed at once by the results of exactly those calls, no
\* results stand alone, and only a batch that still runs may be unanswered.
HistoryPaired ==
  \A i \in DOMAIN messages :
    /\ messages[i].kind = "assistant" /\ messages[i].calls # <<>> =>
         IF i = Len(messages)
         THEN pc \in BatchPhases /\ messages[i].calls = calls
         ELSE messages[i + 1] = Results(messages[i].calls)
    /\ messages[i].kind = "results" =>
         /\ messages[i].calls # <<>>
         /\ i > 1 /\ messages[i - 1] = Assistant(messages[i].calls)

\* No two tool calls of the conversation share an id, whatever ids the
\* provider repeats or omits; a repeated one would wedge the session.
UniqueIds ==
  LET all == [i \in DOMAIN messages |->
                IF messages[i].kind = "assistant" THEN messages[i].calls ELSE <<>>]
             \o (IF pc = "stream" THEN <<calls>> ELSE <<>>)
  IN \A i, j \in DOMAIN all : \A a \in DOMAIN all[i], b \in DOMAIN all[j] :
       all[i][a].id = all[j][b].id => i = j /\ a = b

\* The messages the usage baseline measured are still a prefix of the
\* conversation: estimated_context_tokens checks the count only.
BaselineMeasuresPrefix ==
  /\ Len(baseline) <= Len(messages)
  /\ \A i \in DOMAIN baseline : baseline[i] = messages[i]

\* Compaction takes messages out of the request, never out of the session:
\* what is left of the conversation, markers aside, is the end of the archive.
ArchiveComplete ==
  \A i \in DOMAIN messages : messages[i] \notin Markers =>
    LET later == Cardinality({j \in DOMAIN messages :
                                j > i /\ messages[j] \notin Markers})
    IN later < Len(archive) /\ messages[i] = archive[Len(archive) - later]

\* Every tool call that was shown to the user is in the session's history,
\* and once the turn is over, however it ended, so is its result.
AnnouncedCallsAnswered ==
  LET callsOf(kind) == {c \in (1..Len(archive)) \X (1..MaxBatch) :
                          /\ archive[c[1]].kind = kind
                          /\ c[2] \in DOMAIN archive[c[1]].calls}
      streamed == IF pc = "stream" THEN Size ELSE 0
  IN /\ announced = Cardinality(callsOf("assistant")) + streamed
     /\ pc \in {"idle", "draining"} => announced = Cardinality(callsOf("results"))

\* A steering message reaches the conversation once, in the order it was
\* typed, or still waits, unless a reload of the session threw it away.
SteersConserved ==
  LET heard == {i \in DOMAIN archive : archive[i].kind = "steer"}
  IN /\ Cardinality(heard) + Len(steering) + cleared = steers
     /\ \A i, j \in heard : i < j => archive[i].n < archive[j].n
     /\ \A i, j \in DOMAIN steering : i < j => steering[i] < steering[j]
     /\ \A i \in heard, j \in DOMAIN steering : archive[i].n < steering[j]
     /\ \A i \in heard : archive[i].n \in 1..steers
     /\ \A j \in DOMAIN steering : steering[j] \in 1..steers

\* Calls are skipped only for a message that the very next request ends with;
\* if a compaction on the way there found no room for it in the tail, the
\* request is that compaction's summary, which was made of it, and the marker
\* to go on.  The session's archive ends with it in either case.
SkippedCallsAreSuperseded ==
  pc = "request" /\ turn.superseded =>
    /\ \/ messages[Len(messages)].kind = "steer"
       \/ messages = <<Handoff, Summary, Continue>>
    /\ archive[Len(archive)].kind = "steer"

\* A tool runs only on the decision made for that very call, which is made
\* once: the one kept from building a group is not given to another call.
PermissionIsForTheCall ==
  pc \in BatchPhases => \A i \in 1..Size :
    /\ batch.checks[i] <= 1
    /\ batch.out[i] \in Inflight \cup {"ok", "failed"} =>
         \/ batch.decision[i] = "allow"
         \/ batch.decision[i] = "ask" /\ Interactive /\ i \in batch.approved
    /\ batch.out[i] = "denied" => batch.decision[i] \in {"ask", "deny"}

\* Calls that may change something are ordering barriers: while one runs, all
\* before it are settled and none behind it has started, and no read-only
\* call runs ahead of one.  A group holds at most MaxParallel running tools.
BarriersHold ==
  pc \in BatchPhases =>
    LET running == {i \in 1..Size : batch.out[i] \in Inflight}
    IN /\ \A i \in running, j \in 1..Size :
            /\ j < i /\ ~(ReadOnly(i) /\ ReadOnly(j)) => batch.out[j] \notin Unsettled
            /\ j > i /\ ~(ReadOnly(i) /\ ReadOnly(j)) => batch.out[j] = "waiting"
       /\ Cardinality(running) <= MaxParallel

\* Once the user has cancelled or steered, at most one more call is admitted,
\* the one whose permission was being decided.  What else still starts had
\* been admitted before, as members of one group, and waited for the frontend;
\* no call starts behind one that was dropped for the user's word.
StopsPromptly ==
  pc \in BatchPhases =>
    /\ Cardinality(batch.unheeding) <= 1
    /\ batch.unheeding # {} => batch.late \subseteq batch.unheeding
    /\ Cardinality(batch.late) <= MaxParallel
    /\ \A i \in batch.late, j \in 1..Size :
         /\ j < i => batch.out[j] \notin {"interrupted", "skipped"}
         /\ j \in batch.late /\ j # i => ReadOnly(i) /\ ReadOnly(j)

\* A cancelled turn comes back to the prompt, whatever it was waiting for.
CancelEndsTurn == (cancelled /\ pc # "idle") ~> (pc = "idle")

\* Without cancellation, a turn ends or waits for the user's permission.
TurnEnds == (pc # "idle") ~> (pc = "idle" \/ (Interactive /\ pc = "asking"))

\* Lines typed while a turn is running are delivered to the model before the
\* turn completes.
SteeringHeardInItsTurn ==
  [][outcome = "running" /\ outcome' = "done" => steering = <<>>]_vars

\* A fresh user turn is retained by a compaction: no request ends with the
\* assistant's own summary.
NoAssistantPrefill ==
  pc = "request" => messages[Len(messages)].kind # "summary"

=============================================================================
