---------------------------- MODULE TurnProofs ----------------------------
(***************************************************************************)
(* Theorems about the turn loop of Turn.tla, for every value of its        *)
(* constants: every variable keeps its type, and the batch of tool calls   *)
(* keeps to its permissions, its barriers and the user's word.             *)
(*                                                                         *)
(* The three properties of the batch are not inductive.  BatchInv is: it   *)
(* says, for each await of execute_tool_batch, which calls are settled,    *)
(* which have a decision, and which of them the engine is about to use.    *)
(* WordInv says what the user's word has changed by then: which calls were *)
(* let in or started after it, and which were dropped.                     *)
(***************************************************************************)
EXTENDS Turn, SequenceTheorems, FiniteSetTheorems, WellFoundedInduction, TLAPS

-----------------------------------------------------------------------------
(* Facts about the operators of Turn.                                      *)

\* A set of naturals that is not empty has a least member.
LEMMA LeastOf ==
  ASSUME NEW T \in SUBSET Nat, T # {}
  PROVE  \E x \in T : \A y \in T : x <= y
<1> DEFINE R == OpToRel(<, Nat)
<1>1. IsWellFoundedOn(R, Nat)
  BY NatLessThanWellFounded
<1>2. \E x \in T : \A y \in T : ~(<<y, x>> \in R)
  <2> HIDE DEF R
  <2> QED BY <1>1, WFMin
<1>3. \A x, y \in Nat : y < x => <<y, x>> \in R
  BY DEF OpToRel
<1>4. \A x, y \in Nat : ~(y < x) => x <= y
  OBVIOUS
<1> HIDE DEF R
<1> QED BY <1>2, <1>3, <1>4

\* The call the batch loop stands at is the first one left.
LEMMA CurrentIsLeast ==
  ASSUME Left # {}
  PROVE  /\ Current \in Left
         /\ \A j \in Left : Current <= j
<1>1. Left \in SUBSET Nat
  BY DEF Left
<1>2. \E x \in Left : \A y \in Left : x <= y
  BY <1>1, LeastOf
<1> QED BY <1>2 DEF Current

\* unique_tool_use_id returns an id.
LEMMA UniqueIdType ==
  ASSUME TypeOK, NEW raw \in RawIds
  PROVE  UniqueId(raw) \subseteq Ids
<1> DEFINE base == IF raw = Blank THEN Len(calls) + 1 ELSE raw
<1>0. raw \in Nat \cup {Blank}
  BY TurnAssumption
<1>00. Len(calls) \in Nat
  BY DEF TypeOK, ResponseType
<1>1. base \in Nat
  BY <1>0, <1>00
<1> HIDE DEF base
<1>2. \A n : \A k \in 1..n : k \in Nat
  OBVIOUS
<1>3. \A id \in UniqueId(raw) : \E k \in Nat : id = <<base, k>>
  BY <1>2 DEF UniqueId, base
<1> QED BY <1>1, <1>3 DEF Ids

\* inject_steering appends messages.
LEMMA InjectedType ==
  ASSUME TypeOK
  PROVE  Injected \in Seq(Messages)
<1>1. Len(steering) \in Nat /\ \A i \in 1..Len(steering) : steering[i] \in Nat
  BY LenProperties, ElementOfSeq DEF TypeOK, UserType
<1>2. \A i \in 1..Len(steering) : Steer(steering[i]) \in Messages
  BY <1>1 DEF Steer, Message, Messages, MessageKinds
<1> QED BY <1>1, <1>2, IsASeq DEF Injected

\* What a compaction leaves are messages.
LEMMA CompactedType ==
  ASSUME NEW s \in Seq(Messages), NEW t \in TailStarts(s), NEW resume \in BOOLEAN
  PROVE  Compacted(s, t, resume) \in Seq(Messages)
<1>1. t \in 1..Len(s)+1
  BY LenProperties DEF TailStarts, Boundaries
<1>2. {Handoff, Summary, Continue} \subseteq Messages
  BY DEF Handoff, Summary, Continue, Message, Messages, MessageKinds
<1>3. SubSeq(s, t, Len(s)) \in Seq(Messages)
  BY <1>1, SubSeqProperties, LenProperties
<1>4. <<Handoff, Summary>> \o SubSeq(s, t, Len(s)) \in Seq(Messages)
  BY <1>2, <1>3
<1> QED BY <1>2, <1>4 DEF Compacted

-----------------------------------------------------------------------------
(* The inductive invariant.                                                *)

\* The engine stands at one call: there is one left.
CallAtHand == pc \in {"decided", "grouping", "asking", "exclusive"} => Left # {}

\* Calls settle in order, outside a group, and only the one that runs alone
\* or a member of a group is running.
SettledInOrder ==
  /\ pc \in BatchPhases \ {"launch"} =>
       \A i \in Left, j \in 1..Size : i < j => batch.out[j] = "waiting"
  /\ pc \in BatchPhases \ {"launch", "exclusive"} =>
       \A i \in 1..Size : batch.out[i] \notin Inflight
  /\ pc = "exclusive" => batch.out[Current] \in Inflight

\* A group is an interval of read-only calls no longer than the limit: what
\* is before it is settled, what is behind it has not started.
GroupIsInterval ==
  pc \in {"grouping", "launch"} =>
    /\ batch.end \in 1..(Size + 1)
    /\ \A i \in batch.end..Size : batch.out[i] = "waiting"
    /\ \E start \in 1..batch.end :
         /\ batch.end - start <= MaxParallel
         /\ \A i \in 1..Size :
              /\ i < start => batch.out[i] \notin Unsettled
              /\ start <= i /\ i < batch.end => ReadOnly(i)
         /\ pc = "grouping" => start = Current /\ start < batch.end

\* What is decided of the calls that are left: the call at hand, the members
\* of the group, the call that ended it, and no other.
DecidedOfLeft(i) ==
  CASE pc = "batch" -> IF i = Current THEN batch.pending ELSE "none"
    [] pc = "decided" -> IF i = Current THEN batch.verdict ELSE "none"
    [] pc = "asking" -> IF i = Current THEN "ask" ELSE "none"
    [] pc = "exclusive" -> IF i = Current THEN batch.decision[i] ELSE "none"
    [] pc = "grouping" -> IF i < batch.end THEN "allow" ELSE "none"
    [] pc = "launch" -> IF i < batch.end THEN "allow"
                        ELSE IF i = batch.end THEN batch.pending ELSE "none"

DecisionsInOrder ==
  pc \in BatchPhases =>
    /\ \A i \in 1..Size :
         batch.checks[i] = (IF batch.decision[i] = "none" THEN 0 ELSE 1)
    /\ pc # "batch" \/ ~Stopped => \A i \in Left : batch.decision[i] = DecidedOfLeft(i)
    /\ pc \in {"decided", "asking", "exclusive", "grouping"} => batch.pending = "none"
    /\ pc = "decided" => batch.verdict # "none"
    /\ pc = "asking" => Interactive

BatchInv ==
  /\ CallAtHand
  /\ SettledInOrder
  /\ GroupIsInterval
  /\ DecisionsInOrder
  /\ PermissionIsForTheCall

\* How a call is dropped for the user's word.
Dropped == {"interrupted", "skipped"}

\* Nothing yet shows that the user spoke.
Untouched ==
  /\ batch.unheeding = {} /\ batch.late = {}
  /\ \A i \in 1..Size : batch.out[i] \notin Dropped

\* Members are polled in order: who has not been looked at stands behind all
\* who have, and who was dropped behind all who were admitted.  The late ones
\* are members, for a group no longer than the limit.
GroupHeedsTheWord ==
  /\ batch.unheeding = {}
  /\ \A i, j \in 1..Size :
       i < j /\ batch.out[i] = "waiting" => batch.out[j] = "waiting"
  /\ \A i, j \in 1..Size :
       /\ j < i
       /\ i \in batch.late \/ batch.out[i] \in Inflight
       => batch.out[j] \notin Dropped
  /\ \E start \in 1..batch.end :
       /\ batch.end - start <= MaxParallel
       /\ \A i \in 1..Size :
            /\ i < start => batch.out[i] \notin Unsettled
            /\ start <= i /\ i < batch.end => ReadOnly(i)
            /\ i \in batch.late => start <= i /\ i < batch.end

\* The user's word at each await of the batch: unless it was given, nothing
\* is late and nothing dropped; nor is anything before a call runs alone, or
\* but that call while it runs.
WordInv ==
  pc \in BatchPhases =>
    /\ ~Stopped \/ pc \in {"decided", "asking", "grouping"} => Untouched
    /\ \A i \in batch.late : batch.out[i] # "waiting"
    /\ pc = "exclusive" =>
         /\ batch.unheeding \subseteq {Current} /\ batch.late \subseteq {Current}
         /\ \A i \in 1..Size : batch.out[i] \notin Dropped
    /\ pc = "launch" => GroupHeedsTheWord
    /\ pc = "batch" => StopsPromptly

-----------------------------------------------------------------------------

\* Every kind of failure has a limit.
LEMMA LimitType == Limit \in [Failures -> Nat]
BY TurnAssumption DEF Limit, Failures

\* What is appended: a message of each kind, and what a broken-off attempt leaves.
LEMMA MessageTypes ==
  /\ \A n \in Nat : Prompt(n) \in Messages /\ Steer(n) \in Messages
  /\ \A cs \in Seq(Calls) : Assistant(cs) \in Messages /\ Results(cs) \in Messages
BY DEF Prompt, Steer, Assistant, Results, Message, Messages, MessageKinds

\* append_message keeps conversation and archive sequences of messages.
LEMMA AppendType ==
  ASSUME ConversationType, NEW new \in Seq(Messages), AppendMessages(new)
  PROVE  messages' \in Seq(Messages) /\ archive' \in Seq(Messages)
BY ConcatProperties DEF ConversationType, AppendMessages

\* So does commit_compacted_messages, for any tail that may be kept.
LEMMA CommitType ==
  ASSUME ConversationType, NEW t \in TailStarts(messages), NEW resume \in BOOLEAN,
         CommitCompacted(Compacted(messages, t, resume))
  PROVE  messages' \in Seq(Messages) /\ baseline' \in Seq(Messages)
BY CompactedType DEF ConversationType, CommitCompacted

\* A new engine is well-typed.
LEMMA InitTypeOK == Init => TypeOK
<1> SUFFICES ASSUME Init PROVE TypeOK
  OBVIOUS
<1>1. ConversationType /\ UserType /\ ResponseType
  BY EmptySeq DEF Init, ConversationType, UserType, ResponseType
<1>2. ControlType
  BY TurnAssumption DEF Init, ControlType, PCs, Outcomes, Locals, FreshTurn
<1>3. RetriesType
  BY LimitType DEF Init, RetriesType
<1>4. BatchType
  BY DEF Init, BatchType, BatchPhases, NoBatch, FreshBatch, BatchLocals, Outputs, Unsettled, Inflight
<1> QED BY <1>1, <1>2, <1>3, <1>4 DEF TypeOK

\* Every step keeps the types of conversation, archive and baseline: what is
\* appended or committed is a sequence of messages.
LEMMA NextConversationType ==
  ASSUME TypeOK, Next PROVE ConversationType'
<1> USE DEF TypeOK, ConversationType, conversation, response, InBatch
<1>1. CASE SubmitPrompt
  <2>1. <<Prompt(turns')>> \in Seq(Messages)
    BY <1>1, MessageTypes DEF SubmitPrompt, UserType
  <2> QED BY <1>1, <2>1, AppendType DEF SubmitPrompt
<1>2. CASE CompactCommand
  BY <1>2, CommitType DEF CompactCommand
<1>3. CASE CompactSucceeds
  BY <1>3, CommitType DEF CompactSucceeds
<1>4. CASE BeginRound
  BY <1>4, InjectedType, AppendType DEF BeginRound
<1>5. WithoutRunning \in Seq(Messages)
  BY MessageTypes DEF WithoutRunning, ResponseType
<1>6. CASE StreamCloses
  BY <1>5, <1>6, AppendType DEF StreamCloses
<1>7. CASE StreamFails
  BY <1>5, <1>7, AppendType DEF StreamFails
<1>8. <<>> \in Seq(Messages) /\ <<Assistant(<<>>)>> \in Seq(Messages)
  <2>1. Assistant(<<>>) \in Messages
    BY MessageTypes, EmptySeq
  <2> QED BY <2>1, EmptySeq
<1>9. CASE StreamInterrupted
  BY <1>5, <1>8, <1>9, AppendType DEF StreamInterrupted
<1>10. CASE StreamDoneWithCalls
  <2>1. <<Assistant(calls)>> \in Seq(Messages)
    BY MessageTypes DEF ResponseType
  <2> QED BY <1>10, <2>1, AppendType DEF StreamDoneWithCalls
<1>11. CASE StreamDone
  BY <1>8, <1>11, AppendType DEF StreamDone
<1>12. CASE CollectBatch
  <2>1. <<Results(calls)>> \in Seq(Messages)
    BY MessageTypes DEF ResponseType
  <2> QED BY <1>12, <2>1, AppendType DEF CollectBatch
<1>13. CASE Reload \/ StreamUsage \/ SchemasChange
  BY <1>13, EmptySeq DEF Reload, StreamUsage, SchemasChange
<1>14. CASE UNCHANGED conversation
  BY <1>14
<1> QED
  BY <1>1, <1>2, <1>3, <1>4, <1>6, <1>7, <1>9, <1>10, <1>11, <1>12, <1>13, <1>14
     DEF Next, User, Engine, Loop, Response, Batch, SubmitCancelled, TypeSteering,
         Cancel, UserAllows, UserDenies, UserDeniesWithMessage, BelowThreshold,
         CompactFails, RetryWaitEnds, RequestFails, RequestAccepted, StreamToolUse,
         MarkUnrun, Decide, GrowGroup, CloseGroup, LaunchMember, ToolStarts, MemberEnds,
         GroupEnds, ActOnVerdict, PromptCancelled, ExclusiveEnds, Drain

\* Every step keeps the types of what the user does.
LEMMA NextUserType ==
  ASSUME TypeOK, Next PROVE UserType'
<1> USE DEF TypeOK, UserType, typing, InBatch
<1>1. CASE SubmitPrompt \/ SubmitCancelled \/ Cancel
  <2>1. UNCHANGED <<steering, steers, cleared>>
    BY <1>1 DEF SubmitPrompt, SubmitCancelled, Cancel
  <2>2. turns' \in {turns, turns + 1} /\ cancelled' \in BOOLEAN
    BY <1>1 DEF SubmitPrompt, SubmitCancelled, Cancel
  <2> QED BY <2>1, <2>2
<1>2. CASE TypeSteering
  BY <1>2, AppendProperties DEF TypeSteering
<1>3. CASE Reload
  <2>1. Len(steering) \in Nat
    BY LenProperties
  <2> QED BY <1>3, <2>1, EmptySeq DEF Reload
<1>4. CASE UserDeniesWithMessage
  BY <1>4, AppendProperties DEF UserDeniesWithMessage
<1>5. CASE BeginRound
  BY <1>5, EmptySeq DEF BeginRound
<1>6. CASE UNCHANGED <<typing, cancelled>>
  BY <1>6
<1> QED
  BY <1>1, <1>2, <1>3, <1>4, <1>5, <1>6
     DEF Next, User, Engine, Loop, Response, Batch, CompactCommand, UserAllows,
         UserDenies, BelowThreshold, CompactSucceeds, CompactFails, RetryWaitEnds,
         RequestFails, RequestAccepted, StreamToolUse, StreamUsage, StreamCloses,
         StreamFails, StreamInterrupted, StreamDoneWithCalls, StreamDone,
         MarkUnrun, Decide, GrowGroup, CloseGroup, LaunchMember, ToolStarts, MemberEnds,
         GroupEnds, ActOnVerdict, PromptCancelled, ExclusiveEnds, SchemasChange,
         CollectBatch, Drain

\* Every step keeps the recoveries within their limits: a counter grows only
\* where Recoverable has looked at it.
LEMMA NextRetriesType ==
  ASSUME TypeOK, Next PROVE RetriesType'
<1> USE LimitType DEF TypeOK, RetriesType, InBatch
<1>1. CASE SubmitPrompt \/ SubmitCancelled
  <2>1. retries' = FreshRetries
    BY <1>1 DEF SubmitPrompt, SubmitCancelled
  <2>2. \A kind \in Failures : retries'[kind] \in {0, retries[kind]}
    BY <2>1 DEF FreshRetries
  <2> QED BY <2>1, <2>2 DEF FreshRetries
<1>2. ASSUME NEW kind \in Failures, Recover(kind) PROVE RetriesType'
  BY <1>2 DEF Recover, MayRetry, Recoverable
<1>3. FailureKinds \subseteq Failures
  BY TurnAssumption
<1>4. CASE RequestFails
  BY <1>2, <1>3, <1>4 DEF RequestFails
<1>5. CASE StreamFails
  BY <1>2, <1>3, <1>5 DEF StreamFails
<1>6. ASSUME MeaningfulResponse PROVE RetriesType'
  BY <1>6 DEF MeaningfulResponse, Failures
<1>7. CASE StreamDoneWithCalls
  BY <1>6, <1>7 DEF StreamDoneWithCalls
<1>8. CASE StreamDone
  BY <1>6, <1>8 DEF StreamDone
<1>9. CASE UNCHANGED retries
  BY <1>9
<1> QED
  BY <1>1, <1>4, <1>5, <1>7, <1>8, <1>9
     DEF Next, User, Engine, Loop, Response, Batch, TypeSteering, Cancel, Reload,
         CompactCommand, UserAllows, UserDenies, UserDeniesWithMessage,
         BeginRound, BelowThreshold, CompactSucceeds, CompactFails, RetryWaitEnds,
         RequestAccepted, StreamToolUse, StreamUsage, StreamCloses,
         StreamInterrupted, MarkUnrun, Decide, GrowGroup, CloseGroup,
         LaunchMember, ToolStarts, MemberEnds, GroupEnds, ActOnVerdict, PromptCancelled,
         ExclusiveEnds, SchemasChange, CollectBatch, Drain

\* A compaction point leads back into the loop.
LEMMA AfterCompactionInPCs ==
  \A point \in CompactionPoints : AfterCompaction[point] \in {"top", "request", "compactRound"}
BY DEF CompactionPoints, AfterCompaction

\* Every recovery goes back to before the request.
LEMMA RecoverTo ==
  ASSUME RetriesType, NEW kind \in Failures, Recover(kind)
  PROVE  pc' \in {"retryWait", "top", "compactRecover"} /\ outcome' = outcome
<1>1. retries[kind] < Limit[kind] /\ retries[kind] \in Nat
  BY DEF Recover, MayRetry, Recoverable, RetriesType
<1>2. kind # "other"
  BY <1>1 DEF Limit
<1> QED BY <1>2 DEF Recover, Goto, RetryPoint, Failures

\* Every step leads to an await of the engine.
LEMMA NextPCType ==
  ASSUME TypeOK, Next PROVE pc' \in PCs /\ outcome' \in Outcomes
<1> USE DEF TypeOK, ControlType, InBatch, PCs, Outcomes, Goto, Finish
<1>1. CASE User
  BY <1>1 DEF User, SubmitPrompt, SubmitCancelled, TypeSteering, Cancel, Reload,
       CompactCommand, UserAllows, UserDenies, UserDeniesWithMessage
<1>2. CASE Loop
  BY <1>2, AfterCompactionInPCs
     DEF Loop, BeginRound, BelowThreshold, CompactSucceeds, CompactFails, RetryWaitEnds
<1>3. FailureKinds \subseteq Failures
  BY TurnAssumption
<1>4. CASE RequestFails
  BY <1>3, <1>4, RecoverTo DEF RequestFails
<1>5. CASE StreamFails
  BY <1>3, <1>5, RecoverTo DEF StreamFails
<1>6. CASE Response /\ ~RequestFails /\ ~StreamFails
  BY <1>6 DEF Response, RequestAccepted, StreamToolUse, StreamUsage, StreamCloses,
       StreamInterrupted, StreamDoneWithCalls, StreamDone
<1>7. CASE Batch
  BY <1>7 DEF Batch, MarkUnrun, Decide, GrowGroup, CloseGroup, LaunchMember, ToolStarts, MemberEnds,
       GroupEnds, ActOnVerdict, PromptCancelled, ExclusiveEnds, SchemasChange, CollectBatch
<1>8. CASE Drain
  BY <1>8 DEF Drain
<1> QED BY <1>1, <1>2, <1>4, <1>5, <1>6, <1>7, <1>8 DEF Next, Engine

\* Every step keeps the round counter within max_rounds.
LEMMA NextTurnType ==
  ASSUME TypeOK, Next PROVE turn' \in Locals
<1> USE TurnAssumption DEF TypeOK, ControlType, InBatch, Locals
<1>1. CASE SubmitPrompt \/ SubmitCancelled
  <2>1. turn' = FreshTurn
    BY <1>1 DEF SubmitPrompt, SubmitCancelled
  <2> QED BY <2>1 DEF FreshTurn
<1>2. CASE BeginRound
  BY <1>2 DEF BeginRound
<1>3. CASE RequestAccepted
  BY <1>3 DEF RequestAccepted
<1>4. CASE StreamDoneWithCalls
  BY <1>4 DEF StreamDoneWithCalls, MeaningfulResponse
<1>5. CASE StreamDone
  BY <1>5 DEF StreamDone, MeaningfulResponse
<1>6. CASE CollectBatch
  BY <1>6 DEF CollectBatch
<1>7. CASE UNCHANGED turn
  BY <1>7
<1> QED
  BY <1>1, <1>2, <1>3, <1>4, <1>5, <1>6, <1>7
     DEF Next, User, Engine, Loop, Response, Batch, TypeSteering, Cancel, Reload,
         CompactCommand, UserAllows, UserDenies, UserDeniesWithMessage,
         BelowThreshold, CompactSucceeds, CompactFails, RetryWaitEnds, RequestFails,
         StreamToolUse, StreamUsage, StreamCloses, StreamFails,
         StreamInterrupted, MarkUnrun, Decide, GrowGroup, CloseGroup,
         LaunchMember, ToolStarts, MemberEnds, GroupEnds, ActOnVerdict, PromptCancelled,
         ExclusiveEnds, SchemasChange, Drain

\* The calls of a response exist while it streams and while its batch runs.
LEMMA NextResponseType ==
  ASSUME TypeOK, Next PROVE ResponseType'
<1> USE DEF TypeOK, ResponseType, response, InBatch, Goto, Finish, BatchPhases
<1>1. CASE StreamToolUse
  <2> PICK raw \in RawIds, tool \in Tools :
             \E id \in UniqueId(raw) : calls' = Append(calls, [id |-> id, tool |-> tool])
    BY <1>1 DEF StreamToolUse
  <2> PICK id \in UniqueId(raw) : calls' = Append(calls, [id |-> id, tool |-> tool])
    OBVIOUS
  <2>1. [id |-> id, tool |-> tool] \in Calls
    BY UniqueIdType, TurnAssumption DEF Calls
  <2> QED BY <1>1, <2>1, AppendProperties DEF StreamToolUse
<1>2. CASE User
  BY <1>2 DEF User, SubmitPrompt, SubmitCancelled, TypeSteering, Cancel, Reload,
       CompactCommand, UserAllows, UserDenies, UserDeniesWithMessage
<1>3. CASE Loop
  BY <1>3, AfterCompactionInPCs
     DEF Loop, BeginRound, BelowThreshold, CompactSucceeds, CompactFails, RetryWaitEnds, CompactionPoints, AfterCompaction
<1>4. CASE RequestFails \/ RequestAccepted \/ StreamUsage
  BY <1>4, RecoverTo, TurnAssumption DEF RequestFails, RequestAccepted, StreamUsage, ControlType
<1>5. CASE StreamCloses \/ StreamFails \/ StreamInterrupted \/ CollectBatch
  BY <1>5, EmptySeq DEF StreamCloses, StreamFails, StreamInterrupted, CollectBatch
<1>6. CASE StreamDoneWithCalls \/ StreamDone
  BY <1>6 DEF StreamDoneWithCalls, StreamDone, Committed
<1>7. CASE Batch /\ ~CollectBatch
  BY <1>7 DEF Batch, MarkUnrun, Decide, GrowGroup, CloseGroup, LaunchMember, ToolStarts, MemberEnds,
       GroupEnds, ActOnVerdict, PromptCancelled, ExclusiveEnds, SchemasChange
<1>8. CASE Drain
  BY <1>8 DEF Drain
<1> QED BY <1>1, <1>2, <1>3, <1>4, <1>5, <1>6, <1>7, <1>8 DEF Next, Engine, Response, Batch

\* The locals of a new batch are well-typed.
LEMMA FreshBatchType == \A n \in Nat : FreshBatch(n) \in BatchLocals(n)
BY DEF FreshBatch, BatchLocals, Outputs, Unsettled, Inflight

\* What the awaits of the batch do to its locals keeps their type.
LEMMA SettledType ==
  ASSUME batch \in BatchLocals(Size), NEW i, NEW how \in Outputs
  PROVE  [batch EXCEPT !.out[i] = how] \in BatchLocals(Size)
BY DEF BatchLocals

\* A call that starts or is left out keeps the locals' type,
LEMMA LaunchedType ==
  ASSUME batch \in BatchLocals(Size), NEW i \in 1..Size
  PROVE  /\ Unrun(i) \in BatchLocals(Size)
         /\ Admitted(i) \in BatchLocals(Size)
         /\ Launch(i) \in BatchLocals(Size)
         /\ [batch EXCEPT !.out[i] = "running", !.late = Noted(@, i)] \in BatchLocals(Size)
<1>1. Unrun(i) \in BatchLocals(Size)
  BY DEF Unrun, Outputs, NotRun, BatchLocals
<1>2. Admitted(i) \in BatchLocals(Size)
  <2>1. Noted(batch.unheeding, i) \in SUBSET (1..Size)
    BY DEF BatchLocals, Noted
  <2>2. [batch EXCEPT !.out[i] = "admitted"] \in BatchLocals(Size)
    BY DEF Outputs, Unsettled, Inflight, BatchLocals
  <2>3. Admitted(i) = [[batch EXCEPT !.out[i] = "admitted"] EXCEPT
                        !.unheeding = Noted(batch.unheeding, i)]
    BY DEF Admitted, BatchLocals
  <2> QED BY <2>1, <2>2, <2>3 DEF BatchLocals
<1>4. [batch EXCEPT !.out[i] = "running", !.late = Noted(@, i)] \in BatchLocals(Size)
  <2>1. Noted(batch.late, i) \in SUBSET (1..Size)
    BY DEF BatchLocals, Noted
  <2>2. [batch EXCEPT !.out[i] = "running"] \in BatchLocals(Size)
    BY DEF Outputs, Unsettled, Inflight, BatchLocals
  <2>3. [batch EXCEPT !.out[i] = "running", !.late = Noted(@, i)] =
          [[batch EXCEPT !.out[i] = "running"] EXCEPT !.late = Noted(batch.late, i)]
    BY DEF BatchLocals
  <2> QED BY <2>1, <2>2, <2>3 DEF BatchLocals
<1>3. Launch(i) \in BatchLocals(Size)
  BY <1>1, <1>2 DEF Launch
<1> QED BY <1>1, <1>2, <1>3, <1>4

\* so does one the user approved,
LEMMA ApprovedType ==
  ASSUME batch \in BatchLocals(Size), NEW i \in 1..Size
  PROVE  [Admitted(i) EXCEPT !.approved = @ \cup {i}] \in BatchLocals(Size)
<1>1. Admitted(i) \in BatchLocals(Size)
  BY LaunchedType
<1>2. Admitted(i).approved \cup {i} \in SUBSET (1..Size)
  BY <1>1 DEF BatchLocals
<1> QED BY <1>1, <1>2 DEF BatchLocals

\* so does a decision on a call of the batch,
LEMMA CheckedType ==
  ASSUME batch \in BatchLocals(Size), NEW i \in 1..Size, NEW v \in AllVerdicts
  PROVE  /\ Checked(i, v) \in BatchLocals(Size)
         /\ [Checked(i, v) EXCEPT !.end = @ + 1] \in BatchLocals(Size)
         /\ [Checked(i, v) EXCEPT !.pending = v] \in BatchLocals(Size)
<1>1. /\ batch.decision \in [1..Size -> AllVerdicts \cup {"none"}]
      /\ batch.checks \in [1..Size -> Nat]
  BY DEF BatchLocals
<1>2. [batch.decision EXCEPT ![i] = v] \in [1..Size -> AllVerdicts \cup {"none"}]
  BY <1>1
<1>3. [batch.checks EXCEPT ![i] = batch.checks[i] + 1] \in [1..Size -> Nat]
  <2>1. batch.checks[i] \in Nat
    BY <1>1
  <2>2. batch.checks[i] + 1 \in Nat
    BY <2>1
  <2> QED BY <1>1, <2>2
<1>4. Checked(i, v) = [batch EXCEPT !.decision = [batch.decision EXCEPT ![i] = v],
                         !.checks = [batch.checks EXCEPT ![i] = batch.checks[i] + 1]]
  BY DEF Checked
<1>5. Checked(i, v) \in BatchLocals(Size)
  BY <1>2, <1>3, <1>4 DEF BatchLocals
<1>6. ASSUME NEW b \in BatchLocals(Size)
      PROVE  [b EXCEPT !.end = b.end + 1] \in BatchLocals(Size)
  <2>1. b.end + 1 \in Nat \ {0}
    BY DEF BatchLocals
  <2> QED BY <2>1 DEF BatchLocals
<1>7. ASSUME NEW b \in BatchLocals(Size)
      PROVE  [b EXCEPT !.pending = v] \in BatchLocals(Size)
  BY DEF BatchLocals
<1> QED BY <1>5, <1>6, <1>7

\* and taking the current call's.
LEMMA TakeType ==
  ASSUME batch \in BatchLocals(Size), Left # {}, NEW v \in AllVerdicts
  PROVE  Take(v) \in BatchLocals(Size)
<1>1. Current \in 1..Size /\ Current \in Nat \ {0}
  BY CurrentIsLeast DEF Left
<1>2. Checked(Current, v) \in BatchLocals(Size)
  BY <1>1, CheckedType
<1>3. ASSUME NEW b \in BatchLocals(Size)
      PROVE  [b EXCEPT !.pending = "none", !.verdict = v, !.end = Current + 1]
                \in BatchLocals(Size)
  <2>1. Current + 1 \in Nat \ {0}
    BY <1>1
  <2> QED BY <2>1 DEF BatchLocals
<1> QED BY <1>2, <1>3 DEF Take

\* Every step keeps the batch's locals as many as its calls.
LEMMA NextBatchType ==
  ASSUME TypeOK, CallAtHand, Next PROVE BatchType'
<1> USE DEF TypeOK, InBatch, response
<1>0. Size \in Nat /\ Verdicts \subseteq AllVerdicts
  BY LenProperties, TurnAssumption DEF ResponseType, Size
<1>1. pc \in BatchPhases => batch \in BatchLocals(Size)
  BY DEF BatchType
<1>2. Left # {} => Current \in 1..Size
  BY CurrentIsLeast DEF Left
<1>3. {"interrupted", "skipped", "denied", "ok", "failed"} \subseteq Outputs
  BY DEF Outputs, NotRun
<1>4. ASSUME UNCHANGED batch, pc \notin BatchPhases, pc' \notin BatchPhases
      PROVE  BatchType'
  BY <1>4 DEF BatchType
<1>5. ASSUME pc \in BatchPhases, UNCHANGED calls, pc' \in BatchPhases,
             batch' \in BatchLocals(Size)
      PROVE  BatchType'
  BY <1>5 DEF BatchType, Size
<1>6. CASE StreamDoneWithCalls
  BY <1>0, <1>6, FreshBatchType DEF StreamDoneWithCalls, BatchType, BatchPhases, Goto, Size
<1>7. CASE CollectBatch
  BY <1>7, FreshBatchType DEF CollectBatch, BatchType, BatchPhases, Goto, Finish, NoBatch
<1>8. CASE TypeSteering \/ Cancel
  BY <1>1, <1>4, <1>5, <1>8 DEF TypeSteering, Cancel
<1>9. CASE SubmitPrompt \/ SubmitCancelled \/ Reload \/ CompactCommand
  BY <1>4, <1>9 DEF SubmitPrompt, SubmitCancelled, Reload, CompactCommand, BatchPhases, Finish
<1>10. CASE UserAllows \/ UserDenies \/ UserDeniesWithMessage \/ PromptCancelled
  <2>1. pc = "asking" /\ Current \in 1..Size
    BY <1>2, <1>10 DEF UserAllows, UserDenies, UserDeniesWithMessage, PromptCancelled, CallAtHand
  <2>2. batch' \in BatchLocals(Size)
    <3>1. [batch EXCEPT !.out[Current] = "denied"] \in BatchLocals(Size)
      BY <1>1, <1>3, <2>1, SettledType DEF BatchPhases
    <3>2. [Admitted(Current) EXCEPT !.approved = @ \cup {Current}] \in BatchLocals(Size)
      BY <1>1, <2>1, ApprovedType DEF BatchPhases
    <3> QED BY <1>10, <3>1, <3>2
        DEF UserAllows, UserDenies, UserDeniesWithMessage, PromptCancelled
  <2> QED BY <1>5, <1>10, <2>1, <2>2 DEF UserAllows, UserDenies, UserDeniesWithMessage, PromptCancelled, BatchPhases
<1>11. CASE Loop \/ Drain
  BY <1>4, <1>11, AfterCompactionInPCs
     DEF Loop, BeginRound, BelowThreshold, CompactSucceeds, CompactFails, RetryWaitEnds,
         Drain, CompactionPoints, AfterCompaction, BatchPhases, Goto, Finish
<1>12. CASE Response /\ ~StreamDoneWithCalls
  BY <1>4, <1>12, RecoverTo, TurnAssumption
     DEF Response, RequestFails, RequestAccepted, StreamToolUse, StreamUsage, StreamCloses,
         StreamFails, StreamInterrupted, StreamDone, BatchPhases, Goto, Finish
<1>13. CASE Batch /\ ~CollectBatch /\ ~PromptCancelled
  <2>0. pc \in BatchPhases /\ pc' \in BatchPhases /\ UNCHANGED calls
    BY <1>13 DEF Batch, MarkUnrun, Decide, GrowGroup, CloseGroup, LaunchMember, ToolStarts, MemberEnds,
         GroupEnds, ActOnVerdict, ExclusiveEnds, SchemasChange, BatchPhases
  <2> SUFFICES batch' \in BatchLocals(Size)
    BY <1>5, <2>0
  <2>1. CASE MarkUnrun
    BY <1>1, <1>2, <2>0, <2>1, LaunchedType DEF MarkUnrun
  <2>2. CASE Decide
    BY <1>0, <1>1, <2>0, <2>2, TakeType DEF Decide
  <2>3. CASE GrowGroup
    <3>1. batch.end \in 1..Size
      BY <1>1, <2>0, <2>3 DEF BatchLocals, GrowGroup, GroupMayGrow
    <3> QED BY <1>0, <1>1, <2>0, <2>3, <3>1, CheckedType DEF GrowGroup
  <2>4. CASE CloseGroup \/ GroupEnds
    BY <1>1, <2>0, <2>4 DEF CloseGroup, GroupEnds
  <2>5. CASE LaunchMember
    <3>1. PICK i \in 1..Size : batch' = Launch(i)
      BY <2>5 DEF LaunchMember
    <3> QED BY <1>1, <2>0, <3>1, LaunchedType
  <2>9. CASE ToolStarts
    <3>1. PICK i \in 1..Size :
             batch' = [batch EXCEPT !.out[i] = "running", !.late = Noted(@, i)]
      BY <2>9 DEF ToolStarts
    <3> QED BY <1>1, <2>0, <3>1, LaunchedType
  <2>6. CASE MemberEnds
    <3>1. PICK i \in 1..Size, how \in {"ok", "failed"} :
             batch' = [batch EXCEPT !.out[i] = how]
      BY <2>6 DEF MemberEnds
    <3> QED BY <1>1, <1>3, <2>0, <3>1, SettledType
  <2>7. CASE ActOnVerdict
    <3>1. Current \in 1..Size
      BY <1>2, <2>7 DEF ActOnVerdict, CallAtHand
    <3>2. Admitted(Current) \in BatchLocals(Size)
      BY <1>1, <2>0, <3>1, LaunchedType
    <3>3. [batch EXCEPT !.out[Current] = "denied"] \in BatchLocals(Size)
      BY <1>1, <1>3, <2>0, <3>1, SettledType
    <3> QED BY <1>1, <2>0, <2>7, <3>2, <3>3 DEF ActOnVerdict
  <2>8. CASE ExclusiveEnds \/ SchemasChange
    <3>1. PICK how \in {"ok", "failed"} : batch' = [batch EXCEPT !.out[Current] = how]
      BY <2>8 DEF ExclusiveEnds, SchemasChange
    <3>2. Current \in Nat
      BY <1>2, <2>8 DEF ExclusiveEnds, SchemasChange, CallAtHand
    <3> QED BY <1>1, <1>3, <2>0, <3>1, <3>2, SettledType
  <2> QED BY <1>13, <2>1, <2>2, <2>3, <2>4, <2>5, <2>6, <2>7, <2>8, <2>9 DEF Batch
<1> QED
  BY <1>6, <1>7, <1>8, <1>9, <1>10, <1>11, <1>12, <1>13 DEF Next, User, Engine, Batch, Response

-----------------------------------------------------------------------------
(* The invariant of the batch is inductive.                                *)

\* A new engine runs no batch.
LEMMA InitBatchInv == Init => BatchInv
BY DEF Init, BatchInv, CallAtHand, SettledInOrder, GroupIsInterval, DecisionsInOrder,
       PermissionIsForTheCall, BatchPhases, NoBatch, FreshBatch

\* A step that neither enters nor leaves a batch has nothing to show.
LEMMA OutsideBatch ==
  ASSUME BatchInv, pc \notin BatchPhases, pc' \notin BatchPhases, UNCHANGED batch
  PROVE  BatchInv'
BY DEF BatchInv, CallAtHand, SettledInOrder, GroupIsInterval, DecisionsInOrder,
       PermissionIsForTheCall, BatchPhases

\* Nor has one that only the user takes: the user's word stays.
LEMMA UserSpeaks ==
  ASSUME BatchInv, UNCHANGED <<batch, calls, pc>>, Stopped => Stopped'
  PROVE  BatchInv'
<1>1. Size' = Size /\ Left' = Left
  BY DEF Size, Left
<1>2. Current' = Current
  BY <1>1 DEF Current
<1>3. (CallAtHand /\ SettledInOrder)'
  BY <1>1, <1>2 DEF BatchInv, CallAtHand, SettledInOrder
<1>4. GroupIsInterval'
  BY <1>1, <1>2 DEF BatchInv, GroupIsInterval, ReadOnly
<1>5. DecisionsInOrder'
  BY <1>1, <1>2 DEF BatchInv, DecisionsInOrder, DecidedOfLeft
<1>6. PermissionIsForTheCall'
  BY <1>1 DEF BatchInv, PermissionIsForTheCall
<1> QED BY <1>3, <1>4, <1>5, <1>6 DEF BatchInv

\* A batch begins with nothing decided and nothing started.
LEMMA BatchBegins ==
  ASSUME TypeOK, StreamDoneWithCalls PROVE BatchInv'
<1>1. pc' = "batch" /\ batch' = FreshBatch(Size) /\ Size' = Size /\ Size \in Nat
  BY LenProperties DEF StreamDoneWithCalls, Goto, response, Size, TypeOK, ResponseType
<1>2. /\ batch'.pending = "none"
      /\ \A i \in 1..Size : /\ batch'.out[i] = "waiting"
                            /\ batch'.decision[i] = "none"
                            /\ batch'.checks[i] = 0
  BY <1>1 DEF FreshBatch
<1>3. (CallAtHand /\ SettledInOrder)'
  BY <1>1, <1>2 DEF CallAtHand, SettledInOrder, BatchPhases, Inflight
<1>4. GroupIsInterval'
  BY <1>1 DEF GroupIsInterval
<1>5. DecisionsInOrder'
  BY <1>1, <1>2 DEF DecisionsInOrder, DecidedOfLeft, Left
<1>6. PermissionIsForTheCall'
  BY <1>1, <1>2 DEF PermissionIsForTheCall, BatchPhases, Inflight
<1> QED BY <1>3, <1>4, <1>5, <1>6 DEF BatchInv

\* A batch ends with its locals dropped.
LEMMA BatchIsCollected ==
  ASSUME CollectBatch PROVE BatchInv'
BY DEF CollectBatch, Goto, Finish, NoBatch, FreshBatch,
       BatchInv, CallAtHand, SettledInOrder, GroupIsInterval, DecisionsInOrder,
       PermissionIsForTheCall, BatchPhases

\* While a batch runs, its locals have these types.
LEMMA BatchFacts ==
  ASSUME TypeOK, pc \in BatchPhases
  PROVE  /\ Size \in Nat /\ batch \in BatchLocals(Size)
         /\ batch.out \in [1..Size -> Outputs]
         /\ batch.decision \in [1..Size -> AllVerdicts \cup {"none"}]
         /\ batch.checks \in [1..Size -> Nat]
         /\ batch.pending \in AllVerdicts \cup {"none"}
         /\ batch.end \in Nat \ {0}
         /\ batch.unheeding \in SUBSET (1..Size) /\ batch.late \in SUBSET (1..Size)
         /\ Left \subseteq 1..Size
<1>1. Size \in Nat /\ batch \in BatchLocals(Size)
  BY LenProperties DEF TypeOK, ResponseType, BatchType, Size
<1> QED BY <1>1 DEF BatchLocals, Left

\* The engine leaves the call at hand settled behind it.
LEMMA CallSettles ==
  ASSUME TypeOK, BatchInv, Left # {}, UNCHANGED calls,
         pc \in {"batch", "decided", "asking", "exclusive"}, pc' = "batch",
         NEW how \in NotRun \cup {"ok", "failed"},
         batch' = [batch EXCEPT !.out[Current] = how],
         Stopped => Stopped', pc = "batch" => Stopped,
         how = "denied" => batch.decision[Current] \in {"ask", "deny"},
         how \in {"ok", "failed"} => batch.out[Current] \in Inflight
  PROVE  BatchInv'
<1> DEFINE c == Current
<1>1. c \in Left /\ \A j \in Left : c <= j
  BY CurrentIsLeast
<1>2. pc \in BatchPhases
  BY DEF BatchPhases
<1>3. /\ batch'.out = [batch.out EXCEPT ![c] = how]
      /\ batch'.decision = batch.decision /\ batch'.checks = batch.checks
      /\ batch'.pending = batch.pending
      /\ batch'.approved = batch.approved
  BY <1>2, BatchFacts DEF BatchLocals
<1> HIDE DEF c
<1>4. Size' = Size /\ Left' = Left \ {c} /\ c \in 1..Size /\ Left \subseteq 1..Size
  BY <1>1, <1>2, <1>3, BatchFacts DEF Left, Size, NotRun, Unsettled, Inflight
<1>5. \A i \in 1..Size : i # c => batch'.out[i] = batch.out[i]
  BY <1>2, <1>3, BatchFacts
<1>6. batch'.out[c] = how /\ how \notin Unsettled
  BY <1>2, <1>3, <1>4, BatchFacts DEF NotRun, Unsettled, Inflight
<1>7. (CallAtHand /\ SettledInOrder)'
  <2>1. CallAtHand'
    BY DEF CallAtHand
  <2>2. \A i \in Left, j \in 1..Size : i < j => batch.out[j] = "waiting"
    BY <1>2 DEF BatchInv, SettledInOrder
  <2>3. ASSUME NEW i \in Left', NEW j \in 1..Size, i < j PROVE batch'.out[j] = "waiting"
    BY <1>1, <1>4, <1>5, <2>2, <2>3
  <2>4. ASSUME NEW i \in 1..Size PROVE batch'.out[i] \notin Inflight
    <3>1. CASE i = c
      BY <1>6, <3>1 DEF Unsettled, Inflight
    <3>2. CASE i # c /\ i \in Left
      BY <1>1, <1>4, <1>5, <2>2, <3>2 DEF Inflight
    <3>3. CASE i \notin Left /\ i # c
      BY <1>5, <3>3 DEF Left, Unsettled, Inflight
    <3> QED BY <3>1, <3>2, <3>3
  <2> QED BY <1>4, <2>1, <2>3, <2>4 DEF SettledInOrder
<1>8. GroupIsInterval'
  BY DEF GroupIsInterval
<1>9. DecisionsInOrder'
  <2>1. \A i \in 1..Size :
          batch.checks[i] = (IF batch.decision[i] = "none" THEN 0 ELSE 1)
    BY <1>2 DEF BatchInv, DecisionsInOrder
  <2>2. ASSUME ~Stopped' PROVE batch.pending = "none" /\ \A i \in Left : i # c => batch.decision[i] = "none"
    BY <1>2, <2>2 DEF BatchInv, DecisionsInOrder, DecidedOfLeft, c
  <2>3. ASSUME ~Stopped', NEW i \in Left' PROVE batch'.decision[i] = DecidedOfLeft(i)'
    BY <1>3, <1>4, <2>2, <2>3 DEF DecidedOfLeft
  <2> QED BY <1>3, <1>4, <2>1, <2>3 DEF DecisionsInOrder
<1>10. PermissionIsForTheCall'
  BY <1>2, <1>3, <1>4, <1>5, <1>6 DEF BatchInv, PermissionIsForTheCall, c, NotRun, Inflight, Unsettled
<1> QED BY <1>7, <1>8, <1>9, <1>10 DEF BatchInv

\* The call at hand starts, by the checker's verdict or by the user's.
LEMMA CallStarts ==
  ASSUME TypeOK, BatchInv, UNCHANGED calls, pc \in {"decided", "asking"},
         pc' = "exclusive", Stopped => Stopped',
         NEW approved \in SUBSET (1..Size), batch.approved \subseteq approved,
         batch' = [Admitted(Current) EXCEPT !.approved = approved],
         \/ batch.decision[Current] = "allow"
         \/ batch.decision[Current] = "ask" /\ Interactive /\ Current \in approved
  PROVE  BatchInv'
<1> DEFINE c == Current
<1>1. Left # {} /\ c \in Left /\ \A j \in Left : c <= j
  BY CurrentIsLeast DEF BatchInv, CallAtHand
<1>2. pc \in BatchPhases
  BY DEF BatchPhases
<1>3. /\ batch'.out = [batch.out EXCEPT ![c] = "admitted"]
      /\ batch'.decision = batch.decision /\ batch'.checks = batch.checks
      /\ batch'.pending = batch.pending /\ batch'.approved = approved
  BY <1>2, BatchFacts DEF BatchLocals, Admitted
<1> HIDE DEF c
<1>4. Size' = Size /\ Left' = Left /\ c \in 1..Size /\ Left \subseteq 1..Size
  <2>1. Size' = Size /\ c \in 1..Size /\ Left \subseteq 1..Size
    BY <1>1, <1>2, BatchFacts DEF Size
  <2>2. \A i \in 1..Size : batch'.out[i] = IF i = c THEN "admitted" ELSE batch.out[i]
    BY <1>2, <1>3, <2>1, BatchFacts
  <2>3. \A i \in 1..Size : batch'.out[i] \in Unsettled <=> batch.out[i] \in Unsettled
    BY <1>1, <2>2 DEF Left, Unsettled, Inflight
  <2> QED BY <2>1, <2>3 DEF Left
<1>5. \A i \in 1..Size : i # c => batch'.out[i] = batch.out[i]
  BY <1>2, <1>3, BatchFacts
<1>6. batch'.out[c] = "admitted"
  BY <1>2, <1>3, <1>4, BatchFacts
<1>7. Current' = c
  BY <1>4 DEF Current, c
<1>8. (CallAtHand /\ SettledInOrder)'
  <2>1. \A i \in Left, j \in 1..Size : i < j => batch.out[j] = "waiting"
    BY <1>2 DEF BatchInv, SettledInOrder
  <2>2. ASSUME NEW i \in Left', NEW j \in 1..Size, i < j PROVE batch'.out[j] = "waiting"
    BY <1>1, <1>4, <1>5, <2>1, <2>2
  <2> QED BY <1>1, <1>4, <1>6, <1>7, <2>2 DEF SettledInOrder, CallAtHand, Inflight
<1>9. GroupIsInterval'
  BY DEF GroupIsInterval
<1>10. DecisionsInOrder'
  BY <1>2, <1>3, <1>4, <1>7 DEF BatchInv, DecisionsInOrder, DecidedOfLeft, c
<1>11. PermissionIsForTheCall'
  BY <1>2, <1>3, <1>4, <1>5, <1>6 DEF BatchInv, PermissionIsForTheCall, c
<1> QED BY <1>8, <1>9, <1>10, <1>11 DEF BatchInv

\* The permission prompt opens on the call at hand.
LEMMA UserIsAsked ==
  ASSUME TypeOK, BatchInv, UNCHANGED <<calls, batch, cancelled, steering>>, pc = "decided",
         pc' = "asking", batch.verdict = "ask", Interactive
  PROVE  BatchInv'
<1>1. Size' = Size /\ Left' = Left
  BY DEF Size, Left
<1>2. Current' = Current /\ Stopped' = Stopped
  BY <1>1 DEF Current, Stopped
<1>3. (CallAtHand /\ SettledInOrder /\ GroupIsInterval)'
  BY <1>1 DEF BatchInv, CallAtHand, SettledInOrder, GroupIsInterval, BatchPhases
<1>4. DecisionsInOrder'
  BY <1>1, <1>2 DEF BatchInv, DecisionsInOrder, DecidedOfLeft, BatchPhases
<1>5. PermissionIsForTheCall'
  BY <1>1, <1>2 DEF BatchInv, PermissionIsForTheCall, BatchPhases
<1> QED BY <1>3, <1>4, <1>5 DEF BatchInv

\* The decision that is taken is the one of the call at hand.
LEMMA CallIsDecided ==
  ASSUME TypeOK, BatchInv, Decide PROVE BatchInv'
<1> DEFINE c == Current
<1>1. Left # {} /\ c \in Left /\ \A j \in Left : c <= j
  BY CurrentIsLeast DEF Decide
<1>2. pc = "batch" /\ pc \in BatchPhases /\ ~Stopped /\ Stopped' = Stopped /\ calls' = calls
  BY DEF BatchPhases, Decide, InBatch, typing, response, Stopped
<1>3. PICK v \in Verdicts :
         /\ batch.pending \in {"none", v} /\ batch' = Take(v)
         /\ pc' = IF ReadOnly(c) /\ v = "allow" THEN "grouping" ELSE "decided"
  BY DEF Decide
<1>4. /\ batch'.out = batch.out /\ batch'.approved = batch.approved
      /\ batch'.pending = "none" /\ batch'.verdict = v /\ batch'.end = c + 1
      /\ batch'.decision = IF batch.pending = "none" THEN [batch.decision EXCEPT ![c] = v] ELSE batch.decision
      /\ batch'.checks = IF batch.pending = "none" THEN [batch.checks EXCEPT ![c] = @ + 1] ELSE batch.checks
  BY <1>2, <1>3, BatchFacts DEF BatchLocals, Take, Checked
<1>5. v \in AllVerdicts
  BY TurnAssumption
<1> HIDE DEF c
<1>6. Size' = Size /\ Left' = Left /\ c \in 1..Size /\ Left \subseteq 1..Size /\ Size \in Nat
  BY <1>1, <1>2, <1>4, BatchFacts DEF Left, Size
<1>7. Current' = c
  BY <1>6 DEF Current, c
<1>8. /\ batch'.decision[c] = v /\ batch'.checks[c] = 1 /\ v # "none"
      /\ \A i \in 1..Size : i # c => /\ batch'.decision[i] = batch.decision[i]
                                     /\ batch'.checks[i] = batch.checks[i]
  BY <1>1, <1>2, <1>3, <1>4, <1>5, <1>6, BatchFacts DEF BatchInv, DecisionsInOrder, DecidedOfLeft, c, AllVerdicts
<1>9. \A i \in Left : i # c => batch.decision[i] = "none"
  BY <1>2 DEF BatchInv, DecisionsInOrder, DecidedOfLeft, c
<1>10. \A i \in Left, j \in 1..Size : i < j => batch.out[j] = "waiting"
  BY <1>2 DEF BatchInv, SettledInOrder
<1>11. \A i \in 1..Size : batch.out[i] \notin Inflight
  BY <1>2 DEF BatchInv, SettledInOrder
<1>12. (CallAtHand /\ SettledInOrder)'
  BY <1>1, <1>3, <1>4, <1>6, <1>10, <1>11 DEF SettledInOrder, CallAtHand
<1>13. GroupIsInterval'
  <2> SUFFICES ASSUME pc' = "grouping" PROVE GroupIsInterval'
    BY <1>3 DEF GroupIsInterval
  <2>1. batch'.end \in 1..(Size' + 1) /\ c \in 1..batch'.end
    BY <1>4, <1>6
  <2>2. \A i \in batch'.end..Size' : batch'.out[i] = "waiting"
    BY <1>1, <1>4, <1>6, <1>10
  <2>3. batch'.end - c <= MaxParallel
    BY <1>4, <1>6, TurnAssumption
  <2>4. ASSUME NEW i \in 1..Size
        PROVE  /\ i < c => batch'.out[i] \notin Unsettled
               /\ c <= i /\ i < batch'.end => ReadOnly(i)'
    <3>1. i < c => i \notin Left
      BY <1>1, <1>6
    <3>2. c <= i /\ i < batch'.end => i = c
      BY <1>4, <1>6
    <3>3. ReadOnly(c)
      BY <1>3
    <3> QED BY <1>2, <1>4, <3>1, <3>2, <3>3 DEF Left, ReadOnly
  <2>5. c < batch'.end
    BY <1>4, <1>6
  <2> QED BY <1>6, <1>7, <2>1, <2>2, <2>3, <2>4, <2>5 DEF GroupIsInterval
<1>14. DecisionsInOrder'
  <2>1. \A i \in 1..Size :
          batch'.checks[i] = (IF batch'.decision[i] = "none" THEN 0 ELSE 1)
    BY <1>2, <1>8 DEF BatchInv, DecisionsInOrder
  <2>2. ASSUME NEW i \in Left PROVE batch'.decision[i] = DecidedOfLeft(i)'
    <3>1. CASE i = c
      BY <1>3, <1>4, <1>6, <1>7, <1>8, <3>1 DEF DecidedOfLeft
    <3>2. CASE i # c
      <4>1. batch'.decision[i] = "none" /\ ~(i < batch'.end)
        BY <1>1, <1>4, <1>6, <1>8, <1>9, <3>2
      <4> QED BY <1>3, <1>7, <3>2, <4>1 DEF DecidedOfLeft
    <3> QED BY <3>1, <3>2
  <2> QED BY <1>3, <1>4, <1>6, <1>8, <2>1, <2>2 DEF DecisionsInOrder
<1>15. PermissionIsForTheCall'
  <2>1. batch.out[c] \in Unsettled /\ batch.out[c] \notin Inflight
    BY <1>1, <1>6, <1>11 DEF Left
  <2> QED BY <1>2, <1>4, <1>6, <1>8, <2>1 DEF BatchInv, PermissionIsForTheCall, Unsettled, Inflight
<1> QED BY <1>12, <1>13, <1>14, <1>15 DEF BatchInv

\* The next call joins the group, or ends it and keeps its decision.
LEMMA GroupGrows ==
  ASSUME TypeOK, BatchInv, GrowGroup PROVE BatchInv'
<1> DEFINE n == batch.end
<1>1. /\ pc = "grouping" /\ pc \in BatchPhases /\ Stopped' = Stopped /\ calls' = calls
      /\ n <= Size /\ n - Current < MaxParallel /\ ReadOnly(n) /\ ~Stopped
  BY DEF BatchPhases, GrowGroup, GroupMayGrow, InBatch, typing, response, Stopped
<1>2. PICK v \in Verdicts :
         IF v = "allow"
         THEN batch' = [Checked(n, v) EXCEPT !.end = @ + 1] /\ UNCHANGED pc
         ELSE batch' = [Checked(n, v) EXCEPT !.pending = v] /\ pc' = "launch"
  BY DEF GrowGroup
<1>3. v \in AllVerdicts /\ MaxParallel \in Nat \ {0}
  BY TurnAssumption
<1>4. /\ batch'.out = batch.out /\ batch'.approved = batch.approved
      /\ batch'.pending = IF v = "allow" THEN batch.pending ELSE v
      /\ batch'.end = IF v = "allow" THEN n + 1 ELSE n
      /\ batch'.decision = [batch.decision EXCEPT ![n] = v]
      /\ batch'.checks = [batch.checks EXCEPT ![n] = @ + 1]
  BY <1>1, <1>2, BatchFacts DEF BatchLocals, Checked
<1>5. Left # {} /\ Current \in Left /\ Current \in 1..Size
  BY <1>1, CurrentIsLeast DEF BatchInv, CallAtHand, Left
<1>6. Size' = Size /\ Left' = Left /\ n \in 1..Size /\ Size \in Nat /\ Left \subseteq 1..Size
  BY <1>1, <1>4, BatchFacts DEF Left, Size
<1>7. Current' = Current
  BY <1>6 DEF Current
<1> HIDE DEF n
<1>8. batch.pending = "none" /\ n \in Left /\ Current < n
  <2>1. \A i \in n..Size : batch.out[i] = "waiting"
    BY <1>1 DEF BatchInv, GroupIsInterval, n
  <2> QED BY <1>1, <1>6, <2>1 DEF BatchInv, DecisionsInOrder, GroupIsInterval, Left, Unsettled, Inflight, n
<1>9. batch.decision[n] = "none" /\ batch.checks[n] = 0
  BY <1>1, <1>6, <1>8 DEF BatchInv, DecisionsInOrder, DecidedOfLeft, n
<1>10. /\ batch'.decision[n] = v /\ batch'.checks[n] = 1 /\ v # "none"
       /\ \A i \in 1..Size : i # n => /\ batch'.decision[i] = batch.decision[i]
                                      /\ batch'.checks[i] = batch.checks[i]
  BY <1>1, <1>3, <1>4, <1>6, <1>9, BatchFacts DEF AllVerdicts
<1>11. (CallAtHand /\ SettledInOrder)'
  BY <1>1, <1>2, <1>4, <1>6 DEF BatchInv, CallAtHand, SettledInOrder, BatchPhases
<1>12. GroupIsInterval'
  <2> DEFINE s == Current
  <2>1. /\ \A i \in n..Size : batch.out[i] = "waiting"
        /\ \A i \in 1..Size : /\ i < s => batch.out[i] \notin Unsettled
                              /\ s <= i /\ i < n => ReadOnly(i)
        /\ n - s <= MaxParallel
    BY <1>1 DEF BatchInv, GroupIsInterval, n
  <2>2. s \in Nat
    BY <1>5
  <2> HIDE DEF s
  <2>3. \A i \in 1..Size : ReadOnly(i)' = ReadOnly(i)
    BY <1>1 DEF ReadOnly
  <2>4. batch'.end \in 1..(Size + 1) /\ batch'.end >= n /\ s < batch'.end
    BY <1>4, <1>6, <1>8, <2>2 DEF s
  <2>5. batch'.end - s <= MaxParallel
    BY <1>1, <1>3, <1>4, <1>6, <2>1, <2>2 DEF n, s
  <2>6. \A i \in batch'.end..Size : batch'.out[i] = "waiting"
    BY <1>4, <1>6, <2>1, <2>4
  <2>7. \A i \in 1..Size : i < batch'.end => i < n \/ i = n
    BY <1>4, <1>6
  <2>8. ASSUME NEW i \in 1..Size
        PROVE  /\ i < s => batch'.out[i] \notin Unsettled
               /\ s <= i /\ i < batch'.end => ReadOnly(i)'
    BY <1>1, <1>4, <2>1, <2>3, <2>7 DEF n
  <2>9. s = Current' /\ s \in 1..batch'.end
    BY <1>5, <1>6, <1>7, <2>4 DEF s
  <2> QED BY <1>6, <2>4, <2>5, <2>6, <2>8, <2>9 DEF GroupIsInterval
<1>13. DecisionsInOrder'
  <2>1. \A i \in 1..Size :
          batch'.checks[i] = (IF batch'.decision[i] = "none" THEN 0 ELSE 1)
    BY <1>1, <1>10 DEF BatchInv, DecisionsInOrder
  <2>2. \A i \in Left : batch.decision[i] = IF i < n THEN "allow" ELSE "none"
    BY <1>1 DEF BatchInv, DecisionsInOrder, DecidedOfLeft, n
  <2>3. ASSUME NEW i \in Left PROVE batch'.decision[i] = DecidedOfLeft(i)'
    <3>1. CASE i = n
      BY <1>1, <1>2, <1>4, <1>6, <1>10, <3>1 DEF DecidedOfLeft
    <3>2. CASE i # n
      <4>1. batch'.decision[i] = (IF i < n THEN "allow" ELSE "none")
        BY <1>6, <1>10, <2>2, <3>2
      <4>2. i < batch'.end <=> i < n
        BY <1>4, <1>6, <3>2
      <4>3. ~(i < n) => i # batch'.end \/ batch'.pending = "none"
        BY <1>4, <1>6, <1>8, <3>2
      <4> QED BY <1>1, <1>2, <3>2, <4>1, <4>2, <4>3 DEF DecidedOfLeft
    <3> QED BY <3>1, <3>2
  <2> QED BY <1>1, <1>2, <1>4, <1>6, <1>8, <2>1, <2>3 DEF DecisionsInOrder
<1>14. PermissionIsForTheCall'
  <2>1. batch.out[n] = "waiting"
    BY <1>1, <1>6 DEF BatchInv, GroupIsInterval, n
  <2> QED BY <1>1, <1>4, <1>6, <1>10, <2>1 DEF BatchInv, PermissionIsForTheCall, Inflight
<1> QED BY <1>11, <1>12, <1>13, <1>14 DEF BatchInv

\* The group is complete without a decision to keep.
LEMMA GroupIsClosed ==
  ASSUME TypeOK, BatchInv, CloseGroup PROVE BatchInv'
<1>1. pc = "grouping" /\ pc' = "launch" /\ UNCHANGED <<batch, calls>> /\ Stopped' = Stopped
  BY DEF CloseGroup, InBatch, typing, response, Stopped
<1>2. Size' = Size /\ Left' = Left
  BY <1>1 DEF Size, Left
<1>3. (CallAtHand /\ SettledInOrder)'
  BY <1>1 DEF BatchInv, CallAtHand, SettledInOrder, BatchPhases
<1>4. GroupIsInterval'
  BY <1>1, <1>2 DEF BatchInv, GroupIsInterval, ReadOnly
<1>5. DecisionsInOrder'
  BY <1>1, <1>2 DEF BatchInv, DecisionsInOrder, DecidedOfLeft, BatchPhases
<1>6. PermissionIsForTheCall'
  BY <1>1, <1>2 DEF BatchInv, PermissionIsForTheCall, BatchPhases
<1> QED BY <1>3, <1>4, <1>5, <1>6 DEF BatchInv

\* A member of the group starts, is left out, or ends.
LEMMA MemberMoves ==
  ASSUME TypeOK, BatchInv, UNCHANGED calls, pc = "launch", pc' = "launch", Stopped = Stopped',
         NEW i \in 1..Size, i < batch.end, i \in Left,
         NEW how \in {"admitted", "running", "interrupted", "skipped", "ok", "failed"},
         batch'.out = [batch.out EXCEPT ![i] = how],
         batch'.decision = batch.decision, batch'.checks = batch.checks,
         batch'.pending = batch.pending, batch'.approved = batch.approved,
         batch'.end = batch.end
  PROVE  BatchInv'
<1>1. pc \in BatchPhases
  BY DEF BatchPhases
<1>3. \A j \in 1..Size : batch'.out[j] = IF j = i THEN how ELSE batch.out[j]
  BY <1>1, BatchFacts
<1>4. Size' = Size /\ Left' \subseteq Left /\ Left \subseteq 1..Size /\ Size \in Nat
  BY <1>1, <1>3, BatchFacts DEF Left, Size
<1>5. (CallAtHand /\ SettledInOrder)'
  BY DEF CallAtHand, SettledInOrder
<1>6. GroupIsInterval'
  <2>1. batch.end \in 1..(Size + 1) /\ \A j \in batch.end..Size : batch.out[j] = "waiting"
    BY DEF BatchInv, GroupIsInterval
  <2>2. PICK s \in 1..batch.end :
          /\ batch.end - s <= MaxParallel
          /\ \A j \in 1..Size : /\ j < s => batch.out[j] \notin Unsettled
                                /\ s <= j /\ j < batch.end => ReadOnly(j)
    BY DEF BatchInv, GroupIsInterval
  <2>3. \A j \in batch.end..Size : batch'.out[j] = "waiting"
    BY <1>3, <1>4, <2>1
  <2>4. ASSUME NEW j \in 1..Size PROVE j < s => batch'.out[j] \notin Unsettled
    BY <1>3, <2>2 DEF Left
  <2>5. \A j \in 1..Size : ReadOnly(j)' = ReadOnly(j)
    BY DEF ReadOnly
  <2> QED BY <1>4, <2>1, <2>2, <2>3, <2>4, <2>5 DEF GroupIsInterval
<1>7. DecisionsInOrder'
  BY <1>1, <1>4 DEF BatchInv, DecisionsInOrder, DecidedOfLeft
<1>8. PermissionIsForTheCall'
  <2>1. batch.decision[i] = "allow"
    BY <1>1 DEF BatchInv, DecisionsInOrder, DecidedOfLeft
  <2> QED BY <1>1, <1>3, <1>4, <2>1 DEF BatchInv, PermissionIsForTheCall
<1> QED BY <1>5, <1>6, <1>7, <1>8 DEF BatchInv

\* join_all polls the next member for the first time.
LEMMA MemberIsLaunched ==
  ASSUME TypeOK, BatchInv, LaunchMember PROVE BatchInv'
<1>1. /\ pc = "launch" /\ pc' = "launch" /\ pc \in BatchPhases
      /\ Stopped' = Stopped /\ UNCHANGED calls
  BY DEF LaunchMember, InBatch, typing, response, Stopped, BatchPhases
<1>2. PICK i \in 1..Size : i < batch.end /\ batch.out[i] = "waiting" /\ batch' = Launch(i)
  BY DEF LaunchMember
<1>3. i \in Left
  BY <1>2 DEF Left, Unsettled, Inflight
<1>4. CASE Stopped
  <2>1. PICK how \in {"interrupted", "skipped"} : batch' = [batch EXCEPT !.out[i] = how]
    BY <1>2, <1>4 DEF Launch, Unrun
  <2>2. /\ batch'.out = [batch.out EXCEPT ![i] = how]
        /\ batch'.decision = batch.decision /\ batch'.checks = batch.checks
        /\ batch'.pending = batch.pending /\ batch'.approved = batch.approved
        /\ batch'.end = batch.end
    BY <1>1, <2>1, BatchFacts DEF BatchLocals
  <2> QED BY <1>1, <1>2, <1>3, <2>2, MemberMoves
<1>5. CASE ~Stopped
  <2>1. batch' = Admitted(i)
    BY <1>2, <1>5 DEF Launch
  <2>2. /\ batch'.out = [batch.out EXCEPT ![i] = "admitted"]
        /\ batch'.decision = batch.decision /\ batch'.checks = batch.checks
        /\ batch'.pending = batch.pending /\ batch'.approved = batch.approved
        /\ batch'.end = batch.end
    BY <1>1, <2>1, BatchFacts DEF BatchLocals, Admitted
  <2> QED BY <1>1, <1>2, <1>3, <2>2, MemberMoves
<1> QED BY <1>4, <1>5

\* What a tool's start changes of the batch.
LEMMA StartFacts ==
  ASSUME TypeOK, pc \in BatchPhases, NEW i \in 1..Size,
         batch' = [batch EXCEPT !.out[i] = "running", !.late = Noted(@, i)]
  PROVE  /\ batch'.out = [batch.out EXCEPT ![i] = "running"]
         /\ batch'.decision = batch.decision /\ batch'.checks = batch.checks
         /\ batch'.pending = batch.pending /\ batch'.approved = batch.approved
         /\ batch'.end = batch.end
         /\ batch'.unheeding = batch.unheeding /\ batch'.late = Noted(batch.late, i)
BY BatchFacts DEF BatchLocals

\* An admitted call starts: a member of the group, or the call at hand.
LEMMA ToolHasStarted ==
  ASSUME TypeOK, BatchInv, ToolStarts PROVE BatchInv'
<1>1. /\ pc \in {"launch", "exclusive"} /\ pc' = pc /\ pc \in BatchPhases
      /\ Stopped' = Stopped /\ UNCHANGED calls
  BY DEF ToolStarts, InBatch, typing, response, Stopped, BatchPhases
<1>2. PICK i \in 1..Size :
         /\ batch.out[i] = "admitted"
         /\ batch' = [batch EXCEPT !.out[i] = "running", !.late = Noted(@, i)]
  BY DEF ToolStarts
<1>3. i \in Left
  BY <1>2 DEF Left, Unsettled, Inflight
<1>4. /\ batch'.out = [batch.out EXCEPT ![i] = "running"]
      /\ batch'.decision = batch.decision /\ batch'.checks = batch.checks
      /\ batch'.pending = batch.pending /\ batch'.approved = batch.approved
      /\ batch'.end = batch.end
  BY <1>1, <1>2, StartFacts
<1>5. CASE pc = "launch"
  <2>1. i < batch.end
    BY <1>1, <1>2, <1>5, BatchFacts DEF BatchInv, GroupIsInterval
  <2> QED BY <1>1, <1>3, <1>4, <1>5, <2>1, MemberMoves
<1>6. CASE pc = "exclusive"
  <2>1. \A j \in 1..Size : batch'.out[j] = IF j = i THEN "running" ELSE batch.out[j]
    BY <1>1, <1>4, BatchFacts
  <2>2. Size' = Size /\ Left \subseteq 1..Size
    BY <1>1, BatchFacts DEF Size
  <2>3. Left' = Left
    BY <1>3, <2>1, <2>2 DEF Left, Unsettled, Inflight
  <2>4. Current' = Current /\ Current \in Left /\ \A j \in Left : Current <= j
    BY <1>3, <2>3, CurrentIsLeast DEF Current
  <2>5. \A k \in Left, j \in 1..Size : k < j => batch.out[j] = "waiting"
    BY <1>6 DEF BatchInv, SettledInOrder, BatchPhases
  <2>6. i = Current
    <3>1. Current <= i /\ Current \in 1..Size
      BY <1>3, <2>2, <2>4
    <3>2. ~(Current < i)
      BY <1>2, <2>4, <2>5
    <3> QED BY <3>1, <3>2
  <2>7. (CallAtHand /\ SettledInOrder)'
    BY <1>1, <1>3, <1>6, <2>1, <2>2, <2>3, <2>4, <2>5, <2>6
       DEF CallAtHand, SettledInOrder, Inflight
  <2>8. GroupIsInterval'
    BY <1>1, <1>6 DEF GroupIsInterval
  <2>9. DecisionsInOrder'
    BY <1>1, <1>4, <1>6, <2>2, <2>3, <2>4 DEF BatchInv, DecisionsInOrder, DecidedOfLeft
  <2>10. PermissionIsForTheCall'
    BY <1>1, <1>2, <1>4, <2>1, <2>2 DEF BatchInv, PermissionIsForTheCall, Inflight
  <2> QED BY <2>7, <2>8, <2>9, <2>10 DEF BatchInv
<1> QED BY <1>1, <1>5, <1>6

\* A running member returns.
LEMMA MemberHasEnded ==
  ASSUME TypeOK, BatchInv, MemberEnds PROVE BatchInv'
<1>1. /\ pc = "launch" /\ pc' = "launch" /\ pc \in BatchPhases
      /\ Stopped' = Stopped /\ UNCHANGED calls
  BY DEF MemberEnds, InBatch, typing, response, Stopped, BatchPhases
<1>2. PICK i \in 1..Size, how \in {"ok", "failed"} :
         batch.out[i] = "running" /\ batch' = [batch EXCEPT !.out[i] = how]
  BY DEF MemberEnds
<1>3. i < batch.end
  BY <1>1, <1>2, BatchFacts DEF BatchInv, GroupIsInterval
<1>4. i \in Left
  BY <1>2 DEF Left, Unsettled, Inflight
<1>5. /\ batch'.out = [batch.out EXCEPT ![i] = how]
      /\ batch'.decision = batch.decision /\ batch'.checks = batch.checks
      /\ batch'.pending = batch.pending /\ batch'.approved = batch.approved
      /\ batch'.end = batch.end
  BY <1>1, <1>2, BatchFacts DEF BatchLocals
<1> QED BY <1>1, <1>2, <1>3, <1>4, <1>5, MemberMoves

\* What is left when a group has ended is what is behind it.
LEMMA GroupHasEnded ==
  ASSUME TypeOK, BatchInv, GroupEnds PROVE BatchInv'
<1>1. /\ pc = "launch" /\ pc' = "batch" /\ pc \in BatchPhases
      /\ Stopped' = Stopped /\ UNCHANGED <<batch, calls>>
      /\ \A i \in Left : i >= batch.end
  BY DEF GroupEnds, InBatch, typing, response, Stopped, BatchPhases
<1>2. Size' = Size /\ Left' = Left /\ Left \subseteq 1..Size /\ Size \in Nat /\ batch.end \in Nat
  BY <1>1, BatchFacts DEF Size, Left
<1>3. Current' = Current
  BY <1>2 DEF Current
<1>4. \A i \in batch.end..Size : batch.out[i] = "waiting"
  BY <1>1 DEF BatchInv, GroupIsInterval
<1>5. \A i \in 1..Size : i \in batch.end..Size \/ i < batch.end
  BY <1>2
<1>6. \A i \in Left : i \in batch.end..Size
  BY <1>1, <1>2
<1>7. (CallAtHand /\ SettledInOrder)'
  <2>1. ASSUME NEW i \in Left, NEW j \in 1..Size, i < j PROVE batch.out[j] = "waiting"
    BY <1>2, <1>4, <1>6, <2>1
  <2>2. ASSUME NEW i \in 1..Size PROVE batch.out[i] \notin Inflight
    BY <1>4, <1>5, <1>6 DEF Left, Unsettled, Inflight
  <2> QED BY <1>1, <1>2, <2>1, <2>2 DEF CallAtHand, SettledInOrder
<1>8. GroupIsInterval'
  BY <1>1 DEF GroupIsInterval
<1>9. DecisionsInOrder'
  <2>1. ASSUME NEW i \in Left
        PROVE  batch.decision[i] = IF i = Current THEN batch.pending ELSE "none"
    <3>1. Current \in Left /\ \A j \in Left : Current <= j
      BY CurrentIsLeast
    <3>2. batch.end \in Left
      <4>1. batch.end \in 1..Size /\ batch.end \in batch.end..Size
        BY <1>1, <1>2, <1>6, BatchFacts
      <4> QED BY <1>4, <4>1 DEF Left, Unsettled, Inflight
    <3>3. Current = batch.end
      BY <1>2, <1>6, <3>1, <3>2
    <3>4. ~(i < batch.end)
      BY <1>2, <1>6
    <3> QED BY <1>1, <3>3, <3>4 DEF BatchInv, DecisionsInOrder, DecidedOfLeft
  <2> QED BY <1>1, <1>2, <1>3, <2>1 DEF BatchInv, DecisionsInOrder, DecidedOfLeft
<1>10. PermissionIsForTheCall'
  BY <1>1, <1>2 DEF BatchInv, PermissionIsForTheCall, BatchPhases
<1> QED BY <1>7, <1>8, <1>9, <1>10 DEF BatchInv

\* Every step keeps the invariant of the batch: one lemma above per kind of
\* step, applied to the actions that take it.
LEMMA NextBatchInv ==
  ASSUME TypeOK, BatchInv, Next PROVE BatchInv'
<1> USE DEF InBatch, typing, response
<1>1. CASE SubmitPrompt \/ SubmitCancelled \/ Reload \/ CompactCommand
  BY <1>1, OutsideBatch DEF SubmitPrompt, SubmitCancelled, Reload, CompactCommand, BatchPhases, Finish
<1>2. CASE TypeSteering
  <2>1. Stopped'
    BY <1>2, AppendProperties DEF TypeSteering, Stopped, TypeOK, UserType
  <2> QED BY <1>2, <2>1, UserSpeaks DEF TypeSteering
<1>3. CASE Cancel
  BY <1>3, UserSpeaks DEF Cancel, Stopped
<1>4. CASE Loop \/ Drain
  BY <1>4, AfterCompactionInPCs, OutsideBatch
     DEF Loop, BeginRound, BelowThreshold, CompactSucceeds, CompactFails, RetryWaitEnds,
         Drain, CompactionPoints, AfterCompaction, BatchPhases, Goto, Finish
<1>5. CASE Response /\ ~StreamDoneWithCalls
  BY <1>5, RecoverTo, TurnAssumption, OutsideBatch
     DEF Response, RequestFails, RequestAccepted, StreamToolUse, StreamUsage, StreamCloses,
         StreamFails, StreamInterrupted, StreamDone, BatchPhases, Goto, Finish, TypeOK
<1>6. CASE StreamDoneWithCalls
  BY <1>6, BatchBegins
<1>7. CASE CollectBatch
  BY <1>7, BatchIsCollected
<1>8. CASE MarkUnrun
  <2>1. PICK how \in {"interrupted", "skipped"} : batch' = [batch EXCEPT !.out[Current] = how]
    BY <1>8 DEF MarkUnrun, Unrun
  <2> QED BY <1>8, <2>1, CallSettles DEF MarkUnrun, NotRun, Stopped
<1>9. CASE Decide
  BY <1>9, CallIsDecided
<1>10. CASE GrowGroup \/ CloseGroup \/ LaunchMember \/ ToolStarts \/ MemberEnds \/ GroupEnds
  BY <1>10, GroupGrows, GroupIsClosed, MemberIsLaunched, ToolHasStarted, MemberHasEnded,
     GroupHasEnded
<1>11. pc \in {"decided", "asking", "exclusive"} =>
         /\ Left # {} /\ Current \in Left /\ Current \in 1..Size
         /\ batch.decision[Current] = DecidedOfLeft(Current)
  BY CurrentIsLeast DEF BatchInv, CallAtHand, DecisionsInOrder, BatchPhases, Left
<1>12. CASE ActOnVerdict
  <2>0. pc = "decided" /\ batch.decision[Current] = batch.verdict
    BY <1>11, <1>12 DEF ActOnVerdict, DecidedOfLeft
  <2>1. CASE batch.verdict = "allow" /\ batch' = Admitted(Current) /\ pc' = "exclusive"
    <3>1. batch' = [Admitted(Current) EXCEPT !.approved = batch.approved]
      BY <1>12, <2>1, <2>0, BatchFacts DEF Admitted, BatchLocals, BatchPhases
    <3>2. batch.approved \in SUBSET (1..Size)
      BY <2>0, BatchFacts DEF BatchLocals, BatchPhases
    <3> QED BY <1>12, <2>0, <2>1, <3>1, <3>2, CallStarts DEF ActOnVerdict, Stopped
  <2>2. CASE batch' = [batch EXCEPT !.out[Current] = "denied"] /\ pc' = "batch"
             /\ batch.verdict \in {"ask", "deny"}
    BY <1>11, <1>12, <2>0, <2>2, CallSettles DEF ActOnVerdict, Stopped, NotRun
  <2>3. CASE batch.verdict = "ask" /\ Interactive /\ UNCHANGED batch /\ pc' = "asking"
    BY <1>12, <2>0, <2>3, UserIsAsked DEF ActOnVerdict
  <2> QED BY <1>12, <2>1, <2>2, <2>3 DEF ActOnVerdict
<1>13. CASE UserAllows
  <2>0. pc = "asking" /\ batch.decision[Current] = "ask" /\ Interactive /\ pc \in BatchPhases
    BY <1>11, <1>13 DEF UserAllows, DecidedOfLeft, BatchInv, DecisionsInOrder, BatchPhases
  <2> DEFINE approved == batch.approved \cup {Current}
  <2>1. batch' = [Admitted(Current) EXCEPT !.approved = approved]
    BY <1>13, <2>0, BatchFacts DEF UserAllows, Admitted, BatchLocals
  <2>2. approved \in SUBSET (1..Size) /\ Current \in approved /\ batch.approved \subseteq approved
    BY <1>11, <2>0, BatchFacts DEF BatchLocals
  <2> HIDE DEF approved
  <2> QED BY <1>13, <2>0, <2>1, <2>2, CallStarts DEF UserAllows, Stopped
<1>14. CASE UserDenies \/ UserDeniesWithMessage \/ PromptCancelled
  <2>1. /\ pc = "asking" /\ pc' = "batch" /\ UNCHANGED calls
        /\ batch' = [batch EXCEPT !.out[Current] = "denied"]
    BY <1>14 DEF UserDenies, UserDeniesWithMessage, PromptCancelled
  <2>2. Stopped => Stopped'
    BY <1>14, AppendProperties
       DEF UserDenies, UserDeniesWithMessage, PromptCancelled, Stopped, TypeOK, UserType
  <2>3. batch.decision[Current] = "ask"
    BY <1>11, <2>1 DEF DecidedOfLeft
  <2> QED BY <1>11, <2>1, <2>2, <2>3, CallSettles DEF NotRun
<1>15. CASE ExclusiveEnds \/ SchemasChange
  <2>1. PICK how \in {"ok", "failed"} : batch' = [batch EXCEPT !.out[Current] = how]
    BY <1>15 DEF ExclusiveEnds, SchemasChange
  <2>2. /\ pc = "exclusive" /\ pc' = "batch" /\ UNCHANGED calls /\ Stopped' = Stopped
    BY <1>15 DEF ExclusiveEnds, SchemasChange, Stopped
  <2>3. batch.out[Current] \in Inflight
    BY <2>2 DEF BatchInv, SettledInOrder
  <2> QED BY <1>11, <2>1, <2>2, <2>3, CallSettles DEF NotRun
<1> QED
  BY <1>1, <1>2, <1>3, <1>4, <1>5, <1>6, <1>7, <1>8, <1>9, <1>10, <1>12, <1>13, <1>14, <1>15
     DEF Next, User, Engine, Batch, Response

\* What the awaits of the batch leave running keeps to the barriers.
LEMMA BarriersFollow == TypeOK /\ BatchInv => BarriersHold
<1> SUFFICES ASSUME TypeOK, BatchInv, pc \in BatchPhases PROVE BarriersHold
  BY DEF BarriersHold
<1> DEFINE running == {i \in 1..Size : batch.out[i] \in Inflight}
<1>1. Size \in Nat /\ batch.end \in Nat /\ MaxParallel \in Nat \ {0}
  BY BatchFacts, TurnAssumption
<1>2. CASE pc \notin {"launch", "exclusive"}
  <2>1. running = {}
    BY <1>2 DEF BatchInv, SettledInOrder
  <2> QED BY <1>1, <2>1, FS_EmptySet DEF BarriersHold
<1>3. CASE pc = "exclusive"
  <2> DEFINE c == Current
  <2>1. /\ c \in Left /\ c \in 1..Size /\ batch.out[c] \in Inflight
        /\ \A j \in Left : c <= j
    BY <1>3, CurrentIsLeast DEF BatchInv, CallAtHand, SettledInOrder, Left
  <2>2. \A j \in 1..Size : c < j => batch.out[j] = "waiting"
    BY <1>3, <2>1 DEF BatchInv, SettledInOrder, BatchPhases
  <2> HIDE DEF c
  <2>3. \A j \in 1..Size : j < c => batch.out[j] \notin Unsettled
    BY <1>1, <2>1 DEF Left
  <2>4. running = {c}
    BY <1>1, <2>1, <2>2, <2>3 DEF Unsettled, Inflight
  <2>5. Cardinality(running) <= MaxParallel
    <3>1. Cardinality({c}) = 1
      BY FS_Singleton
    <3> HIDE DEF running
    <3> QED BY <1>1, <2>4, <3>1
  <2>6. \A i \in running, j \in 1..Size :
          /\ j < i => batch.out[j] \notin Unsettled
          /\ j > i => batch.out[j] = "waiting"
    BY <1>1, <2>1, <2>2, <2>3, <2>4
  <2> QED BY <2>5, <2>6 DEF BarriersHold
<1>4. CASE pc = "launch"
  <2>1. PICK s \in 1..batch.end :
          /\ batch.end - s <= MaxParallel
          /\ \A j \in 1..Size : /\ j < s => batch.out[j] \notin Unsettled
                                /\ s <= j /\ j < batch.end => ReadOnly(j)
    BY <1>4 DEF BatchInv, GroupIsInterval
  <2>2. \A j \in 1..Size : batch.end <= j => batch.out[j] = "waiting"
    BY <1>1, <1>4 DEF BatchInv, GroupIsInterval
  <2>3. \A i \in running : s <= i /\ i < batch.end
    BY <1>1, <2>1, <2>2 DEF Unsettled, Inflight
  <2>4. Cardinality(running) <= MaxParallel
    <3>1. running \subseteq s..(batch.end - 1)
      BY <1>1, <2>1, <2>3
    <3>2. /\ IsFiniteSet(s..(batch.end - 1))
          /\ Cardinality(s..(batch.end - 1)) = batch.end - s
      <4>1. s \in Int /\ batch.end - 1 \in Int /\ s <= batch.end
        BY <1>1, <2>1
      <4>2. /\ IsFiniteSet(s..(batch.end - 1))
            /\ Cardinality(s..(batch.end - 1)) =
                 IF s > batch.end - 1 THEN 0 ELSE (batch.end - 1) - s + 1
        BY <4>1, FS_Interval
      <4> QED BY <1>1, <2>1, <4>1, <4>2
    <3>3. IsFiniteSet(running) /\ Cardinality(running) <= batch.end - s
      BY <3>1, <3>2, FS_Subset
    <3>4. Cardinality(running) \in Nat
      BY <3>3, FS_CardinalityType
    <3> HIDE DEF running
    <3> QED BY <1>1, <2>1, <3>3, <3>4
  <2>5. ASSUME NEW i \in running, NEW j \in 1..Size, ~(ReadOnly(i) /\ ReadOnly(j))
        PROVE  /\ j < i => batch.out[j] \notin Unsettled
               /\ j > i => batch.out[j] = "waiting"
    <3>1. ReadOnly(i) /\ ~ReadOnly(j)
      BY <2>1, <2>3, <2>5
    <3>2. j < s \/ batch.end <= j
      BY <1>1, <2>1, <3>1
    <3> QED BY <1>1, <2>1, <2>2, <2>3, <3>2
  <2> QED BY <2>4, <2>5 DEF BarriersHold
<1> QED BY <1>2, <1>3, <1>4

-----------------------------------------------------------------------------
(* The user's word.                                                        *)

\* What the invariant says of each await is what the property says.
LEMMA WordFollows == TypeOK /\ WordInv => StopsPromptly
<1> SUFFICES ASSUME TypeOK, WordInv, pc \in BatchPhases PROVE StopsPromptly
  BY DEF StopsPromptly
<1>0. /\ Size \in Nat /\ batch.end \in Nat /\ MaxParallel \in Nat \ {0}
      /\ batch.late \subseteq 1..Size /\ Cardinality({}) = 0
  BY BatchFacts, TurnAssumption, FS_EmptySet
<1>1. CASE pc \in {"decided", "asking", "grouping"}
  BY <1>0, <1>1 DEF WordInv, Untouched, StopsPromptly
<1>2. CASE pc = "exclusive"
  <2>1. /\ batch.unheeding = {} \/ batch.unheeding = {Current}
        /\ batch.late = {} \/ batch.late = {Current}
        /\ \A i \in 1..Size : batch.out[i] \notin Dropped
    BY <1>2 DEF WordInv
  <2>2. Cardinality({Current}) = 1
    BY FS_Singleton
  <2>3. Cardinality(batch.unheeding) <= 1 /\ Cardinality(batch.late) <= MaxParallel
    BY <1>0, <2>1, <2>2
  <2> QED BY <2>1, <2>3 DEF StopsPromptly, Dropped
<1>3. CASE pc = "launch"
  <2>1. GroupHeedsTheWord
    BY <1>3 DEF WordInv
  <2>2. PICK s \in 1..batch.end :
          /\ batch.end - s <= MaxParallel
          /\ \A i \in 1..Size :
               /\ i < s => batch.out[i] \notin Unsettled
               /\ s <= i /\ i < batch.end => ReadOnly(i)
               /\ i \in batch.late => s <= i /\ i < batch.end
    BY <2>1 DEF GroupHeedsTheWord
  <2>3. Cardinality(batch.late) <= MaxParallel
    <3>1. batch.late \subseteq s..(batch.end - 1)
      BY <1>0, <2>2
    <3>2. /\ IsFiniteSet(s..(batch.end - 1))
          /\ Cardinality(s..(batch.end - 1)) = batch.end - s
      <4>1. s \in Int /\ batch.end - 1 \in Int /\ s <= batch.end
        BY <1>0, <2>2
      <4>2. /\ IsFiniteSet(s..(batch.end - 1))
            /\ Cardinality(s..(batch.end - 1)) =
                 IF s > batch.end - 1 THEN 0 ELSE (batch.end - 1) - s + 1
        BY <4>1, FS_Interval
      <4> QED BY <1>0, <2>2, <4>1, <4>2
    <3>3. IsFiniteSet(batch.late) /\ Cardinality(batch.late) <= batch.end - s
      BY <3>1, <3>2, FS_Subset
    <3>4. Cardinality(batch.late) \in Nat
      BY <3>3, FS_CardinalityType
    <3> QED BY <1>0, <2>2, <3>3, <3>4
  <2>4. batch.unheeding = {} /\ Cardinality(batch.unheeding) <= 1
    BY <1>0, <2>1 DEF GroupHeedsTheWord
  <2>5. ASSUME NEW i \in batch.late, NEW j \in 1..Size
        PROVE  /\ j < i => batch.out[j] \notin Dropped
               /\ j \in batch.late => ReadOnly(i) /\ ReadOnly(j)
    BY <1>0, <2>1, <2>2, <2>5 DEF GroupHeedsTheWord
  <2> QED BY <2>3, <2>4, <2>5 DEF StopsPromptly, Dropped
<1>4. CASE pc = "batch"
  BY <1>4 DEF WordInv, BatchPhases
<1> QED BY <1>1, <1>2, <1>3, <1>4 DEF BatchPhases

\* A batch of which nothing was started or dropped.
LEMMA UntouchedStops == Untouched => StopsPromptly
<1>1. Cardinality({}) = 0 /\ MaxParallel \in Nat
  BY TurnAssumption, FS_EmptySet
<1> QED BY <1>1 DEF Untouched, StopsPromptly, Dropped

\* Steps that leave the batch alone: what the user types,
LEMMA WordStays ==
  ASSUME WordInv, UNCHANGED <<batch, calls, pc>>, Stopped => Stopped'
  PROVE  WordInv'
<1>1. Size' = Size /\ Left' = Left
  BY DEF Size, Left
<1>2. Current' = Current
  BY <1>1 DEF Current
<1>3. Untouched => Untouched'
  BY <1>1 DEF Untouched
<1>4. GroupHeedsTheWord => GroupHeedsTheWord'
  BY <1>1 DEF GroupHeedsTheWord, ReadOnly
<1>5. StopsPromptly => StopsPromptly'
  BY <1>1 DEF StopsPromptly, ReadOnly
<1> QED BY <1>1, <1>2, <1>3, <1>4, <1>5 DEF WordInv

\* and what the checker decides,
LEMMA WordUntouched ==
  ASSUME Untouched, UNCHANGED calls, pc' \in {"decided", "asking", "grouping"},
         batch'.out = batch.out, batch'.unheeding = batch.unheeding,
         batch'.late = batch.late
  PROVE  WordInv'
<1>1. Size' = Size
  BY DEF Size
<1> QED BY <1>1 DEF WordInv, Untouched

\* until a group is complete.
LEMMA WordAtLaunch ==
  ASSUME TypeOK, BatchInv, BatchInv', Untouched, UNCHANGED calls,
         pc = "grouping", pc' = "launch",
         batch'.out = batch.out, batch'.unheeding = batch.unheeding,
         batch'.late = batch.late
  PROVE  WordInv'
<1>1. Size' = Size /\ pc \in BatchPhases
  BY DEF Size, BatchPhases
<1>2. Untouched'
  BY <1>1 DEF Untouched
<1>3. ASSUME NEW i \in 1..Size, NEW j \in 1..Size, i < j, batch.out[i] = "waiting"
      PROVE  batch.out[j] = "waiting"
  <2>1. i \in Left
    BY <1>3 DEF Left, Unsettled
  <2> QED BY <1>1, <1>3, <2>1 DEF BatchInv, SettledInOrder
<1>4. PICK s \in 1..batch'.end :
        /\ batch'.end - s <= MaxParallel
        /\ \A i \in 1..Size' : /\ i < s => batch'.out[i] \notin Unsettled
                               /\ s <= i /\ i < batch'.end => ReadOnly(i)'
  BY DEF BatchInv, GroupIsInterval
<1>5. GroupHeedsTheWord'
  BY <1>1, <1>2, <1>3, <1>4 DEF GroupHeedsTheWord, Untouched
<1> QED BY <1>2, <1>5 DEF WordInv, Untouched

\* A batch begins untouched.
LEMMA WordAtBegin ==
  ASSUME TypeOK, StreamDoneWithCalls PROVE WordInv'
<1>1. pc' = "batch" /\ batch' = FreshBatch(Size) /\ Size' = Size /\ Size \in Nat
  BY LenProperties DEF StreamDoneWithCalls, Goto, response, Size, TypeOK, ResponseType
<1>2. Untouched'
  BY <1>1 DEF FreshBatch, Untouched, Dropped
<1>3. StopsPromptly'
  <2>1. Cardinality({}) = 0 /\ MaxParallel \in Nat
    BY TurnAssumption, FS_EmptySet
  <2> QED BY <1>2, <2>1 DEF Untouched, StopsPromptly, Dropped
<1> QED BY <1>1, <1>2, <1>3 DEF WordInv, Untouched

\* The call at hand settles; it is dropped only after the user's word.
LEMMA WordAtSettling ==
  ASSUME TypeOK, BatchInv, WordInv, Left # {}, UNCHANGED calls,
         pc \in {"batch", "decided", "asking", "exclusive"}, pc' = "batch",
         NEW how \in NotRun \cup {"ok", "failed"},
         batch' = [batch EXCEPT !.out[Current] = how],
         Stopped => Stopped',
         how \in Dropped => pc = "batch" /\ Stopped
  PROVE  WordInv'
<1> DEFINE c == Current
<1>1. c \in Left /\ \A j \in Left : c <= j
  BY CurrentIsLeast
<1>2. pc \in BatchPhases
  BY DEF BatchPhases
<1>3. /\ batch'.out = [batch.out EXCEPT ![c] = how]
      /\ batch'.unheeding = batch.unheeding /\ batch'.late = batch.late
  BY <1>2, BatchFacts DEF BatchLocals
<1>4. StopsPromptly
  BY WordFollows
<1> HIDE DEF c
<1>5. /\ Size' = Size /\ c \in 1..Size /\ Size \in Nat
      /\ batch.late \subseteq 1..Size /\ Left \subseteq 1..Size
      /\ \A i \in 1..Size : batch'.out[i] = IF i = c THEN how ELSE batch.out[i]
  BY <1>1, <1>2, <1>3, BatchFacts DEF Size
<1>6. how # "waiting"
  BY DEF NotRun
<1>7. \A i \in batch'.late : batch'.out[i] # "waiting"
  BY <1>2, <1>3, <1>5, <1>6 DEF WordInv
<1>8. Untouched /\ how \notin Dropped => Untouched'
  BY <1>3, <1>5 DEF Untouched
<1>9. ~Stopped' => Untouched'
  BY <1>2, <1>8 DEF WordInv
<1>10. StopsPromptly'
  <2>1. ASSUME NEW i \in batch.late, NEW j \in 1..Size, j < i
        PROVE  batch'.out[j] \notin Dropped
    <3>1. batch.out[j] \notin Dropped
      BY <1>2, <1>4, <2>1 DEF StopsPromptly, Dropped
    <3>2. CASE how \in Dropped
      <4>1. batch.out[i] # "waiting"
        BY <1>2, <2>1 DEF WordInv
      <4>2. ~(c < i)
        BY <1>1, <1>2, <1>5, <2>1, <3>2, <4>1 DEF BatchInv, SettledInOrder, BatchPhases
      <4>3. j # c
        BY <1>5, <2>1, <4>2
      <4> QED BY <1>5, <3>1, <4>3
    <3>3. CASE how \notin Dropped
      BY <1>5, <3>1, <3>3
    <3> QED BY <3>2, <3>3
  <2>2. \A i \in 1..Size : ReadOnly(i)' = ReadOnly(i)
    BY DEF ReadOnly
  <2> QED BY <1>2, <1>3, <1>4, <1>5, <2>1, <2>2 DEF StopsPromptly, Dropped
<1> QED BY <1>7, <1>9, <1>10 DEF WordInv

\* The call at hand is admitted, on a word it may not have heeded.
LEMMA WordAtAdmission ==
  ASSUME TypeOK, BatchInv, WordInv, UNCHANGED <<calls, cancelled, steering>>,
         pc \in {"decided", "asking"}, pc' = "exclusive",
         NEW approved,
         batch' = [Admitted(Current) EXCEPT !.approved = approved]
  PROVE  WordInv'
<1> DEFINE c == Current
<1>1. c \in Left /\ pc \in BatchPhases
  BY CurrentIsLeast DEF BatchInv, CallAtHand, BatchPhases
<1>2. /\ batch'.out = [batch.out EXCEPT ![c] = "admitted"]
      /\ batch'.unheeding = Noted(batch.unheeding, c) /\ batch'.late = batch.late
  BY <1>1, BatchFacts DEF BatchLocals, Admitted
<1> HIDE DEF c
<1>3. Size' = Size /\ c \in 1..Size /\ Left \subseteq 1..Size /\ Stopped' = Stopped
  BY <1>1, BatchFacts DEF Size, Stopped
<1>4. Untouched
  BY <1>1 DEF WordInv
<1>5. \A i \in 1..Size : batch'.out[i] = IF i = c THEN "admitted" ELSE batch.out[i]
  BY <1>1, <1>2, <1>3, BatchFacts
<1>6. batch'.late = {} /\ batch'.unheeding \subseteq {c}
      /\ (~Stopped => batch'.unheeding = {})
      /\ \A i \in 1..Size : batch'.out[i] \notin Dropped
  BY <1>2, <1>4, <1>5 DEF Untouched, Noted, Dropped
<1>7. Current' = c
  <2>1. \A i \in 1..Size : batch'.out[i] \in Unsettled <=> batch.out[i] \in Unsettled
    BY <1>1, <1>5 DEF Left, Unsettled, Inflight
  <2>2. Left' = Left
    BY <1>3, <2>1 DEF Left
  <2> QED BY <2>2 DEF Current, c
<1>8. ~Stopped' => Untouched'
  BY <1>3, <1>6 DEF Untouched
<1> QED BY <1>3, <1>6, <1>7, <1>8 DEF WordInv

\* join_all polls the first member nobody has looked at yet.
LEMMA WordAtLaunching ==
  ASSUME TypeOK, BatchInv, WordInv, LaunchMember PROVE WordInv'
<1>1. /\ pc = "launch" /\ pc' = "launch" /\ pc \in BatchPhases
      /\ Stopped' = Stopped /\ UNCHANGED calls
  BY DEF LaunchMember, InBatch, typing, response, Stopped, BatchPhases
<1>2. PICK i \in 1..Size :
        /\ i < batch.end /\ batch.out[i] = "waiting" /\ batch' = Launch(i)
        /\ \A j \in 1..(i - 1) : batch.out[j] # "waiting"
  BY DEF LaunchMember
<1>3. PICK how \in {"interrupted", "skipped", "admitted"} :
        /\ batch'.out = [batch.out EXCEPT ![i] = how]
        /\ how = "admitted" <=> ~Stopped
        /\ batch'.unheeding = batch.unheeding /\ batch'.late = batch.late
        /\ batch'.end = batch.end
  <2>1. CASE Stopped
    <3>1. PICK how \in {"interrupted", "skipped"} : batch' = [batch EXCEPT !.out[i] = how]
      BY <1>2, <2>1 DEF Launch, Unrun
    <3> QED BY <1>1, <2>1, <3>1, BatchFacts DEF BatchLocals
  <2>2. CASE ~Stopped
    <3>1. batch' = Admitted(i) /\ Noted(batch.unheeding, i) = batch.unheeding
      BY <1>2, <2>2 DEF Launch, Noted
    <3> QED BY <1>1, <2>2, <3>1, BatchFacts DEF BatchLocals, Admitted
  <2> QED BY <2>1, <2>2
<1>4. /\ Size' = Size /\ Size \in Nat /\ batch.end \in Nat
      /\ batch.late \subseteq 1..Size
      /\ \A j \in 1..Size : batch'.out[j] = IF j = i THEN how ELSE batch.out[j]
  BY <1>1, <1>3, BatchFacts DEF Size
<1>5. GroupHeedsTheWord
  BY <1>1 DEF WordInv
<1>6. \A j \in batch.late : batch.out[j] # "waiting" /\ j # i
  BY <1>1, <1>2 DEF WordInv
<1>7. ~Stopped => Untouched
  BY <1>1 DEF WordInv
<1>8. ~Stopped' => Untouched'
  BY <1>1, <1>3, <1>4, <1>7 DEF Untouched, Dropped
<1>9. GroupHeedsTheWord'
  <2>1. ASSUME NEW k \in 1..Size, NEW j \in 1..Size, k < j, batch'.out[k] = "waiting"
        PROVE  batch'.out[j] = "waiting"
    <3>1. k # i /\ batch.out[k] = "waiting"
      BY <1>4, <2>1
    <3>2. ~(k < i)
      BY <1>2, <1>4, <3>1
    <3>3. batch.out[j] = "waiting" /\ j # i
      BY <1>5, <2>1, <3>1, <3>2 DEF GroupHeedsTheWord
    <3> QED BY <1>4, <3>3
  <2>2. ASSUME NEW k \in 1..Size, NEW j \in 1..Size, j < k,
               k \in batch'.late \/ batch'.out[k] \in Inflight
        PROVE  batch'.out[j] \notin Dropped
    <3>1. CASE k = i
      <4>1. ~Stopped
        BY <1>3, <1>4, <1>6, <2>2, <3>1 DEF Inflight
      <4> QED BY <1>1, <1>4, <1>8, <4>1 DEF Untouched
    <3>2. CASE k # i
      <4>1. k \in batch.late \/ batch.out[k] \in Inflight
        BY <1>3, <1>4, <2>2, <3>2
      <4>2. batch.out[k] # "waiting" /\ batch.out[j] \notin Dropped
        BY <1>5, <1>6, <2>2, <4>1 DEF GroupHeedsTheWord, Inflight
      <4>3. ~(i < k)
        BY <1>2, <1>5, <4>2 DEF GroupHeedsTheWord
      <4> QED BY <1>4, <2>2, <3>2, <4>2, <4>3
    <3> QED BY <3>1, <3>2
  <2>3. PICK s \in 1..batch.end :
          /\ batch.end - s <= MaxParallel
          /\ \A j \in 1..Size :
               /\ j < s => batch.out[j] \notin Unsettled
               /\ s <= j /\ j < batch.end => ReadOnly(j)
               /\ j \in batch.late => s <= j /\ j < batch.end
    BY <1>5 DEF GroupHeedsTheWord
  <2>4. ASSUME NEW j \in 1..Size, j < s PROVE batch'.out[j] \notin Unsettled
    <3>1. j # i
      BY <1>2, <2>3, <2>4 DEF Unsettled
    <3> QED BY <1>4, <2>3, <2>4, <3>1
  <2>5. \A j \in 1..Size : ReadOnly(j)' = ReadOnly(j)
    BY <1>1 DEF ReadOnly
  <2>6. batch'.unheeding = {}
    BY <1>3, <1>5 DEF GroupHeedsTheWord
  <2> QED BY <1>3, <1>4, <2>1, <2>2, <2>3, <2>4, <2>5, <2>6 DEF GroupHeedsTheWord
<1>10. \A j \in batch'.late : batch'.out[j] # "waiting"
  BY <1>3, <1>4, <1>6
<1> QED BY <1>1, <1>8, <1>9, <1>10 DEF WordInv

\* A member of the group starts, or returns.
LEMMA WordOfMembers ==
  ASSUME TypeOK, BatchInv, WordInv, UNCHANGED calls, pc = "launch", pc' = "launch",
         Stopped' = Stopped,
         NEW i \in 1..Size, batch.out[i] \in Inflight, i < batch.end,
         NEW how \in {"running", "ok", "failed"},
         batch'.out = [batch.out EXCEPT ![i] = how],
         batch'.unheeding = batch.unheeding, batch'.end = batch.end,
         batch'.late = batch.late \/ (Stopped /\ batch'.late = batch.late \cup {i})
  PROVE  WordInv'
<1>1. /\ Size' = Size /\ Size \in Nat /\ batch.end \in Nat
      /\ batch.late \subseteq 1..Size /\ pc \in BatchPhases
      /\ \A j \in 1..Size : batch'.out[j] = IF j = i THEN how ELSE batch.out[j]
  BY BatchFacts DEF Size, BatchPhases
<1>2. GroupHeedsTheWord
  BY <1>1 DEF WordInv
<1>3. \A j \in batch'.late : j \in batch.late \/ j = i
  OBVIOUS
<1>4. ~Stopped' => Untouched'
  BY <1>1 DEF WordInv, Untouched, Dropped
<1>5. \A j \in batch'.late : batch'.out[j] # "waiting"
  BY <1>1, <1>3 DEF WordInv
<1>6. GroupHeedsTheWord'
  <2>1. \A k, j \in 1..Size :
          k < j /\ batch'.out[k] = "waiting" => batch'.out[j] = "waiting"
    <3> SUFFICES ASSUME NEW k \in 1..Size, NEW j \in 1..Size, k < j,
                        batch'.out[k] = "waiting"
                 PROVE  batch'.out[j] = "waiting"
      OBVIOUS
    <3>1. batch.out[k] = "waiting"
      BY <1>1
    <3>2. batch.out[j] = "waiting"
      BY <1>2, <3>1 DEF GroupHeedsTheWord
    <3> QED BY <1>1, <3>2 DEF Inflight
  <2>2. ASSUME NEW k \in 1..Size, NEW j \in 1..Size, j < k,
               k \in batch'.late \/ batch'.out[k] \in Inflight
        PROVE  batch'.out[j] \notin Dropped
    <3>1. k \in batch.late \/ batch.out[k] \in Inflight
      BY <1>1, <1>3, <2>2
    <3> QED BY <1>1, <1>2, <2>2, <3>1 DEF GroupHeedsTheWord, Dropped
  <2>3. PICK s \in 1..batch.end :
          /\ batch.end - s <= MaxParallel
          /\ \A j \in 1..Size :
               /\ j < s => batch.out[j] \notin Unsettled
               /\ s <= j /\ j < batch.end => ReadOnly(j)
               /\ j \in batch.late => s <= j /\ j < batch.end
    BY <1>2 DEF GroupHeedsTheWord
  <2>4. s <= i
    BY <1>1, <2>3 DEF Unsettled
  <2>5. \A j \in 1..Size : j < s => batch'.out[j] \notin Unsettled
    BY <1>1, <2>3, <2>4
  <2>6. \A j \in 1..Size : ReadOnly(j)' = ReadOnly(j)
    BY DEF ReadOnly
  <2>7. \A j \in 1..Size : j \in batch'.late => s <= j /\ j < batch.end
    BY <1>3, <2>3, <2>4
  <2> QED BY <1>1, <1>2, <2>1, <2>2, <2>3, <2>5, <2>6, <2>7 DEF GroupHeedsTheWord
<1> QED BY <1>4, <1>5, <1>6 DEF WordInv

\* An admitted call starts.
LEMMA WordAtStart ==
  ASSUME TypeOK, BatchInv, BatchInv', WordInv, ToolStarts PROVE WordInv'
<1>1. /\ pc \in {"launch", "exclusive"} /\ pc' = pc /\ pc \in BatchPhases
      /\ Stopped' = Stopped /\ UNCHANGED calls
  BY DEF ToolStarts, InBatch, typing, response, Stopped, BatchPhases
<1>2. PICK i \in 1..Size :
         /\ batch.out[i] = "admitted"
         /\ batch' = [batch EXCEPT !.out[i] = "running", !.late = Noted(@, i)]
  BY DEF ToolStarts
<1>3. /\ batch'.out = [batch.out EXCEPT ![i] = "running"]
      /\ batch'.end = batch.end
      /\ batch'.unheeding = batch.unheeding /\ batch'.late = Noted(batch.late, i)
  BY <1>1, <1>2, StartFacts
<1>4. IF Stopped THEN batch'.late = batch.late \cup {i} ELSE batch'.late = batch.late
  BY <1>3 DEF Noted
<1>5. CASE pc = "launch"
  <2>1. i < batch.end
    BY <1>1, <1>2, <1>5, BatchFacts DEF BatchInv, GroupIsInterval
  <2>2. batch.out[i] \in Inflight
    BY <1>2 DEF Inflight
  <2> QED BY <1>1, <1>3, <1>4, <1>5, <2>1, <2>2, WordOfMembers
<1>6. CASE pc = "exclusive"
  <2>1. /\ Size' = Size /\ Left \subseteq 1..Size
        /\ \A j \in 1..Size : batch'.out[j] = IF j = i THEN "running" ELSE batch.out[j]
    BY <1>1, <1>3, BatchFacts DEF Size
  <2>2. i \in Left
    BY <1>2 DEF Left, Unsettled, Inflight
  <2>3. Left' = Left
    BY <2>1, <2>2 DEF Left, Unsettled, Inflight
  <2>4. Current' = Current /\ Current \in Left /\ \A j \in Left : Current <= j
    BY <2>2, <2>3, CurrentIsLeast DEF Current
  <2>5. i = Current
    <3>1. ~(Current < i)
      BY <1>1, <1>2, <1>6, <2>1, <2>2, <2>4 DEF BatchInv, SettledInOrder
    <3> QED BY <2>1, <2>2, <2>4, <3>1
  <2>6. /\ batch'.unheeding \subseteq {Current} /\ batch'.late \subseteq {Current}
        /\ \A j \in 1..Size : batch'.out[j] \notin Dropped
    BY <1>1, <1>3, <1>4, <1>6, <2>1, <2>5 DEF WordInv, Dropped
  <2>7. ~Stopped' => Untouched'
    BY <1>1, <1>3, <1>4, <2>1, <2>6 DEF WordInv, Untouched
  <2>8. \A j \in batch'.late : batch'.out[j] # "waiting"
    BY <2>1, <2>2, <2>5, <2>6
  <2> QED BY <1>1, <1>6, <2>1, <2>4, <2>6, <2>7, <2>8 DEF WordInv
<1> QED BY <1>1, <1>5, <1>6

\* A group ends, and its locals stay.
LEMMA WordAtGroupEnd ==
  ASSUME TypeOK, WordInv, GroupEnds PROVE WordInv'
<1>1. /\ pc = "launch" /\ pc' = "batch" /\ pc \in BatchPhases
      /\ Stopped' = Stopped /\ UNCHANGED <<batch, calls>>
  BY DEF GroupEnds, InBatch, typing, response, Stopped, BatchPhases
<1>2. Size' = Size /\ \A j \in 1..Size : ReadOnly(j)' = ReadOnly(j)
  BY <1>1 DEF Size, ReadOnly
<1>3. StopsPromptly'
  <2>1. StopsPromptly
    BY WordFollows
  <2>2. batch.late \subseteq 1..Size
    BY <1>1, BatchFacts
  <2> QED BY <1>1, <1>2, <2>1, <2>2 DEF StopsPromptly
<1>4. Untouched => Untouched'
  BY <1>1, <1>2 DEF Untouched
<1> QED BY <1>1, <1>3, <1>4 DEF WordInv

\* Every step keeps the user's word.
LEMMA NextWordInv ==
  ASSUME TypeOK, BatchInv, BatchInv', WordInv, Next PROVE WordInv'
<1> USE DEF InBatch, typing, response
<1>1. CASE pc' \notin BatchPhases
  BY <1>1 DEF WordInv
<1>2. CASE SubmitPrompt \/ SubmitCancelled \/ Reload \/ CompactCommand \/ Loop \/ Drain \/ CollectBatch
  <2>1. pc' \notin BatchPhases
    BY <1>2, AfterCompactionInPCs
       DEF SubmitPrompt, SubmitCancelled, Reload, CompactCommand, Loop, BeginRound,
           BelowThreshold, CompactSucceeds, CompactFails, RetryWaitEnds, Drain, CollectBatch,
           CompactionPoints, AfterCompaction, BatchPhases, Goto, Finish
  <2> QED BY <1>1, <2>1
<1>3. CASE Response /\ ~StreamDoneWithCalls
  <2>1. pc' \notin BatchPhases
    BY <1>3, RecoverTo, TurnAssumption
       DEF Response, RequestFails, RequestAccepted, StreamToolUse, StreamUsage, StreamCloses,
           StreamFails, StreamInterrupted, StreamDone, BatchPhases, Goto, Finish, TypeOK
  <2> QED BY <1>1, <2>1
<1>4. CASE StreamDoneWithCalls
  BY <1>4, WordAtBegin
<1>5. CASE TypeSteering \/ Cancel
  <2>1. Stopped => Stopped'
    BY <1>5, AppendProperties DEF TypeSteering, Cancel, Stopped, TypeOK, UserType
  <2> QED BY <1>5, <2>1, WordStays DEF TypeSteering, Cancel
<1>6. CASE MarkUnrun
  <2>1. PICK how \in Dropped : batch' = [batch EXCEPT !.out[Current] = how]
    BY <1>6 DEF MarkUnrun, Unrun, Dropped
  <2>2. how \in NotRun \cup {"ok", "failed"}
    BY DEF Dropped, NotRun
  <2> QED BY <1>6, <2>1, <2>2, WordAtSettling DEF MarkUnrun, Stopped
<1>7. CASE Decide
  <2>1. /\ pc = "batch" /\ ~Stopped /\ UNCHANGED calls /\ pc \in BatchPhases
        /\ pc' \in {"decided", "grouping"}
    BY <1>7 DEF Decide, BatchPhases
  <2>2. PICK v \in Verdicts : batch' = Take(v)
    BY <1>7 DEF Decide
  <2>3. /\ batch'.out = batch.out /\ batch'.unheeding = batch.unheeding
        /\ batch'.late = batch.late
    BY <2>1, <2>2, BatchFacts DEF BatchLocals, Take, Checked
  <2>4. Untouched
    BY <2>1 DEF WordInv
  <2> QED BY <2>1, <2>3, <2>4, WordUntouched
<1>8. CASE GrowGroup \/ CloseGroup
  <2>1. /\ pc = "grouping" /\ UNCHANGED calls /\ pc \in BatchPhases
        /\ pc' \in {"grouping", "launch"}
    BY <1>8 DEF GrowGroup, CloseGroup, BatchPhases
  <2>2. /\ batch'.out = batch.out /\ batch'.unheeding = batch.unheeding
        /\ batch'.late = batch.late
    <3>1. CASE CloseGroup
      BY <3>1 DEF CloseGroup
    <3>2. CASE GrowGroup
      <4>1. PICK v \in Verdicts :
              \/ batch' = [Checked(batch.end, v) EXCEPT !.end = @ + 1]
              \/ batch' = [Checked(batch.end, v) EXCEPT !.pending = v]
        BY <3>2 DEF GrowGroup
      <4> QED BY <2>1, <4>1, BatchFacts DEF BatchLocals, Checked
    <3> QED BY <1>8, <3>1, <3>2
  <2>3. Untouched
    BY <2>1 DEF WordInv
  <2> QED BY <2>1, <2>2, <2>3, WordUntouched, WordAtLaunch
<1>9. CASE LaunchMember \/ ToolStarts \/ GroupEnds
  BY <1>9, WordAtLaunching, WordAtStart, WordAtGroupEnd
<1>10. CASE MemberEnds
  <2>1. /\ pc = "launch" /\ pc' = "launch" /\ pc \in BatchPhases
        /\ Stopped' = Stopped /\ UNCHANGED calls
    BY <1>10 DEF MemberEnds, Stopped, BatchPhases
  <2>2. PICK i \in 1..Size, how \in {"ok", "failed"} :
           batch.out[i] = "running" /\ batch' = [batch EXCEPT !.out[i] = how]
    BY <1>10 DEF MemberEnds
  <2>3. i < batch.end /\ batch.out[i] \in Inflight
    BY <2>1, <2>2, BatchFacts DEF BatchInv, GroupIsInterval, Inflight
  <2>4. /\ batch'.out = [batch.out EXCEPT ![i] = how]
        /\ batch'.unheeding = batch.unheeding /\ batch'.end = batch.end
        /\ batch'.late = batch.late
    BY <2>1, <2>2, BatchFacts DEF BatchLocals
  <2> QED BY <2>1, <2>3, <2>4, WordOfMembers
<1>11. pc \in {"decided", "asking", "exclusive"} => Left # {} /\ pc \in BatchPhases
  BY DEF BatchInv, CallAtHand, BatchPhases
<1>12. CASE ActOnVerdict
  <2>0. pc = "decided" /\ UNCHANGED <<calls, cancelled, steering>> /\ Stopped' = Stopped
    BY <1>12 DEF ActOnVerdict, Stopped
  <2>1. CASE batch' = Admitted(Current) /\ pc' = "exclusive"
    <3>1. batch' = [Admitted(Current) EXCEPT !.approved = batch.approved]
      BY <1>11, <2>0, <2>1, BatchFacts DEF Admitted, BatchLocals
    <3> QED BY <2>0, <2>1, <3>1, WordAtAdmission
  <2>2. CASE batch' = [batch EXCEPT !.out[Current] = "denied"] /\ pc' = "batch"
    BY <1>11, <2>0, <2>2, WordAtSettling DEF NotRun, Dropped
  <2>3. CASE UNCHANGED batch /\ pc' = "asking"
    <3>1. Untouched
      BY <1>11, <2>0 DEF WordInv
    <3> QED BY <2>0, <2>3, <3>1, WordUntouched
  <2> QED BY <1>12, <2>1, <2>2, <2>3 DEF ActOnVerdict
<1>13. CASE UserAllows
  <2>0. pc = "asking" /\ pc' = "exclusive" /\ UNCHANGED <<calls, cancelled, steering>>
    BY <1>13 DEF UserAllows
  <2> DEFINE approved == batch.approved \cup {Current}
  <2>1. batch' = [Admitted(Current) EXCEPT !.approved = approved]
    BY <1>11, <1>13, <2>0, BatchFacts DEF UserAllows, Admitted, BatchLocals
  <2> HIDE DEF approved
  <2> QED BY <2>0, <2>1, WordAtAdmission
<1>14. CASE UserDenies \/ UserDeniesWithMessage \/ PromptCancelled
  <2>1. /\ pc = "asking" /\ pc' = "batch" /\ UNCHANGED calls
        /\ batch' = [batch EXCEPT !.out[Current] = "denied"]
    BY <1>14 DEF UserDenies, UserDeniesWithMessage, PromptCancelled
  <2>2. Stopped => Stopped'
    BY <1>14, AppendProperties
       DEF UserDenies, UserDeniesWithMessage, PromptCancelled, Stopped, TypeOK, UserType
  <2> QED BY <1>11, <2>1, <2>2, WordAtSettling DEF NotRun, Dropped
<1>15. CASE ExclusiveEnds \/ SchemasChange
  <2>1. PICK how \in {"ok", "failed"} : batch' = [batch EXCEPT !.out[Current] = how]
    BY <1>15 DEF ExclusiveEnds, SchemasChange
  <2>2. /\ pc = "exclusive" /\ pc' = "batch" /\ UNCHANGED calls /\ Stopped' = Stopped
    BY <1>15 DEF ExclusiveEnds, SchemasChange, Stopped
  <2> QED BY <1>11, <2>1, <2>2, WordAtSettling DEF NotRun, Dropped
<1> QED
  BY <1>2, <1>3, <1>4, <1>5, <1>6, <1>7, <1>8, <1>9, <1>10, <1>12, <1>13, <1>14, <1>15
     DEF Next, User, Engine, Batch, Response

-----------------------------------------------------------------------------
(* The theorems.                                                           *)

\* The three invariants together are inductive.
LEMMA StepsKeepInv ==
  ASSUME TypeOK, BatchInv, WordInv, [Next]_vars PROVE TypeOK' /\ BatchInv' /\ WordInv'
<1>1. CASE Next
  <2>1. CallAtHand
    BY DEF BatchInv
  <2>2. TypeOK'
    BY <1>1, <2>1, NextConversationType, NextUserType, NextRetriesType, NextPCType,
       NextTurnType, NextResponseType, NextBatchType DEF TypeOK, ControlType
  <2>3. BatchInv'
    BY <1>1, NextBatchInv
  <2> QED BY <1>1, <2>2, <2>3, NextWordInv
<1>2. CASE UNCHANGED vars
  <2>1. BatchInv' /\ WordInv'
    BY <1>2, UserSpeaks, WordStays DEF vars, Stopped
  <2> QED BY <1>2, <2>1 DEF vars, TypeOK, ConversationType, UserType, ControlType,
            RetriesType, ResponseType, BatchType, Size
<1> QED BY <1>1, <1>2

\* They hold in every session.
LEMMA InvHolds == Spec => [](TypeOK /\ BatchInv /\ WordInv)
<1>1. Init => WordInv
  BY DEF Init, WordInv, BatchPhases
<1> QED BY <1>1, InitTypeOK, InitBatchInv, StepsKeepInv, PTL DEF Spec

\* In every session every variable keeps its type; in particular no failure
\* is recovered from more often than its limit allows (run_turn's counters),
\* and a batch has as many outputs as calls.
THEOREM TypeCorrect == Spec => []TypeOK
BY InvHolds, PTL

\* Whatever the batch, the verdicts and the interleaving, a tool runs only on
\* the one decision made for its own call, and a call is denied only on one
\* (execute_tool_batch, decide_permission).
THEOREM ToolsRunOnTheirPermission == Spec => []PermissionIsForTheCall
<1>1. BatchInv => PermissionIsForTheCall
  BY DEF BatchInv
<1> QED BY <1>1, InvHolds, PTL

\* Mutating calls are barriers, and at most MaxParallel read-only ones run at
\* once, for batches of any length (execute_tool_batch's group).
THEOREM MutatingCallsAreBarriers == Spec => []BarriersHold
BY BarriersFollow, InvHolds, PTL

\* However long the batch, once the user has cancelled or steered at most one
\* more call is admitted (the look at the token before each call and member);
\* what starts besides had been admitted before, is a part of one group, and
\* has no dropped call before it.
THEOREM BatchStopsPromptly == Spec => []StopsPromptly
BY WordFollows, InvHolds, PTL

=============================================================================
