------------------------ MODULE TurnHistoryProofs ------------------------
(***************************************************************************)
(* Theorems about the conversation of Turn.tla, for every value of its     *)
(* constants: calls and results stay paired, ids stay unique, the archive  *)
(* loses nothing, every call shown is answered, and steering is heard once *)
(* and in order.                                                           *)
(*                                                                         *)
(* Of the many actions of Turn few touch the conversation.  HistorySteps   *)
(* says what any step does to it, as one of nine kinds; every invariant    *)
(* below is shown for the kinds, not for the actions.                      *)
(***************************************************************************)
EXTENDS TurnProofs

-----------------------------------------------------------------------------
(* What a step does to the conversation.                                   *)

Streaming == pc = "stream"
Batching == pc \in BatchPhases
Between == ~Streaming /\ ~Batching

\* Neither messages nor calls change; the baseline may be reset or taken anew.
QuietStep ==
  /\ UNCHANGED <<messages, archive, calls, announced>>
  /\ baseline' \in {baseline, <<>>, messages}
  /\ (Streaming' <=> Streaming) /\ (Batching' <=> Batching)

\* What the user said is appended.
TalkStep ==
  /\ Between /\ Between'
  /\ \E new \in Seq(Messages) :
       /\ AppendMessages(new)
       /\ \A i \in DOMAIN new : new[i].kind \in {"prompt", "steer"}
  /\ UNCHANGED <<baseline, calls, announced>>

CompactStep ==
  /\ Between /\ Between'
  /\ \E t \in TailStarts(messages), resume \in BOOLEAN :
       CommitCompacted(Compacted(messages, t, resume))
  /\ UNCHANGED <<archive, calls, announced>>

OpenStep ==
  /\ Between /\ Streaming'
  /\ UNCHANGED <<messages, archive, baseline, calls, announced>>

CallStep ==
  /\ Streaming /\ Streaming' /\ Size < MaxBatch
  /\ \E raw \in RawIds, tool \in ToolKinds : \E id \in UniqueId(raw) :
       calls' = Append(calls, [id |-> id, tool |-> tool])
  /\ announced' = announced + 1
  /\ UNCHANGED <<messages, archive, baseline>>

\* An attempt ends before its batch ran.
DropStep ==
  /\ Streaming /\ Between'
  /\ AppendMessages(WithoutRunning)
  /\ calls' = <<>>
  /\ UNCHANGED <<baseline, announced>>

\* A response without calls is kept, or there is nothing to keep.
AnswerStep ==
  /\ Streaming /\ Between' /\ calls = <<>>
  /\ \E new \in {<<>>, <<Assistant(<<>>)>>} : AppendMessages(new)
  /\ UNCHANGED <<baseline, calls, announced>>

CommitStep ==
  /\ Streaming /\ Batching' /\ calls # <<>>
  /\ AppendMessages(<<Assistant(calls)>>)
  /\ UNCHANGED <<baseline, calls, announced>>

CollectStep ==
  /\ Batching /\ Between'
  /\ AppendMessages(<<Results(calls)>>)
  /\ calls' = <<>>
  /\ UNCHANGED <<baseline, announced>>

HistoryStep ==
  \/ QuietStep \/ TalkStep \/ CompactStep \/ OpenStep \/ CallStep
  \/ DropStep \/ AnswerStep \/ CommitStep \/ CollectStep

\* Nothing appended is nothing changed.
LEMMA AppendNothing ==
  ASSUME ConversationType PROVE UNCHANGED <<messages, archive>> => AppendMessages(<<>>)
BY ConcatEmptySeq DEF ConversationType, AppendMessages

\* What the user does.
LEMMA UserHistory ==
  ASSUME TypeOK, User PROVE HistoryStep
<1> USE DEF Goto, Finish, conversation, typing, response, InBatch
<1>1. CASE SubmitPrompt
  <2>1. <<Prompt(turns')>> \in Seq(Messages) /\ Prompt(turns').kind = "prompt"
    BY <1>1, MessageTypes DEF SubmitPrompt, TypeOK, UserType, Prompt, Message
  <2>2. \A i \in DOMAIN <<Prompt(turns')>> : <<Prompt(turns')>>[i].kind = "prompt"
    BY <2>1
  <2>3. Between /\ Between'
    BY <1>1 DEF SubmitPrompt, Between, Streaming, Batching, BatchPhases
  <2> QED BY <1>1, <2>1, <2>2, <2>3 DEF SubmitPrompt, HistoryStep, TalkStep
<1>2. CASE CompactCommand
  BY <1>2 DEF CompactCommand, HistoryStep, CompactStep, Between, Streaming, Batching, BatchPhases
<1>3. CASE SubmitCancelled \/ TypeSteering \/ Cancel \/ Reload \/ UserAllows \/ UserDenies
            \/ UserDeniesWithMessage
  <2>1. QuietStep
    BY <1>3 DEF SubmitCancelled, TypeSteering, Cancel, Reload, UserAllows, UserDenies,
         UserDeniesWithMessage, QuietStep, Streaming, Batching, BatchPhases
  <2> QED BY <2>1 DEF HistoryStep
<1> QED BY <1>1, <1>2, <1>3 DEF User

\* What the loop does around its requests.
LEMMA LoopHistory ==
  ASSUME TypeOK, Loop PROVE HistoryStep
<1> USE DEF Goto, Finish, conversation, typing, response
<1>1. CASE BeginRound
  <2>1. Injected \in Seq(Messages)
    BY InjectedType
  <2>2. \A i \in DOMAIN Injected : Injected[i].kind = "steer"
    BY DEF Injected, Steer, Message
  <2>3. Between /\ Between'
    BY <1>1 DEF BeginRound, Between, Streaming, Batching, BatchPhases
  <2> QED BY <1>1, <2>1, <2>2, <2>3 DEF BeginRound, HistoryStep, TalkStep
<1>2. \A point \in CompactionPoints : AfterCompaction[point] \in {"top", "request", "compactRound"}
  BY AfterCompactionInPCs
<1>3. CompactionPoints = {"compactPrompt", "compactRound", "compactBatch", "compactRecover"}
  BY DEF CompactionPoints, AfterCompaction
<1>4. CASE CompactSucceeds
  <2>1. Between /\ Between'
    BY <1>2, <1>3, <1>4 DEF CompactSucceeds, Between, Streaming, Batching, BatchPhases
  <2>2. (pc # "compactPrompt") \in BOOLEAN
    OBVIOUS
  <2> QED BY <1>4, <2>1, <2>2 DEF CompactSucceeds, HistoryStep, CompactStep
<1>5. CASE BelowThreshold \/ CompactFails \/ RetryWaitEnds
  <2>1. Between /\ Between'
    BY <1>2, <1>3, <1>5
       DEF BelowThreshold, CompactFails, RetryWaitEnds, Between, Streaming, Batching, BatchPhases
  <2>2. QuietStep
    BY <1>5, <2>1 DEF BelowThreshold, CompactFails, RetryWaitEnds, QuietStep, Between
  <2> QED BY <2>2 DEF HistoryStep
<1> QED BY <1>1, <1>4, <1>5 DEF Loop

\* What a response does.
LEMMA ResponseHistory ==
  ASSUME TypeOK, Response PROVE HistoryStep
<1> USE DEF Goto, Finish, conversation, typing, response
<1>0. /\ FailureKinds \subseteq Failures /\ Tools \subseteq ToolKinds
      /\ RetriesType /\ ConversationType
      /\ Between => calls = <<>>
  BY TurnAssumption DEF TypeOK, ResponseType, Between, Streaming, Batching
<1>1. CASE RequestFails
  <2>1. Between /\ Between'
    BY <1>0, <1>1, RecoverTo DEF RequestFails, Between, Streaming, Batching, BatchPhases
  <2>2. QuietStep
    BY <1>1, <2>1 DEF RequestFails, QuietStep, Between
  <2> QED BY <2>2 DEF HistoryStep
<1>2. CASE RequestAccepted
  BY <1>2 DEF RequestAccepted, HistoryStep, OpenStep, Between, Streaming, Batching, BatchPhases
<1>3. CASE StreamToolUse
  BY <1>0, <1>3 DEF StreamToolUse, HistoryStep, CallStep, Streaming
<1>4. CASE StreamUsage
  BY <1>4 DEF StreamUsage, HistoryStep, QuietStep, Streaming, Batching
<1>5. CASE StreamCloses
  BY <1>5 DEF StreamCloses, HistoryStep, DropStep, Between, Streaming, Batching, BatchPhases
<1>6. CASE StreamFails
  <2>1. Streaming /\ Between'
    BY <1>0, <1>6, RecoverTo DEF StreamFails, Between, Streaming, Batching, BatchPhases
  <2>2. AppendMessages(WithoutRunning)
    BY <1>0, <1>6, AppendNothing DEF StreamFails, Recover, MayRetry, Committed, WithoutRunning
  <2> QED BY <1>6, <2>1, <2>2 DEF StreamFails, HistoryStep, DropStep
<1>7. CASE StreamInterrupted
  <2>1. Streaming /\ Between'
    BY <1>7 DEF StreamInterrupted, Between, Streaming, Batching, BatchPhases
  <2>2. CASE Committed
    BY <1>7, <2>1, <2>2 DEF StreamInterrupted, HistoryStep, DropStep
  <2>3. CASE ~Committed
    BY <1>7, <2>1, <2>3 DEF StreamInterrupted, HistoryStep, AnswerStep, Committed
  <2> QED BY <2>2, <2>3
<1>8. CASE StreamDoneWithCalls
  BY <1>8 DEF StreamDoneWithCalls, HistoryStep, CommitStep, Committed, Streaming, Batching, BatchPhases
<1>9. CASE StreamDone
  <2>1. Streaming /\ Between' /\ calls = <<>>
    BY <1>9 DEF StreamDone, Between, Streaming, Batching, BatchPhases, Committed
  <2>2. \E new \in {<<>>, <<Assistant(<<>>)>>} : AppendMessages(new)
    BY <1>0, <1>9, AppendNothing DEF StreamDone
  <2> QED BY <1>9, <2>1, <2>2 DEF StreamDone, HistoryStep, AnswerStep
<1> QED BY <1>1, <1>2, <1>3, <1>4, <1>5, <1>6, <1>7, <1>8, <1>9 DEF Response

\* What a batch does: nothing, until its results are collected.
LEMMA BatchHistory ==
  ASSUME TypeOK, Batch \/ Drain PROVE HistoryStep
<1> USE DEF Goto, Finish, conversation, typing, response, InBatch
<1>1. CASE CollectBatch
  <2>1. Batching /\ Between'
    BY <1>1 DEF CollectBatch, Between, Streaming, Batching, BatchPhases
  <2> QED BY <1>1, <2>1 DEF CollectBatch, HistoryStep, CollectStep
<1>2. CASE SchemasChange
  BY <1>2 DEF SchemasChange, HistoryStep, QuietStep, Streaming, Batching, BatchPhases
<1>3. CASE MarkUnrun \/ Decide \/ GrowGroup \/ CloseGroup \/ LaunchMember \/ ToolStarts
            \/ MemberEnds \/ GroupEnds \/ ActOnVerdict \/ PromptCancelled \/ ExclusiveEnds
  <2>1. UNCHANGED <<messages, archive, baseline, calls, announced>>
    BY <1>3 DEF MarkUnrun, Decide, GrowGroup, CloseGroup, LaunchMember, ToolStarts, MemberEnds,
         GroupEnds, ActOnVerdict, PromptCancelled, ExclusiveEnds
  <2>2. pc \in BatchPhases /\ pc' \in BatchPhases
    BY <1>3 DEF MarkUnrun, Decide, GrowGroup, CloseGroup, LaunchMember, ToolStarts, MemberEnds,
         GroupEnds, ActOnVerdict, PromptCancelled, ExclusiveEnds, BatchPhases
  <2>3. QuietStep
    BY <2>1, <2>2 DEF QuietStep, Streaming, Batching, BatchPhases
  <2> QED BY <2>3 DEF HistoryStep
<1>4. CASE Drain
  BY <1>4 DEF Drain, HistoryStep, QuietStep, Streaming, Batching, BatchPhases
<1> QED BY <1>1, <1>2, <1>3, <1>4 DEF Batch

\* Every step of the session is one of the nine kinds.
LEMMA HistorySteps ==
  ASSUME TypeOK, [Next]_vars PROVE HistoryStep
<1>1. CASE UNCHANGED vars
  BY <1>1 DEF vars, HistoryStep, QuietStep, Streaming, Batching
<1> QED
  BY <1>1, UserHistory, LoopHistory, ResponseHistory, BatchHistory DEF Next, Engine

-----------------------------------------------------------------------------
(* What was measured stays a prefix.                                       *)

\* Appending keeps what is there where it is.
LEMMA AppendKeeps ==
  ASSUME ConversationType, NEW new \in Seq(Messages), AppendMessages(new)
  PROVE  /\ Len(messages') = Len(messages) + Len(new)
         /\ Len(archive') = Len(archive) + Len(new)
         /\ \A i \in 1..Len(messages) : messages'[i] = messages[i]
         /\ \A i \in 1..Len(archive) : archive'[i] = archive[i]
         /\ \A i \in 1..Len(new) : messages'[Len(messages) + i] = new[i]
         /\ \A i \in 1..Len(new) : archive'[Len(archive) + i] = new[i]
         /\ DOMAIN messages' = 1..Len(messages) + Len(new)
         /\ DOMAIN archive' = 1..Len(archive) + Len(new)
<1>1. messages \in Seq(Messages) /\ archive \in Seq(Messages)
  BY DEF ConversationType
<1>2. messages' = messages \o new /\ archive' = archive \o new
  BY DEF AppendMessages
<1>3. Len(messages) \in Nat /\ Len(archive) \in Nat /\ Len(new) \in Nat
  BY <1>1, LenProperties
<1>4. /\ messages' \in Seq(Messages) /\ archive' \in Seq(Messages)
      /\ Len(messages') = Len(messages) + Len(new)
      /\ Len(archive') = Len(archive) + Len(new)
      /\ \A i \in 1..Len(messages) + Len(new) :
           messages'[i] = IF i <= Len(messages) THEN messages[i] ELSE new[i - Len(messages)]
      /\ \A i \in 1..Len(archive) + Len(new) :
           archive'[i] = IF i <= Len(archive) THEN archive[i] ELSE new[i - Len(archive)]
  BY <1>1, <1>2, ConcatProperties
<1>5. \A i \in 1..Len(new) : /\ Len(messages) + i \in 1..Len(messages) + Len(new)
                             /\ Len(archive) + i \in 1..Len(archive) + Len(new)
                             /\ ~(Len(messages) + i <= Len(messages))
                             /\ ~(Len(archive) + i <= Len(archive))
                             /\ (Len(messages) + i) - Len(messages) = i
                             /\ (Len(archive) + i) - Len(archive) = i
  BY <1>3
<1>6. /\ \A i \in 1..Len(new) : messages'[Len(messages) + i] = new[i]
      /\ \A i \in 1..Len(new) : archive'[Len(archive) + i] = new[i]
  BY <1>4, <1>5
<1>7. /\ \A i \in 1..Len(messages) : messages'[i] = messages[i]
      /\ \A i \in 1..Len(archive) : archive'[i] = archive[i]
  BY <1>3, <1>4
<1>8. DOMAIN messages' = 1..Len(messages') /\ DOMAIN archive' = 1..Len(archive')
  BY <1>4, LenProperties
<1> QED BY <1>4, <1>6, <1>7, <1>8

\* The kinds of step that append, and what they append.
LEMMA AppendedType ==
  ASSUME TypeOK
  PROVE  /\ WithoutRunning \in Seq(Messages)
         /\ <<>> \in Seq(Messages) /\ <<Assistant(<<>>)>> \in Seq(Messages)
         /\ <<Assistant(calls)>> \in Seq(Messages) /\ <<Results(calls)>> \in Seq(Messages)
<1>1. calls \in Seq(Calls) /\ <<>> \in Seq(Calls)
  BY EmptySeq DEF TypeOK, ResponseType
<1>2. {Assistant(calls), Results(calls), Assistant(<<>>)} \subseteq Messages
  BY <1>1, MessageTypes
<1> QED BY <1>2 DEF WithoutRunning

\* Every step but a compaction and the quiet ones appends messages.
LEMMA StepAppends ==
  ASSUME TypeOK, HistoryStep, ~QuietStep, ~CompactStep, ~OpenStep, ~CallStep
  PROVE  (\E new \in Seq(Messages) : AppendMessages(new)) /\ UNCHANGED baseline
BY AppendedType DEF HistoryStep, TalkStep, DropStep, AnswerStep, CommitStep, CollectStep

\* The baseline is reset, taken of the whole conversation, or of what stays.
LEMMA BaselineStep ==
  ASSUME TypeOK, BaselineMeasuresPrefix, HistoryStep
  PROVE  BaselineMeasuresPrefix'
<1> USE DEF TypeOK, ConversationType, BaselineMeasuresPrefix
<1>0. /\ Len(baseline) \in Nat /\ Len(messages) \in Nat
      /\ DOMAIN baseline = 1..Len(baseline) /\ DOMAIN messages = 1..Len(messages)
  BY LenProperties
<1>1. CASE UNCHANGED messages /\ baseline' \in {baseline, messages}
  BY <1>0, <1>1
<1>2. ASSUME baseline' = <<>>, messages' \in Seq(Messages) PROVE BaselineMeasuresPrefix'
  BY <1>2, LenProperties, EmptySeq
<1>3. CASE QuietStep
  BY <1>1, <1>2, <1>3 DEF QuietStep
<1>4. CASE CompactStep
  BY <1>2, <1>4, CommitType DEF CompactStep, CommitCompacted
<1>5. CASE OpenStep \/ CallStep
  BY <1>1, <1>5 DEF OpenStep, CallStep
<1>6. ASSUME NEW new \in Seq(Messages), AppendMessages(new), UNCHANGED baseline
      PROVE  BaselineMeasuresPrefix'
  <2>1. Len(new) \in Nat
    BY LenProperties
  <2> QED BY <1>0, <1>6, <2>1, AppendKeeps
<1> QED BY <1>3, <1>4, <1>5, <1>6, StepAppends

-----------------------------------------------------------------------------
(* Calls and results stay paired.                                          *)

\* s is acceptable to a provider, but for an open batch at its end.
Paired(s, open) ==
  \A i \in DOMAIN s :
    /\ s[i].kind = "assistant" /\ s[i].calls # <<>> =>
         IF i = Len(s) THEN open ELSE s[i + 1] = Results(s[i].calls)
    /\ s[i].kind = "results" =>
         /\ s[i].calls # <<>>
         /\ i > 1 /\ s[i - 1] = Assistant(s[i].calls)

\* While a batch runs, the conversation ends with its calls.
EndsWithBatch ==
  Batching => /\ calls # <<>> /\ messages # <<>>
              /\ messages[Len(messages)] = Assistant(calls)

\* The kinds of the messages the engine makes.
LEMMA Kinds ==
  /\ \A cs : Assistant(cs).kind = "assistant" /\ Assistant(cs).calls = cs
  /\ \A cs : Results(cs).kind = "results" /\ Results(cs).calls = cs
  /\ Handoff.kind = "handoff" /\ Summary.kind = "summary" /\ Continue.kind = "continue"
BY DEF Assistant, Results, Message, Handoff, Summary, Continue

\* The two parts say what HistoryPaired says, and where the batch is.
LEMMA PairedIsHistoryPaired ==
  Paired(messages, Batching) /\ EndsWithBatch => HistoryPaired
BY Kinds DEF Paired, EndsWithBatch, HistoryPaired, Batching

\* Messages that are neither calls nor results leave the rest paired.
LEMMA PairedPlain ==
  ASSUME NEW s \in Seq(Messages), NEW t \in Seq(Messages), Paired(s, FALSE),
         \A i \in DOMAIN t : /\ t[i].kind # "results"
                             /\ t[i].kind = "assistant" => t[i].calls = <<>>
  PROVE  Paired(s \o t, FALSE)
<1> DEFINE u == s \o t
<1>1. /\ Len(s) \in Nat /\ Len(t) \in Nat
      /\ DOMAIN s = 1..Len(s) /\ DOMAIN t = 1..Len(t)
  BY LenProperties
<1>2. /\ Len(u) = Len(s) + Len(t) /\ DOMAIN u = 1..Len(u)
      /\ \A i \in 1..Len(s) + Len(t) : u[i] = IF i <= Len(s) THEN s[i] ELSE t[i - Len(s)]
  BY ConcatProperties, LenProperties
<1> HIDE DEF u
<1>3. \A i \in 1..Len(s) : u[i] = s[i]
  BY <1>1, <1>2
<1>4. ASSUME NEW i \in DOMAIN u, i > Len(s)
      PROVE  u[i].kind # "results" /\ (u[i].kind = "assistant" => u[i].calls = <<>>)
  <2>1. i - Len(s) \in DOMAIN t /\ u[i] = t[i - Len(s)]
    BY <1>1, <1>2, <1>4
  <2> QED BY <2>1
<1>5. ASSUME NEW i \in DOMAIN u, i <= Len(s), u[i].kind = "assistant", u[i].calls # <<>>
      PROVE  i # Len(u) /\ u[i + 1] = Results(u[i].calls)
  <2>1. i \in DOMAIN s /\ u[i] = s[i]
    BY <1>1, <1>2, <1>3, <1>5
  <2>2. i # Len(s) /\ s[i + 1] = Results(s[i].calls)
    BY <1>5, <2>1 DEF Paired
  <2>3. i + 1 \in 1..Len(s)
    BY <1>1, <2>1, <2>2
  <2> QED BY <1>1, <1>2, <1>3, <2>1, <2>2, <2>3
<1>6. ASSUME NEW i \in DOMAIN u, i <= Len(s), u[i].kind = "results"
      PROVE  u[i].calls # <<>> /\ i > 1 /\ u[i - 1] = Assistant(u[i].calls)
  <2>1. i \in DOMAIN s /\ u[i] = s[i]
    BY <1>1, <1>2, <1>3, <1>6
  <2>2. s[i].calls # <<>> /\ i > 1 /\ s[i - 1] = Assistant(s[i].calls)
    BY <1>6, <2>1 DEF Paired
  <2>3. i - 1 \in 1..Len(s)
    BY <1>1, <2>1, <2>2
  <2> QED BY <1>3, <2>1, <2>2, <2>3
<1>7. \A i \in DOMAIN u : i \in Nat /\ (i > Len(s) \/ i <= Len(s))
  BY <1>1, <1>2
<1>8. Paired(u, FALSE)
  BY <1>4, <1>5, <1>6, <1>7 DEF Paired
<1> QED BY <1>8 DEF u

\* A batch is opened by an assistant's calls.
LEMMA PairedOpens ==
  ASSUME NEW s \in Seq(Messages), NEW cs \in Seq(Calls), Paired(s, FALSE), cs # <<>>
  PROVE  /\ Paired(s \o <<Assistant(cs)>>, TRUE)
         /\ (s \o <<Assistant(cs)>>)[Len(s \o <<Assistant(cs)>>)] = Assistant(cs)
         /\ s \o <<Assistant(cs)>> # <<>>
<1> DEFINE u == s \o <<Assistant(cs)>>
<1>1. Assistant(cs) \in Messages /\ Len(s) \in Nat /\ DOMAIN s = 1..Len(s)
  BY MessageTypes, LenProperties
<1>2. /\ u \in Seq(Messages) /\ Len(u) = Len(s) + 1 /\ DOMAIN u = 1..Len(s) + 1
      /\ \A i \in 1..Len(s) : u[i] = s[i]
      /\ u[Len(s) + 1] = Assistant(cs)
      /\ u # <<>>
  <2>1. u = Append(s, Assistant(cs))
    BY <1>1, AppendIsConcat
  <2> QED BY <1>1, <2>1, AppendProperties, LenProperties
<1> HIDE DEF u
<1>3. ASSUME NEW i \in DOMAIN u
      PROVE  /\ u[i].kind = "assistant" /\ u[i].calls # <<>> =>
                  (IF i = Len(u) THEN TRUE ELSE u[i + 1] = Results(u[i].calls))
             /\ u[i].kind = "results" =>
                  u[i].calls # <<>> /\ i > 1 /\ u[i - 1] = Assistant(u[i].calls)
  <2>1. CASE i = Len(s) + 1
    BY <1>1, <1>2, <2>1, Kinds
  <2>2. CASE i \in 1..Len(s)
    <3>1. u[i] = s[i] /\ i \in DOMAIN s
      BY <1>1, <1>2, <2>2
    <3>2. i = Len(s) => ~(s[i].kind = "assistant" /\ s[i].calls # <<>>)
      BY <3>1 DEF Paired
    <3>3. i # Len(s) => i + 1 \in 1..Len(s)
      BY <1>1, <2>2
    <3>4. i > 1 => i - 1 \in 1..Len(s)
      BY <1>1, <2>2
    <3> QED BY <1>1, <1>2, <3>1, <3>2, <3>3, <3>4 DEF Paired
  <2> QED BY <1>1, <1>2, <2>1, <2>2
<1>4. Paired(u, TRUE)
  BY <1>3 DEF Paired
<1> QED BY <1>2, <1>4 DEF u

\* It is closed by their results.
LEMMA PairedCloses ==
  ASSUME NEW s \in Seq(Messages), NEW cs \in Seq(Calls), Paired(s, TRUE), cs # <<>>,
         s # <<>>, s[Len(s)] = Assistant(cs)
  PROVE  Paired(s \o <<Results(cs)>>, FALSE)
<1> DEFINE u == s \o <<Results(cs)>>
<1>1. Results(cs) \in Messages /\ Len(s) \in Nat \ {0} /\ DOMAIN s = 1..Len(s)
  BY MessageTypes, LenProperties, EmptySeq
<1>2. /\ u \in Seq(Messages) /\ Len(u) = Len(s) + 1 /\ DOMAIN u = 1..Len(s) + 1
      /\ \A i \in 1..Len(s) : u[i] = s[i]
      /\ u[Len(s) + 1] = Results(cs)
  <2>1. u = Append(s, Results(cs))
    BY <1>1, AppendIsConcat
  <2> QED BY <1>1, <2>1, AppendProperties, LenProperties
<1> HIDE DEF u
<1>3. ASSUME NEW i \in DOMAIN u
      PROVE  /\ u[i].kind = "assistant" /\ u[i].calls # <<>> =>
                  (IF i = Len(u) THEN FALSE ELSE u[i + 1] = Results(u[i].calls))
             /\ u[i].kind = "results" =>
                  u[i].calls # <<>> /\ i > 1 /\ u[i - 1] = Assistant(u[i].calls)
  <2>1. CASE i = Len(s) + 1
    BY <1>1, <1>2, <2>1, Kinds
  <2>2. CASE i = Len(s)
    <3>0. Len(s) >= 1 /\ Len(s) \in Nat
      BY <1>1
    <3>1. i \in 1..Len(s) /\ i # Len(u) /\ i + 1 = Len(s) + 1
      BY <1>2, <2>2, <3>0
    <3>2. u[i] = Assistant(cs) /\ u[i + 1] = Results(cs)
      BY <1>2, <2>2, <3>1
    <3> QED BY <3>1, <3>2, Kinds
  <2>3. CASE i \in 1..Len(s) /\ i # Len(s)
    <3>1. u[i] = s[i] /\ i \in DOMAIN s /\ i + 1 \in 1..Len(s)
      BY <1>1, <1>2, <2>3
    <3>2. i > 1 => i - 1 \in 1..Len(s)
      BY <1>1, <2>3
    <3> QED BY <1>1, <1>2, <2>3, <3>1, <3>2 DEF Paired
  <2> QED BY <1>1, <1>2, <2>1, <2>2, <2>3
<1>4. Paired(u, FALSE)
  BY <1>3 DEF Paired
<1> QED BY <1>4 DEF u

-----------------------------------------------------------------------------
(* Ids stay unique.                                                        *)

\* The calls of a conversation have ids of their own.
Distinct(s) ==
  \A i, j \in DOMAIN s : s[i].kind = "assistant" /\ s[j].kind = "assistant" =>
    \A a \in DOMAIN s[i].calls, b \in DOMAIN s[j].calls :
      s[i].calls[a].id = s[j].calls[b].id => i = j /\ a = b

\* So have the calls of a response, and none of the conversation's.
Apart(s, cs) ==
  /\ \A a, b \in DOMAIN cs : cs[a].id = cs[b].id => a = b
  /\ \A a \in DOMAIN cs, i \in DOMAIN s : s[i].kind = "assistant" =>
       \A b \in DOMAIN s[i].calls : cs[a].id # s[i].calls[b].id

IdsApart == Distinct(messages) /\ (Streaming => Apart(messages, calls))

\* The ids of a conversation's assistant messages, one by one.
LEMMA IdsInHas ==
  ASSUME NEW s \in Seq(Messages), NEW kind, NEW n \in 0..Len(s), NEW i \in 1..n,
         s[i].kind = kind, NEW a \in DOMAIN s[i].calls
  PROVE  s[i].calls[a].id \in IdsIn(s, kind, n)
<1>1. s[i].calls[a].id \in IdsOf(s[i].calls)
  BY DEF IdsOf
<1> QED BY <1>1 DEF IdsIn

\* An id that unique_tool_use_id returns is new.
LEMMA UniqueIdIsNew ==
  ASSUME TypeOK, NEW raw \in RawIds, NEW id \in UniqueId(raw)
  PROVE  /\ \A a \in DOMAIN calls : calls[a].id # id
         /\ \A i \in DOMAIN messages : messages[i].kind = "assistant" =>
              \A b \in DOMAIN messages[i].calls : messages[i].calls[b].id # id
<1>1. id \notin IdsOf(calls) \cup IdsIn(messages, "assistant", Len(messages))
  BY DEF UniqueId
<1>2. DOMAIN messages = 1..Len(messages) /\ Len(messages) \in 0..Len(messages)
  BY LenProperties DEF TypeOK, ConversationType
<1>3. \A i \in DOMAIN messages : messages[i].kind = "assistant" =>
        \A b \in DOMAIN messages[i].calls : messages[i].calls[b].id # id
  BY <1>1, <1>2, IdsInHas DEF TypeOK, ConversationType
<1> QED BY <1>1, <1>3 DEF IdsOf

\* Messages without calls of an assistant add no ids.
LEMMA DistinctPlain ==
  ASSUME NEW s \in Seq(Messages), NEW t \in Seq(Messages), Distinct(s),
         \A i \in DOMAIN t : t[i].kind = "assistant" => t[i].calls = <<>>
  PROVE  Distinct(s \o t)
<1> DEFINE u == s \o t
<1>1. /\ Len(s) \in Nat /\ Len(t) \in Nat
      /\ DOMAIN s = 1..Len(s) /\ DOMAIN t = 1..Len(t)
  BY LenProperties
<1>2. /\ DOMAIN u = 1..Len(s) + Len(t)
      /\ \A i \in 1..Len(s) + Len(t) : u[i] = IF i <= Len(s) THEN s[i] ELSE t[i - Len(s)]
  BY ConcatProperties, LenProperties
<1> HIDE DEF u
<1>3. ASSUME NEW i \in DOMAIN u, u[i].kind = "assistant", NEW a \in DOMAIN u[i].calls
      PROVE  i \in DOMAIN s /\ u[i] = s[i]
  <2>1. CASE i <= Len(s)
    BY <1>1, <1>2, <2>1
  <2>2. CASE i > Len(s)
    <3>1. i - Len(s) \in DOMAIN t /\ u[i] = t[i - Len(s)]
      BY <1>1, <1>2, <2>2
    <3> QED BY <1>3, <3>1
  <2> QED BY <1>1, <1>2, <2>1, <2>2
<1>4. Distinct(u)
  BY <1>3 DEF Distinct
<1> QED BY <1>4 DEF u

\* The calls of a response join the conversation.
LEMMA DistinctJoins ==
  ASSUME NEW s \in Seq(Messages), NEW cs \in Seq(Calls), Distinct(s), Apart(s, cs)
  PROVE  Distinct(s \o <<Assistant(cs)>>)
<1> DEFINE u == s \o <<Assistant(cs)>>
<1>1. Assistant(cs) \in Messages /\ Len(s) \in Nat /\ DOMAIN s = 1..Len(s)
  BY MessageTypes, LenProperties
<1>2. /\ DOMAIN u = 1..Len(s) + 1
      /\ \A i \in 1..Len(s) : u[i] = s[i]
      /\ u[Len(s) + 1] = Assistant(cs)
  <2>1. u = Append(s, Assistant(cs))
    BY <1>1, AppendIsConcat
  <2> QED BY <1>1, <2>1, AppendProperties, LenProperties
<1> HIDE DEF u
<1>3. u[Len(s) + 1].calls = cs
  BY <1>2, Kinds
<1>4. \A i \in DOMAIN u : i = Len(s) + 1 \/ (i \in DOMAIN s /\ u[i] = s[i])
  BY <1>1, <1>2
<1>5. ASSUME NEW i \in DOMAIN u, NEW j \in DOMAIN u,
             u[i].kind = "assistant", u[j].kind = "assistant",
             NEW a \in DOMAIN u[i].calls, NEW b \in DOMAIN u[j].calls,
             u[i].calls[a].id = u[j].calls[b].id
      PROVE  i = j /\ a = b
  <2>1. CASE i = Len(s) + 1 /\ j = Len(s) + 1
    BY <1>3, <1>5, <2>1 DEF Apart
  <2>2. CASE i = Len(s) + 1 /\ j \in DOMAIN s /\ u[j] = s[j]
    BY <1>3, <1>5, <2>2 DEF Apart
  <2>3. CASE j = Len(s) + 1 /\ i \in DOMAIN s /\ u[i] = s[i]
    BY <1>3, <1>5, <2>3 DEF Apart
  <2>4. CASE i \in DOMAIN s /\ u[i] = s[i] /\ j \in DOMAIN s /\ u[j] = s[j]
    BY <1>5, <2>4 DEF Distinct
  <2> QED BY <1>4, <2>1, <2>2, <2>3, <2>4
<1>6. Distinct(u)
  BY <1>5 DEF Distinct
<1> QED BY <1>6 DEF u

\* A new call keeps the response apart.
LEMMA ApartGrows ==
  ASSUME TypeOK, Apart(messages, calls), NEW raw \in RawIds, NEW tool \in ToolKinds,
         NEW id \in UniqueId(raw)
  PROVE  Apart(messages, Append(calls, [id |-> id, tool |-> tool]))
<1> DEFINE c == [id |-> id, tool |-> tool]
           u == Append(calls, c)
<1>1. c \in Calls /\ c.id = id /\ calls \in Seq(Calls)
  BY UniqueIdType DEF Calls, TypeOK, ResponseType
<1>2. Len(calls) \in Nat /\ DOMAIN calls = 1..Len(calls)
  BY <1>1, LenProperties
<1> HIDE DEF c
<1>3. /\ DOMAIN u = 1..Len(calls) + 1
      /\ \A a \in 1..Len(calls) : u[a] = calls[a]
      /\ u[Len(calls) + 1] = c
  BY <1>1, AppendProperties, LenProperties
<1> HIDE DEF u
<1>4. \A a \in DOMAIN u : \/ a = Len(calls) + 1 /\ u[a].id = id
                          \/ a \in DOMAIN calls /\ u[a] = calls[a]
  BY <1>1, <1>2, <1>3
<1>5. Apart(messages, u)
  BY <1>4, UniqueIdIsNew DEF Apart
<1> QED BY <1>5 DEF u, c

-----------------------------------------------------------------------------
(* Compaction.                                                             *)

\* u is the tail of s that starts at t and is n long, among markers.
TailAmongMarkers(u, s, t, n) ==
  /\ n = Len(s) + 1 - t /\ t \in 1..Len(s) + 1 /\ Len(s) \in Nat
  /\ u \in Seq(Messages) /\ DOMAIN u = 1..Len(u) /\ Len(u) \in {n + 2, n + 3}
  /\ \A i \in 3..n + 2 : u[i] = s[t + i - 3] /\ t + i - 3 \in 1..Len(s)
  /\ \A i \in 1..Len(u) : i \in 3..n + 2 \/ u[i] \in Markers

\* That is what a compaction leaves.
LEMMA CompactedShape ==
  ASSUME NEW s \in Seq(Messages), NEW t \in TailStarts(s), NEW resume \in BOOLEAN
  PROVE  \E n \in Nat : TailAmongMarkers(Compacted(s, t, resume), s, t, n)
<1> DEFINE u == Compacted(s, t, resume)
           head == <<Handoff, Summary>>
           tail == SubSeq(s, t, Len(s))
           kept == head \o tail
<1>0. Len(s) \in Nat /\ t \in 1..Len(s) + 1
  BY LenProperties DEF TailStarts, Boundaries
<1>1. PICK n \in Nat : n = Len(s) + 1 - t
  BY <1>0
<1>2. \A i \in t..Len(s) : s[i] \in Messages
  BY <1>0, ElementOfSeq
<1>3. tail \in Seq(Messages) /\ Len(tail) = n
  <2>1. /\ tail \in Seq(Messages)
        /\ Len(tail) = IF t <= Len(s) THEN Len(s) - t + 1 ELSE 0
    BY <1>0, <1>2, SubSeqProperties
  <2> QED BY <1>0, <1>1, <2>1
<1>4. \A i \in 1..n : tail[i] = s[t + i - 1]
  <2>1. \A i \in 1..(Len(s) - t + 1) : tail[i] = s[t + i - 1]
    BY <1>0, <1>2, SubSeqProperties
  <2>2. Len(s) - t + 1 = n
    BY <1>0, <1>1
  <2> QED BY <2>1, <2>2
<1>5. {Handoff, Summary, Continue} \subseteq Messages
  BY DEF Handoff, Summary, Continue, Message, Messages, MessageKinds
<1>6. head \in Seq(Messages) /\ Len(head) = 2 /\ head[1] \in Markers /\ head[2] \in Markers
  BY <1>5 DEF Markers
<1> HIDE DEF tail, head
<1>7. /\ kept \in Seq(Messages) /\ Len(kept) = n + 2
      /\ \A i \in 1..n + 2 : kept[i] = IF i <= 2 THEN head[i] ELSE tail[i - 2]
  <2>1. Len(head) + Len(tail) = n + 2
    BY <1>3, <1>6
  <2>2. /\ kept \in Seq(Messages) /\ Len(kept) = Len(head) + Len(tail)
        /\ \A i \in 1..Len(head) + Len(tail) :
             kept[i] = IF i <= Len(head) THEN head[i] ELSE tail[i - Len(head)]
    BY <1>3, <1>6, ConcatProperties
  <2> HIDE DEF kept
  <2> QED BY <1>6, <2>1, <2>2
<1>8. \A i \in 3..n + 2 : kept[i] = s[t + i - 3] /\ t + i - 3 \in 1..Len(s)
  <2> SUFFICES ASSUME NEW i \in 3..n + 2
               PROVE  kept[i] = s[t + i - 3] /\ t + i - 3 \in 1..Len(s)
    OBVIOUS
  <2>1. /\ i \in 1..n + 2 /\ ~(i <= 2) /\ i - 2 \in 1..n /\ t + (i - 2) - 1 = t + i - 3
        /\ t + i - 3 \in 1..Len(s)
    BY <1>0, <1>1
  <2> QED BY <1>4, <1>7, <2>1
<1>9. \A i \in 1..n + 2 : i \in 3..n + 2 \/ kept[i] \in Markers
  <2>1. \A i \in 1..n + 2 : i \in 3..n + 2 \/ (i <= 2 /\ (i = 1 \/ i = 2))
    BY <1>1
  <2> QED BY <1>6, <1>7, <2>1
<1> HIDE DEF kept
<1>10. u \in {kept, Append(kept, Continue)}
  BY DEF Compacted, kept, head, tail, u
<1> HIDE DEF u
<1>11. ASSUME u = kept PROVE TailAmongMarkers(u, s, t, n)
  BY <1>0, <1>1, <1>7, <1>8, <1>9, <1>11, LenProperties DEF TailAmongMarkers
<1>12. ASSUME u = Append(kept, Continue) PROVE TailAmongMarkers(u, s, t, n)
  <2>1. /\ u \in Seq(Messages) /\ Len(u) = n + 3 /\ u[n + 3] = Continue
        /\ \A i \in 1..n + 2 : u[i] = kept[i]
    <3>1. Len(kept) + 1 = n + 3
      BY <1>1, <1>7
    <3> QED BY <1>5, <1>7, <1>12, <3>1, AppendProperties
  <2>2. DOMAIN u = 1..Len(u)
    BY <2>1, LenProperties
  <2>3. \A i \in 3..n + 2 : i \in 1..n + 2
    BY <1>1
  <2>4. \A i \in 1..Len(u) : i \in 1..n + 2 \/ i = n + 3
    BY <1>1, <2>1
  <2> QED BY <1>0, <1>1, <1>8, <1>9, <2>1, <2>2, <2>3, <2>4 DEF Markers, TailAmongMarkers
<1> QED BY <1>1, <1>10, <1>11, <1>12 DEF u

\* No marker is a call or a result.
LEMMA MarkerKinds ==
  \A m \in Markers : m.kind \in {"handoff", "summary", "continue"}
BY Kinds DEF Markers

\* A tail does not start with results: their calls would be unanswered before it.
LEMMA TailStartsClean ==
  ASSUME NEW s \in Seq(Messages), NEW t \in TailStarts(s), t <= Len(s),
         Paired(s, FALSE), Distinct(s)
  PROVE  s[t].kind # "results"
<1>1. /\ Len(s) \in Nat /\ DOMAIN s = 1..Len(s)
      /\ t \in 2..Len(s)
      /\ IdsIn(s, "assistant", t - 1) \subseteq IdsIn(s, "results", t - 1)
  BY LenProperties DEF TailStarts, Boundaries
<1> SUFFICES ASSUME s[t].kind = "results" PROVE FALSE
  OBVIOUS
<1> DEFINE cs == s[t].calls
<1>2. cs # <<>> /\ s[t - 1] = Assistant(cs)
  BY <1>1 DEF Paired
<1>3. cs \in Seq(Calls)
  <2>1. s[t] \in Messages
    BY <1>1, ElementOfSeq
  <2> QED BY <2>1 DEF Messages
<1>4. 1 \in DOMAIN cs
  <2>1. Len(cs) \in Nat \ {0} /\ DOMAIN cs = 1..Len(cs)
    BY <1>2, <1>3, EmptySeq, LenProperties
  <2> QED BY <2>1
<1>5. t - 1 \in 1..(t - 1) /\ t - 1 \in 0..Len(s) /\ t - 1 \in DOMAIN s
  BY <1>1
<1>6. cs[1].id \in IdsIn(s, "assistant", t - 1)
  BY <1>2, <1>4, <1>5, IdsInHas, Kinds
<1>7. PICK k \in 1..(t - 1) : s[k].kind = "results" /\ cs[1].id \in IdsOf(s[k].calls)
  BY <1>1, <1>6 DEF IdsIn
<1>8. PICK b \in DOMAIN s[k].calls : s[k].calls[b].id = cs[1].id
  BY <1>7 DEF IdsOf
<1>9. k \in DOMAIN s /\ k > 1 /\ s[k - 1] = Assistant(s[k].calls)
  BY <1>1, <1>7 DEF Paired
<1>10. k - 1 \in DOMAIN s
  BY <1>1, <1>9
<1>11. k - 1 = t - 1
  BY <1>2, <1>4, <1>5, <1>8, <1>9, <1>10, Kinds DEF Distinct
<1> QED BY <1>1, <1>7, <1>11

\* What is compacted stays paired.
LEMMA PairedCompacted ==
  ASSUME NEW s \in Seq(Messages), NEW t \in TailStarts(s), NEW resume \in BOOLEAN,
         Paired(s, FALSE), Distinct(s)
  PROVE  Paired(Compacted(s, t, resume), FALSE)
<1> DEFINE u == Compacted(s, t, resume)
<1>0. PICK n \in Nat : TailAmongMarkers(u, s, t, n)
  BY CompactedShape
<1>1. /\ n = Len(s) + 1 - t /\ t \in 1..Len(s) + 1 /\ Len(s) \in Nat
      /\ u \in Seq(Messages) /\ DOMAIN u = 1..Len(u) /\ Len(u) \in {n + 2, n + 3}
      /\ \A i \in 3..n + 2 : u[i] = s[t + i - 3] /\ t + i - 3 \in 1..Len(s)
      /\ \A i \in 1..Len(u) : i \in 3..n + 2 \/ u[i] \in Markers
  BY <1>0 DEF TailAmongMarkers
<1>2. DOMAIN s = 1..Len(s)
  BY LenProperties
<1> HIDE DEF u
<1>3. ASSUME NEW i \in 3..n + 2, NEW j, j = t + i - 3,
             u[i].kind = "assistant", u[i].calls # <<>>
      PROVE  i # Len(u) /\ u[i + 1] = Results(u[i].calls)
  <2>1. j \in DOMAIN s /\ u[i] = s[j]
    BY <1>1, <1>2, <1>3
  <2>2. j # Len(s) /\ s[j + 1] = Results(s[j].calls)
    BY <1>3, <2>1 DEF Paired
  <2>3. /\ n = Len(s) + 1 - t /\ t \in 1..Len(s) + 1 /\ Len(s) \in Nat
        /\ Len(u) = n + 2 \/ Len(u) = n + 3
        /\ j = t + i - 3 /\ j # Len(s) /\ j \in 1..Len(s)
    BY <1>1, <1>2, <1>3, <2>1, <2>2
  <2>4. i + 1 \in 3..n + 2 /\ t + (i + 1) - 3 = j + 1 /\ i # Len(u)
    BY <2>3
  <2> QED BY <1>1, <2>1, <2>2, <2>4
<1>4. ASSUME NEW i \in 3..n + 2, NEW j, j = t + i - 3, u[i].kind = "results"
      PROVE  u[i].calls # <<>> /\ i > 1 /\ u[i - 1] = Assistant(u[i].calls)
  <2>1. j \in DOMAIN s /\ u[i] = s[j]
    BY <1>1, <1>2, <1>4
  <2>2. s[j].calls # <<>> /\ s[j - 1] = Assistant(s[j].calls)
    BY <1>4, <2>1 DEF Paired
  <2>3. i # 3
    <3>1. i = 3 => j = t /\ t <= Len(s)
      BY <1>1, <1>4
    <3> QED BY <1>4, <2>1, <3>1, TailStartsClean
  <2>4. i - 1 \in 3..n + 2 /\ t + (i - 1) - 3 = j - 1 /\ i > 1
    BY <1>1, <1>4, <2>3
  <2> QED BY <1>1, <2>1, <2>2, <2>4
<1>5. Paired(u, FALSE)
  BY <1>1, <1>3, <1>4, MarkerKinds DEF Paired
<1> QED BY <1>5 DEF u

\* It keeps its ids.
LEMMA DistinctCompacted ==
  ASSUME NEW s \in Seq(Messages), NEW t \in TailStarts(s), NEW resume \in BOOLEAN,
         Distinct(s)
  PROVE  Distinct(Compacted(s, t, resume))
<1> DEFINE u == Compacted(s, t, resume)
<1>0. PICK n \in Nat : TailAmongMarkers(u, s, t, n)
  BY CompactedShape
<1>1. /\ n = Len(s) + 1 - t /\ t \in 1..Len(s) + 1 /\ Len(s) \in Nat
      /\ u \in Seq(Messages) /\ DOMAIN u = 1..Len(u) /\ Len(u) \in {n + 2, n + 3}
      /\ \A i \in 3..n + 2 : u[i] = s[t + i - 3] /\ t + i - 3 \in 1..Len(s)
      /\ \A i \in 1..Len(u) : i \in 3..n + 2 \/ u[i] \in Markers
  BY <1>0 DEF TailAmongMarkers
<1>2. DOMAIN s = 1..Len(s)
  BY LenProperties
<1> HIDE DEF u
<1>3. \A i \in DOMAIN u : u[i].kind = "assistant" =>
        i \in 3..n + 2 /\ t + i - 3 \in DOMAIN s /\ u[i] = s[t + i - 3]
  BY <1>1, <1>2, MarkerKinds
<1>4. \A i, j \in 3..n + 2 : t + i - 3 = t + j - 3 => i = j
  BY <1>1
<1>5. Distinct(u)
  BY <1>3, <1>4 DEF Distinct
<1> QED BY <1>5 DEF u

\* Between batches nothing is open, in a batch the last calls are.
LEMMA OpenWhileBatching ==
  /\ ~Batching => (Paired(messages, Batching) <=> Paired(messages, FALSE))
  /\ Batching => (Paired(messages, Batching) <=> Paired(messages, TRUE))
BY DEF Paired

\* Every step keeps calls and results paired.
LEMMA PairedStep ==
  ASSUME TypeOK, HistoryStep, Paired(messages, Batching), EndsWithBatch, Distinct(messages)
  PROVE  Paired(messages', Batching') /\ EndsWithBatch'
<1>0. messages \in Seq(Messages) /\ calls \in Seq(Calls)
  BY DEF TypeOK, ConversationType, ResponseType
<1>1. ASSUME ~Batching', Paired(messages', FALSE)
      PROVE  Paired(messages', Batching') /\ EndsWithBatch'
  <2>1. Paired(messages', Batching')
    BY <1>1 DEF Paired
  <2> QED BY <1>1, <2>1 DEF EndsWithBatch
<1>2. ~Batching => Paired(messages, FALSE)
  BY OpenWhileBatching
<1>3. (Streaming => ~Batching) /\ (Streaming' => ~Batching')
  BY DEF Streaming, Batching, BatchPhases
<1>4. CASE QuietStep
  <2>1. UNCHANGED <<messages, calls>> /\ (Batching' <=> Batching)
    BY <1>4 DEF QuietStep
  <2>2. Paired(messages', Batching')
    BY <2>1 DEF Paired
  <2> QED BY <2>1, <2>2 DEF EndsWithBatch
<1>5. CASE OpenStep \/ CallStep
  BY <1>1, <1>2, <1>3, <1>5 DEF OpenStep, CallStep, Between
<1>6. ASSUME NEW new \in Seq(Messages), AppendMessages(new), ~Batching, ~Batching',
             \A i \in DOMAIN new : /\ new[i].kind # "results"
                                   /\ new[i].kind = "assistant" => new[i].calls = <<>>
      PROVE  Paired(messages', Batching') /\ EndsWithBatch'
  BY <1>0, <1>1, <1>2, <1>6, PairedPlain DEF AppendMessages
<1>7. CASE TalkStep
  <2>1. PICK new \in Seq(Messages) :
          AppendMessages(new) /\ \A i \in DOMAIN new : new[i].kind \in {"prompt", "steer"}
    BY <1>7 DEF TalkStep
  <2> QED BY <1>6, <1>7, <2>1 DEF TalkStep, Between
<1>8. CASE AnswerStep
  <2>1. PICK new \in {<<>>, <<Assistant(<<>>)>>} : AppendMessages(new)
    BY <1>8 DEF AnswerStep
  <2>2. new \in Seq(Messages)
    BY AppendedType
  <2>3. \A i \in DOMAIN new : new[i].kind = "assistant" /\ new[i].calls = <<>>
    BY Kinds
  <2> QED BY <1>3, <1>6, <1>8, <2>1, <2>2, <2>3 DEF AnswerStep, Between
<1>9. CASE CompactStep
  <2>1. PICK t \in TailStarts(messages), resume \in BOOLEAN :
          messages' = Compacted(messages, t, resume)
    BY <1>9 DEF CompactStep, CommitCompacted
  <2>2. Paired(messages', FALSE)
    BY <1>0, <1>2, <1>9, <2>1, PairedCompacted DEF CompactStep, Between
  <2> QED BY <1>1, <1>9, <2>2 DEF CompactStep, Between
<1>10. CASE CommitStep
  <2>1. messages' = messages \o <<Assistant(calls)>> /\ UNCHANGED calls /\ calls # <<>>
        /\ ~Batching /\ Batching'
    BY <1>3, <1>10 DEF CommitStep, AppendMessages
  <2>2. /\ Paired(messages', TRUE) /\ messages' # <<>>
        /\ messages'[Len(messages')] = Assistant(calls)
    BY <1>0, <1>2, <2>1, PairedOpens
  <2>3. Paired(messages', Batching')
    BY <2>1, <2>2 DEF Paired
  <2> QED BY <2>1, <2>2, <2>3 DEF EndsWithBatch
<1>11. CASE CollectStep
  <2>1. messages' = messages \o <<Results(calls)>> /\ Batching /\ ~Batching'
    BY <1>11 DEF CollectStep, AppendMessages, Between
  <2>2. /\ Paired(messages, TRUE) /\ calls # <<>> /\ messages # <<>>
        /\ messages[Len(messages)] = Assistant(calls)
    BY <2>1, OpenWhileBatching DEF EndsWithBatch
  <2> QED BY <1>0, <1>1, <2>1, <2>2, PairedCloses
<1>12. CASE DropStep /\ calls # <<>>
  <2>1. messages' = messages \o <<Assistant(calls), Results(calls)>> /\ ~Batching /\ ~Batching'
    BY <1>3, <1>12 DEF DropStep, AppendMessages, Between, WithoutRunning, Committed
  <2> DEFINE opened == messages \o <<Assistant(calls)>>
  <2>2. Assistant(calls) \in Messages /\ Results(calls) \in Messages
    BY <1>0, MessageTypes
  <2>3. messages' = opened \o <<Results(calls)>> /\ opened \in Seq(Messages)
    BY <1>0, <2>1, <2>2
  <2>4. /\ Paired(opened, TRUE) /\ opened # <<>> /\ opened[Len(opened)] = Assistant(calls)
    BY <1>0, <1>2, <1>12, <2>1, PairedOpens
  <2> HIDE DEF opened
  <2> QED BY <1>0, <1>1, <1>12, <2>1, <2>3, <2>4, PairedCloses
<1>13. CASE DropStep /\ calls = <<>>
  <2>1. AppendMessages(<<>>) /\ ~Batching /\ ~Batching'
    BY <1>3, <1>13 DEF DropStep, Between, WithoutRunning, Committed
  <2>2. UNCHANGED messages
    BY <1>0, <2>1, ConcatEmptySeq DEF AppendMessages
  <2> QED BY <1>1, <1>2, <2>1, <2>2
<1> QED
  BY <1>4, <1>5, <1>7, <1>8, <1>9, <1>10, <1>11, <1>12, <1>13 DEF HistoryStep

\* Every step keeps the ids apart.
LEMMA IdsStep ==
  ASSUME TypeOK, HistoryStep, IdsApart PROVE IdsApart'
<1>0. messages \in Seq(Messages) /\ calls \in Seq(Calls)
      /\ (Between => calls = <<>>)
  BY DEF TypeOK, ConversationType, ResponseType, Between, Streaming, Batching
<1>1. Between' \/ Batching' => ~Streaming'
  BY DEF Between, Streaming, Batching, BatchPhases
<1>2. CASE QuietStep
  BY <1>2 DEF QuietStep, IdsApart
<1>3. CASE OpenStep
  <2>1. Apart(messages, calls) /\ UNCHANGED <<messages, calls>>
    BY <1>0, <1>3 DEF OpenStep, Apart
  <2> QED BY <2>1 DEF IdsApart
<1>4. CASE CallStep
  <2>1. PICK raw \in RawIds, tool \in ToolKinds : \E id \in UniqueId(raw) :
          calls' = Append(calls, [id |-> id, tool |-> tool])
    BY <1>4 DEF CallStep
  <2>2. PICK id \in UniqueId(raw) : calls' = Append(calls, [id |-> id, tool |-> tool])
    BY <2>1
  <2>3. Apart(messages, calls')
    BY <1>4, <2>2, ApartGrows DEF CallStep, IdsApart
  <2> QED BY <1>4, <2>3 DEF CallStep, IdsApart
<1>5. ASSUME NEW new \in Seq(Messages), AppendMessages(new), ~Streaming',
             \A i \in DOMAIN new : new[i].kind = "assistant" => new[i].calls = <<>>
      PROVE  IdsApart'
  BY <1>0, <1>5, DistinctPlain DEF AppendMessages, IdsApart
<1>6. CASE TalkStep
  <2>1. PICK new \in Seq(Messages) :
          AppendMessages(new) /\ \A i \in DOMAIN new : new[i].kind \in {"prompt", "steer"}
    BY <1>6 DEF TalkStep
  <2> QED BY <1>1, <1>5, <1>6, <2>1 DEF TalkStep
<1>7. CASE AnswerStep
  <2>1. PICK new \in {<<>>, <<Assistant(<<>>)>>} : AppendMessages(new)
    BY <1>7 DEF AnswerStep
  <2>2. new \in Seq(Messages)
    BY AppendedType
  <2>3. \A i \in DOMAIN new : new[i].calls = <<>>
    BY Kinds
  <2> QED BY <1>1, <1>5, <1>7, <2>1, <2>2, <2>3 DEF AnswerStep
<1>8. CASE CompactStep
  <2>1. PICK t \in TailStarts(messages), resume \in BOOLEAN :
          messages' = Compacted(messages, t, resume)
    BY <1>8 DEF CompactStep, CommitCompacted
  <2>2. Distinct(messages')
    BY <1>0, <2>1, DistinctCompacted DEF IdsApart
  <2> QED BY <1>1, <1>8, <2>2 DEF CompactStep, IdsApart
<1>9. CASE CommitStep
  <2>1. messages' = messages \o <<Assistant(calls)>> /\ Streaming /\ Batching'
    BY <1>9 DEF CommitStep, AppendMessages
  <2> QED BY <1>0, <1>1, <2>1, DistinctJoins DEF IdsApart
<1>10. CASE CollectStep
  <2> DEFINE new == <<Results(calls)>>
  <2>1. new \in Seq(Messages) /\ \A i \in DOMAIN new : new[i].kind = "results"
    BY AppendedType, Kinds
  <2>2. AppendMessages(new) /\ ~Streaming'
    BY <1>1, <1>10 DEF CollectStep
  <2> HIDE DEF new
  <2> QED BY <1>5, <2>1, <2>2
<1>11. CASE DropStep /\ calls # <<>>
  <2>1. messages' = messages \o <<Assistant(calls), Results(calls)>>
        /\ Streaming /\ ~Streaming'
    BY <1>1, <1>11 DEF DropStep, AppendMessages, WithoutRunning, Committed
  <2> DEFINE opened == messages \o <<Assistant(calls)>>
  <2>2. Assistant(calls) \in Messages /\ Results(calls) \in Messages
    BY <1>0, MessageTypes
  <2>3. messages' = opened \o <<Results(calls)>> /\ opened \in Seq(Messages)
        /\ <<Results(calls)>> \in Seq(Messages)
    BY <1>0, <2>1, <2>2
  <2>4. Distinct(opened)
    BY <1>0, <2>1, DistinctJoins DEF IdsApart
  <2>5. \A i \in DOMAIN <<Results(calls)>> : <<Results(calls)>>[i].kind = "results"
    BY Kinds
  <2> HIDE DEF opened
  <2>6. Distinct(messages')
    BY <2>3, <2>4, <2>5, DistinctPlain
  <2> QED BY <2>1, <2>6 DEF IdsApart
<1>12. CASE DropStep /\ calls = <<>>
  <2>1. AppendMessages(<<>>) /\ ~Streaming' /\ <<>> \in Seq(Messages)
    BY <1>1, <1>12, EmptySeq DEF DropStep, WithoutRunning, Committed
  <2>2. UNCHANGED messages
    BY <1>0, <2>1, ConcatEmptySeq DEF AppendMessages
  <2> QED BY <2>1, <2>2 DEF IdsApart
<1> QED
  BY <1>2, <1>3, <1>4, <1>6, <1>7, <1>8, <1>9, <1>10, <1>11, <1>12 DEF HistoryStep

-----------------------------------------------------------------------------
(* The theorems about pairing, ids and the baseline.                       *)

HistoryInv ==
  /\ Paired(messages, Batching) /\ EndsWithBatch
  /\ IdsApart
  /\ BaselineMeasuresPrefix

\* A new session has no history.
LEMMA InitHistoryInv == Init => HistoryInv
<1> SUFFICES ASSUME Init PROVE HistoryInv
  OBVIOUS
<1>1. messages = <<>> /\ baseline = <<>> /\ ~Streaming /\ ~Batching
  BY DEF Init, Streaming, Batching, BatchPhases
<1>2. Paired(messages, Batching) /\ Distinct(messages)
  BY <1>1 DEF Paired, Distinct
<1>3. BaselineMeasuresPrefix
  BY <1>1 DEF BaselineMeasuresPrefix
<1> QED BY <1>1, <1>2, <1>3 DEF HistoryInv, EndsWithBatch, IdsApart

\* It holds in every session.
LEMMA HistoryInvHolds == Spec => []HistoryInv
<1>1. TypeOK /\ HistoryInv /\ [Next]_vars => HistoryInv'
  <2> SUFFICES ASSUME TypeOK, HistoryInv, [Next]_vars PROVE HistoryInv'
    OBVIOUS
  <2>1. HistoryStep
    BY HistorySteps
  <2>2. Paired(messages', Batching') /\ EndsWithBatch'
    BY <2>1, PairedStep DEF HistoryInv, IdsApart
  <2>3. IdsApart'
    BY <2>1, IdsStep DEF HistoryInv
  <2>4. BaselineMeasuresPrefix'
    BY <2>1, BaselineStep DEF HistoryInv
  <2> QED BY <2>2, <2>3, <2>4 DEF HistoryInv
<1> QED BY <1>1, InitHistoryInv, InvHolds, PTL DEF Spec

\* In every session, each assistant message with calls is followed at once by
\* the results of exactly those calls, through retries, interruptions, broken
\* streams and compactions: providers refuse any other history.
THEOREM CallsAreAnswered == Spec => []HistoryPaired
<1>1. HistoryInv => HistoryPaired
  BY PairedIsHistoryPaired DEF HistoryInv
<1> QED BY <1>1, HistoryInvHolds, PTL

\* What is apart is unique, the response that streams included.
LEMMA ApartIsUnique == TypeOK /\ IdsApart => UniqueIds
<1> SUFFICES ASSUME TypeOK, IdsApart PROVE UniqueIds
  OBVIOUS
<1> DEFINE kept == [i \in DOMAIN messages |->
                      IF messages[i].kind = "assistant" THEN messages[i].calls ELSE <<>>]
           now == IF pc = "stream" THEN <<calls>> ELSE <<>>
           all == kept \o now
           n == Len(messages)
<1>1. /\ messages \in Seq(Messages) /\ n \in Nat /\ DOMAIN messages = 1..n
      /\ calls \in Seq(Calls)
  BY LenProperties DEF TypeOK, ConversationType, ResponseType
<1>2. kept \in Seq(Seq(Calls)) /\ Len(kept) = n
  <2>1. \A i \in 1..n : messages[i] \in Messages
    BY <1>1, ElementOfSeq
  <2>2. \A i \in 1..n : kept[i] \in Seq(Calls)
    BY <1>1, <2>1, EmptySeq DEF Messages
  <2>3. kept = [i \in 1..n |-> kept[i]]
    BY <1>1
  <2> HIDE DEF kept, n
  <2>4. [i \in 1..n |-> kept[i]] \in Seq(Seq(Calls))
    BY <1>1, <2>2, IsASeq
  <2>5. kept \in Seq(Seq(Calls)) /\ DOMAIN kept = 1..n
    BY <2>3, <2>4
  <2> QED BY <1>1, <2>5, LenProperties
<1>3. /\ now \in Seq(Seq(Calls)) /\ Len(now) = (IF Streaming THEN 1 ELSE 0)
      /\ Streaming => now[1] = calls
  BY <1>1, EmptySeq DEF Streaming
<1>4. \A i \in DOMAIN messages : kept[i] =
        (IF messages[i].kind = "assistant" THEN messages[i].calls ELSE <<>>)
  OBVIOUS
<1>5. \A i \in DOMAIN kept : kept[i] # <<>> => messages[i].kind = "assistant"
                                               /\ kept[i] = messages[i].calls
  BY <1>4
<1> HIDE DEF kept, now
<1>6. /\ DOMAIN all = 1..(n + Len(now))
      /\ \A i \in 1..(n + Len(now)) : all[i] = IF i <= n THEN kept[i] ELSE now[i - n]
  <2>1. /\ all \in Seq(Seq(Calls)) /\ Len(all) = Len(kept) + Len(now)
        /\ \A i \in 1..Len(kept) + Len(now) :
             all[i] = IF i <= Len(kept) THEN kept[i] ELSE now[i - Len(kept)]
    BY <1>2, <1>3, ConcatProperties
  <2> HIDE DEF all, n
  <2> QED BY <1>2, <2>1, LenProperties
<1> HIDE DEF all, n
<1>7. ASSUME NEW i \in DOMAIN all, NEW a \in DOMAIN all[i]
      PROVE  \/ /\ i \in DOMAIN messages /\ messages[i].kind = "assistant"
                /\ all[i] = messages[i].calls
             \/ Streaming /\ i = n + 1 /\ all[i] = calls
  <2>1. CASE i <= n
    <3>1. i \in DOMAIN messages /\ all[i] = kept[i]
      BY <1>1, <1>6, <2>1
    <3> QED BY <1>4, <1>7, <3>1
  <2>2. CASE i > n
    <3>1. Streaming /\ i = n + 1
      BY <1>1, <1>3, <1>6, <2>2
    <3>2. ~(i <= n) /\ i - n = 1
      BY <1>1, <3>1
    <3> QED BY <1>3, <1>6, <3>1, <3>2
  <2> QED BY <1>1, <1>3, <1>6, <2>1, <2>2
<1>8. ASSUME NEW i \in DOMAIN all, NEW j \in DOMAIN all,
             NEW a \in DOMAIN all[i], NEW b \in DOMAIN all[j],
             all[i][a].id = all[j][b].id
      PROVE  i = j /\ a = b
  BY <1>7, <1>8 DEF IdsApart, Distinct, Apart
<1> QED BY <1>8 DEF UniqueIds, all, kept, now

\* No two calls of a session's conversation share an id, whatever ids the
\* provider repeats or omits (unique_tool_use_id).
THEOREM IdsAreUnique == Spec => []UniqueIds
<1>1. TypeOK /\ HistoryInv => UniqueIds
  BY ApartIsUnique DEF HistoryInv
<1> QED BY <1>1, HistoryInvHolds, InvHolds, PTL

\* What the usage baseline measured is a prefix of the conversation at every
\* moment: a compaction, a reload and a changed tool schema reset it.
THEOREM BaselineIsPrefix == Spec => []BaselineMeasuresPrefix
<1>1. HistoryInv => BaselineMeasuresPrefix
  BY DEF HistoryInv
<1> QED BY <1>1, HistoryInvHolds, PTL

-----------------------------------------------------------------------------
(* A call is skipped for a message that the next request carries.          *)

Skipping == Batching /\ \E i \in 1..Size : batch.out[i] = "skipped"
EndsWithSteer(s) == s # <<>> /\ s[Len(s)].kind = "steer"
Condensed == <<Handoff, Summary, Continue>>
HeardLast ==
  EndsWithSteer(archive) /\ (EndsWithSteer(messages) \/ messages = Condensed)

\* From the call that is skipped to the request: the message still waits, or
\* it is the last one that was appended and the last one that will be sent,
\* unless a compaction has put its summary in the place of everything.
SkipInv ==
  /\ Skipping => steering # <<>>
  /\ turn.superseded /\ pc \in {"compactBatch", "top"} => steering # <<>> \/ HeardLast
  /\ turn.superseded /\ pc \in {"compactRound", "request", "compactRecover", "retryWait"}
       => HeardLast
  /\ pc \in {"compactPrompt", "stream"} => ~turn.superseded

\* A step of the batch skips a call only for a message that waits.
LEMMA SkippedWaits ==
  ASSUME TypeOK, Next, Batching, Batching'
  PROVE  Skipping' => Skipping \/ steering # <<>>
<1> USE DEF InBatch, response, typing
<1>1. /\ Size \in Nat /\ batch \in BatchLocals(Size) /\ batch.out \in [1..Size -> Outputs]
      /\ Left \subseteq 1..Size
  BY BatchFacts DEF Batching
<1>2. ASSUME UNCHANGED <<batch, calls>> PROVE Skipping' => Skipping
  BY <1>2 DEF Skipping, Size
<1>3. ASSUME UNCHANGED calls, batch'.out = batch.out PROVE Skipping' => Skipping
  BY <1>3 DEF Skipping, Size
<1>4. ASSUME UNCHANGED calls, NEW i \in Nat, NEW how \in Outputs,
             batch'.out = [batch.out EXCEPT ![i] = how],
             how = "skipped" => steering # <<>>
      PROVE  Skipping' => Skipping \/ steering # <<>>
  BY <1>1, <1>4 DEF Skipping, Size
<1>5. CASE TypeSteering \/ Cancel \/ CloseGroup \/ GroupEnds
  BY <1>2, <1>5 DEF TypeSteering, Cancel, CloseGroup, GroupEnds
<1>6. CASE Decide \/ GrowGroup
  <2>1. batch'.out = batch.out /\ UNCHANGED calls
    BY <1>1, <1>6 DEF Decide, GrowGroup, Take, Checked, BatchLocals
  <2> QED BY <1>3, <2>1
<1>7. \A i : /\ Unrun(i).out = [batch.out EXCEPT ![i] = IF cancelled THEN "interrupted" ELSE "skipped"]
             /\ Admitted(i).out = [batch.out EXCEPT ![i] = "admitted"]
  BY <1>1 DEF Unrun, Admitted, BatchLocals
<1>8. ~cancelled /\ Stopped => steering # <<>>
  BY DEF Stopped
<1>9. Outputs = {"waiting", "admitted", "running", "interrupted", "skipped", "denied",
                 "ok", "failed"}
  BY DEF Outputs, Unsettled, Inflight, NotRun
<1>10. CASE MarkUnrun
  <2>1. Current \in Nat
    BY <1>1, <1>10, CurrentIsLeast DEF MarkUnrun
  <2> QED BY <1>4, <1>7, <1>8, <1>9, <1>10, <2>1 DEF MarkUnrun
<1>11. CASE LaunchMember
  <2>1. PICK i \in 1..Size : batch' = Launch(i)
    BY <1>11 DEF LaunchMember
  <2>2. i \in Nat
    BY <1>1
  <2> QED BY <1>4, <1>7, <1>8, <1>9, <1>11, <2>1, <2>2 DEF LaunchMember, Launch
<1>18. CASE ToolStarts
  <2>1. PICK i \in 1..Size :
           batch' = [batch EXCEPT !.out[i] = "running", !.late = Noted(@, i)]
    BY <1>18 DEF ToolStarts
  <2>2. batch'.out = [batch.out EXCEPT ![i] = "running"]
    BY <1>1, <2>1 DEF BatchLocals
  <2>3. i \in Nat
    BY <1>1
  <2> QED BY <1>4, <1>9, <1>18, <2>2, <2>3 DEF ToolStarts
<1>12. CASE MemberEnds
  <2>1. PICK i \in 1..Size, how \in {"ok", "failed"} : batch' = [batch EXCEPT !.out[i] = how]
    BY <1>12 DEF MemberEnds
  <2>2. batch'.out = [batch.out EXCEPT ![i] = how]
    BY <1>1, <2>1 DEF BatchLocals
  <2>3. i \in Nat
    BY <1>1
  <2> QED BY <1>4, <1>9, <1>12, <2>2, <2>3 DEF MemberEnds
<1>13. ASSUME NEW how \in {"admitted", "denied", "ok", "failed"}, UNCHANGED calls,
              batch'.out = [batch.out EXCEPT ![Current] = how]
       PROVE  Skipping' => Skipping
  BY <1>1, <1>13 DEF Skipping, Size
<1>14. \A how : [batch EXCEPT !.out[Current] = how].out = [batch.out EXCEPT ![Current] = how]
  BY <1>1 DEF BatchLocals
<1>15. CASE ActOnVerdict \/ UserAllows
  <2>1. CASE UNCHANGED batch
    BY <1>2, <1>15, <2>1 DEF ActOnVerdict, UserAllows
  <2>2. CASE batch' = Admitted(Current)
    BY <1>7, <1>13, <1>15, <2>2 DEF ActOnVerdict, UserAllows
  <2>3. CASE batch' = [batch EXCEPT !.out[Current] = "denied"]
    BY <1>13, <1>14, <1>15, <2>3 DEF ActOnVerdict, UserAllows
  <2>4. CASE batch' = [Admitted(Current) EXCEPT !.approved = @ \cup {Current}]
    <3>1. batch'.out = Admitted(Current).out
      BY <1>1, <2>4 DEF Admitted, BatchLocals
    <3> QED BY <1>7, <1>13, <1>15, <3>1 DEF ActOnVerdict, UserAllows
  <2> QED BY <1>15, <2>1, <2>2, <2>3, <2>4 DEF ActOnVerdict, UserAllows
<1>16. CASE UserDenies \/ UserDeniesWithMessage \/ PromptCancelled \/ ExclusiveEnds
            \/ SchemasChange
  <2>1. PICK how \in {"denied", "ok", "failed"} : batch' = [batch EXCEPT !.out[Current] = how]
    BY <1>16 DEF UserDenies, UserDeniesWithMessage, PromptCancelled, ExclusiveEnds, SchemasChange
  <2>2. UNCHANGED calls
    BY <1>16 DEF UserDenies, UserDeniesWithMessage, PromptCancelled, ExclusiveEnds, SchemasChange
  <2> QED BY <1>13, <1>14, <2>1, <2>2
<1>17. CASE Drain \/ Loop \/ Response \/ CollectBatch \/ SubmitPrompt \/ SubmitCancelled
            \/ Reload \/ CompactCommand
  BY <1>17 DEF Drain, Loop, BeginRound, BelowThreshold, CompactSucceeds, CompactFails,
       RetryWaitEnds, CompactionPoints, AfterCompaction, Response, RequestFails,
       RequestAccepted, StreamToolUse, StreamUsage, StreamCloses, StreamFails,
       StreamInterrupted, StreamDoneWithCalls, StreamDone, CollectBatch, SubmitPrompt,
       SubmitCancelled, Reload, CompactCommand, Batching, BatchPhases, Goto, Finish
<1> QED
  BY <1>5, <1>6, <1>10, <1>11, <1>12, <1>15, <1>16, <1>17, <1>18 DEF Next, User, Engine, Batch

\* inject_steering appends what waits, and what waits is steering.
LEMMA HeardAfterInjection ==
  ASSUME TypeOK, AppendMessages(Injected), steering # <<>> \/ HeardLast
  PROVE  HeardLast'
<1>1. /\ Injected \in Seq(Messages) /\ steering \in Seq(Nat) /\ Len(steering) \in Nat
      /\ ConversationType
      /\ Len(archive) \in Nat /\ archive \in Seq(Messages)
      /\ Len(messages) \in Nat /\ messages \in Seq(Messages)
  BY InjectedType, LenProperties DEF TypeOK, UserType, ConversationType
<1>2. DOMAIN Injected = 1..Len(steering) /\ Len(Injected) = Len(steering)
  BY <1>1, LenProperties DEF Injected
<1>3. \A i \in 1..Len(steering) : Injected[i].kind = "steer"
  BY DEF Injected, Steer, Message
<1>4. CASE steering # <<>>
  <2>1. Len(steering) >= 1 /\ Len(steering) \in 1..Len(steering)
    BY <1>1, <1>4, EmptySeq
  <2>2. /\ Len(archive') = Len(archive) + Len(steering)
        /\ archive'[Len(archive) + Len(steering)] = Injected[Len(steering)]
        /\ Len(messages') = Len(messages) + Len(steering)
        /\ messages'[Len(messages) + Len(steering)] = Injected[Len(steering)]
    BY <1>1, <1>2, <2>1, AppendKeeps
  <2>3. Len(archive') # 0 /\ Len(messages') # 0
    BY <1>1, <2>1, <2>2
  <2>4. Len(<<>>) = 0
    OBVIOUS
  <2> QED BY <1>3, <2>1, <2>2, <2>3, <2>4 DEF HeardLast, EndsWithSteer
<1>5. CASE steering = <<>> /\ HeardLast
  <2>1. Injected = <<>>
    BY <1>1, <1>2, <1>5, EmptySeq
  <2>2. UNCHANGED <<messages, archive>>
    BY <1>1, <2>1, ConcatEmptySeq DEF AppendMessages
  <2> QED BY <1>5, <2>2 DEF HeardLast
<1> QED BY <1>4, <1>5

\* A compaction within a turn keeps the end of what will be sent, or condenses
\* all of it.
LEMMA HeardAfterCompaction ==
  ASSUME TypeOK, HeardLast, NEW t \in TailStarts(messages),
         messages' = Compacted(messages, t, TRUE), UNCHANGED archive
  PROVE  HeardLast'
<1> DEFINE m == Len(messages)
           head == <<Handoff, Summary>>
           tail == SubSeq(messages, t, m)
           kept == head \o tail
<1>1. messages \in Seq(Messages) /\ m \in Nat /\ t \in 2..m + 1
  <2>1. messages \in Seq(Messages) /\ m \in Nat
    BY LenProperties DEF TypeOK, ConversationType
  <2>2. messages # <<>>
    BY DEF HeardLast, EndsWithSteer, Condensed
  <2>3. m # 0
    BY <2>1, <2>2, EmptySeq
  <2>4. t \in 2..m \/ t = m + 1
    BY DEF TailStarts, Boundaries
  <2> QED BY <2>1, <2>3, <2>4
<1>2. /\ head \in Seq(Messages) /\ Len(head) = 2
      /\ head[1] = Handoff /\ head[2] = Summary
      /\ Condensed \in Seq(Messages) /\ Len(Condensed) = 3
      /\ Condensed[1] = Handoff /\ Condensed[2] = Summary /\ Condensed[3] = Continue
  <2>1. {Handoff, Summary, Continue} \subseteq Messages
    BY DEF Handoff, Summary, Continue, Message, Messages, MessageKinds
  <2> QED BY <2>1 DEF Condensed
<1>3. \A i \in t..m : messages[i] \in Messages
  BY <1>1, ElementOfSeq
<1>4. /\ tail \in Seq(Messages) /\ Len(tail) = m + 1 - t
      /\ \A i \in 1..(m + 1 - t) : tail[i] = messages[t + i - 1]
  <2>1. /\ tail \in Seq(Messages)
        /\ Len(tail) = IF t <= m THEN m - t + 1 ELSE 0
        /\ \A i \in 1..(m - t + 1) : tail[i] = messages[t + i - 1]
    BY <1>1, <1>3, SubSeqProperties
  <2>2. m - t + 1 = m + 1 - t /\ (~(t <= m) => m + 1 - t = 0)
    BY <1>1
  <2> QED BY <2>1, <2>2
<1>5. messages' = IF kept[Len(kept)].kind \in {"assistant", "summary"}
                  THEN Append(kept, Continue) ELSE kept
  BY DEF Compacted
<1> HIDE DEF head, tail
<1>6. /\ kept \in Seq(Messages) /\ Len(kept) = m + 3 - t
      /\ \A i \in 1..m + 3 - t : kept[i] = IF i <= 2 THEN head[i] ELSE tail[i - 2]
  <2>1. Len(head) + Len(tail) = m + 3 - t
    BY <1>1, <1>2, <1>4
  <2>2. /\ kept \in Seq(Messages) /\ Len(kept) = Len(head) + Len(tail)
        /\ \A i \in 1..Len(head) + Len(tail) :
             kept[i] = IF i <= Len(head) THEN head[i] ELSE tail[i - Len(head)]
    BY <1>2, <1>4, ConcatProperties
  <2> HIDE DEF kept
  <2> QED BY <1>2, <2>1, <2>2
<1> HIDE DEF kept
<1>7. CASE t = m + 1
  <2>1. Len(kept) = 2 /\ kept[1] = Handoff /\ kept[2] = Summary
    BY <1>1, <1>2, <1>6, <1>7
  <2>2. messages' = Append(kept, Continue)
    BY <1>5, <2>1, Kinds
  <2>3. Continue \in Messages
    BY DEF Continue, Message, Messages, MessageKinds
  <2>4. /\ messages' \in Seq(Messages) /\ Len(messages') = 3
        /\ messages'[1] = Handoff /\ messages'[2] = Summary /\ messages'[3] = Continue
    <3>1. /\ messages' \in Seq(Messages) /\ Len(messages') = 2 + 1
          /\ messages'[2 + 1] = Continue
          /\ \A i \in 1..2 : messages'[i] = kept[i]
      <4>1. kept \in Seq(Messages)
        BY <1>6
      <4>2. /\ Append(kept, Continue) \in Seq(Messages)
            /\ Len(Append(kept, Continue)) = Len(kept) + 1
            /\ \A i \in 1..Len(kept) : Append(kept, Continue)[i] = kept[i]
            /\ Append(kept, Continue)[Len(kept) + 1] = Continue
        BY <2>3, <4>1, AppendProperties
      <4> QED BY <2>1, <2>2, <4>2
    <3>2. 1 \in 1..2 /\ 2 \in 1..2 /\ 2 + 1 = 3
      OBVIOUS
    <3> QED BY <2>1, <3>1, <3>2
  <2>5. \A i \in 1..3 : i = 1 \/ i = 2 \/ i = 3
    OBVIOUS
  <2>6. messages' = Condensed
    BY <1>2, <2>4, <2>5, SeqEqual
  <2> QED BY <2>6 DEF HeardLast
<1>8. CASE t <= m
  <2>1. /\ m + 3 - t \in 1..m + 3 - t /\ ~(m + 3 - t <= 2)
        /\ (m + 3 - t) - 2 \in 1..(m + 1 - t)
        /\ t + ((m + 3 - t) - 2) - 1 = m
    BY <1>1, <1>8
  <2>2. kept[Len(kept)] = messages[m] /\ Len(kept) # 0
    <3>1. kept[m + 3 - t] = tail[(m + 3 - t) - 2]
      BY <1>6, <2>1
    <3>2. tail[(m + 3 - t) - 2] = messages[m]
      BY <1>4, <2>1
    <3>3. m + 3 - t # 0
      BY <1>1, <1>8
    <3> QED BY <1>6, <3>1, <3>2, <3>3
  <2>3. CASE EndsWithSteer(messages)
    <3>1. messages[m].kind = "steer"
      BY <2>3 DEF EndsWithSteer
    <3>2. messages' = kept
      BY <1>5, <2>2, <3>1
    <3>3. Len(<<>>) = 0
      OBVIOUS
    <3> QED BY <2>2, <3>1, <3>2, <3>3 DEF HeardLast, EndsWithSteer
  <2>4. CASE messages = Condensed
    <3>1. m = 3 /\ t = 3
      <4>1. m = 3 /\ messages[1] = Handoff
        BY <1>2, <2>4
      <4>2. t > 2
        BY <4>1 DEF TailStarts
      <4> QED BY <1>1, <1>8, <4>1, <4>2
    <3>2. kept[Len(kept)] = Continue
      BY <1>2, <2>2, <2>4, <3>1
    <3>3. messages' = kept
      BY <1>5, <3>2, Kinds
    <3>4. Len(kept) = 3 /\ kept[1] = Handoff /\ kept[2] = Summary /\ kept[3] = Continue
      BY <1>2, <1>6, <3>1, <3>2
    <3>5. \A i \in 1..3 : i = 1 \/ i = 2 \/ i = 3
      OBVIOUS
    <3>6. kept = Condensed
      BY <1>2, <1>6, <3>4, <3>5, SeqEqual
    <3> QED BY <3>3, <3>6 DEF HeardLast
  <2> QED BY <2>3, <2>4 DEF HeardLast
<1> QED BY <1>1, <1>7, <1>8

\* Every step keeps what SkipInv says.
LEMMA SkipStep ==
  ASSUME TypeOK, SkipInv, Next PROVE SkipInv'
<1> USE DEF Goto, Finish, typing, conversation, response, InBatch
<1>0. /\ turn \in Locals /\ steering \in Seq(Nat)
      /\ FailureKinds \subseteq Failures /\ RetriesType
  BY TurnAssumption DEF TypeOK, ControlType, UserType
<1>1. Skipping' => steering' # <<>>
  <2>1. CASE Batching /\ Batching'
    <3>1. Skipping' => steering # <<>>
      BY <2>1, SkippedWaits DEF SkipInv
    <3>2. CASE TypeSteering \/ UserDeniesWithMessage
      BY <1>0, <3>2, AppendProperties DEF TypeSteering, UserDeniesWithMessage
    <3>3. CASE UNCHANGED steering
      BY <3>1, <3>3
    <3> QED
      BY <2>1, <3>2, <3>3
         DEF Next, User, Engine, Loop, Response, Batch, SubmitPrompt, SubmitCancelled, Cancel,
             Reload, CompactCommand, UserAllows, UserDenies, BeginRound, BelowThreshold,
             CompactSucceeds, CompactFails, RetryWaitEnds, RequestFails, RequestAccepted,
             StreamToolUse, StreamUsage, StreamCloses, StreamFails, StreamInterrupted,
             StreamDoneWithCalls, StreamDone, MarkUnrun, Decide, GrowGroup, CloseGroup,
             LaunchMember, ToolStarts, MemberEnds, GroupEnds, ActOnVerdict, PromptCancelled,
             ExclusiveEnds, SchemasChange, CollectBatch, Drain, Batching, BatchPhases
  <2>2. CASE ~Batching /\ Batching'
    <3>1. StreamDoneWithCalls
      BY <1>0, <2>2, RecoverTo, AfterCompactionInPCs
         DEF Next, User, Engine, Loop, Response, Batch, SubmitPrompt, SubmitCancelled, Cancel,
             TypeSteering, UserDeniesWithMessage, Reload, CompactCommand, UserAllows,
             UserDenies, BeginRound, BelowThreshold, CompactSucceeds, CompactFails,
             RetryWaitEnds, RequestFails, RequestAccepted, StreamToolUse, StreamUsage,
             StreamCloses, StreamFails, StreamInterrupted, StreamDone, MarkUnrun, Decide,
             GrowGroup, CloseGroup, LaunchMember, ToolStarts, MemberEnds, GroupEnds, ActOnVerdict,
             PromptCancelled, ExclusiveEnds, SchemasChange, CollectBatch, Drain, Batching,
             BatchPhases
    <3>2. /\ \A i \in 1..Size : batch'.out[i] = "waiting"
          /\ UNCHANGED calls
      BY <3>1 DEF StreamDoneWithCalls, FreshBatch
    <3> QED BY <3>2 DEF Skipping, Size
  <2> QED BY <2>1, <2>2 DEF Skipping
<1> DEFINE Carried ==
      /\ turn.superseded /\ pc \in {"compactBatch", "top"} => steering # <<>> \/ HeardLast
      /\ turn.superseded /\ pc \in {"compactRound", "request", "compactRecover", "retryWait"}
           => HeardLast
      /\ pc \in {"compactPrompt", "stream"} => ~turn.superseded
<1>2. Carried
  BY DEF SkipInv
<1> SUFFICES Carried'
  BY <1>1 DEF SkipInv
<1>3. CASE SubmitPrompt \/ SubmitCancelled
  BY <1>3 DEF SubmitPrompt, SubmitCancelled, FreshTurn
<1>4. CASE RequestAccepted
  BY <1>0, <1>4 DEF RequestAccepted, Locals
<1>5. CASE StreamToolUse \/ StreamUsage
  BY <1>2, <1>5 DEF StreamToolUse, StreamUsage
<1>6. CASE StreamCloses \/ StreamInterrupted \/ StreamDoneWithCalls \/ StreamDone
  BY <1>6 DEF StreamCloses, StreamInterrupted, StreamDoneWithCalls, StreamDone
<1>7. CASE RequestFails
  <2>1. /\ pc = "request" /\ pc' \in {"retryWait", "top", "compactRecover", "draining"}
        /\ UNCHANGED <<messages, archive, steering, turn>>
    BY <1>0, <1>7, RecoverTo DEF RequestFails
  <2> QED BY <1>2, <2>1 DEF HeardLast
<1>8. CASE StreamFails
  <2>1. /\ pc = "stream" /\ pc' \in {"retryWait", "top", "compactRecover", "draining"}
        /\ UNCHANGED turn
    BY <1>0, <1>8, RecoverTo DEF StreamFails
  <2> QED BY <1>2, <2>1
<1>9. CASE BeginRound
  <2>1. turn.superseded => HeardLast'
    BY <1>2, <1>9, HeardAfterInjection DEF BeginRound
  <2>2. /\ pc' \in {"compactRound", "draining"} /\ turn'.superseded = turn.superseded
    BY <1>0, <1>9 DEF BeginRound, Locals
  <2> QED BY <2>1, <2>2
<1>10. CASE BelowThreshold \/ CompactSucceeds \/ CompactFails \/ RetryWaitEnds
  <2>1. UNCHANGED <<archive, steering, turn>>
    BY <1>10 DEF BelowThreshold, CompactSucceeds, CompactFails, RetryWaitEnds
  <2>3. pc # "compactPrompt" /\ HeardLast => HeardLast'
    <3>1. CASE CompactSucceeds /\ pc # "compactPrompt" /\ HeardLast
      <4>1. PICK t \in TailStarts(messages) : messages' = Compacted(messages, t, TRUE)
        BY <3>1 DEF CompactSucceeds, CommitCompacted
      <4> QED BY <2>1, <3>1, <4>1, HeardAfterCompaction
    <3>2. CASE UNCHANGED messages
      BY <2>1, <3>2 DEF HeardLast
    <3> QED BY <1>10, <3>1, <3>2 DEF BelowThreshold, CompactFails, RetryWaitEnds
  <2>2. \/ pc' = "draining"
        \/ pc \in {"compactPrompt", "compactBatch", "compactRecover", "retryWait"} /\ pc' = "top"
        \/ pc = "compactRound" /\ pc' = "request"
    BY <1>10 DEF BelowThreshold, CompactSucceeds, CompactFails, RetryWaitEnds,
         CompactionPoints, AfterCompaction
  <2> QED BY <1>2, <2>1, <2>2, <2>3
<1>11. CASE CollectBatch
  <2>1. pc = "batch" /\ pc' \in {"compactBatch", "draining"} /\ UNCHANGED steering
    BY <1>11 DEF CollectBatch
  <2>2. turn'.superseded => Skipping
    BY <1>0, <1>11 DEF CollectBatch, Locals, Skipping, Batching, BatchPhases
  <2> QED BY <2>1, <2>2 DEF SkipInv
<1>12. CASE TypeSteering
  <2>1. steering' # <<>> /\ UNCHANGED <<messages, archive, turn, pc>>
    BY <1>0, <1>12, AppendProperties DEF TypeSteering
  <2> QED BY <1>2, <2>1 DEF HeardLast
<1>13. CASE Cancel
  BY <1>2, <1>13 DEF Cancel, HeardLast
<1>14. CASE Reload \/ CompactCommand \/ Drain
  BY <1>14 DEF Reload, CompactCommand, Drain
<1>15. CASE UserAllows \/ UserDenies \/ UserDeniesWithMessage \/ (Batch /\ ~CollectBatch)
  BY <1>15 DEF UserAllows, UserDenies, UserDeniesWithMessage, Batch, MarkUnrun, Decide,
     GrowGroup, CloseGroup, LaunchMember, ToolStarts, MemberEnds, GroupEnds, ActOnVerdict,
     PromptCancelled, ExclusiveEnds, SchemasChange
<1> QED
  BY <1>3, <1>4, <1>5, <1>6, <1>7, <1>8, <1>9, <1>10, <1>11, <1>12, <1>13, <1>14, <1>15
     DEF Next, User, Engine, Loop, Response

\* A tool call is skipped for steering only when the very next request ends
\* with that steering, through compactions, retries and recoveries in between,
\* or is nothing but the summary a compaction made of it and of all before it
\* (inject_steering, summarize_conversation).
THEOREM SkippedForTheNextRequest == Spec => []SkippedCallsAreSuperseded
<1>1. Init => SkipInv
  BY DEF Init, SkipInv, Skipping, Batching, BatchPhases
<1>2. TypeOK /\ SkipInv /\ [Next]_vars => SkipInv'
  <2>1. ASSUME TypeOK, SkipInv, UNCHANGED vars PROVE SkipInv'
    BY <2>1 DEF vars, SkipInv, Skipping, Batching, HeardLast, Size
  <2> QED BY <2>1, SkipStep
<1>3. SkipInv => SkippedCallsAreSuperseded
  BY DEF SkipInv, HeardLast, EndsWithSteer, Condensed, SkippedCallsAreSuperseded
<1> QED BY <1>1, <1>2, <1>3, InvHolds, PTL DEF Spec

-----------------------------------------------------------------------------
(* Every call that was shown is answered.                                  *)

\* The places of the calls (or of the results) in s.
CallsIn(s, kind) ==
  {c \in (1..Len(s)) \X (1..MaxBatch) : s[c[1]].kind = kind /\ c[2] \in DOMAIN s[c[1]].calls}

\* They can be counted.
LEMMA CallsCount ==
  ASSUME NEW s \in Seq(Messages), NEW kind
  PROVE  IsFiniteSet(CallsIn(s, kind)) /\ Cardinality(CallsIn(s, kind)) \in Nat
<1>1. Len(s) \in Int /\ 1 \in Int /\ MaxBatch \in Int
  BY LenProperties, TurnAssumption
<1>2. IsFiniteSet(1..Len(s)) /\ IsFiniteSet(1..MaxBatch)
  BY <1>1, FS_Interval
<1>3. IsFiniteSet((1..Len(s)) \X (1..MaxBatch))
  BY <1>2, FS_Product
<1>4. CallsIn(s, kind) \in SUBSET ((1..Len(s)) \X (1..MaxBatch))
  BY DEF CallsIn
<1>5. IsFiniteSet(CallsIn(s, kind))
  BY <1>3, <1>4, FS_Subset
<1> QED BY <1>5, FS_CardinalityType

\* Messages of other kinds, and those without calls, add none.
LEMMA CallsKept ==
  ASSUME NEW s \in Seq(Messages), NEW t \in Seq(Messages), NEW kind,
         \A i \in DOMAIN t : t[i].kind # kind \/ t[i].calls = <<>>
  PROVE  CallsIn(s \o t, kind) = CallsIn(s, kind)
<1> DEFINE u == s \o t
<1>1. /\ Len(s) \in Nat /\ Len(t) \in Nat
      /\ DOMAIN s = 1..Len(s) /\ DOMAIN t = 1..Len(t)
  BY LenProperties
<1>2. /\ Len(u) = Len(s) + Len(t)
      /\ \A i \in 1..Len(s) + Len(t) : u[i] = IF i <= Len(s) THEN s[i] ELSE t[i - Len(s)]
  BY ConcatProperties
<1> HIDE DEF u
<1>3. \A i \in 1..Len(s) : i \in 1..Len(u) /\ u[i] = s[i]
  BY <1>1, <1>2
<1>4. \A i \in 1..Len(u) : i \in 1..Len(s) \/ (i - Len(s) \in DOMAIN t /\ u[i] = t[i - Len(s)])
  BY <1>1, <1>2
<1>5. \A i \in 1..Len(u) : i \in 1..Len(s) \/ u[i].kind # kind \/ u[i].calls = <<>>
  BY <1>4
<1>6. CallsIn(u, kind) = CallsIn(s, kind)
  BY <1>3, <1>5 DEF CallsIn
<1> QED BY <1>6 DEF u

\* A message of the kind adds as many as it has.
LEMMA CallsAdded ==
  ASSUME NEW s \in Seq(Messages), NEW m \in Messages, NEW kind, m.kind = kind,
         Len(m.calls) <= MaxBatch
  PROVE  Cardinality(CallsIn(s \o <<m>>, kind)) = Cardinality(CallsIn(s, kind)) + Len(m.calls)
<1> DEFINE u == s \o <<m>>
           old == CallsIn(s, kind)
           n == Len(m.calls)
           new == {Len(s) + 1} \X (1..n)
<1>1. /\ Len(s) \in Nat /\ DOMAIN s = 1..Len(s) /\ MaxBatch \in Nat
      /\ m.calls \in Seq(Calls) /\ n \in Nat /\ DOMAIN m.calls = 1..n
  BY LenProperties, TurnAssumption DEF Messages
<1>2. /\ Len(u) = Len(s) + 1
      /\ \A i \in 1..Len(s) : u[i] = s[i]
      /\ u[Len(s) + 1] = m
  <2>1. u = Append(s, m)
    BY AppendIsConcat
  <2> QED BY <1>1, <2>1, AppendProperties, LenProperties
<1>3. /\ IsFiniteSet(old) /\ Cardinality(old) \in Nat
  BY CallsCount
<1>4. IsFiniteSet(new) /\ Cardinality(new) = n
  <2>1. IsFiniteSet({Len(s) + 1}) /\ Cardinality({Len(s) + 1}) = 1
    BY FS_Singleton
  <2>2. IsFiniteSet(1..n) /\ Cardinality(1..n) = n
    <3>1. n \in Nat /\ n \in Int /\ 1 \in Int
      BY <1>1
    <3> HIDE DEF n
    <3>2. IsFiniteSet(1..n) /\ Cardinality(1..n) = IF 1 > n THEN 0 ELSE n - 1 + 1
      BY <3>1, FS_Interval
    <3> QED BY <3>1, <3>2
  <2>3. IsFiniteSet(new) /\ Cardinality(new) = 1 * n
    <3>1. IsFiniteSet(new) /\ Cardinality(new) = Cardinality({Len(s) + 1}) * Cardinality(1..n)
      BY <2>1, <2>2, FS_Product
    <3> QED BY <2>1, <2>2, <3>1
  <2>4. 1 * n = n
    BY <1>1
  <2> QED BY <2>3, <2>4
<1> HIDE DEF u
<1>5. CallsIn(u, kind) = old \cup new
  <2>1. 1..Len(u) = (1..Len(s)) \cup {Len(s) + 1}
    BY <1>1, <1>2
  <2>2. \A k \in 1..n : k \in 1..MaxBatch
    BY <1>1
  <2>3. \A i \in 1..Len(s) : i # Len(s) + 1
    BY <1>1
  <2> QED BY <1>1, <1>2, <2>1, <2>2, <2>3 DEF CallsIn
<1>6. old \cap new = {}
  <2>1. \A i \in 1..Len(s) : i # Len(s) + 1
    BY <1>1
  <2> QED BY <2>1 DEF CallsIn
<1> HIDE DEF old, new, n
<1>7. Cardinality(old \cap new) = 0
  BY <1>6, FS_EmptySet
<1>8. Cardinality(CallsIn(u, kind)) = Cardinality(old) + Cardinality(new) - Cardinality(old \cap new)
  BY <1>3, <1>4, <1>5, FS_Union
<1>9. Cardinality(CallsIn(u, kind)) = Cardinality(old) + n
  BY <1>1, <1>3, <1>4, <1>7, <1>8 DEF n
<1> QED BY <1>9 DEF u, old, n

\* The calls shown are those of the archive and of the response that streams,
\* and only the calls of a batch that runs have no results yet.
AnnouncedInv ==
  LET asked == Cardinality(CallsIn(archive, "assistant"))
      answered == Cardinality(CallsIn(archive, "results"))
  IN /\ Size <= MaxBatch
     /\ announced = asked + (IF Streaming THEN Size ELSE 0)
     /\ asked = answered + (IF Batching THEN Size ELSE 0)

\* Every step accounts for the calls it shows, keeps and answers.
LEMMA AnnouncedStep ==
  ASSUME TypeOK, HistoryStep, AnnouncedInv PROVE AnnouncedInv'
<1> DEFINE asked == Cardinality(CallsIn(archive, "assistant"))
           answered == Cardinality(CallsIn(archive, "results"))
<1>0. /\ archive \in Seq(Messages) /\ calls \in Seq(Calls) /\ Size \in Nat
      /\ (Between => Size = 0) /\ announced \in Nat
      /\ (calls = <<>> => Size = 0)
  BY LenProperties, EmptySeq
     DEF TypeOK, ConversationType, ResponseType, Size, Between, Streaming, Batching
<1>1. asked \in Nat /\ answered \in Nat
  BY <1>0, CallsCount
<1>2. /\ Size <= MaxBatch
      /\ announced = asked + (IF Streaming THEN Size ELSE 0)
      /\ asked = answered + (IF Batching THEN Size ELSE 0)
  BY DEF AnnouncedInv
<1>3. MaxBatch \in Nat /\ (Streaming => ~Batching) /\ (Streaming' => ~Batching')
  BY TurnAssumption DEF Streaming, Batching, BatchPhases
<1>4. Assistant(calls) \in Messages /\ Results(calls) \in Messages
  BY <1>0, MessageTypes
<1>5. ASSUME NEW s \in Seq(Messages)
      PROVE  /\ Cardinality(CallsIn(s \o <<Assistant(calls)>>, "assistant"))
                  = Cardinality(CallsIn(s, "assistant")) + Size
             /\ Cardinality(CallsIn(s \o <<Results(calls)>>, "results"))
                  = Cardinality(CallsIn(s, "results")) + Size
             /\ CallsIn(s \o <<Assistant(calls)>>, "results") = CallsIn(s, "results")
             /\ CallsIn(s \o <<Results(calls)>>, "assistant") = CallsIn(s, "assistant")
  <2> DEFINE a == <<Assistant(calls)>>
             r == <<Results(calls)>>
  <2>1. /\ a \in Seq(Messages) /\ r \in Seq(Messages)
        /\ \A i \in DOMAIN a : a[i].kind # "results"
        /\ \A i \in DOMAIN r : r[i].kind # "assistant"
    BY <1>4, Kinds
  <2>2. CallsIn(s \o a, "results") = CallsIn(s, "results")
    <3> HIDE DEF a
    <3> QED BY <2>1, CallsKept
  <2>3. CallsIn(s \o r, "assistant") = CallsIn(s, "assistant")
    <3> HIDE DEF r
    <3> QED BY <2>1, CallsKept
  <2>4. Cardinality(CallsIn(s \o a, "assistant")) = Cardinality(CallsIn(s, "assistant")) + Size
    BY <1>2, <1>4, Kinds, CallsAdded DEF Size
  <2>5. Cardinality(CallsIn(s \o r, "results")) = Cardinality(CallsIn(s, "results")) + Size
    BY <1>2, <1>4, Kinds, CallsAdded DEF Size
  <2> QED BY <2>2, <2>3, <2>4, <2>5
<1> HIDE DEF asked, answered
<1>6. ASSUME UNCHANGED <<archive, calls, announced>>,
             \/ (Streaming' <=> Streaming) /\ (Batching' <=> Batching)
             \/ Size = 0
      PROVE  AnnouncedInv'
  <2>1. Size' = Size /\ asked' = asked /\ answered' = answered
    BY <1>6 DEF Size, asked, answered
  <2> QED BY <1>2, <1>3, <1>6, <2>1 DEF AnnouncedInv, asked, answered
<1>7. CASE QuietStep
  BY <1>6, <1>7 DEF QuietStep
<1>8. CASE CompactStep \/ OpenStep
  BY <1>0, <1>6, <1>8 DEF CompactStep, OpenStep, Between
<1>9. CASE CallStep
  <2>1. Len(calls') = Size + 1
    <3>1. PICK c : calls' = Append(calls, c)
      BY <1>9 DEF CallStep
    <3> QED BY <1>0, <3>1 DEF Size
  <2>2. asked' = asked /\ answered' = answered /\ announced' = announced + 1
        /\ Streaming /\ Streaming' /\ Size < MaxBatch
    BY <1>9 DEF CallStep, asked, answered
  <2>3. Size' <= MaxBatch /\ announced' = asked + Size' /\ asked = answered
    BY <1>0, <1>1, <1>2, <1>3, <2>1, <2>2 DEF Size
  <2> QED BY <1>1, <1>3, <2>2, <2>3 DEF AnnouncedInv, asked, answered
<1>10. ASSUME NEW new \in Seq(Messages), AppendMessages(new), UNCHANGED <<calls, announced>>,
              \A i \in DOMAIN new : new[i].calls = <<>> \/ new[i].kind \notin {"assistant", "results"},
              Size = 0
       PROVE  AnnouncedInv'
  <2>1. asked' = asked /\ answered' = answered /\ Size' = Size
    BY <1>0, <1>10, CallsKept DEF AppendMessages, asked, answered, Size
  <2> QED BY <1>1, <1>2, <1>3, <1>10, <2>1 DEF AnnouncedInv, asked, answered
<1>11. CASE TalkStep
  <2>1. PICK new \in Seq(Messages) :
          AppendMessages(new) /\ \A i \in DOMAIN new : new[i].kind \in {"prompt", "steer"}
    BY <1>11 DEF TalkStep
  <2> QED BY <1>0, <1>10, <1>11, <2>1 DEF TalkStep
<1>12. CASE AnswerStep
  <2>1. PICK new \in {<<>>, <<Assistant(<<>>)>>} : AppendMessages(new)
    BY <1>12 DEF AnswerStep
  <2>2. new \in Seq(Messages)
    BY AppendedType
  <2>3. \A i \in DOMAIN new : new[i].calls = <<>>
    BY Kinds
  <2> QED BY <1>0, <1>10, <1>12, <2>1, <2>2, <2>3 DEF AnswerStep
<1>13. CASE CommitStep
  <2>1. archive' = archive \o <<Assistant(calls)>> /\ UNCHANGED <<calls, announced>>
        /\ Streaming /\ Batching'
    BY <1>13 DEF CommitStep, AppendMessages
  <2>2. asked' = asked + Size /\ answered' = answered /\ Size' = Size
    BY <1>0, <1>5, <2>1 DEF asked, answered, Size
  <2> QED BY <1>0, <1>1, <1>2, <1>3, <2>1, <2>2 DEF AnnouncedInv, asked, answered
<1>14. ASSUME calls' = <<>> PROVE Size' = 0
  BY <1>14 DEF Size
<1>15. CASE CollectStep
  <2>1. archive' = archive \o <<Results(calls)>> /\ calls' = <<>> /\ UNCHANGED announced
        /\ Batching /\ ~Batching' /\ ~Streaming'
    BY <1>15 DEF CollectStep, AppendMessages, Between
  <2>2. asked' = asked /\ answered' = answered + Size /\ Size' = 0
    BY <1>0, <1>5, <1>14, <2>1 DEF asked, answered
  <2> QED BY <1>0, <1>1, <1>2, <1>3, <2>1, <2>2 DEF AnnouncedInv, asked, answered
<1>16. CASE DropStep
  <2>1. calls' = <<>> /\ UNCHANGED announced /\ Streaming /\ ~Batching' /\ ~Streaming'
        /\ AppendMessages(WithoutRunning)
    BY <1>16 DEF DropStep, Between
  <2>2. asked' = asked + Size /\ answered' = answered + Size
    <3>1. CASE calls # <<>>
      <4> DEFINE opened == archive \o <<Assistant(calls)>>
      <4>1. archive' = opened \o <<Results(calls)>> /\ opened \in Seq(Messages)
        BY <1>0, <1>4, <2>1, <3>1 DEF AppendMessages, WithoutRunning, Committed
      <4>2. /\ Cardinality(CallsIn(opened, "assistant")) = asked + Size
            /\ Cardinality(CallsIn(opened, "results")) = answered
        BY <1>0, <1>5 DEF asked, answered
      <4> HIDE DEF opened
      <4> QED BY <1>5, <4>1, <4>2 DEF asked, answered
    <3>2. CASE calls = <<>>
      <4>1. archive' = archive
        BY <1>0, <2>1, <3>2, ConcatEmptySeq DEF AppendMessages, WithoutRunning, Committed
      <4> QED BY <1>0, <1>1, <3>2, <4>1 DEF asked, answered
    <3> QED BY <3>1, <3>2
  <2> QED BY <1>0, <1>1, <1>2, <1>3, <1>14, <2>1, <2>2 DEF AnnouncedInv, asked, answered
<1> QED
  BY <1>7, <1>8, <1>9, <1>11, <1>12, <1>13, <1>15, <1>16 DEF HistoryStep

\* Every tool call that was shown to the user is in the session's archive,
\* and when a turn is over, however it ended, so are the results of all of
\* them (finalize_unrun_tools on every way out of a stream).
THEOREM ShownCallsAreAnswered == Spec => []AnnouncedCallsAnswered
<1>1. Init => AnnouncedInv
  <2> SUFFICES ASSUME Init PROVE AnnouncedInv
    OBVIOUS
  <2>1. /\ archive = <<>> /\ calls = <<>> /\ announced = 0 /\ ~Batching
        /\ Size = 0 /\ MaxBatch \in Nat
    BY TurnAssumption DEF Init, Batching, BatchPhases, Size
  <2>2. CallsIn(archive, "assistant") = {} /\ CallsIn(archive, "results") = {}
    BY <2>1 DEF CallsIn
  <2> QED BY <2>1, <2>2, FS_EmptySet DEF AnnouncedInv
<1>2. TypeOK /\ AnnouncedInv /\ [Next]_vars => AnnouncedInv'
  BY HistorySteps, AnnouncedStep
<1>3. TypeOK /\ AnnouncedInv => AnnouncedCallsAnswered
  <2> SUFFICES ASSUME TypeOK, AnnouncedInv PROVE AnnouncedCallsAnswered
    OBVIOUS
  <2>1. pc \in {"idle", "draining"} => ~Streaming /\ ~Batching
    BY DEF Streaming, Batching, BatchPhases
  <2>2. /\ Cardinality(CallsIn(archive, "assistant")) \in Nat
        /\ Cardinality(CallsIn(archive, "results")) \in Nat
    BY CallsCount DEF TypeOK, ConversationType
  <2> QED BY <2>1, <2>2 DEF AnnouncedInv, AnnouncedCallsAnswered, CallsIn, Streaming
<1> QED BY <1>1, <1>2, <1>3, InvHolds, PTL DEF Spec

-----------------------------------------------------------------------------
(* The archive loses nothing.                                              *)

\* The messages behind the i-th that are not a compaction's.
LaterIn(s, i) == {j \in DOMAIN s : j > i /\ s[j] \notin Markers}

\* s, but for a compaction's messages, is the end of a.
EndOf(s, a) ==
  \A i \in DOMAIN s : s[i] \notin Markers =>
    /\ Cardinality(LaterIn(s, i)) < Len(a)
    /\ s[i] = a[Len(a) - Cardinality(LaterIn(s, i))]

\* What is later can be counted.
LEMMA LaterCount ==
  ASSUME NEW s \in Seq(Messages), NEW i
  PROVE  IsFiniteSet(LaterIn(s, i)) /\ Cardinality(LaterIn(s, i)) \in Nat
<1>1. Len(s) \in Int /\ 1 \in Int /\ DOMAIN s = 1..Len(s)
  BY LenProperties
<1>2. IsFiniteSet(1..Len(s))
  BY <1>1, FS_Interval
<1>3. LaterIn(s, i) \in SUBSET (1..Len(s))
  BY <1>1 DEF LaterIn
<1>4. IsFiniteSet(LaterIn(s, i))
  BY <1>2, <1>3, FS_Subset
<1> QED BY <1>4, FS_CardinalityType

\* An interval has as many members as it is long.
LEMMA IntervalCount ==
  ASSUME NEW a \in Nat, NEW k \in Nat
  PROVE  IsFiniteSet(a + 1 .. a + k) /\ Cardinality(a + 1 .. a + k) = k
<1>1. a + 1 \in Int /\ a + k \in Int
  OBVIOUS
<1>2. /\ IsFiniteSet(a + 1 .. a + k)
      /\ Cardinality(a + 1 .. a + k) = IF a + 1 > a + k THEN 0 ELSE (a + k) - (a + 1) + 1
  BY <1>1, FS_Interval
<1> QED BY <1>2

\* Appended to both, messages that are not a compaction's keep the one the
\* end of the other.
LEMMA EndOfAppends ==
  ASSUME NEW s \in Seq(Messages), NEW a \in Seq(Messages), NEW new \in Seq(Messages),
         \A i \in DOMAIN new : new[i] \notin Markers,
         EndOf(s, a)
  PROVE  EndOf(s \o new, a \o new)
<1> DEFINE u == s \o new
           b == a \o new
           n == Len(s)
           m == Len(a)
           k == Len(new)
<1>1. /\ n \in Nat /\ m \in Nat /\ k \in Nat
      /\ DOMAIN s = 1..n /\ DOMAIN new = 1..k
  BY LenProperties
<1>2. /\ DOMAIN u = 1..n + k /\ Len(b) = m + k
      /\ \A i \in 1..n + k : u[i] = IF i <= n THEN s[i] ELSE new[i - n]
      /\ \A i \in 1..m + k : b[i] = IF i <= m THEN a[i] ELSE new[i - m]
  BY ConcatProperties, LenProperties
<1> HIDE DEF u, b
<1>3. \A i \in 1..n : u[i] = s[i] /\ i \in 1..n + k
  BY <1>1, <1>2
<1>4. \A i \in n + 1 .. n + k : u[i] = new[i - n] /\ i - n \in 1..k /\ i \in 1..n + k
  BY <1>1, <1>2
<1>5. \A i \in n + 1 .. n + k : u[i] \notin Markers
  BY <1>1, <1>4
<1> SUFFICES ASSUME NEW i \in DOMAIN u, u[i] \notin Markers
             PROVE  /\ Cardinality(LaterIn(u, i)) < Len(b)
                    /\ u[i] = b[Len(b) - Cardinality(LaterIn(u, i))]
  <2>1. SUFFICES EndOf(u, b)
    BY DEF u, b
  <2> QED BY DEF EndOf
<1> DEFINE later == Cardinality(LaterIn(u, i))
<1>6. ASSUME i \in 1..n PROVE later < m + k /\ u[i] = b[(m + k) - later]
  <2> DEFINE old == LaterIn(s, i)
             c == Cardinality(old)
  <2>1. LaterIn(u, i) = old \cup (n + 1 .. n + k)
    <3>1. DOMAIN u = (1..n) \cup (n + 1 .. n + k)
      BY <1>1, <1>2
    <3>2. \A j \in n + 1 .. n + k : j > i
      BY <1>1, <1>6
    <3> HIDE DEF n, k
    <3> QED BY <1>1, <1>3, <1>5, <3>1, <3>2 DEF LaterIn
  <2>2. old \cap (n + 1 .. n + k) = {}
    <3>1. \A j \in n + 1 .. n + k : j \notin 1..n
      BY <1>1
    <3> HIDE DEF n, k
    <3> QED BY <1>1, <3>1 DEF LaterIn
  <2>3. IsFiniteSet(old) /\ c \in Nat
    BY LaterCount
  <2>4. IsFiniteSet(n + 1 .. n + k) /\ Cardinality(n + 1 .. n + k) = k
    <3> HIDE DEF n, k
    <3> QED BY <1>1, IntervalCount
  <2> HIDE DEF n, k, m, old
  <2>5. Cardinality(LaterIn(u, i)) = c + k
    <3>1. Cardinality(LaterIn(u, i)) = c + k - Cardinality(old \cap (n + 1 .. n + k))
      BY <2>1, <2>3, <2>4, FS_Union
    <3>2. Cardinality(old \cap (n + 1 .. n + k)) = 0
      BY <2>2, FS_EmptySet
    <3> QED BY <1>1, <2>3, <3>1, <3>2
  <2>6. c < m /\ s[i] = a[m - c]
    BY <1>1, <1>3, <1>6 DEF EndOf, m, old
  <2>7. (m + k) - (c + k) = m - c /\ m - c \in 1..m + k /\ m - c <= m /\ c + k < m + k
    <3> HIDE DEF c
    <3> QED BY <1>1, <2>3, <2>6
  <2> QED BY <1>2, <1>3, <1>6, <2>5, <2>6, <2>7
<1>7. ASSUME i \in n + 1 .. n + k PROVE later < m + k /\ u[i] = b[(m + k) - later]
  <2> DEFINE l == n + k - i
  <2>1. LaterIn(u, i) = i + 1 .. i + l
    <3>1. i + l = n + k /\ i \in Nat /\ l \in Nat
      BY <1>1, <1>7
    <3>2. \A j : j \in i + 1 .. n + k <=> (j \in n + 1 .. n + k /\ j > i)
      BY <1>1, <1>7
    <3>3. \A j \in 1..n : ~(j > i)
      BY <1>1, <1>7
    <3>4. DOMAIN u = (1..n) \cup (n + 1 .. n + k)
      BY <1>1, <1>2
    <3> HIDE DEF n, k, l
    <3> QED BY <1>5, <3>1, <3>2, <3>3, <3>4 DEF LaterIn
  <2>2. l \in Nat /\ i \in Nat
    BY <1>1, <1>7
  <2>3. Cardinality(LaterIn(u, i)) = l
    <3> HIDE DEF l
    <3> QED BY <2>1, <2>2, IntervalCount
  <2>4. /\ l < m + k /\ (m + k) - l \in 1..m + k /\ ~((m + k) - l <= m)
        /\ ((m + k) - l) - m = i - n
    BY <1>1, <1>7
  <2> HIDE DEF l, m, n, k
  <2> QED BY <1>2, <1>4, <1>7, <2>3, <2>4
<1>8. i \in 1..n \/ i \in n + 1 .. n + k
  BY <1>1, <1>2
<1>9. later < m + k /\ u[i] = b[(m + k) - later] /\ Len(b) = m + k
  BY <1>2, <1>6, <1>7, <1>8
<1> HIDE DEF m, k
<1> QED BY <1>9

\* A compaction keeps it: what it leaves of the conversation is a tail.
LEMMA EndOfCompacted ==
  ASSUME NEW s \in Seq(Messages), NEW a \in Seq(Messages), NEW t \in TailStarts(s),
         NEW resume \in BOOLEAN, EndOf(s, a)
  PROVE  EndOf(Compacted(s, t, resume), a)
<1> DEFINE u == Compacted(s, t, resume)
<1>0. PICK n \in Nat : TailAmongMarkers(u, s, t, n)
  BY CompactedShape
<1>1. /\ n = Len(s) + 1 - t /\ t \in 1..Len(s) + 1 /\ Len(s) \in Nat
      /\ u \in Seq(Messages) /\ DOMAIN u = 1..Len(u) /\ Len(u) \in {n + 2, n + 3}
      /\ \A i \in 3..n + 2 : u[i] = s[t + i - 3] /\ t + i - 3 \in 1..Len(s)
      /\ \A i \in 1..Len(u) : i \in 3..n + 2 \/ u[i] \in Markers
  BY <1>0 DEF TailAmongMarkers
<1>2. DOMAIN s = 1..Len(s)
  BY LenProperties
<1> HIDE DEF u
<1>3. ASSUME NEW i \in 3..n + 2
      PROVE  Cardinality(LaterIn(u, i)) = Cardinality(LaterIn(s, t + i - 3))
  <2> DEFINE S == LaterIn(u, i)
             T == LaterIn(s, t + i - 3)
             f == [j \in S |-> t + j - 3]
  <2>1. \A j \in S : j \in 3..n + 2 /\ j > i /\ u[j] \notin Markers
    BY <1>1 DEF LaterIn
  <2>2. \A j \in S : t + j - 3 \in T
    <3>1. \A j \in S : t + j - 3 \in DOMAIN s /\ s[t + j - 3] \notin Markers
      BY <1>1, <1>2, <2>1
    <3>2. \A j \in 3..n + 2 : j > i => t + j - 3 > t + i - 3
      BY <1>1
    <3> HIDE DEF S
    <3> QED BY <2>1, <3>1, <3>2 DEF LaterIn
  <2>3. ASSUME NEW l \in T PROVE \E j \in S : t + j - 3 = l
    <3>1. l \in 1..Len(s) /\ l > t + i - 3 /\ s[l] \notin Markers
      BY <1>2 DEF LaterIn
    <3> DEFINE j == l + 3 - t
    <3>2. /\ n = Len(s) + 1 - t /\ t \in 1..Len(s) + 1 /\ Len(s) \in Nat
          /\ Len(u) = n + 2 \/ Len(u) = n + 3
      BY <1>1
    <3>3. j \in 3..n + 2 /\ j > i /\ t + j - 3 = l /\ j \in 1..Len(u)
      <4>1. l \in Nat /\ t \in Nat /\ i \in Nat /\ n \in Nat
        BY <3>1, <3>2
      <4> QED BY <3>1, <3>2, <4>1
    <3> HIDE DEF j
    <3>4. j \in S
      BY <1>1, <3>1, <3>3 DEF LaterIn
    <3> QED BY <3>3, <3>4
  <2>4. \A j, l \in S : t + j - 3 = t + l - 3 => j = l
    BY <1>1, <2>1
  <2>5. IsFiniteSet(S)
    BY <1>1, LaterCount
  <2> HIDE DEF S, T
  <2>6. f \in Bijection(S, T)
    BY <2>2, <2>3, <2>4 DEF Bijection, Injection, Surjection, IsInjective
  <2>7. ExistsBijection(S, T)
    BY <2>6 DEF ExistsBijection
  <2> QED BY <2>5, <2>7, FS_Bijection DEF S, T
<1>4. EndOf(u, a)
  BY <1>1, <1>2, <1>3 DEF EndOf
<1> QED BY <1>4 DEF u

\* Every step keeps the conversation the end of the archive.
LEMMA ArchiveStep ==
  ASSUME TypeOK, HistoryStep, EndOf(messages, archive)
  PROVE  EndOf(messages', archive')
<1>0. messages \in Seq(Messages) /\ archive \in Seq(Messages)
  BY DEF TypeOK, ConversationType
<1>1. ASSUME NEW new \in Seq(Messages), AppendMessages(new),
             \A i \in DOMAIN new : new[i].kind \in {"prompt", "steer", "assistant", "results"}
      PROVE  EndOf(messages', archive')
  <2>1. \A i \in DOMAIN new : new[i] \notin Markers
    BY <1>1, MarkerKinds
  <2> QED BY <1>0, <1>1, <2>1, EndOfAppends DEF AppendMessages
<1>2. CASE QuietStep \/ OpenStep \/ CallStep
  BY <1>2 DEF QuietStep, OpenStep, CallStep
<1>3. CASE TalkStep
  BY <1>1, <1>3 DEF TalkStep
<1>4. CASE CompactStep
  BY <1>0, <1>4, EndOfCompacted DEF CompactStep, CommitCompacted
<1>5. CASE DropStep \/ AnswerStep \/ CommitStep \/ CollectStep
  <2>1. PICK new \in {<<>>, WithoutRunning, <<Assistant(<<>>)>>, <<Assistant(calls)>>,
                      <<Results(calls)>>} : AppendMessages(new)
    BY <1>5 DEF DropStep, AnswerStep, CommitStep, CollectStep
  <2>2. new \in Seq(Messages)
    BY AppendedType
  <2>3. new \in {<<>>, <<Assistant(calls), Results(calls)>>, <<Assistant(<<>>)>>,
                 <<Assistant(calls)>>, <<Results(calls)>>}
    BY DEF WithoutRunning
  <2>4. \A i \in DOMAIN new : new[i].kind \in {"prompt", "steer", "assistant", "results"}
    BY <2>3, Kinds
  <2> QED BY <1>1, <2>1, <2>2, <2>4
<1> QED BY <1>2, <1>3, <1>4, <1>5 DEF HistoryStep

\* Whatever is compacted, in every session, what is left of the conversation
\* is the end of the archive: nothing is lost from the session, nothing is
\* kept twice, and the order is the same (append_message).
THEOREM ArchiveKeepsAll == Spec => []ArchiveComplete
<1>1. Init => EndOf(messages, archive)
  BY DEF Init, EndOf
<1>2. TypeOK /\ EndOf(messages, archive) /\ [Next]_vars => EndOf(messages, archive)'
  BY HistorySteps, ArchiveStep
<1>3. EndOf(messages, archive) => ArchiveComplete
  BY DEF EndOf, LaterIn, ArchiveComplete
<1> QED BY <1>1, <1>2, <1>3, InvHolds, PTL DEF Spec

-----------------------------------------------------------------------------
(* Steering is heard once and in order.                                    *)

\* A line is typed: it waits behind the others.
TypedStep ==
  /\ steers' = steers + 1 /\ steering' = Append(steering, steers')
  /\ UNCHANGED <<archive, cleared>>

\* The queue is delivered, or thrown away.
DeliveredStep ==
  /\ AppendMessages(Injected) /\ steering' = <<>>
  /\ UNCHANGED <<steers, cleared>>

ThrownStep ==
  /\ steering' = <<>> /\ cleared' = cleared + Len(steering)
  /\ UNCHANGED <<archive, steers>>

\* Something else is said.
ElseStep ==
  /\ \/ UNCHANGED archive
     \/ \E new \in Seq(Messages) :
          AppendMessages(new) /\ \A i \in DOMAIN new : new[i].kind # "steer"
  /\ UNCHANGED <<steering, steers, cleared>>

\* What a step does to steering.
LEMMA SteeringSteps ==
  ASSUME TypeOK, [Next]_vars
  PROVE  TypedStep \/ DeliveredStep \/ ThrownStep \/ ElseStep
<1> USE DEF conversation, typing, response, InBatch
<1>1. CASE TypeSteering \/ UserDeniesWithMessage
  BY <1>1 DEF TypeSteering, UserDeniesWithMessage, TypedStep
<1>2. CASE BeginRound
  BY <1>2 DEF BeginRound, DeliveredStep
<1>3. CASE Reload
  BY <1>3 DEF Reload, ThrownStep
<1>4. ASSUME NEW new, new \in {<<>>, WithoutRunning, <<Assistant(<<>>)>>, <<Assistant(calls)>>,
                               <<Results(calls)>>},
             AppendMessages(new), UNCHANGED typing
      PROVE  ElseStep
  <2>1. new \in Seq(Messages)
    BY <1>4, AppendedType
  <2>2. new \in {<<>>, <<Assistant(calls), Results(calls)>>, <<Assistant(<<>>)>>,
                 <<Assistant(calls)>>, <<Results(calls)>>}
    BY <1>4 DEF WithoutRunning
  <2>3. \A i \in DOMAIN new : new[i].kind # "steer"
    BY <2>2, Kinds
  <2> QED BY <1>4, <2>1, <2>3 DEF ElseStep
<1>5. CASE SubmitPrompt
  <2> DEFINE new == <<Prompt(turns')>>
  <2>1. /\ new \in Seq(Messages) /\ \A i \in DOMAIN new : new[i].kind # "steer"
        /\ AppendMessages(new) /\ UNCHANGED <<steering, steers, cleared>>
    BY <1>5, MessageTypes DEF SubmitPrompt, TypeOK, UserType, Prompt, Message
  <2> HIDE DEF new
  <2> QED BY <2>1 DEF ElseStep
<1>6. CASE StreamCloses \/ StreamFails \/ StreamInterrupted \/ StreamDoneWithCalls
           \/ StreamDone \/ CollectBatch
  <2>1. UNCHANGED typing
    BY <1>6 DEF StreamCloses, StreamFails, StreamInterrupted, StreamDoneWithCalls,
         StreamDone, CollectBatch
  <2>2. \/ UNCHANGED archive
        \/ \E new \in {<<>>, WithoutRunning, <<Assistant(<<>>)>>, <<Assistant(calls)>>,
                       <<Results(calls)>>} : AppendMessages(new)
    BY <1>6 DEF StreamCloses, StreamFails, StreamInterrupted, StreamDoneWithCalls,
         StreamDone, CollectBatch
  <2> QED BY <1>4, <2>1, <2>2 DEF ElseStep
<1>7. CASE UNCHANGED <<archive, typing>> \/ UNCHANGED vars
  BY <1>7 DEF ElseStep, vars
<1>8. CASE SubmitCancelled \/ Cancel \/ CompactCommand \/ UserAllows \/ UserDenies
           \/ (Loop /\ ~BeginRound) \/ RequestFails \/ RequestAccepted \/ StreamToolUse
           \/ StreamUsage \/ Drain
  BY <1>8 DEF SubmitCancelled, Cancel, CompactCommand, UserAllows, UserDenies, Loop,
     BelowThreshold, CompactSucceeds, CompactFails, RetryWaitEnds, RequestFails,
     RequestAccepted, StreamToolUse, StreamUsage, Drain, ElseStep
<1>9. CASE Batch /\ ~CollectBatch
  BY <1>9 DEF Batch, MarkUnrun, Decide, GrowGroup, CloseGroup, LaunchMember, ToolStarts, MemberEnds,
     GroupEnds, ActOnVerdict, PromptCancelled, ExclusiveEnds, SchemasChange, ElseStep
<1> QED
  BY <1>1, <1>2, <1>3, <1>5, <1>6, <1>7, <1>8, <1>9 DEF Next, User, Engine, Response

\* Every step keeps what was typed accounted for, once and in order.
LEMMA SteersStep ==
  ASSUME TypeOK, SteersConserved, [Next]_vars PROVE SteersConserved'
<1> DEFINE heard == {i \in DOMAIN archive : archive[i].kind = "steer"}
<1>0. /\ archive \in Seq(Messages) /\ steering \in Seq(Nat)
      /\ steers \in Nat /\ cleared \in Nat
      /\ Len(archive) \in Nat /\ DOMAIN archive = 1..Len(archive)
      /\ Len(steering) \in Nat /\ DOMAIN steering = 1..Len(steering)
      /\ ConversationType
  BY LenProperties DEF TypeOK, ConversationType, UserType
<1>1. /\ Cardinality(heard) + Len(steering) + cleared = steers
      /\ \A i, j \in heard : i < j => archive[i].n < archive[j].n
      /\ \A i, j \in DOMAIN steering : i < j => steering[i] < steering[j]
      /\ \A i \in heard, j \in DOMAIN steering : archive[i].n < steering[j]
      /\ \A i \in heard : archive[i].n \in 1..steers
      /\ \A j \in DOMAIN steering : steering[j] \in 1..steers
  BY DEF SteersConserved
<1>2. IsFiniteSet(heard) /\ Cardinality(heard) \in Nat
  <2>1. 1 \in Int /\ Len(archive) \in Int
    BY <1>0
  <2>2. IsFiniteSet(1..Len(archive))
    BY <2>1, FS_Interval
  <2>3. heard \in SUBSET (1..Len(archive))
    BY <1>0
  <2>4. IsFiniteSet(heard)
    BY <2>2, <2>3, FS_Subset
  <2> QED BY <2>4, FS_CardinalityType
<1>3. CASE ElseStep
  <2>1. CASE UNCHANGED archive
    BY <1>1, <1>3, <2>1 DEF ElseStep, SteersConserved
  <2>2. ASSUME NEW new \in Seq(Messages), AppendMessages(new),
               \A i \in DOMAIN new : new[i].kind # "steer"
        PROVE  SteersConserved'
    <3>1. /\ DOMAIN archive' = 1..Len(archive) + Len(new)
          /\ \A i \in 1..Len(archive) : archive'[i] = archive[i]
          /\ \A i \in 1..Len(new) : archive'[Len(archive) + i] = new[i]
          /\ DOMAIN new = 1..Len(new) /\ Len(new) \in Nat
      BY <1>0, <2>2, AppendKeeps, LenProperties
    <3>2. \A i \in DOMAIN archive' :
            \/ i \in DOMAIN archive
            \/ i - Len(archive) \in 1..Len(new) /\ Len(archive) + (i - Len(archive)) = i
      BY <1>0, <3>1
    <3>3. \A i \in DOMAIN archive' : i \in DOMAIN archive \/ archive'[i].kind # "steer"
      BY <2>2, <3>1, <3>2
    <3>4. \A i \in DOMAIN archive : i \in DOMAIN archive' /\ archive'[i] = archive[i]
      BY <1>0, <3>1
    <3>5. heard' = heard
      BY <3>3, <3>4
    <3>6. \A i \in heard : archive'[i] = archive[i]
      BY <3>4
    <3> HIDE DEF heard
    <3>7. UNCHANGED <<steering, steers, cleared>>
      BY <1>3 DEF ElseStep
    <3> QED BY <1>1, <3>5, <3>6, <3>7 DEF SteersConserved, heard
  <2> QED BY <1>3, <2>1, <2>2 DEF ElseStep
<1>4. CASE TypedStep
  <2> DEFINE n == steers + 1
  <2>1. /\ DOMAIN steering' = 1..Len(steering) + 1 /\ Len(steering') = Len(steering) + 1
        /\ \A i \in 1..Len(steering) : steering'[i] = steering[i]
        /\ steering'[Len(steering) + 1] = n /\ steers' = n
        /\ heard' = heard /\ archive' = archive /\ cleared' = cleared
    BY <1>0, <1>4, AppendProperties, LenProperties DEF TypedStep
  <2>2. \A i \in DOMAIN steering' : i \in DOMAIN steering \/ i = Len(steering) + 1
    BY <1>0, <2>1
  <2>3. \A x \in 1..steers : x < n /\ x \in 1..n
    BY <1>0
  <2>4. n \in 1..n
    BY <1>0
  <2>5. \A i, j \in DOMAIN steering' : i < j => i \in DOMAIN steering
    BY <1>0, <2>1
  <2> HIDE DEF heard, n
  <2>6. \A i, j \in DOMAIN steering' : i < j => steering'[i] < steering'[j]
    BY <1>0, <1>1, <2>1, <2>2, <2>3, <2>5
  <2>7. \A i \in heard, j \in DOMAIN steering' : archive[i].n < steering'[j]
    BY <1>0, <1>1, <2>1, <2>2, <2>3
  <2>8. \A j \in DOMAIN steering' : steering'[j] \in 1..n
    BY <1>0, <1>1, <2>1, <2>2, <2>3, <2>4
  <2>9. Cardinality(heard) + (Len(steering) + 1) + cleared = steers + 1
    BY <1>0, <1>1, <1>2
  <2> QED BY <1>1, <2>1, <2>3, <2>6, <2>7, <2>8, <2>9 DEF SteersConserved, heard, n
<1>5. ASSUME steering' = <<>> PROVE DOMAIN steering' = {} /\ Len(steering') = 0
  BY <1>5
<1>6. CASE ThrownStep
  <2>1. Cardinality(heard) + 0 + (cleared + Len(steering)) = steers
    <3> HIDE DEF heard
    <3> QED BY <1>0, <1>1, <1>2
  <2>2. UNCHANGED <<archive, steers>> /\ cleared' = cleared + Len(steering)
    BY <1>6 DEF ThrownStep
  <2> QED BY <1>1, <1>5, <1>6, <2>1, <2>2 DEF ThrownStep, SteersConserved
<1>7. CASE DeliveredStep
  <2> DEFINE a == Len(archive)
             k == Len(steering)
  <2>1. /\ DOMAIN archive' = 1..a + k
        /\ \A i \in 1..a : archive'[i] = archive[i]
        /\ \A i \in 1..k : archive'[a + i] = Steer(steering[i])
    <3>1. Injected \in Seq(Messages) /\ DOMAIN Injected = 1..k
      BY InjectedType DEF Injected
    <3>2. Len(Injected) = k /\ AppendMessages(Injected)
      BY <1>0, <1>7, <3>1, LenProperties DEF DeliveredStep
    <3>3. \A i \in 1..k : Injected[i] = Steer(steering[i])
      BY DEF Injected
    <3> HIDE DEF a, k
    <3> QED BY <1>0, <3>1, <3>2, <3>3, AppendKeeps DEF a
  <2>2. UNCHANGED <<steers, cleared>> /\ steering' = <<>>
    BY <1>7 DEF DeliveredStep
  <2>3. a \in Nat /\ k \in Nat /\ DOMAIN archive = 1..a /\ DOMAIN steering = 1..k
    BY <1>0
  <2> HIDE DEF a, k
  <2>4. \A i \in a + 1 .. a + k : i - a \in 1..k /\ a + (i - a) = i /\ i \in 1..a + k
    BY <2>3
  <2>5. \A m : Steer(m).kind = "steer" /\ Steer(m).n = m
    BY DEF Steer, Message
  <2>6. \A i \in a + 1 .. a + k : archive'[i].kind = "steer" /\ archive'[i].n = steering[i - a]
    BY <2>1, <2>4, <2>5
  <2>7. \A i \in 1..a + k : i \in 1..a \/ i \in a + 1 .. a + k
    BY <2>3
  <2>8. \A i \in 1..a : i \in 1..a + k /\ i \notin a + 1 .. a + k
    BY <2>3
  <2>9. heard' = heard \cup (a + 1 .. a + k) /\ heard \cap (a + 1 .. a + k) = {}
    BY <2>1, <2>3, <2>4, <2>6, <2>7, <2>8
  <2>10. \A i \in heard : i \in 1..a /\ archive'[i] = archive[i]
    BY <2>1, <2>3
  <2> HIDE DEF heard
  <2>11. Cardinality(heard') = Cardinality(heard) + k
    <3>1. IsFiniteSet(a + 1 .. a + k) /\ Cardinality(a + 1 .. a + k) = k
      BY <2>3, IntervalCount
    <3>2. Cardinality(heard') =
            Cardinality(heard) + (k - Cardinality(heard \cap (a + 1 .. a + k)))
      BY <1>2, <2>9, <3>1, FS_Union
    <3>3. Cardinality(heard \cap (a + 1 .. a + k)) = 0
      BY <2>9, FS_EmptySet
    <3> QED BY <1>2, <2>3, <3>2, <3>3
  <2>12. Cardinality(heard') + 0 + cleared = steers
    BY <1>0, <1>1, <1>2, <2>3, <2>11 DEF k
  <2>13. ASSUME NEW i \in heard', NEW j \in heard', i < j
         PROVE  archive'[i].n < archive'[j].n
    <3>1. CASE j \in heard
      <4>1. i \in heard
        <5>1. j \in 1..a /\ ~(i \in a + 1 .. a + k)
          BY <2>3, <2>10, <2>13, <3>1
        <5> QED BY <2>9, <5>1
      <4> QED BY <1>1, <2>10, <2>13, <3>1, <4>1
    <3>2. CASE j \in a + 1 .. a + k /\ i \in heard
      BY <1>1, <2>3, <2>4, <2>6, <2>10, <3>2
    <3>3. CASE j \in a + 1 .. a + k /\ i \in a + 1 .. a + k
      <4>1. i - a < j - a /\ i - a \in DOMAIN steering /\ j - a \in DOMAIN steering
        BY <2>3, <2>4, <2>13, <3>3
      <4> QED BY <1>1, <2>6, <3>3, <4>1
    <3> QED BY <2>9, <2>13, <3>1, <3>2, <3>3
  <2>14. \A i \in heard' : archive'[i].n \in 1..steers
    BY <1>1, <2>3, <2>4, <2>6, <2>9, <2>10
  <2>15. DOMAIN steering' = {} /\ Len(steering') = 0
    BY <1>5, <2>2
  <2> QED BY <2>2, <2>12, <2>13, <2>14, <2>15 DEF SteersConserved, heard
<1> QED BY <1>3, <1>4, <1>6, <1>7, SteeringSteps

\* Each steering message is heard once, in the order it was typed, or still
\* waits, unless a reload of the session threw it away: at the head of every
\* round the queue is drained whole (inject_steering).
THEOREM SteeringIsHeardOnce == Spec => []SteersConserved
<1>1. Init => SteersConserved
  <2> SUFFICES ASSUME Init PROVE SteersConserved
    OBVIOUS
  <2>1. archive = <<>> /\ steering = <<>> /\ steers = 0 /\ cleared = 0
    BY DEF Init
  <2>2. {i \in DOMAIN archive : archive[i].kind = "steer"} = {} /\ Len(steering) = 0
    BY <2>1
  <2>3. Cardinality({}) = 0
    BY FS_EmptySet
  <2> QED BY <2>1, <2>2, <2>3 DEF SteersConserved
<1>2. TypeOK /\ SteersConserved /\ [Next]_vars => SteersConserved'
  BY SteersStep
<1> QED BY <1>1, <1>2, InvHolds, PTL DEF Spec

=============================================================================
