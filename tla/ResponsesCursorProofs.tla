---------------------- MODULE ResponsesCursorProofs ----------------------
(***************************************************************************)
(* Theorems about ResponsesCursor, for every value of its constants: the   *)
(* type invariant, and that a continued request neither skips a message    *)
(* the server was not asked with nor answers a call it does not know, but  *)
(* for those of a response the server gave no id.                          *)
(*                                                                         *)
(* Neither is inductive.  A reader of a stream the engine gave up may set  *)
(* the cursor to a response the conversation has left, and clears it again *)
(* before it ends; Reaches says what is known of the cursor when no such   *)
(* reader is at work, whatever the engine is doing.                        *)
(***************************************************************************)
EXTENDS ResponsesCursor, SequenceTheorems, TLAPS

-----------------------------------------------------------------------------
(* The inductive invariant.                                                *)

\* No reader of a stream the engine has dropped may still set the cursor.
Clean ==
  \A r \in DOMAIN readers : r # stream => readers[r] \in {"drained", "gone"}

InSummary == pc \in {"summaryIdle", "summaryTurn"}

USE DEF StoredResponses

\* The calls of response r include those of the sequence s.
CallsOf(r, s) == \A i \in DOMAIN s : s[i] \in Members(responses[r].calls)

\* The calls a request that continues response r may answer.
Known(r) == Members(responses[r].calls) \cup UnnamedCalls

\* Response r was asked with the first messages of the conversation, and the
\* results after them are of calls it may be answered with.
Fits(r) ==
  LET sent == Len(responses[r].asked)
  IN /\ sent <= Len(messages)
     /\ \A i \in 1..sent : responses[r].asked[i] = messages[i]
     /\ \A i \in (sent + 1)..Len(messages) :
          messages[i].kind = "results" =>
            \A k \in DOMAIN messages[i].calls : messages[i].calls[k] \in Known(r)

\* The engine holds a stream exactly while it reads one, and the last.
StreamHeld ==
  /\ stream # 0 <=> pc \notin {"idle", "request"}
  /\ stream # 0 => stream = Last
  /\ stream = 0 => channel = <<>>
  /\ pc \notin {"stream", "batch"} => taken = <<>>
  /\ InSummary => messages # <<>>

\* While a turn's stream is read, the conversation is what it was asked with.
StreamAsked ==
  /\ pc = "stream" => messages = responses[stream].asked
  /\ pc = "batch" =>
       messages = Append(responses[stream].asked, Message("assistant", stream, taken))

\* What is received is of the response; Done is sent last.
StreamCalls ==
  /\ pc \in {"stream", "batch"} => CallsOf(stream, taken)
  /\ \A i \in DOMAIN channel :
       /\ channel[i].type = "call" => channel[i].id \in Members(responses[stream].calls)
       /\ channel[i].type = "done" => readers[stream] \in {"drained", "gone"}
  /\ pc = "batch" => readers[stream] \in {"drained", "gone"}

\* A reader that is past its response's end has settled the cursor, unless the
\* response had no id to set it to.
StreamSettled ==
  stream # 0 /\ readers[stream] \in {"completed", "drained", "gone"} /\ Clean
    => cursor.id \in {0, stream} \/ ~responses[stream].named

\* The cursor fits the conversation.
Reaches == Clean /\ ~InSummary /\ cursor.id # 0 => Fits(cursor.id)

CursorInv ==
  TypeOK /\ StreamHeld /\ StreamAsked /\ StreamCalls /\ StreamSettled /\ Reaches

-----------------------------------------------------------------------------
(* Facts about the operators of the module.                                *)

\* What is appended to the conversation is a message.
LEMMA MessageTypes ==
  ASSUME NEW n \in Nat, NEW cs \in Seq(CallIds)
  PROVE  /\ User(n) \in Messages /\ Handoff(n) \in Messages
         /\ Message("assistant", n, cs) \in Messages
         /\ Message("results", n, cs) \in Messages
         /\ Message("assistant", n, <<>>) \in Messages
         /\ Message("excerpt", n, <<>>) \in Messages
BY EmptySeq DEF User, Handoff, Message, Messages, MessageKinds

\* Appending to a sequence keeps what was in it.
LEMMA MembersGrow ==
  ASSUME NEW S, NEW cs \in Seq(S), NEW c \in S
  PROVE  /\ Members(cs) \subseteq Members(Append(cs, c))
         /\ c \in Members(Append(cs, c))
<1>1. /\ Append(cs, c) \in Seq(S) /\ Len(Append(cs, c)) = Len(cs) + 1
      /\ \A i \in 1..Len(cs) : Append(cs, c)[i] = cs[i]
      /\ Append(cs, c)[Len(cs) + 1] = c
  BY AppendProperties
<1>2. DOMAIN cs = 1..Len(cs) /\ DOMAIN Append(cs, c) = 1..(Len(cs) + 1)
  BY <1>1, LenProperties
<1>3. Len(cs) \in Nat
  BY LenProperties
<1> QED BY <1>1, <1>2, <1>3 DEF Members

\* What the server stores only grows: a response keeps what it was asked with
\* and its calls, and one without an id never gets one.
Grows ==
  \A r \in 1..Last :
    /\ r \in DOMAIN responses'
    /\ responses'[r].asked = responses[r].asked
    /\ Members(responses[r].calls) \subseteq Members(responses'[r].calls)
    /\ responses'[r].named => responses[r].named

LEMMA ResponsesKept ==
  ASSUME TypeOK,
         \/ responses' = responses
         \/ \E resp \in StoredResponses : responses' = Append(responses, resp)
         \/ \E q \in 1..Last, id \in CallIds :
              responses' = [responses EXCEPT ![q].calls = Append(@, id)]
         \/ \E q \in 1..Last, b \in BOOLEAN :
              responses' = [responses EXCEPT ![q].named = @ /\ b]
  PROVE  Grows
<1> SUFFICES ASSUME NEW r \in 1..Last
             PROVE  /\ r \in DOMAIN responses'
                    /\ responses'[r].asked = responses[r].asked
                    /\ Members(responses[r].calls) \subseteq Members(responses'[r].calls)
                    /\ responses'[r].named => responses[r].named
  BY DEF Grows
<1>1. responses \in Seq(StoredResponses)
  BY DEF TypeOK, ServerType
<1>2. DOMAIN responses = 1..Last /\ Last \in Nat
  BY <1>1, LenProperties DEF Last
<1>3. responses[r] \in [asked : Seq(Messages), calls : Seq(CallIds), named : BOOLEAN]
  BY <1>1, <1>2, ElementOfSeq DEF Last
<1>4. CASE responses' = responses
  BY <1>2, <1>4
<1>5. CASE \E resp \in StoredResponses : responses' = Append(responses, resp)
  <2>1. PICK resp \in StoredResponses : responses' = Append(responses, resp)
    BY <1>5
  <2>2. /\ Append(responses, resp) \in Seq(StoredResponses)
        /\ Len(Append(responses, resp)) = Last + 1
        /\ Append(responses, resp)[r] = responses[r]
    BY <1>1, <1>2, AppendProperties DEF Last
  <2>3. r \in DOMAIN Append(responses, resp)
    BY <1>2, <2>2, LenProperties
  <2> QED BY <2>1, <2>2, <2>3
<1>6. ASSUME NEW q \in 1..Last, NEW id \in CallIds,
             responses' = [responses EXCEPT ![q].calls = Append(@, id)]
      PROVE  /\ r \in DOMAIN responses'
             /\ responses'[r].asked = responses[r].asked
             /\ Members(responses[r].calls) \subseteq Members(responses'[r].calls)
             /\ responses'[r].named => responses[r].named
  <2>1. CASE q = r
    <3>1. responses'[r] = [responses[r] EXCEPT !.calls = Append(responses[r].calls, id)]
      BY <1>6, <2>1, <1>2
    <3>2. /\ responses'[r].asked = responses[r].asked
          /\ responses'[r].calls = Append(responses[r].calls, id)
          /\ responses'[r].named = responses[r].named
      BY <3>1, <1>3
    <3> QED BY <3>2, <1>2, <1>3, <1>6, MembersGrow
  <2>2. CASE q # r
    BY <1>6, <2>2, <1>2
  <2> QED BY <2>1, <2>2
<1>7. ASSUME NEW q \in 1..Last, NEW b \in BOOLEAN,
             responses' = [responses EXCEPT ![q].named = @ /\ b]
      PROVE  /\ r \in DOMAIN responses'
             /\ responses'[r].asked = responses[r].asked
             /\ Members(responses[r].calls) \subseteq Members(responses'[r].calls)
             /\ responses'[r].named => responses[r].named
  <2>1. CASE q = r
    <3>1. responses'[r] = [responses[r] EXCEPT !.named = responses[r].named /\ b]
      BY <1>7, <2>1, <1>2
    <3>2. /\ responses'[r].asked = responses[r].asked
          /\ responses'[r].calls = responses[r].calls
          /\ responses'[r].named = (responses[r].named /\ b)
      BY <3>1, <1>3
    <3> QED BY <3>2, <1>2, <1>7
  <2>2. CASE q # r
    BY <1>7, <2>2, <1>2
  <2> QED BY <2>1, <2>2
<1> QED BY <1>4, <1>5, <1>6, <1>7

\* So do the calls a request may answer.
LEMMA KnownGrows ==
  ASSUME TypeOK, Grows, NEW r \in 1..Last
  PROVE  Known(r) \subseteq Known(r)'
<1>1. DOMAIN responses = 1..Last
  BY LenProperties DEF TypeOK, ServerType, Last
<1>2. UnnamedCalls \subseteq UnnamedCalls'
  <2> SUFFICES ASSUME NEW c \in UnnamedCalls
               PROVE  c \in UnnamedCalls'
    OBVIOUS
  <2>1. PICK q \in 1..Last : ~responses[q].named /\ c \in Members(responses[q].calls)
    BY <1>1 DEF UnnamedCalls
  <2>2. q \in DOMAIN responses' /\ ~responses'[q].named /\ c \in Members(responses'[q].calls)
    BY <2>1 DEF Grows
  <2> QED BY <2>2 DEF UnnamedCalls
<1>3. Members(responses[r].calls) \subseteq Members(responses'[r].calls)
  BY DEF Grows
<1> QED BY <1>2, <1>3 DEF Known

-----------------------------------------------------------------------------
(* Types.                                                                  *)

\* The sequences of the state have their lengths and their domains.
LEMMA Domains ==
  ASSUME TypeOK
  PROVE  /\ Last \in Nat /\ DOMAIN responses = 1..Last /\ DOMAIN readers = 1..Last
         /\ \A r \in 1..Last :
              /\ responses[r] \in StoredResponses
              /\ readers[r] \in ReaderStates
<1>1. /\ responses \in Seq(StoredResponses)
      /\ readers \in Seq(ReaderStates) /\ Len(readers) = Len(responses)
  BY DEF TypeOK, ServerType, Last
<1> QED BY <1>1, LenProperties, ElementOfSeq DEF Last

\* A request keeps the types: there is one response more, and its reader.
LEMMA AttachType ==
  ASSUME TypeOK, NEW asked \in Seq(Messages), Attach(asked),
         cursor' = cursor \/ cursor' = NoCursor
  PROVE  ServerType' /\ CursorType' /\ StreamType' /\ Last' = Last + 1
<1> DEFINE Resp == StoredResponses
<1>1. Response(asked) \in Resp
  BY EmptySeq DEF Response
<1>2. /\ responses \in Seq(Resp) /\ readers \in Seq(ReaderStates)
      /\ Len(readers) = Len(responses)
  BY DEF TypeOK, ServerType, Last
<1>3. /\ responses' \in Seq(Resp) /\ Len(responses') = Len(responses) + 1
      /\ \A i \in 1..Len(responses) : responses'[i] = responses[i]
  BY <1>1, <1>2, AppendProperties DEF Attach
<1>4. /\ readers' \in Seq(ReaderStates) /\ Len(readers') = Len(readers) + 1
  BY <1>2, AppendProperties DEF Attach, ReaderStates
<1>5. ServerType' /\ Last' = Last + 1
  BY <1>2, <1>3, <1>4 DEF ServerType, Last
<1>6. Last \in Nat
  BY Domains
<1>7. StreamType'
  BY <1>5, <1>6, EmptySeq DEF StreamType, Attach
<1>8. CursorType'
  <2>1. CASE cursor' = cursor
    BY <2>1, <1>3, <1>5, <1>6 DEF CursorType, TypeOK, Last
  <2>2. CASE cursor' = NoCursor
    BY <2>2, <1>5, <1>6 DEF CursorType, NoCursor
  <2> QED BY <2>1, <2>2
<1> QED BY <1>5, <1>7, <1>8

\* So does dropping a stream, and resetting the session.
LEMMA DropType ==
  ASSUME TypeOK, UNCHANGED <<responses, readers>>, Drop \/ UNCHANGED <<stream, channel>>,
         UNCHANGED cursor \/ ResetSession
  PROVE  ServerType' /\ CursorType' /\ StreamType'
<1>1. Last \in Nat /\ Last' = Last
  BY Domains DEF Last
<1>2. ServerType'
  BY DEF TypeOK, ServerType, Last
<1>3. StreamType'
  <2>1. CASE Drop
    BY <2>1, <1>1, EmptySeq DEF StreamType, Drop
  <2>2. CASE UNCHANGED <<stream, channel>>
    BY <2>2, <1>1 DEF TypeOK, StreamType
  <2> QED BY <2>1, <2>2
<1>4. CursorType'
  BY <1>1 DEF TypeOK, CursorType, ResetSession, NoCursor
<1> QED BY <1>2, <1>3, <1>4

\* Appending to the conversation.
LEMMA AppendType ==
  ASSUME TypeOK, NEW m \in Messages
  PROVE  Append(messages, m) \in Seq(Messages)
BY AppendProperties DEF TypeOK, ConversationType

\* The engine's and the user's actions keep the types.
LEMMA EngineTypes ==
  ASSUME TypeOK, InSummary => messages # <<>>,
         Prompt \/ Steer \/ Load \/ Cancel \/ Engine
  PROVE  TypeOK'
<1> USE DEF ConversationType, ControlType, PCs
<1>0. /\ messages \in Seq(Messages) /\ prompts \in Nat /\ cancelled \in BOOLEAN
      /\ pc \in PCs /\ taken \in Seq(CallIds) /\ retries \in 0..MaxRetries
      /\ stream \in Nat /\ MaxRetries \in Nat
  BY Domains, CursorAssumption DEF TypeOK, StreamType
<1>00. <<>> \in Seq(CallIds) /\ <<>> \in Seq(Messages)
  BY EmptySeq
<1>1. CASE Prompt
  <2>1. prompts' \in Nat /\ messages' \in Seq(Messages)
    BY <1>0, <1>1, <1>00, MessageTypes, AppendType DEF Prompt
  <2>2. retries' \in 0..MaxRetries
    BY <1>0, <1>1 DEF Prompt
  <2> QED BY <2>1, <2>2, <1>0, <1>1, DropType DEF Prompt, TypeOK
<1>2. CASE Steer
  <2>1. prompts' \in Nat /\ messages' \in Seq(Messages)
    BY <1>0, <1>2, <1>00, MessageTypes, AppendType DEF Steer
  <2> QED BY <2>1, <1>0, <1>2, DropType DEF Steer, TypeOK
<1>3. CASE Load
  <2>1. prompts' \in Nat
    BY <1>0, <1>3 DEF Load
  <2>2. /\ User(prompts') \in Messages /\ Message("assistant", 0, <<>>) \in Messages
    BY <2>1, <1>00, MessageTypes
  <2>3. messages' \in Seq(Messages)
    BY <2>2, <1>3 DEF Load
  <2> QED BY <2>1, <2>3, <1>0, <1>3, DropType DEF Load, TypeOK
<1>4. CASE Cancel
  BY <1>0, <1>4, DropType DEF Cancel, TypeOK
<1>5. CASE Request
  BY <1>0, <1>5, AttachType DEF Request, TypeOK
<1>6. CASE RequestFails
  <2>1. retries' \in 0..MaxRetries
    BY <1>0, <1>6 DEF RequestFails
  <2> QED BY <2>1, <1>0, <1>6, DropType DEF RequestFails, TypeOK
<1>7. CASE ReceiveCall
  <2>1. Head(channel) \in Events /\ Tail(channel) \in Seq(Events)
    BY <1>7, HeadTailProperties DEF ReceiveCall, Received, TypeOK, StreamType
  <2>2. taken' \in Seq(CallIds)
    BY <2>1, <1>0, <1>7, AppendProperties DEF ReceiveCall, Events
  <2>3. StreamType'
    BY <2>1, <1>7 DEF ReceiveCall, TypeOK, StreamType, Last
  <2>4. ServerType' /\ CursorType'
    BY <1>7 DEF ReceiveCall, TypeOK, ServerType, CursorType, Last
  <2> QED BY <2>2, <2>3, <2>4, <1>0, <1>7 DEF ReceiveCall, TypeOK
<1>8. ASSUME NEW text \in BOOLEAN, Abort(text)
      PROVE  /\ messages' \in Seq(Messages)
             /\ taken' \in Seq(CallIds) /\ pc' \in PCs /\ retries' \in 0..MaxRetries
  <2>1. /\ Message("assistant", stream, taken) \in Messages
        /\ Message("results", stream, taken) \in Messages
        /\ Message("assistant", stream, <<>>) \in Messages
    BY <1>0, MessageTypes
  <2>2. Unrun \in Seq(Messages) /\ <<Message("assistant", stream, <<>>)>> \in Seq(Messages)
    BY <2>1 DEF Unrun
  <2>3. messages' \in Seq(Messages)
    BY <2>2, <1>0, <1>00, <1>8, ConcatProperties DEF Abort
  <2> QED BY <2>3, <1>0, <1>00, <1>8 DEF Abort
<1>9. CASE ReceiveError
  <2>1. CASE Abort(FALSE)
    BY <2>1, <1>0, <1>8, <1>9, DropType DEF ReceiveError, Abort, TypeOK
  <2>2. CASE /\ retries < MaxRetries /\ retries' = retries + 1
             /\ Drop /\ pc' = "request" /\ UNCHANGED <<messages, taken>>
    <3>1. retries' \in 0..MaxRetries
      BY <2>2, <1>0
    <3> QED BY <3>1, <2>2, <1>0, <1>9, DropType DEF ReceiveError, TypeOK
  <2> QED BY <2>1, <2>2, <1>9 DEF ReceiveError
<1>10. CASE ReceiveDone
  <2>1. messages' \in Seq(Messages)
    BY <1>0, <1>10, MessageTypes, AppendType DEF ReceiveDone
  <2>2. StreamType'
    <3>1. Tail(channel) \in Seq(Events)
      BY <1>10, HeadTailProperties DEF ReceiveDone, Received, TypeOK, StreamType
    <3>2. Last' = Last /\ Last \in Nat
      BY <1>10, Domains DEF ReceiveDone, Last
    <3>3. CASE channel' = Tail(channel) /\ UNCHANGED stream
      BY <3>1, <3>2, <3>3 DEF TypeOK, StreamType
    <3>4. CASE Drop
      BY <3>2, <3>4, EmptySeq DEF StreamType, Drop
    <3> QED BY <3>3, <3>4, <1>10 DEF ReceiveDone
  <2>3. ServerType' /\ CursorType'
    BY <1>10 DEF ReceiveDone, TypeOK, ServerType, CursorType, Last
  <2> QED BY <2>1, <2>2, <2>3, <1>0, <1>10 DEF ReceiveDone, TypeOK
<1>11. CASE StreamEnds
  <2>1. PICK text \in BOOLEAN : Abort(text)
    BY <1>11 DEF StreamEnds
  <2> QED BY <2>1, <1>0, <1>8, <1>11, DropType DEF StreamEnds, Abort, TypeOK
<1>12. CASE BatchEnds
  <2>1. messages' \in Seq(Messages)
    BY <1>0, <1>12, MessageTypes, AppendType DEF BatchEnds
  <2> QED BY <2>1, <1>0, <1>00, <1>12, DropType DEF BatchEnds, TypeOK
<1>13. CASE Summarize
  <2>0. Message("excerpt", 0, <<>>) \in Messages
    BY <1>00, MessageTypes
  <2>1. <<Message("excerpt", 0, <<>>)>> \in Seq(Messages)
    BY <2>0
  <2>2. ServerType' /\ CursorType' /\ StreamType'
    BY <2>1, <1>13, AttachType DEF Summarize, ResetSession
  <2> QED BY <2>2, <1>0, <1>13 DEF Summarize, TypeOK
<1>14. CASE SummaryDone
  <2>1. messages[Len(messages)] \in Messages
    BY <1>0, <1>14, LenProperties, ElementOfSeq DEF SummaryDone, InSummary
  <2>2. <<messages[Len(messages)]>> \in Seq(Messages) /\ <<Handoff(stream)>> \in Seq(Messages)
    BY <2>1, <1>0, <1>00, MessageTypes
  <2>3. PICK tail \in {<<>>, <<messages[Len(messages)]>>} :
               messages' = <<Handoff(stream)>> \o tail
    BY <1>14 DEF SummaryDone
  <2>4. tail \in Seq(Messages)
    BY <2>2, <1>00
  <2>5. messages' \in Seq(Messages)
    BY <2>2, <2>3, <2>4, ConcatProperties
  <2> QED BY <2>5, <1>0, <1>14, DropType DEF SummaryDone, TypeOK
<1>15. CASE SummaryFails
  BY <1>0, <1>15, DropType DEF SummaryFails, TypeOK
<1> QED
  BY <1>1, <1>2, <1>3, <1>4, <1>5, <1>6, <1>7, <1>9, <1>10, <1>11, <1>12, <1>13,
     <1>14, <1>15 DEF Engine

\* A reader's step to one of its states, and what it may do to the cursor.
LEMMA TurnedType ==
  ASSUME TypeOK, NEW r \in 1..Last, NEW state \in ReaderStates, Turned(r, state),
         UNCHANGED responses,
         \/ UNCHANGED cursor
         \/ cursor' = NoCursor
         \/ cursor' = [id |-> r, sent |-> Len(responses[r].asked)]
  PROVE  ServerType' /\ CursorType' /\ Last' = Last
<1>1. Last' = Last /\ Last \in Nat /\ DOMAIN readers = 1..Last
  BY Domains DEF Last
<1>2. readers' \in Seq(ReaderStates) /\ Len(readers') = Len(readers)
  BY <1>1, ExceptSeq DEF TypeOK, ServerType, Turned
<1>3. ServerType'
  BY <1>1, <1>2 DEF TypeOK, ServerType
<1>4. Len(responses[r].asked) \in Nat
  BY Domains, LenProperties
<1>5. CursorType'
  BY <1>1, <1>4 DEF TypeOK, CursorType, NoCursor
<1> QED BY <1>1, <1>3, <1>5

\* An event sent is an event of the channel.
LEMMA SentType ==
  ASSUME TypeOK, NEW event \in Events,
         channel' = Append(channel, event) \/ UNCHANGED channel
  PROVE  channel' \in Seq(Events)
BY AppendProperties DEF TypeOK, StreamType

\* The readers' actions keep the types.
LEMMA ReaderTypes ==
  ASSUME TypeOK, NEW r \in 1..Last, Reader(r)
  PROVE  TypeOK'
<1>0. Last \in Nat /\ readers[r] \in ReaderStates /\ r \in DOMAIN readers
  BY Domains
<1>1. ASSUME UNCHANGED EngineSide, channel' \in Seq(Events), Last' = Last,
             ServerType', CursorType'
      PROVE  TypeOK'
  BY <1>1 DEF EngineSide, TypeOK, ConversationType, StreamType, ControlType
<1>2. \A type \in {"malformed", "done", "error"} : Event(type) \in Events
  BY DEF Event, Events, CallIds
<1>3. CASE ReadCall(r)
  <2> DEFINE id == <<r, Len(responses[r].calls) + 1>>
  <2>1. responses[r].calls \in Seq(CallIds) /\ Len(responses[r].calls) \in Nat
    BY Domains, LenProperties
  <2>2. id \in CallIds
    BY <2>1, <1>0 DEF CallIds
  <2> HIDE DEF id
  <2>3. Append(responses[r].calls, id) \in Seq(CallIds)
    BY <2>1, <2>2, AppendProperties
  <2> DEFINE Resp == StoredResponses
  <2>4. responses \in Seq(Resp) /\ responses[r] \in Resp
    BY Domains DEF TypeOK, ServerType
  <2>5. [responses[r] EXCEPT !.calls = Append(responses[r].calls, id)] \in Resp
    BY <2>3, <2>4
  <2>6. responses' = [responses EXCEPT ![r] =
                        [responses[r] EXCEPT !.calls = Append(responses[r].calls, id)]]
    BY <1>3 DEF ReadCall, id
  <2>7. responses' \in Seq(Resp) /\ Last' = Last
    BY <2>4, <2>5, <2>6, ExceptSeq, Domains DEF Last
  <2>8. \A q \in 1..Last : responses'[q].asked = responses[q].asked
    BY <2>2, <1>3, ResponsesKept DEF ReadCall, id, Grows
  <2>9. PICK event \in Events : Send(r, event, "reading")
    <3>1. [type |-> "call", id |-> id] \in Events
      BY <2>2 DEF Events
    <3> QED BY <3>1, <1>2, <1>3 DEF ReadCall, id
  <2>10. channel' \in Seq(Events)
    BY <2>9, SentType DEF Send
  <2>11. ServerType'
    <3>1. readers' \in Seq(ReaderStates) /\ Len(readers') = Len(readers)
      <4>1. PICK state \in ReaderStates : readers' = [readers EXCEPT ![r] = state]
        BY <2>9 DEF Send, Stops, Turned, ReaderStates
      <4> QED BY <4>1, ExceptSeq, Domains DEF TypeOK, ServerType
    <3> QED BY <3>1, <2>7 DEF TypeOK, ServerType
  <2>12. CursorType'
    <3>1. CASE UNCHANGED cursor
      BY <3>1, <1>0, <2>7, <2>8 DEF TypeOK, CursorType
    <3>2. CASE cursor' = NoCursor
      BY <3>2, <1>0, <2>7 DEF CursorType, NoCursor
    <3> QED BY <3>1, <3>2, <2>9 DEF Send
  <2> QED BY <1>1, <1>3, <2>7, <2>10, <2>11, <2>12 DEF ReadCall
<1>4. CASE ReadCompleted(r)
  <2>1. CASE UNCHANGED responses /\ cursor' = [id |-> r, sent |-> Len(responses[r].asked)]
    <3>1. ServerType' /\ CursorType' /\ Last' = Last
      BY <1>4, <2>1, TurnedType DEF ReadCompleted, ReaderStates
    <3> QED BY <1>1, <1>4, <3>1 DEF ReadCompleted, TypeOK, StreamType
  <2>2. CASE /\ responses' = [responses EXCEPT ![r].named = @ /\ cursor = NoCursor]
             /\ UNCHANGED cursor
    <3>1. responses[r] \in StoredResponses /\ responses \in Seq(StoredResponses)
      BY Domains DEF TypeOK, ServerType
    <3>2. /\ responses' = [responses EXCEPT ![r] =
                [responses[r] EXCEPT !.named = responses[r].named /\ cursor = NoCursor]]
          /\ [responses[r] EXCEPT !.named = responses[r].named /\ cursor = NoCursor]
                \in StoredResponses
      BY <2>2, <3>1
    <3>3. responses' \in Seq(StoredResponses) /\ Last' = Last
      BY <3>1, <3>2, ExceptSeq, Domains DEF Last
    <3>4. readers' \in Seq(ReaderStates) /\ Len(readers') = Len(readers)
      BY <1>4, ExceptSeq, Domains DEF ReadCompleted, Turned, ReaderStates, TypeOK, ServerType
    <3>5. ServerType'
      BY <3>3, <3>4 DEF TypeOK, ServerType
    <3>6. \A q \in 1..Last : responses'[q].asked = responses[q].asked
      BY <2>2, ResponsesKept DEF Grows
    <3>7. CursorType'
      BY <1>0, <2>2, <3>3, <3>6 DEF TypeOK, CursorType
    <3> QED BY <1>1, <1>4, <3>3, <3>5, <3>7 DEF ReadCompleted, TypeOK, StreamType
  <2> QED BY <1>4, <2>1, <2>2 DEF ReadCompleted
<1>5. ASSUME NEW type \in {"done", "error"}, NEW state \in ReaderStates,
             Send(r, Event(type), state), UNCHANGED EngineSide, UNCHANGED responses
      PROVE  TypeOK'
  <2>1. channel' \in Seq(Events)
    BY <1>2, <1>5, SentType DEF Send
  <2>2. CASE r = stream
    BY <1>1, <1>5, <2>1, <2>2, TurnedType DEF Send
  <2>3. CASE r # stream
    BY <1>1, <1>5, <2>1, <2>3, TurnedType DEF Send, Stops, ReaderStates
  <2> QED BY <2>2, <2>3
<1>6. CASE SendDone(r)
  BY <1>5, <1>6 DEF SendDone, ReaderStates
<1>7. CASE ReadTerminalError(r)
  BY <1>5, <1>7 DEF ReadTerminalError, ReaderStates
<1>8. CASE ClearAfterError(r)
  <2>1. ServerType' /\ CursorType' /\ Last' = Last
    BY <1>8, TurnedType DEF ClearAfterError, Stops, ReaderStates
  <2> QED BY <1>1, <1>8, <2>1 DEF ClearAfterError, TypeOK, StreamType
<1>9. CASE ReaderCancelled(r)
  <2>1. ServerType' /\ CursorType' /\ Last' = Last
    BY <1>9, TurnedType DEF ReaderCancelled, Stops, ReaderStates
  <2> QED BY <1>1, <1>9, <2>1 DEF ReaderCancelled, TypeOK, StreamType
<1>10. CASE BodyEnds(r)
  <2>1. ServerType' /\ CursorType' /\ Last' = Last
    BY <1>10, TurnedType DEF BodyEnds, Stops, ReaderStates
  <2>2. channel' \in Seq(Events)
    BY <1>2, <1>10, SentType DEF BodyEnds
  <2> QED BY <1>1, <1>10, <2>1, <2>2 DEF BodyEnds
<1> QED
  BY <1>3, <1>4, <1>6, <1>7, <1>8, <1>9, <1>10 DEF Reader

-----------------------------------------------------------------------------
(* The cursor fits the conversation.                                       *)

\* A response still fits when messages are appended to the conversation,
\* results of its calls among them at most, and when it makes more calls.
LEMMA FitsKept ==
  ASSUME TypeOK, Grows, NEW r \in 1..Last, Fits(r),
         NEW s \in Seq(Messages), messages' = messages \o s,
         \A i \in 1..Len(s) : s[i].kind = "results" =>
           \A k \in DOMAIN s[i].calls : s[i].calls[k] \in Known(r)'
  PROVE  Fits(r)'
<1> DEFINE sent == Len(responses[r].asked)
<1>1. messages \in Seq(Messages) /\ Len(messages) \in Nat /\ Len(s) \in Nat /\ sent \in Nat
  BY Domains, LenProperties DEF TypeOK, ConversationType
<1>2. /\ Len(messages') = Len(messages) + Len(s)
      /\ \A i \in 1..Len(messages) : messages'[i] = messages[i]
      /\ \A i \in 1..Len(s) : messages'[Len(messages) + i] = s[i]
  BY <1>1, ConcatProperties
<1>3. sent <= Len(messages) /\ \A i \in 1..sent : responses[r].asked[i] = messages[i]
  BY DEF Fits
<1>4. /\ responses'[r].asked = responses[r].asked
      /\ sent <= Len(messages') /\ \A i \in 1..sent : responses[r].asked[i] = messages'[i]
  BY <1>1, <1>2, <1>3 DEF Grows
<1>5. ASSUME NEW i \in (sent + 1)..Len(messages'), messages'[i].kind = "results",
             NEW k \in DOMAIN messages'[i].calls
      PROVE  messages'[i].calls[k] \in Known(r)'
  <2>1. CASE i <= Len(messages)
    <3>1. i \in (sent + 1)..Len(messages) /\ messages'[i] = messages[i]
      BY <1>1, <1>2, <1>5, <2>1
    <3>2. messages[i].calls[k] \in Known(r)
      BY <3>1, <1>5 DEF Fits
    <3> QED BY <3>1, <3>2, KnownGrows
  <2>2. CASE i > Len(messages)
    <3>1. i - Len(messages) \in 1..Len(s) /\ messages'[i] = s[i - Len(messages)]
      BY <1>1, <1>2, <1>5, <2>2
    <3> QED BY <3>1, <1>5
  <2> QED BY <2>1, <2>2, <1>1, <1>2
<1> QED BY <1>4, <1>5 DEF Fits

\* In particular when nothing is appended.
LEMMA FitsUnchanged ==
  ASSUME TypeOK, Grows, NEW r \in 1..Last, Fits(r), UNCHANGED messages
  PROVE  Fits(r)'
<1>1. <<>> \in Seq(Messages) /\ Len(<<>>) = 0 /\ messages' = messages \o <<>>
  BY EmptySeq, ConcatEmptySeq DEF TypeOK, ConversationType
<1>2. \A i \in 1..Len(<<>>) : FALSE
  BY <1>1
<1> QED BY <1>1, <1>2, FitsKept

\* Between requests nothing is known of a stream.
LEMMA AtRest ==
  ASSUME pc' \in {"idle", "request"}, stream' = 0, channel' = <<>>, taken' = <<>>
  PROVE  (StreamHeld /\ StreamAsked /\ StreamCalls /\ StreamSettled)'
BY EmptySeq DEF StreamHeld, StreamAsked, StreamCalls, StreamSettled, InSummary

\* A stream that is dropped: were its reader to set the cursor yet, nothing
\* would be known; else the cursor is cleared or is its response, or that had
\* no id.
LEMMA DropSettles ==
  ASSUME TypeOK, StreamHeld, StreamSettled, stream # 0, Drop, UNCHANGED readers, Clean'
  PROVE  /\ Clean /\ readers[stream] \in {"drained", "gone"}
         /\ cursor.id \in {0, stream} \/ ~responses[stream].named
<1>1. DOMAIN readers = 1..Last /\ Last \in Nat /\ stream \in 1..Last
  BY Domains DEF StreamHeld
<1>2. \A r \in 1..Last : readers[r] \in {"drained", "gone"}
  BY <1>1 DEF Clean, Drop
<1> QED BY <1>1, <1>2 DEF Clean, StreamSettled

\* Whatever response the cursor then stands at, the calls received of the
\* stream's are among those it may be answered with.
LEMMA TakenKnown ==
  ASSUME CursorInv, pc \in {"stream", "batch"}, Drop, UNCHANGED <<responses, readers>>, Clean',
         NEW r \in 1..Last, r = cursor.id
  PROVE  Clean /\ ~InSummary /\ Fits(r) /\ \A k \in DOMAIN taken : taken[k] \in Known(r)'
<1>1. stream # 0 /\ stream \in 1..Last /\ r # 0 /\ DOMAIN responses = 1..Last
  BY Domains DEF CursorInv, StreamHeld
<1>2. Clean /\ ~InSummary /\ (r = stream \/ ~responses[stream].named)
  BY <1>1, DropSettles DEF CursorInv, InSummary
<1>3. Fits(r)
  BY <1>1, <1>2 DEF CursorInv, Reaches
<1>4. \A k \in DOMAIN taken : taken[k] \in Members(responses[stream].calls)
  BY DEF CursorInv, StreamCalls, CallsOf
<1>5. Members(responses[stream].calls) \subseteq Known(r)
  BY <1>1, <1>2 DEF Known, UnnamedCalls
<1>6. Known(r)' = Known(r)
  BY DEF Known, UnnamedCalls
<1> QED BY <1>2, <1>3, <1>4, <1>5, <1>6

\* The engine drops the stream it has read, and appends its answer.
LEMMA AnswerFits ==
  ASSUME CursorInv, pc = "stream", NEW s \in Seq(Messages),
         messages' = messages \o s, UNCHANGED <<cursor, responses, readers>>,
         \A i \in 1..Len(s) : s[i].kind = "results" => s[i].calls = taken,
         Drop
  PROVE  Reaches'
<1> SUFFICES ASSUME Clean', cursor.id # 0
             PROVE  Reaches'
  BY DEF Reaches
<1>1. Grows
  BY ResponsesKept DEF CursorInv
<1>2. PICK r \in 1..Last : r = cursor.id
  BY Domains DEF CursorInv, TypeOK, CursorType
<1>3. Fits(r)'
  BY <1>1, <1>2, TakenKnown, FitsKept DEF CursorInv
<1> QED BY <1>2, <1>3 DEF Reaches

\* What a reset leaves fits anything.
LEMMA ResetReaches ==
  ASSUME cursor' = NoCursor
  PROVE  Reaches'
BY DEF Reaches, NoCursor

\* Appending a message that answers no call keeps what is known.
LEMMA ConversationGrows ==
  ASSUME CursorInv, ~InSummary, UNCHANGED <<cursor, responses, readers, stream>>,
         \/ UNCHANGED messages
         \/ \E m \in Messages : m.kind # "results" /\ messages' = Append(messages, m)
  PROVE  Reaches'
<1> SUFFICES ASSUME Clean', cursor.id # 0
             PROVE  Reaches'
  BY DEF Reaches
<1>1. cursor.id \in 1..Last
  BY Domains DEF CursorInv, TypeOK, CursorType
<1>2. PICK r \in 1..Last : r = cursor.id
  BY <1>1
<1>3. Clean /\ Grows
  BY ResponsesKept DEF Clean, CursorInv
<1>4. Fits(r)
  BY <1>2, <1>3 DEF CursorInv, Reaches
<1>5. Fits(r)'
  <2>1. CASE UNCHANGED messages
    BY <1>3, <1>4, <2>1, FitsUnchanged DEF CursorInv
  <2>2. ASSUME NEW m \in Messages, m.kind # "results", messages' = Append(messages, m)
        PROVE  Fits(r)'
    <3>1. <<m>> \in Seq(Messages) /\ messages' = messages \o <<m>>
      BY <2>2, AppendIsConcat DEF CursorInv, TypeOK, ConversationType
    <3>2. \A i \in 1..Len(<<m>>) : <<m>>[i].kind # "results"
      BY <2>2
    <3> QED BY <1>3, <1>4, <3>1, <3>2, FitsKept DEF CursorInv
  <2> QED BY <2>1, <2>2
<1>6. cursor'.id = r
  BY <1>2
<1> QED BY <1>5, <1>6 DEF Reaches

\* A new stream: what was known between requests is still known.
LEMMA AttachKeeps ==
  ASSUME CursorInv, NEW asked \in Seq(Messages), Attach(asked), stream = 0, taken = <<>>,
         UNCHANGED <<messages, taken>>,
         \/ pc' = "stream" /\ asked = messages /\ UNCHANGED cursor
         \/ /\ pc' \in {"summaryIdle", "summaryTurn"}
            /\ cursor' = NoCursor /\ messages # <<>>
  PROVE  (StreamHeld /\ StreamAsked /\ StreamCalls /\ StreamSettled /\ Reaches)'
<1>1. /\ TypeOK /\ Last \in Nat /\ DOMAIN readers = 1..Last
      /\ responses \in Seq(StoredResponses)
      /\ readers \in Seq(ReaderStates) /\ Len(readers) = Last
  BY Domains DEF CursorInv, TypeOK, ServerType
<1>2. Response(asked) \in StoredResponses
  BY EmptySeq DEF Response
<1>3. /\ stream' = Last + 1 /\ Last' = Last + 1
      /\ responses'[Last + 1] = Response(asked)
  BY <1>1, <1>2, AppendProperties DEF Attach, Last
<1>4. /\ readers'[Last + 1] = "reading" /\ DOMAIN readers' = 1..(Last + 1)
      /\ \A r \in 1..Last : readers'[r] = readers[r]
  BY <1>1, AppendProperties, LenProperties DEF Attach, ReaderStates
<1>5. StreamHeld'
  BY <1>1, <1>3 DEF StreamHeld, InSummary
<1>6. StreamAsked'
  BY <1>3 DEF StreamAsked, Response
<1>7. StreamCalls'
  BY EmptySeq DEF StreamCalls, CallsOf, Attach
<1>8. StreamSettled'
  BY <1>3, <1>4 DEF StreamSettled
<1>9. Reaches'
  <2>1. CASE pc' = "stream" /\ UNCHANGED cursor
    <3> SUFFICES ASSUME Clean', cursor.id # 0
                 PROVE  Reaches'
      BY <2>1 DEF Reaches
    <3>1. Clean
      BY <1>1, <1>3, <1>4 DEF Clean
    <3>2. PICK r \in 1..Last : r = cursor.id
      BY <1>1 DEF TypeOK, CursorType
    <3>3. Fits(r)
      BY <3>1, <3>2 DEF CursorInv, Reaches, StreamHeld, InSummary
    <3>4. Fits(r)'
      BY <3>3, <1>1, <1>2, ResponsesKept, FitsUnchanged DEF Attach
    <3>5. cursor'.id = r
      BY <2>1, <3>2
    <3> QED BY <3>4, <3>5 DEF Reaches
  <2>2. CASE cursor' = NoCursor
    BY <2>2, ResetReaches
  <2> QED BY <2>1, <2>2
<1> QED BY <1>5, <1>6, <1>7, <1>8, <1>9

\* What a turn leaves of a stream it ends: its calls, or a text, or nothing.
LEMMA AbortKeeps ==
  ASSUME CursorInv, pc = "stream", NEW text \in BOOLEAN, Abort(text),
         UNCHANGED <<cursor, responses, readers>>
  PROVE  (StreamHeld /\ StreamAsked /\ StreamCalls /\ StreamSettled /\ Reaches)'
<1>1. stream \in Nat /\ taken \in Seq(CallIds)
  BY Domains DEF CursorInv, TypeOK, StreamType, ControlType
<1> DEFINE assistant == Message("assistant", stream, taken)
           results == Message("results", stream, taken)
           answer == Message("assistant", stream, <<>>)
<1>2. /\ assistant \in Messages /\ results \in Messages /\ answer \in Messages
      /\ assistant.kind # "results" /\ answer.kind # "results" /\ results.calls = taken
  BY <1>1, MessageTypes DEF Message
<1> HIDE DEF assistant, results, answer
<1>3. PICK s \in {<<>>, <<answer>>, <<assistant, results>>} : messages' = messages \o s
  BY DEF Abort, Unrun, assistant, results, answer
<1>4. s \in Seq(Messages)
  <2>1. <<>> \in Seq(Messages)
    BY EmptySeq
  <2>2. <<answer>> \in Seq(Messages) /\ <<assistant, results>> \in Seq(Messages)
    BY <1>2
  <2> QED BY <2>1, <2>2, <1>3
<1>5. \A i \in 1..Len(s) : s[i].kind = "results" => s[i].calls = taken
  <2>1. CASE s = <<>>
    BY <2>1
  <2>2. CASE s = <<answer>>
    BY <2>2, <1>2
  <2>3. CASE s = <<assistant, results>>
    BY <2>3, <1>2
  <2> QED BY <2>1, <2>2, <2>3, <1>3
<1>6. Drop /\ pc' = "idle" /\ taken' = <<>>
  BY DEF Abort
<1>7. Reaches'
  BY <1>3, <1>4, <1>5, <1>6, AnswerFits
<1> QED BY <1>6, <1>7, AtRest DEF Drop

-----------------------------------------------------------------------------
(* The steps.                                                              *)

Held == StreamHeld /\ StreamAsked /\ StreamCalls /\ StreamSettled /\ Reaches

\* The user's actions, and the engine's between requests.
LEMMA IdleSteps ==
  ASSUME CursorInv, TypeOK',
         Prompt \/ Steer \/ Load \/ Cancel \/ Request \/ RequestFails \/ Summarize
  PROVE  Held'
<1> USE DEF Held
<1>0. /\ messages \in Seq(Messages) /\ prompts' \in Nat
      /\ pc \in {"idle", "request"} => stream = 0 /\ channel = <<>> /\ taken = <<>> /\ ~InSummary
  BY DEF CursorInv, TypeOK, ConversationType, StreamHeld, InSummary
<1>1. CASE Prompt \/ Steer
  <2>1. pc \in {"idle", "request"} /\ pc' = "request"
    BY <1>1 DEF Prompt, Steer
  <2>2. User(prompts') \in Messages /\ User(prompts').kind # "results"
    BY <1>0, EmptySeq, MessageTypes DEF User, Message
  <2>3. Reaches'
    BY <1>0, <1>1, <2>1, <2>2, ConversationGrows DEF Prompt, Steer
  <2> QED BY <1>0, <1>1, <2>1, <2>3, AtRest DEF Prompt, Steer
<1>2. CASE Load
  BY <1>0, <1>2, AtRest, ResetReaches DEF Load, ResetSession
<1>3. CASE Cancel
  <2>1. Clean' = Clean /\ InSummary' = InSummary
    BY <1>3 DEF Cancel, Clean, InSummary
  <2>2. StreamHeld' /\ StreamAsked' /\ StreamCalls' /\ StreamSettled'
    BY <1>3, <2>1
    DEF Cancel, CursorInv, StreamHeld, StreamAsked, StreamCalls, StreamSettled, Last, CallsOf
  <2>3. Reaches'
    BY <1>3, <2>1 DEF Cancel, CursorInv, Reaches, Fits, Known, UnnamedCalls
  <2> QED BY <2>2, <2>3
<1>4. CASE Request
  BY <1>0, <1>4, AttachKeeps DEF Request
<1>5. CASE RequestFails
  <2>1. Reaches'
    BY <1>0, <1>5, ConversationGrows DEF RequestFails
  <2> QED BY <1>0, <1>5, <2>1, AtRest DEF RequestFails
<1>6. CASE Summarize
  <2>1. Message("excerpt", 0, <<>>) \in Messages
    BY EmptySeq, MessageTypes
  <2>2. <<Message("excerpt", 0, <<>>)>> \in Seq(Messages)
    BY <2>1
  <2> QED BY <1>0, <1>6, <2>2, AttachKeeps DEF Summarize, ResetSession
<1> QED BY <1>1, <1>2, <1>3, <1>4, <1>5, <1>6

\* The engine's actions on a stream.
LEMMA StreamSteps ==
  ASSUME CursorInv, TypeOK',
         \/ ReceiveCall \/ ReceiveError \/ ReceiveDone \/ StreamEnds \/ BatchEnds
         \/ SummaryDone \/ SummaryFails
  PROVE  Held'
<1> USE DEF Held
<1>0. /\ messages \in Seq(Messages) /\ channel \in Seq(Events)
      /\ stream \in Nat /\ taken \in Seq(CallIds)
      /\ DOMAIN readers = 1..Last /\ Last \in Nat
  BY Domains DEF CursorInv, TypeOK, ConversationType, StreamType, ControlType
<1>1. ASSUME Tail(channel) = channel', channel # <<>>
      PROVE  /\ Head(channel) = channel[1] /\ 1 \in DOMAIN channel
             /\ \A i \in DOMAIN channel' : i + 1 \in DOMAIN channel /\ channel'[i] = channel[i + 1]
  BY <1>0, <1>1, HeadTailProperties, LenProperties
<1>2. CASE ReceiveCall
  <2>1. pc = "stream" /\ stream # 0 /\ ~InSummary
    BY <1>2 DEF ReceiveCall, Received, CursorInv, StreamHeld, InSummary
  <2>2. /\ Head(channel) = channel[1] /\ 1 \in DOMAIN channel
        /\ channel[1].type = "call" /\ channel[1].id \in CallIds
    <3>1. channel # <<>> /\ channel' = Tail(channel) /\ Head(channel).type = "call"
      BY <1>2 DEF ReceiveCall, Received
    <3>2. Head(channel) = channel[1] /\ 1 \in DOMAIN channel
      BY <1>1, <3>1
    <3>3. channel[1] \in Events
      BY <1>0, <3>2
    <3> QED BY <3>1, <3>2, <3>3 DEF Events
  <2>3. channel[1].id \in Members(responses[stream].calls)
    BY <2>2 DEF CursorInv, StreamCalls
  <2>4. CallsOf(stream, taken)'
    <3>1. \A i \in DOMAIN taken : taken[i] \in Members(responses[stream].calls)
      BY <2>1 DEF CursorInv, StreamCalls, CallsOf
    <3>2. taken' = Append(taken, channel[1].id)
      BY <1>2, <2>2 DEF ReceiveCall
    <3>3. \A i \in DOMAIN taken' : taken'[i] \in Members(responses[stream].calls)
      BY <1>0, <2>2, <2>3, <3>1, <3>2, AppendProperties, LenProperties
    <3> QED BY <1>2, <3>3 DEF CallsOf, ReceiveCall
  <2>5. \A i \in DOMAIN channel' :
          /\ channel'[i].type = "call" => channel'[i].id \in Members(responses[stream].calls)
          /\ channel'[i].type = "done" => readers[stream] \in {"drained", "gone"}
    BY <1>1, <1>2 DEF ReceiveCall, Received, CursorInv, StreamCalls
  <2>6. StreamCalls'
    BY <1>2, <2>1, <2>4, <2>5 DEF ReceiveCall, StreamCalls
  <2>7. StreamHeld' /\ StreamAsked' /\ StreamSettled'
    BY <1>2, <2>1
    DEF ReceiveCall, CursorInv, StreamHeld, StreamAsked, StreamSettled, Last, InSummary, Clean
  <2>8. Reaches'
    BY <1>2, <2>1, ConversationGrows DEF ReceiveCall
  <2> QED BY <2>6, <2>7, <2>8
<1>3. CASE ReceiveError
  <2>1. pc = "stream"
    BY <1>3 DEF ReceiveError, Received
  <2>2. CASE Abort(FALSE)
    BY <1>3, <2>1, <2>2, AbortKeeps DEF ReceiveError
  <2>3. CASE Drop /\ pc' = "request" /\ taken = <<>> /\ UNCHANGED <<messages, taken>>
    <3>1. <<>> \in Seq(Messages) /\ messages' = messages \o <<>>
      BY <1>0, <2>3, EmptySeq, ConcatEmptySeq
    <3>2. \A i \in 1..Len(<<>>) : FALSE
      OBVIOUS
    <3>3. Reaches'
      BY <1>3, <2>1, <2>3, <3>1, <3>2, AnswerFits DEF ReceiveError
    <3> QED BY <2>3, <3>3, AtRest DEF Drop
  <2> QED BY <1>3, <2>2, <2>3 DEF ReceiveError
<1>4. CASE StreamEnds
  <2>1. PICK text \in BOOLEAN : Abort(text)
    BY <1>4 DEF StreamEnds
  <2> QED BY <1>4, <2>1, AbortKeeps DEF StreamEnds
<1>5. CASE ReceiveDone
  <2>1. /\ pc = "stream" /\ stream # 0 /\ ~InSummary
        /\ Message("assistant", stream, taken) \in Messages
        /\ Message("assistant", stream, taken).kind # "results"
    BY <1>0, <1>5, MessageTypes
    DEF ReceiveDone, Received, CursorInv, StreamHeld, InSummary, Message
  <2>2. CASE /\ messages' = Append(messages, Message("assistant", stream, taken))
             /\ channel' = Tail(channel) /\ pc' = "batch" /\ UNCHANGED stream
    <3>1. /\ \A i \in DOMAIN channel' :
               /\ channel'[i].type = "call" => channel'[i].id \in Members(responses[stream].calls)
               /\ channel'[i].type = "done" => readers[stream] \in {"drained", "gone"}
          /\ readers[stream] \in {"drained", "gone"}
      BY <1>1, <1>5, <2>2 DEF ReceiveDone, Received, CursorInv, StreamCalls
    <3>2. CallsOf(stream, taken)'
      BY <1>5, <2>1, <2>2 DEF ReceiveDone, CursorInv, StreamCalls, CallsOf
    <3>3. StreamCalls'
      BY <1>5, <2>2, <3>1, <3>2 DEF ReceiveDone, StreamCalls
    <3>4. StreamHeld' /\ StreamAsked' /\ StreamSettled'
      BY <1>5, <2>1, <2>2
      DEF ReceiveDone, CursorInv, StreamHeld, StreamAsked, StreamSettled, Last, InSummary, Clean
    <3>5. Reaches'
      BY <1>5, <2>1, <2>2, ConversationGrows DEF ReceiveDone
    <3> QED BY <3>3, <3>4, <3>5
  <2>3. CASE /\ messages' \in {messages, Append(messages, Message("assistant", stream, <<>>))}
             /\ Drop /\ pc' = "idle" /\ taken = <<>>
    <3> DEFINE answer == Message("assistant", stream, <<>>)
    <3>1. answer \in Messages /\ answer.kind # "results"
      BY <1>0, EmptySeq, MessageTypes DEF Message
    <3> HIDE DEF answer
    <3>2. /\ <<>> \in Seq(Messages) /\ messages = messages \o <<>>
          /\ <<answer>> \in Seq(Messages)
          /\ Append(messages, answer) = messages \o <<answer>>
      BY <1>0, <3>1, EmptySeq, ConcatEmptySeq, AppendIsConcat
    <3>3. PICK s \in {<<>>, <<answer>>} : messages' = messages \o s
      BY <2>3, <3>2 DEF answer
    <3>4. s \in Seq(Messages) /\ \A i \in 1..Len(s) : s[i].kind # "results"
      <4>1. CASE s = <<>>
        BY <4>1, <3>2
      <4>2. CASE s = <<answer>>
        BY <4>2, <3>1, <3>2
      <4> QED BY <4>1, <4>2, <3>3
    <3>5. Reaches'
      BY <1>5, <2>1, <2>3, <3>3, <3>4, AnswerFits DEF ReceiveDone
    <3> QED BY <1>5, <2>3, <3>5, AtRest DEF Drop, ReceiveDone
  <2> QED BY <1>5, <2>2, <2>3 DEF ReceiveDone
<1>6. CASE BatchEnds
  <2>1. /\ pc = "batch" /\ stream # 0 /\ ~InSummary
        /\ Message("results", stream, taken) \in Messages
        /\ Message("results", stream, taken).calls = taken
    BY <1>0, <1>6, MessageTypes DEF BatchEnds, CursorInv, StreamHeld, InSummary, Message
  <2>2. Reaches'
    <3> SUFFICES ASSUME Clean', cursor.id # 0
                 PROVE  Reaches'
      BY <1>6 DEF Reaches, BatchEnds
    <3>1. PICK r \in 1..Last : r = cursor.id
      BY <1>0 DEF CursorInv, TypeOK, CursorType
    <3>2. Fits(r) /\ \A k \in DOMAIN taken : taken[k] \in Known(r)'
      BY <1>6, <2>1, <3>1, TakenKnown DEF BatchEnds
    <3>3. Grows
      BY <1>6, ResponsesKept DEF CursorInv, BatchEnds
    <3> DEFINE m == Message("results", stream, taken)
    <3> HIDE DEF m
    <3>4. /\ <<m>> \in Seq(Messages) /\ messages' = messages \o <<m>>
          /\ \A i \in 1..Len(<<m>>) : <<m>>[i].calls = taken
      BY <1>0, <1>6, <2>1, AppendIsConcat DEF BatchEnds, m
    <3>5. Fits(r)'
      BY <1>6, <3>2, <3>3, <3>4, FitsKept DEF CursorInv, BatchEnds
    <3>6. cursor'.id = r
      BY <1>6, <3>1 DEF BatchEnds
    <3> QED BY <3>5, <3>6 DEF Reaches
  <2> QED BY <1>6, <2>2, AtRest DEF BatchEnds, Drop
<1>7. CASE SummaryDone \/ SummaryFails
  <2>1. taken = <<>>
    BY <1>7 DEF SummaryDone, SummaryFails, CursorInv, StreamHeld
  <2> QED BY <1>7, <2>1, AtRest, ResetReaches DEF SummaryDone, SummaryFails, Drop, ResetSession
<1> QED BY <1>2, <1>3, <1>4, <1>5, <1>6, <1>7

\* A reader that is not attached ends, and clears the cursor as it does, or is
\* past the end of its response and changes nothing.
LEMMA LooseReader ==
  ASSUME CursorInv, TypeOK', NEW r \in 1..Last, r # stream, Reader(r)
  PROVE  Held'
<1>0. /\ DOMAIN readers = 1..Last /\ Last \in Nat /\ DOMAIN responses = 1..Last
      /\ \A q \in 1..Last : responses[q].calls \in Seq(CallIds)
  BY Domains DEF CursorInv
<1>1. /\ UNCHANGED <<messages, prompts, stream, cancelled, pc, taken, retries, channel>>
      /\ readers' = [readers EXCEPT ![r] = readers'[r]]
  BY <1>0
  DEF Reader, ReadCall, ReadCompleted, SendDone, ReadTerminalError, ClearAfterError,
      ReaderCancelled, BodyEnds, EngineSide, Send, Stops, Turned
<1>2. \A q \in 1..Last : q # r => readers'[q] = readers[q]
  BY <1>0, <1>1
<1>3. \/ cursor' = NoCursor
      \/ readers'[r] = "completed"
      \/ UNCHANGED cursor /\ readers[r] = "drained"
  BY <1>0
  DEF Reader, ReadCall, ReadCompleted, SendDone, ReadTerminalError, ClearAfterError,
      ReaderCancelled, BodyEnds, Send, Stops, Turned
<1>4. \/ UNCHANGED responses
      \/ \E q \in 1..Last, id \in CallIds :
           responses' = [responses EXCEPT ![q].calls = Append(@, id)]
      \/ \E q \in 1..Last, b \in BOOLEAN :
           responses' = [responses EXCEPT ![q].named = @ /\ b]
  <2>1. CASE ReadCall(r)
    <3>1. <<r, Len(responses[r].calls) + 1>> \in CallIds
      BY <1>0, LenProperties DEF CallIds
    <3> QED BY <2>1, <3>1 DEF ReadCall
  <2>2. CASE ReadCompleted(r)
    BY <2>2 DEF ReadCompleted
  <2>3. CASE ~ReadCall(r) /\ ~ReadCompleted(r)
    BY <2>3
    DEF Reader, SendDone, ReadTerminalError, ClearAfterError,
        ReaderCancelled, BodyEnds
  <2> QED BY <2>1, <2>2, <2>3
<1>5. Last' = Last
  BY <1>0, <1>4 DEF Last
<1>6. Grows
  BY <1>4, ResponsesKept DEF CursorInv
<1>7. stream # 0 => stream \in 1..Last /\ readers'[stream] = readers[stream]
  BY <1>0, <1>2 DEF CursorInv, TypeOK, StreamType
<1>8. StreamHeld' /\ StreamAsked'
  BY <1>1, <1>5, <1>6, <1>7 DEF Grows, CursorInv, StreamHeld, StreamAsked, InSummary
<1>9. StreamCalls'
  <2>1. CASE stream = 0
    BY <1>1, <2>1, EmptySeq DEF CursorInv, StreamHeld, StreamCalls
  <2>2. CASE stream # 0
    BY <1>1, <1>6, <1>7, <2>2 DEF Grows, CursorInv, StreamCalls, CallsOf
  <2> QED BY <2>1, <2>2
<1>10. ASSUME Clean', cursor'.id # 0
       PROVE  UNCHANGED cursor /\ Clean
  <2>1. DOMAIN readers' = 1..Last
    BY <1>0, <1>1
  <2>2. readers'[r] \in {"drained", "gone"}
    BY <1>1, <1>10, <2>1 DEF Clean
  <2>3. UNCHANGED cursor /\ readers[r] = "drained"
    BY <1>3, <1>10, <2>2 DEF NoCursor
  <2>4. Clean
    BY <1>0, <1>1, <1>2, <1>10, <2>1, <2>3 DEF Clean
  <2> QED BY <2>3, <2>4
<1>11. StreamSettled'
  BY <1>1, <1>6, <1>7, <1>10 DEF Grows, CursorInv, StreamSettled, NoCursor
<1>12. Reaches'
  <2> SUFFICES ASSUME Clean', cursor'.id # 0, ~InSummary'
               PROVE  Reaches'
    BY DEF Reaches
  <2>1. UNCHANGED cursor /\ Clean /\ ~InSummary
    BY <1>1, <1>10 DEF InSummary
  <2>2. PICK q \in 1..Last : q = cursor.id
    BY <2>1 DEF CursorInv, TypeOK, CursorType
  <2>3. Fits(q)
    BY <2>1, <2>2 DEF CursorInv, Reaches
  <2>4. Fits(q)'
    BY <1>1, <1>6, <2>3, FitsUnchanged DEF CursorInv
  <2> QED BY <2>1, <2>2, <2>4 DEF Reaches
<1> QED BY <1>8, <1>9, <1>11, <1>12 DEF Held

\* The reader of the engine's stream.
LEMMA AttachedReader ==
  ASSUME CursorInv, TypeOK', NEW r \in 1..Last, r = stream, Reader(r)
  PROVE  Held'
<1>0. /\ DOMAIN readers = 1..Last /\ Last \in Nat /\ DOMAIN responses = 1..Last
      /\ responses[r].calls \in Seq(CallIds) /\ channel \in Seq(Events)
      /\ responses[r] \in StoredResponses
      /\ r # 0 /\ r \in Nat
  BY Domains DEF CursorInv, TypeOK, StreamType
<1> DEFINE id == <<r, Len(responses[r].calls) + 1>>
<1>1. id \in CallIds
  BY <1>0, LenProperties DEF CallIds
<1> HIDE DEF id
<1>2. /\ UNCHANGED <<messages, prompts, stream, cancelled, pc, taken, retries>>
      /\ readers' = [readers EXCEPT ![r] = readers'[r]]
  BY <1>0
  DEF Reader, ReadCall, ReadCompleted, SendDone, ReadTerminalError, ClearAfterError,
      ReaderCancelled, BodyEnds, EngineSide, Send, Stops, Turned
<1>3. \/ UNCHANGED responses
      \/ /\ ReadCall(r)
         /\ responses' = [responses EXCEPT ![r].calls = Append(@, id)]
      \/ responses' = [responses EXCEPT ![r].named = @ /\ cursor = NoCursor]
  BY DEF Reader, ReadCall, ReadCompleted, SendDone, ReadTerminalError, ClearAfterError,
         ReaderCancelled, BodyEnds, id
<1>4. Grows
  <2>1. CASE UNCHANGED responses
    BY <2>1, ResponsesKept DEF CursorInv
  <2>2. CASE responses' = [responses EXCEPT ![r].calls = Append(@, id)]
    BY <1>1, <2>2, ResponsesKept DEF CursorInv
  <2>3. CASE responses' = [responses EXCEPT ![r].named = @ /\ cursor = NoCursor]
    BY <2>3, ResponsesKept DEF CursorInv
  <2> QED BY <1>3, <2>1, <2>2, <2>3
<1>5. ReadCall(r) => id \in Members(responses'[r].calls)
  <2>1. SUFFICES ASSUME ReadCall(r)
                 PROVE  id \in Members(responses'[r].calls)
    OBVIOUS
  <2>2. responses'[r] = [responses[r] EXCEPT !.calls = Append(responses[r].calls, id)]
    BY <1>0, <2>1 DEF ReadCall, id
  <2>3. responses'[r].calls = Append(responses[r].calls, id)
    BY <1>0, <2>2
  <2> QED BY <1>0, <1>1, <2>3, MembersGrow
<1>6. Last' = Last /\ Clean' = Clean /\ InSummary' = InSummary
  <2>1. Last' = Last
    BY <1>0, <1>3 DEF Last
  <2>2. DOMAIN readers' = DOMAIN readers
    BY <1>2
  <2>3. \A q \in DOMAIN readers : q # stream => readers'[q] = readers[q]
    BY <1>2
  <2>4. Clean' = Clean
    BY <1>2, <2>2, <2>3 DEF Clean
  <2> QED BY <1>2, <2>1, <2>4 DEF InSummary
<1>7. StreamHeld' /\ StreamAsked'
  BY <1>0, <1>2, <1>4, <1>6 DEF Grows, CursorInv, StreamHeld, StreamAsked, InSummary
\* The state the reader is in, the one it goes to, and what it sends.
<1>8. /\ readers[r] = "gone" => FALSE
      /\ readers[r] = "drained" => readers'[r] = "gone"
      /\ \/ UNCHANGED channel
         \/ /\ ReadCall(r)
            /\ \/ channel' = Append(channel, [type |-> "call", id |-> id])
               \/ channel' = Append(channel, Event("malformed"))
         \/ readers'[r] = "drained" /\ channel' = Append(channel, Event("done"))
         \/ channel' = Append(channel, Event("error"))
  BY <1>0
  DEF Reader, ReadCall, ReadCompleted, SendDone, ReadTerminalError, ClearAfterError,
      ReaderCancelled, BodyEnds, Send, Stops, Turned, id
<1>9. \/ cursor' = NoCursor
      \/ UNCHANGED cursor /\ readers'[r] \in {"reading", "failing"}
      \/ UNCHANGED cursor /\ readers[r] \in {"completed", "drained"}
      \/ /\ cursor' = [id |-> r, sent |-> Len(responses[r].asked)]
         /\ readers[r] = "reading" /\ UNCHANGED responses
      \/ UNCHANGED cursor /\ (cursor.id = 0 \/ ~responses'[r].named)
  <2>1. CASE ReadCompleted(r)
    <3>1. CASE cursor' = [id |-> r, sent |-> Len(responses[r].asked)] /\ UNCHANGED responses
      BY <2>1, <3>1 DEF ReadCompleted
    <3>2. CASE /\ responses' = [responses EXCEPT ![r].named = @ /\ cursor = NoCursor]
               /\ UNCHANGED cursor
      <4>1. responses'[r] = [responses[r] EXCEPT !.named = @ /\ cursor = NoCursor]
        BY <1>0, <3>2
      <4>2. responses'[r].named = (responses[r].named /\ cursor = NoCursor)
        BY <1>0, <4>1
      <4> QED BY <3>2, <4>2 DEF NoCursor
    <3> QED BY <2>1, <3>1, <3>2 DEF ReadCompleted
  <2>2. CASE ~ReadCompleted(r)
    BY <1>0, <2>2
    DEF Reader, ReadCall, SendDone, ReadTerminalError, ClearAfterError,
        ReaderCancelled, BodyEnds, Send, Stops, Turned
  <2> QED BY <2>1, <2>2
<1>10. StreamCalls'
  <2> DEFINE Right(e) == /\ e.type = "call" => e.id \in Members(responses'[r].calls)
                         /\ e.type = "done" => readers'[r] \in {"drained", "gone"}
  <2>1. \A i \in DOMAIN channel : Right(channel[i])
    BY <1>0, <1>4, <1>8 DEF Grows, CursorInv, StreamCalls
  <2>2. \/ UNCHANGED channel
        \/ \E e \in Events : Right(e) /\ channel' = Append(channel, e)
    <3>1. /\ [type |-> "call", id |-> id] \in Events
          /\ \A type \in {"malformed", "done", "error"} : Event(type) \in Events
      BY <1>1 DEF Event, Events, CallIds
    <3> QED BY <1>5, <1>8, <3>1 DEF Event
  <2> HIDE DEF Right
  <2>3. \A i \in DOMAIN channel' : Right(channel'[i])
    <3>1. CASE UNCHANGED channel
      BY <2>1, <3>1
    <3>2. ASSUME NEW e \in Events, Right(e), channel' = Append(channel, e)
          PROVE  \A i \in DOMAIN channel' : Right(channel'[i])
      BY <1>0, <2>1, <3>2, AppendProperties, LenProperties
    <3> QED BY <2>2, <3>1, <3>2
  <2>4. pc \in {"stream", "batch"} =>
          \A i \in DOMAIN taken : taken[i] \in Members(responses'[r].calls)
    BY <1>0, <1>4 DEF Grows, CursorInv, StreamCalls, CallsOf
  <2>5. pc = "batch" => readers'[r] \in {"drained", "gone"}
    BY <1>8 DEF CursorInv, StreamCalls
  <2> QED BY <1>2, <2>3, <2>4, <2>5 DEF StreamCalls, CallsOf, Right
<1>11. StreamSettled'
  BY <1>0, <1>2, <1>4, <1>6, <1>9 DEF Grows, CursorInv, StreamSettled, NoCursor
<1>12. Reaches'
  <2> SUFFICES ASSUME Clean', cursor'.id # 0, ~InSummary'
               PROVE  Reaches'
    BY DEF Reaches
  <2>1. CASE UNCHANGED cursor
    <3>1. PICK q \in 1..Last : q = cursor.id
      BY <2>1 DEF CursorInv, TypeOK, CursorType
    <3>2. Fits(q)
      BY <1>6, <2>1, <3>1 DEF CursorInv, Reaches
    <3>3. Fits(q)'
      BY <1>2, <1>4, <3>2, FitsUnchanged DEF CursorInv
    <3> QED BY <2>1, <3>1, <3>3 DEF Reaches
  <2>2. CASE cursor'.id = r /\ readers[r] = "reading" /\ UNCHANGED responses
    <3>1. pc = "stream"
      BY <1>0, <1>6, <2>2
      DEF CursorInv, StreamHeld, StreamCalls, InSummary, TypeOK, ControlType, PCs
    <3>2. messages = responses[r].asked /\ Len(messages) \in Nat
      BY <1>0, <3>1, LenProperties DEF CursorInv, StreamAsked
    <3>3. Fits(r)'
      BY <1>2, <2>2, <3>2 DEF Fits
    <3> QED BY <2>2, <3>3 DEF Reaches
  <2> QED BY <1>9, <2>1, <2>2 DEF NoCursor
<1> QED BY <1>7, <1>10, <1>11, <1>12 DEF Held

-----------------------------------------------------------------------------
(* The theorems.                                                           *)

\* The strengthened invariant holds at the start,
LEMMA InitInv ==
  Init => CursorInv
<1> SUFFICES ASSUME Init
             PROVE  CursorInv
  OBVIOUS
<1>1. Last = 0 /\ DOMAIN readers = {}
  BY EmptySeq DEF Init, Last
<1>2. TypeOK
  <2>1. ConversationType /\ ServerType
    BY <1>1, EmptySeq DEF Init, ConversationType, ServerType
  <2>2. CursorType /\ StreamType
    BY <1>1, EmptySeq DEF Init, CursorType, StreamType, NoCursor
  <2>3. ControlType
    <3>1. MaxRetries \in Nat
      BY CursorAssumption
    <3>2. retries \in 0..MaxRetries
      BY <3>1 DEF Init
    <3>3. taken \in Seq(CallIds)
      BY EmptySeq DEF Init
    <3> QED BY <3>2, <3>3 DEF Init, ControlType, PCs
  <2> QED BY <2>1, <2>2, <2>3 DEF TypeOK
<1>3. StreamHeld /\ StreamAsked /\ StreamCalls /\ StreamSettled /\ Reaches
  BY <1>1, EmptySeq
  DEF Init, StreamHeld, StreamAsked, StreamCalls, StreamSettled, Reaches, InSummary, NoCursor
<1> QED BY <1>2, <1>3 DEF CursorInv

\* and every step keeps it.
LEMMA NextInv ==
  CursorInv /\ [Next]_vars => CursorInv'
<1> SUFFICES ASSUME CursorInv, [Next]_vars
             PROVE  CursorInv'
  OBVIOUS
<1>1. ASSUME TypeOK', Held'
      PROVE  CursorInv'
  BY <1>1 DEF CursorInv, Held
<1>2. CASE Prompt \/ Steer \/ Load \/ Cancel \/ Engine
  <2>1. TypeOK'
    BY <1>2, EngineTypes DEF CursorInv, StreamHeld
  <2>2. Held'
    BY <1>2, <2>1, IdleSteps, StreamSteps DEF Engine
  <2> QED BY <1>1, <2>1, <2>2
<1>3. ASSUME NEW r \in DOMAIN readers, Reader(r)
      PROVE  CursorInv'
  <2>1. r \in 1..Last
    BY Domains DEF CursorInv
  <2>2. TypeOK'
    BY <1>3, <2>1, ReaderTypes DEF CursorInv
  <2>3. Held'
    BY <1>3, <2>1, <2>2, LooseReader, AttachedReader
  <2> QED BY <1>1, <2>2, <2>3
<1>4. CASE UNCHANGED vars
  <2>1. TypeOK' /\ StreamHeld' /\ StreamAsked'
    BY <1>4
    DEF vars, CursorInv, TypeOK, ConversationType, ServerType, CursorType, StreamType,
        ControlType, Last, StreamHeld, StreamAsked, InSummary
  <2>2. StreamCalls' /\ StreamSettled' /\ Reaches'
    BY <1>4
    DEF vars, CursorInv, StreamCalls, StreamSettled, Reaches, InSummary, Clean, Fits, CallsOf,
        Known, UnnamedCalls
  <2> QED BY <1>1, <2>1, <2>2 DEF Held
<1> QED BY <1>2, <1>3, <1>4 DEF Next

\* CursorInv is invariant.
LEMMA Invariance ==
  Spec => []CursorInv
<1> QED BY InitInv, NextInv, PTL DEF Spec

\* When the engine builds a request and every reader it gave up is gone, a
\* cursor there is fits the conversation.
LEMMA SettledFits ==
  ASSUME CursorInv, Settled, Continues
  PROVE  cursor.id \in 1..Last /\ Fits(cursor.id)
<1>1. Clean /\ ~InSummary
  BY DEF Settled, Clean, Abandoned, Alive, InSummary
<1>2. cursor.id \in 1..Last
  BY Domains DEF CursorInv, TypeOK, CursorType, Continues
<1> QED BY <1>1, <1>2 DEF CursorInv, Reaches, Continues

\* Every variable keeps its type, and the cursor counts what was sent.
THEOREM TypeCorrect == Spec => []TypeOK
<1>1. CursorInv => TypeOK
  BY DEF CursorInv
<1> QED BY <1>1, Invariance, PTL

\* A continued request leaves out exactly the messages the response it
\* continues was asked with, whatever was compacted, loaded or given up.
THEOREM ContinuedFromAPrefix == Spec => []CursorCoversPrefix
<1>1. CursorInv => CursorCoversPrefix
  <2> SUFFICES ASSUME CursorInv, Settled, Continues
               PROVE  responses[cursor.id].asked = SubSeq(messages, 1, cursor.sent)
    BY DEF CursorCoversPrefix
  <2> DEFINE asked == responses[cursor.id].asked
  <2>1. /\ asked \in Seq(Messages) /\ messages \in Seq(Messages)
        /\ cursor.sent = Len(asked) /\ Len(asked) \in Nat /\ Len(messages) \in Nat
    BY SettledFits, Domains, LenProperties
    DEF CursorInv, TypeOK, ConversationType, CursorType, Continues
  <2>2. /\ Len(asked) <= Len(messages)
        /\ \A i \in 1..Len(asked) : asked[i] = messages[i]
    BY SettledFits DEF Fits
  <2> HIDE DEF asked
  <2>3. /\ SubSeq(messages, 1, Len(asked)) \in Seq(Messages)
        /\ Len(SubSeq(messages, 1, Len(asked))) = Len(asked)
        /\ \A i \in 1..Len(asked) : SubSeq(messages, 1, Len(asked))[i] = messages[i]
    BY <2>1, <2>2
  <2>4. asked = SubSeq(messages, 1, Len(asked))
    BY <2>1, <2>2, <2>3, SeqEqual
  <2> QED BY <2>1, <2>4 DEF asked
<1> QED BY <1>1, Invariance, PTL

\* A continued request answers no call the server would not know, but for the
\* calls of a response that completed without an id behind an older one.
THEOREM OutputsAreKnown == Spec => []NoOrphanOutputs
<1>1. CursorInv => NoOrphanOutputs
  <2> SUFFICES ASSUME CursorInv, Settled, Continues
               PROVE  Outputs(Delta) \subseteq Known(cursor.id)
    BY DEF NoOrphanOutputs, Known
  <2> DEFINE sent == cursor.sent
  <2>1. /\ messages \in Seq(Messages) /\ Len(messages) \in Nat
        /\ sent = Len(responses[cursor.id].asked) /\ sent \in Nat /\ sent < Len(messages)
    BY SettledFits, Domains, LenProperties
    DEF CursorInv, TypeOK, ConversationType, CursorType, Continues
  <2>2. /\ DOMAIN Delta = 1..(Len(messages) - sent)
        /\ \A i \in 1..(Len(messages) - sent) : Delta[i] = messages[sent + i]
    <3> DEFINE n == Len(messages)
    <3>1. /\ Delta = SubSeq(messages, sent + 1, n)
          /\ n \in Nat /\ sent \in Nat /\ sent < n
      BY <2>1 DEF Delta
    <3> HIDE DEF n, sent
    <3>2. /\ sent + 1 \in Int /\ n \in Int /\ sent + 1 <= n
          /\ n - (sent + 1) + 1 = n - sent
      BY <3>1
    <3>3. DOMAIN Delta = 1..(n - sent)
      <4>1. \A i \in (sent + 1)..n : messages[i] \in Messages
        BY <2>1, <3>1 DEF n
      <4>2. Delta \in Seq(Messages) /\ Len(Delta) = n - sent
        BY <3>1, <3>2, <4>1, SubSeqProperties
      <4> QED BY <4>2, LenProperties
    <3>4. \A i \in 1..(n - sent) : Delta[i] = messages[sent + i]
      BY <2>1, <3>1
    <3> QED BY <3>3, <3>4 DEF n
  <2>3. \A i \in DOMAIN Delta : Delta[i].kind = "results" =>
          Members(Delta[i].calls) \subseteq Known(cursor.id)
    <3> SUFFICES ASSUME NEW i \in DOMAIN Delta, Delta[i].kind = "results"
                 PROVE  Members(Delta[i].calls) \subseteq Known(cursor.id)
      OBVIOUS
    <3>1. sent + i \in (sent + 1)..Len(messages) /\ Delta[i] = messages[sent + i]
      <4> HIDE DEF sent
      <4>1. i \in 1..(Len(messages) - sent) /\ Delta[i] = messages[sent + i]
        BY <2>2
      <4>2. sent + i \in (sent + 1)..Len(messages)
        <5>1. \A n, s \in Nat : \A j \in 1..(n - s) : s + j \in (s + 1)..n
          OBVIOUS
        <5> QED BY <2>1, <4>1, <5>1
      <4> QED BY <4>1, <4>2
    <3>2. \A k \in DOMAIN Delta[i].calls : Delta[i].calls[k] \in Known(cursor.id)
      BY <2>1, <3>1, SettledFits DEF Fits
    <3> QED BY <3>2 DEF Members
  <2> HIDE DEF sent
  <2> QED BY <2>3 DEF Outputs
<1> QED BY <1>1, Invariance, PTL

=============================================================================
