------------------------- MODULE ResponsesCursor -------------------------
(***************************************************************************)
(* The Responses provider (src/src/api/openai_responses.rs) keeps a cursor *)
(* into a conversation the server stores: the id of the last completed     *)
(* response, and how many messages it was asked with.  The next request    *)
(* names that response and sends only the messages after those.            *)
(*                                                                         *)
(* Three actors touch it.  The ENGINE builds requests from the cursor,     *)
(* resets it, receives events, and drops a stream it has given up; a       *)
(* READER task per response sets the cursor when the response completes    *)
(* and clears it when the response fails or is cancelled; the SERVER       *)
(* decides what a response holds.  A reader runs beside the engine: it may *)
(* be a whole response ahead, and it survives the stream for a while.      *)
(*                                                                         *)
(* Kept of a message is who wrote it and the tool calls it holds or        *)
(* answers.  Text, reasoning and images are left out.                      *)
(***************************************************************************)
EXTENDS Naturals, Sequences, FiniteSets

CONSTANTS
  MaxPrompts,     \* bound: user messages, steering included
  MaxResponses,   \* bound: responses the server starts, summaries included
  MaxCalls,       \* bound: tool calls in one response
  MaxRetries      \* reissues of a failed request in one turn

ASSUME CursorAssumption ==
  {MaxPrompts, MaxResponses, MaxCalls, MaxRetries} \subseteq Nat

VARIABLES
  messages,    \* the engine's conversation
  prompts,     \* how many user messages there have been
  cursor,      \* ResponseCursor
  responses,   \* what the server stores, by response number
  readers,     \* where the reader task of each response stands
  stream,      \* the response whose ProviderStream the engine holds, or 0
  channel,     \* that stream's events, sent and not yet received
  cancelled,   \* the turn's token, parent of the attached reader's
  pc,          \* where the engine stands
  taken,       \* tool_uses: the calls received of the response
  retries      \* reissued requests of the turn

vars == <<messages, prompts, cursor, responses, readers, stream, channel,
          cancelled, pc, taken, retries>>

\* by is the prompt's number, or the response a message came from.
Message(kind, by, calls) == [kind |-> kind, by |-> by, calls |-> calls]
User(n) == Message("user", n, <<>>)
Handoff(r) == Message("handoff", r, <<>>)

\* A tool call is the response that made it and its place among its calls.
CallIds == Nat \X Nat
Members(calls) == {calls[i] : i \in DOMAIN calls}

NoCursor == [id |-> 0, sent |-> 0]
\* named is FALSE once a response has completed without an id while the cursor
\* stood at an older one.
Response(asked) == [asked |-> asked, calls |-> <<>>, named |-> TRUE]

ReaderStates == {"reading", "completed", "drained", "failing", "gone"}
Alive(r) == r \in DOMAIN readers /\ readers[r] # "gone"
Abandoned == {r \in DOMAIN readers : Alive(r) /\ r # stream}
Last == Len(responses)

Init ==
  /\ messages = <<>> /\ prompts = 0
  /\ cursor = NoCursor
  /\ responses = <<>> /\ readers = <<>>
  /\ stream = 0 /\ channel = <<>> /\ cancelled = FALSE
  /\ pc = "idle" /\ taken = <<>> /\ retries = 0

-----------------------------------------------------------------------------
(* The engine's side of a request.                                         *)

\* build_input: continue from the cursor when there is something new to send.
Continues == cursor.id # 0 /\ cursor.sent < Len(messages)
Delta == SubSeq(messages, cursor.sent + 1, Len(messages))

\* The outputs among the messages of s.
Outputs(s) ==
  UNION {Members(s[i].calls) : i \in {j \in DOMAIN s : s[j].kind = "results"}}

\* What the server requires of a continued request: an output for every call
\* of the response, and none for a call it does not know.
ServerRefuses == Continues /\ Outputs(Delta) # Members(responses[cursor.id].calls)

\* The server answers, and a reader is spawned for the response.
Attach(asked) ==
  /\ Last < MaxResponses
  /\ responses' = Append(responses, Response(asked))
  /\ readers' = Append(readers, "reading")
  /\ stream' = Last + 1
  /\ channel' = <<>>

\* Dropping the ProviderStream closes the channel and cancels its reader.
Drop == stream' = 0 /\ channel' = <<>>

\* (mutant) The provider is left to notice by itself that history shrank.
KeepCursor == UNCHANGED cursor

\* reset_session.
ResetSession == cursor' = NoCursor

Prompt ==
  /\ pc = "idle" /\ prompts < MaxPrompts
  /\ prompts' = prompts + 1
  /\ messages' = Append(messages, User(prompts'))
  /\ cancelled' = FALSE /\ retries' = 0
  /\ pc' = "request"
  /\ UNCHANGED <<cursor, responses, readers, stream, channel, taken>>

\* inject_steering, before the request of a later round or attempt.
Steer ==
  /\ pc = "request" /\ prompts < MaxPrompts
  /\ prompts' = prompts + 1
  /\ messages' = Append(messages, User(prompts'))
  /\ UNCHANGED <<cursor, responses, readers, stream, channel, cancelled, pc,
                 taken, retries>>

\* Another session is loaded: set_messages.
Load ==
  /\ pc = "idle" /\ prompts < MaxPrompts
  /\ prompts' = prompts + 1
  /\ messages' = <<User(prompts'), Message("assistant", 0, <<>>)>>
  /\ ResetSession
  /\ UNCHANGED <<responses, readers, stream, channel, cancelled, pc, taken, retries>>

\* /compact runs under a token nobody cancels.
Cancel ==
  /\ pc \notin {"idle", "summaryIdle"} /\ ~cancelled
  /\ cancelled' = TRUE
  /\ UNCHANGED <<messages, prompts, cursor, responses, readers, stream, channel,
                 pc, taken, retries>>

Request ==
  /\ pc = "request" /\ ~cancelled /\ ~ServerRefuses
  /\ Attach(messages)
  /\ pc' = "stream"
  /\ UNCHANGED <<messages, prompts, cursor, cancelled, taken, retries>>

\* An HTTP error, a timeout, or a cancellation: there is no stream and the
\* cursor is left alone.  The engine tries again, or the turn ends.
RequestFails ==
  /\ pc = "request"
  /\ \/ ~cancelled /\ retries < MaxRetries /\ ~ServerRefuses
        /\ retries' = retries + 1 /\ UNCHANGED pc
     \/ pc' = "idle" /\ UNCHANGED retries
  /\ UNCHANGED <<messages, prompts, cursor, responses, readers, stream, channel,
                 cancelled, taken>>

-----------------------------------------------------------------------------
(* The engine's side of a stream.                                          *)

\* finalize_unrun_tools: the calls received, and their results.
Unrun == <<Message("assistant", stream, taken), Message("results", stream, taken)>>

\* The turn ends in mid-stream.  text: an interrupted answer had some, which
\* is kept.
Abort(text) ==
  /\ messages' = messages \o
       (IF taken # <<>> THEN Unrun
        ELSE IF text THEN <<Message("assistant", stream, <<>>)>> ELSE <<>>)
  /\ Drop
  /\ pc' = "idle" /\ taken' = <<>> /\ UNCHANGED retries

Received(event) ==
  /\ pc = "stream" /\ channel # <<>> /\ Head(channel).type = event

ReceiveCall ==
  /\ Received("call")
  /\ taken' = Append(taken, Head(channel).id)
  /\ channel' = Tail(channel)
  /\ UNCHANGED <<messages, prompts, cursor, responses, readers, stream, cancelled,
                 pc, retries>>

\* A malformed call or an error: an attempt that announced no call may be
\* reissued, any other ends the turn.
ReceiveError ==
  /\ Received("malformed") \/ Received("error")
  /\ \/ Abort(FALSE)
     \/ /\ taken = <<>> /\ retries < MaxRetries
        /\ retries' = retries + 1
        /\ Drop
        /\ pc' = "request" /\ UNCHANGED <<messages, taken>>
  /\ UNCHANGED <<prompts, cursor, responses, readers, cancelled>>

\* The stream is held while the batch runs.
ReceiveDone ==
  /\ Received("done")
  /\ \/ /\ taken # <<>>
        /\ messages' = Append(messages, Message("assistant", stream, taken))
        /\ channel' = Tail(channel)
        /\ pc' = "batch" /\ UNCHANGED stream
     \/ /\ taken = <<>>
        /\ messages' \in {messages, Append(messages, Message("assistant", stream, <<>>))}
        /\ Drop
        /\ pc' = "idle"
  /\ UNCHANGED <<prompts, cursor, responses, readers, cancelled, taken, retries>>

\* The token fires in mid-stream, or the channel closes without Done.
StreamEnds ==
  /\ pc = "stream"
  /\ \/ cancelled /\ \E text \in BOOLEAN : Abort(text)
     \/ channel = <<>> /\ ~Alive(stream) /\ Abort(FALSE)
  /\ UNCHANGED <<prompts, cursor, responses, readers, cancelled>>

BatchEnds ==
  /\ pc = "batch"
  /\ messages' = Append(messages, Message("results", stream, taken))
  /\ Drop
  /\ taken' = <<>>
  /\ pc' = IF cancelled THEN "idle" ELSE "request"
  /\ UNCHANGED <<prompts, cursor, responses, readers, cancelled, retries>>

-----------------------------------------------------------------------------
(* Compaction: a request of its own, with resets around it.                *)

Summarize ==
  /\ messages # <<>>
  /\ pc = "idle" \/ (pc = "request" /\ ~cancelled)
  /\ ResetSession
  /\ Attach(<<Message("excerpt", 0, <<>>)>>)
  /\ pc' = IF pc = "idle" THEN "summaryIdle" ELSE "summaryTurn"
  /\ cancelled' = FALSE
  /\ UNCHANGED <<messages, prompts, taken, retries>>

\* commit_compacted_messages; a tail of user messages may be kept.
SummaryDone ==
  /\ pc \in {"summaryIdle", "summaryTurn"}
  /\ channel # <<>> /\ Head(channel).type = "done" /\ ~cancelled
  /\ ResetSession
  /\ \E tail \in {<<>>} \cup
        (IF messages[Len(messages)].kind = "user"
         THEN {<<messages[Len(messages)]>>} ELSE {}) :
       messages' = <<Handoff(stream)>> \o tail
  /\ Drop
  /\ pc' = IF pc = "summaryIdle" THEN "idle" ELSE "request"
  /\ UNCHANGED <<prompts, responses, readers, cancelled, taken, retries>>

\* A failure, a cancellation, or a handoff over its budget: at any moment.
SummaryFails ==
  /\ pc \in {"summaryIdle", "summaryTurn"}
  /\ ResetSession
  /\ Drop
  /\ pc' = "idle"
  /\ UNCHANGED <<messages, prompts, responses, readers, cancelled, taken, retries>>

-----------------------------------------------------------------------------
(* read_responses_sse, one step for each thing another actor may see.      *)

Turned(r, state) == readers' = [readers EXCEPT ![r] = state]
Stops(r) == Turned(r, "gone")
EngineSide == <<messages, prompts, stream, cancelled, pc, taken, retries>>

\* tx.send: the engine has the event, or is gone and the reader gives up.
Send(r, event, state) ==
  IF r = stream
  THEN channel' = Append(channel, event) /\ Turned(r, state) /\ UNCHANGED cursor
  ELSE UNCHANGED channel /\ Stops(r) /\ cursor' = NoCursor

Event(type) == [type |-> type, id |-> <<0, 0>>]

\* A call whose arguments are no JSON is a call of the response all the same.
\* A summary is asked without tools.
ReadCall(r) ==
  /\ readers[r] = "reading" /\ Len(responses[r].calls) < MaxCalls
  /\ \A i \in DOMAIN responses[r].asked : responses[r].asked[i].kind # "excerpt"
  /\ LET id == <<r, Len(responses[r].calls) + 1>>
     IN /\ responses' = [responses EXCEPT ![r].calls = Append(@, id)]
        /\ \/ Send(r, [type |-> "call", id |-> id], "reading")
           \/ Send(r, Event("malformed"), "reading")
  /\ UNCHANGED EngineSide

\* (mutant) The count predicts that the answer will be appended.
ReadCompletedPredicting(r) ==
  /\ readers[r] = "reading"
  /\ cursor' = [id |-> r, sent |-> Len(responses[r].asked) + 1]
  /\ Turned(r, "completed")
  /\ UNCHANGED <<EngineSide, responses, channel>>

\* response.completed: the cursor is set first, Usage and Done follow.  A
\* response whose id is no string completes all the same, and the cursor stays
\* at an older one.
ReadCompleted(r) ==
  /\ readers[r] = "reading"
  /\ \/ /\ cursor' = [id |-> r, sent |-> Len(responses[r].asked)]
        /\ UNCHANGED responses
     \/ /\ responses' = [responses EXCEPT ![r].named = @ /\ cursor = NoCursor]
        /\ UNCHANGED cursor
  /\ Turned(r, "completed")
  /\ UNCHANGED <<EngineSide, channel>>

SendDone(r) ==
  /\ readers[r] = "completed"
  /\ Send(r, Event("done"), "drained")
  /\ UNCHANGED <<EngineSide, responses>>

\* response.failed and its kin: the event first, then the cursor.
ReadTerminalError(r) ==
  /\ readers[r] = "reading"
  /\ Send(r, Event("error"), "failing")
  /\ UNCHANGED <<EngineSide, responses>>

ClearAfterError(r) ==
  /\ readers[r] = "failing"
  /\ cursor' = NoCursor /\ Stops(r)
  /\ UNCHANGED <<EngineSide, responses, channel>>

\* (mutant) A cancelled reader just returns.
StopOnCancel(r) ==
  /\ readers[r] \in {"reading", "drained"} /\ (cancelled \/ r # stream)
  /\ Stops(r)
  /\ UNCHANGED <<EngineSide, responses, channel, cursor>>

\* The token is looked at before each chunk; several lines come in one.
ReaderCancelled(r) ==
  /\ readers[r] \in {"reading", "drained"} /\ (cancelled \/ r # stream)
  /\ cursor' = NoCursor /\ Stops(r)
  /\ UNCHANGED <<EngineSide, responses, channel>>

\* The body ends, breaks or idles out.  Only the end after a completed
\* response leaves the cursor.
BodyEnds(r) ==
  /\ \/ readers[r] = "drained" /\ UNCHANGED <<cursor, channel>>
     \/ /\ readers[r] \in {"reading", "drained"}
        /\ cursor' = NoCursor
        /\ channel' = IF r = stream THEN Append(channel, Event("error")) ELSE channel
  /\ Stops(r)
  /\ UNCHANGED <<EngineSide, responses>>

-----------------------------------------------------------------------------
Engine ==
  \/ Request \/ RequestFails \/ ReceiveCall \/ ReceiveError \/ ReceiveDone
  \/ StreamEnds \/ BatchEnds \/ Summarize \/ SummaryDone \/ SummaryFails

Reader(r) ==
  \/ ReadCall(r) \/ ReadCompleted(r) \/ SendDone(r) \/ ReadTerminalError(r)
  \/ ClearAfterError(r) \/ ReaderCancelled(r) \/ BodyEnds(r)

Next ==
  \/ Prompt \/ Steer \/ Load \/ Cancel
  \/ Engine
  \/ \E r \in DOMAIN readers : Reader(r)

Spec == Init /\ [][Next]_vars

-----------------------------------------------------------------------------
(* Properties.                                                             *)

MessageKinds == {"user", "assistant", "results", "handoff", "excerpt"}
Messages == [kind : MessageKinds, by : Nat, calls : Seq(CallIds)]
Events == [type : {"call", "malformed", "done", "error"}, id : CallIds]
StoredResponses == [asked : Seq(Messages), calls : Seq(CallIds), named : BOOLEAN]
PCs == {"idle", "request", "stream", "batch", "summaryIdle", "summaryTurn"}

ConversationType == messages \in Seq(Messages) /\ prompts \in Nat

ServerType ==
  /\ responses \in Seq(StoredResponses)
  /\ readers \in Seq(ReaderStates) /\ Len(readers) = Last

CursorType ==
  /\ cursor \in [id : 0..Last, sent : Nat]
  /\ cursor.id # 0 => cursor.sent = Len(responses[cursor.id].asked)

StreamType == stream \in 0..Last /\ channel \in Seq(Events)

ControlType ==
  /\ cancelled \in BOOLEAN /\ pc \in PCs
  /\ taken \in Seq(CallIds) /\ retries \in 0..MaxRetries

\* Every variable has its type; each response has a reader, and the cursor
\* names a response the server stores and the length it was asked with, not a
\* prediction of what the turn will append.
TypeOK ==
  /\ ConversationType /\ ServerType /\ CursorType /\ StreamType /\ ControlType

\* When the engine builds a request, and no reader of a stream it gave up is
\* still at work.
Settled == pc = "request" /\ Abandoned = {}

\* A continued response was asked with exactly the messages the request leaves
\* out: a cursor never survives a compaction or the loading of a session.
CursorCoversPrefix ==
  Settled /\ Continues =>
    responses[cursor.id].asked = SubSeq(messages, 1, cursor.sent)

\* The calls of the responses that completed behind an older one's cursor.
UnnamedCalls ==
  UNION {Members(responses[r].calls) : r \in {r \in DOMAIN responses : ~responses[r].named}}

\* A continued request answers only calls of the response it continues, of
\* which the server knows, since the calls themselves are left out of it; the
\* one exception are the calls of a response the server gave no id, which the
\* code answers against the response before it.
NoOrphanOutputs ==
  Settled /\ Continues =>
    Outputs(Delta) \subseteq Members(responses[cursor.id].calls) \cup UnnamedCalls

\* The whole conversation is resent whenever continuation would be lossy: a
\* continued request answers every call of the response it continues.
ContinuationIsLossless ==
  Settled /\ Continues => Members(responses[cursor.id].calls) \subseteq Outputs(Delta)

=============================================================================
