------------------------------ MODULE Streams ------------------------------
(***************************************************************************)
(* The readers of a provider's response: read_openai_sse_body, the reader  *)
(* of stream.rs for Anthropic, read_responses_sse with translate_event,    *)
(* and the classification of what fails (api/error.rs).                    *)
(*                                                                         *)
(* One frame is one "data:" line.  The arguments of a call are a sequence  *)
(* of parts; they are JSON if they are one "whole" or "open" and "close".  *)
(***************************************************************************)
EXTENDS Integers, Sequences, SequencesExt, FiniteSets

CONSTANTS
    Frames,         \* per dialect, the frames its server may send
    LongestStream,  \* per dialect, bound on them
    Failures,       \* [status, type] of an error a server reports
    Unsaid          \* a field a frame does not have

Dialects == {"chat", "messages", "responses"}

VARIABLES
    dialect,    \* which API is spoken
    lenient,    \* allow_eof_without_finish_reason
    conduct,    \* of the reader: connecting, reading, over
    frames,     \* what arrived
    fault,      \* how the transport ended, "none" while it did not
    reader,     \* the reader's locals
    events      \* what it sent to the turn loop

streamVars == <<dialect, lenient, conduct, frames, fault, reader, events>>

NoBlock == [id |-> "", args |-> <<>>, open |-> FALSE]

NoUsage == [input |-> 0, output |-> 0, read |-> 0, written |-> 0]

FreshReader ==
    [calls |-> <<>>, block |-> NoBlock, reasoning |-> <<>>, usage |-> NoUsage,
     finished |-> FALSE]

Whole(args) == args \in {<<"whole">>, <<"open", "close">>}

-----------------------------------------------------------------------------
(* What went wrong *)

ContextTypes == {"context_length_exceeded", "string_above_max_length"}
OutputTypes == {"max_output_tokens", "max_tokens_exceeded"}
RateTypes == {"rate_limit_exceeded", "rate_limit_error", "insufficient_quota"}
UnavailableTypes ==
    {"overloaded_error", "provider_overloaded", "provider_unavailable", "api_error",
     "server_error"}
AuthenticationTypes ==
    {"authentication", "authentication_error", "invalid_api_key", "permission_denied",
     "permission_error", "payment_required"}
ModelTypes == {"model_not_found", "provider_model_not_found", "not_found_error"}
PolicyTypes == {"content_policy_violation", "content_filter", "prohibited_content", "safety"}

\* The status counts only where the type says nothing, but for 413.
Classify(status, type) ==
    CASE status = 413 \/ type \in ContextTypes -> "context_exceeded"
      [] status # 413 /\ type \in OutputTypes -> "output_limit_exceeded"
      [] status # 413 /\ type \in RateTypes -> "rate_limited"
      [] status # 413 /\ type \in UnavailableTypes -> "unavailable"
      [] status # 413 /\ type \in AuthenticationTypes -> "authentication"
      [] status # 413 /\ type \in ModelTypes -> "model_not_found"
      [] status # 413 /\ type \in PolicyTypes -> "policy_rejection"
      [] status # 413 /\ type = "timeout" -> "network"
      [] OTHER ->
            CASE status = 429 -> "rate_limited"
              [] status \in {401, 402, 403} -> "authentication"
              [] status = 404 -> "model_not_found"
              [] status \in {408, 504} -> "network"
              [] status \in (500..599) \ {504} -> "unavailable"
              [] OTHER -> "other"

StatusForType(type) ==
    CASE type = "authentication" -> 401
      [] type = "payment_required" -> 402
      [] type = "permission_denied" -> 403
      [] type = "rate_limit_exceeded" -> 429
      [] type = "provider_unavailable" -> 502
      [] type = "provider_overloaded" -> 503
      [] type = "timeout" -> 504
      [] OTHER -> Unsaid

\* Anthropic has no code for a prompt that is too long, only a message.
KindOf(failure) ==
    IF /\ dialect = "messages" /\ failure.type = "invalid_request_error"
       /\ failure.status \in {Unsaid, 400} /\ failure.too_long
    THEN "context_exceeded" ELSE Classify(failure.status, failure.type)

ReportedKind(failure) ==
    KindOf([failure EXCEPT !.status = IF @ # Unsaid THEN @ ELSE StatusForType(failure.type)])

-----------------------------------------------------------------------------
(* What a reader sends *)

Event(kind) == [kind |-> kind, id |-> "", detail |-> ""]
Failed(why) == [kind |-> "error", id |-> "", detail |-> why]
Announced(id) == [kind |-> "call", id |-> id, detail |-> ""]
Billed(usage) == [kind |-> "usage", id |-> "", detail |-> usage]

Emits(s) == events' = events \o s

\* OpenAI's count of the input includes what was cached.
Less(a, b) == IF a > b THEN a - b ELSE 0

NetUsage(u) == [u EXCEPT !.input = Less(Less(@, u.read), u.written)]

Said(new, old) == IF new = Unsaid THEN old ELSE new

UsageAfter(old, f) ==
    [input |-> Said(f.input, old.input), output |-> Said(f.output, old.output),
     read |-> Said(f.read, old.read), written |-> Said(f.written, old.written)]

Ends(s) == Emits(s) /\ conduct' = "over" /\ UNCHANGED reader

Goes(r, s) == reader' = r /\ Emits(s) /\ UNCHANGED conduct

\* A fragment is merged into the one before it if nothing tells them apart.
Mergeable(a, b) ==
    /\ a.type = b.type /\ a.type # "unknown"
    /\ a.signature = Unsaid \/ b.signature = Unsaid \/ a.signature = b.signature

Merged(a, b) ==
    [type |-> a.type, signature |-> Said(a.signature, b.signature),
     payload |-> a.payload \o b.payload]

AppendDetail(details, d) ==
    IF details # <<>> /\ Mergeable(Last(details), d)
    THEN Front(details) \o <<Merged(Last(details), d)>>
    ELSE Append(details, d)

Thought(r) ==
    IF r.reasoning = <<>> THEN <<>> ELSE <<[Event("reasoning") EXCEPT !.detail = r.reasoning]>>

-----------------------------------------------------------------------------
(* OpenAI-compatible: chat completions *)

CallAfter(calls, f) ==
    LET old == IF f.index \in DOMAIN calls THEN calls[f.index] ELSE NoBlock
        new == [old EXCEPT !.id = IF f.id = "" THEN @ ELSE f.id, !.args = Append(@, f.part)]
    IN  [i \in DOMAIN calls \union {f.index} |-> IF i = f.index THEN new ELSE calls[i]]

\* All the calls by their index, each with an id even if the server gave none.
DrainCalls(calls) ==
    LET ordered == SetToSortSeq(DOMAIN calls, <)
        id(i) == IF calls[i].id = "" THEN "call_" ELSE calls[i].id
    IN  [k \in DOMAIN ordered |-> Announced(<<ordered[k], id(ordered[k])>>)]

\* Its arguments are parsed when the response is over, and not at its finish
\* reason: a gateway may send more of them after it.
ChatOver ==
    IF \A i \in DOMAIN reader.calls : Whole(reader.calls[i].args)
    THEN Ends(Thought(reader) \o DrainCalls(reader.calls)
              \o <<Billed(NetUsage(reader.usage)), Event("done")>>)
    ELSE Ends(Thought(reader) \o <<Failed("malformed_tool_arguments")>>)

ChatFinish(f) ==
    CASE f.reason = "stop" ->
            Goes([reader EXCEPT !.finished = TRUE, !.reasoning = <<>>], Thought(reader))
      [] f.reason = "length" -> Ends(Thought(reader) \o <<Failed("output_limit_exceeded")>>)
      [] OTHER -> Ends(Thought(reader) \o <<Failed("other")>>)

ChatFrame(f) ==
    CASE f.kind = "text" -> Goes(reader, <<Event("text")>>)
      [] f.kind = "reasoning" ->
            Goes([reader EXCEPT !.reasoning = AppendDetail(@, f.detail)], <<>>)
      [] f.kind = "call" -> Goes([reader EXCEPT !.calls = CallAfter(@, f)], <<>>)
      [] f.kind = "usage" -> Goes([reader EXCEPT !.usage = UsageAfter(@, f.usage)], <<>>)
      [] f.kind = "finish" -> ChatFinish(f)
      [] f.kind = "done" -> ChatOver
      [] f.kind = "error" -> Ends(<<Failed(ReportedKind(f.failure))>>)
      [] f.kind = "junk" -> Ends(<<Failed("protocol_error")>>)

\* A server may close after its finish reason, and some close without one.
ChatCloses(partial) ==
    IF partial \/ (~reader.finished /\ ~lenient)
    THEN Ends(<<Failed("protocol_error")>>) ELSE ChatOver

-----------------------------------------------------------------------------
(* Anthropic: messages *)

\* (mutant) The block stays the current one.
StopKeeping(f) ==
    CASE ~reader.block.open -> Goes(reader, <<>>)
      [] reader.block.open /\ (reader.block.args = <<>> \/ Whole(reader.block.args)) ->
            Goes(reader, <<Announced(reader.block.id)>>)
      [] OTHER -> Ends(<<Failed("malformed_tool_arguments")>>)

\* The end of any block; only that of a call matters.
StopBlock(f) ==
    CASE ~reader.block.open -> Goes(reader, <<>>)
      [] reader.block.open /\ (reader.block.args = <<>> \/ Whole(reader.block.args)) ->
            Goes([reader EXCEPT !.block = NoBlock], <<Announced(reader.block.id)>>)
      [] OTHER -> Ends(<<Failed("malformed_tool_arguments")>>)

MessageDelta(f) ==
    LET usage == [reader.usage EXCEPT !.output = Said(f.usage.output, @)] IN
    CASE f.reason = "max_tokens" ->
            Ends(<<Billed(usage), Failed("output_limit_exceeded")>>)
      [] f.reason = "refusal" -> Ends(<<Billed(usage), Failed("policy_rejection")>>)
      [] OTHER -> Goes([reader EXCEPT !.usage = usage], <<>>)

MessageFrame(f) ==
    CASE f.kind = "start" -> Goes([reader EXCEPT !.usage = UsageAfter(NoUsage, f.usage)], <<>>)
      [] f.kind = "text" -> Goes(reader, <<Event("text")>>)
      [] f.kind = "block" -> Goes(reader, <<>>)
      [] f.kind = "call" ->
            Goes([reader EXCEPT !.block = [id |-> <<f.index, f.id>>, args |-> <<>>,
                                           open |-> TRUE]], <<>>)
      [] f.kind = "part" -> Goes([reader EXCEPT !.block.args = Append(@, f.part)], <<>>)
      [] f.kind = "stop" -> StopBlock(f)
      [] f.kind = "delta" -> MessageDelta(f)
      [] f.kind \in {"over", "done"} -> Ends(<<Billed(reader.usage), Event("done")>>)
      [] f.kind = "error" -> Ends(<<Failed(ReportedKind(f.failure))>>)
      [] f.kind = "junk" -> Ends(<<Failed("protocol_error")>>)

-----------------------------------------------------------------------------
(* OpenAI: responses *)

\* A call that cannot be used is an error, but the reader goes on.
ResponseFrame(f) ==
    CASE f.kind = "text" -> Goes(reader, <<Event("text")>>)
      [] f.kind = "reasoning" ->
            Goes(reader, <<[Event("reasoning") EXCEPT !.detail = <<f.detail>>]>>)
      [] f.kind = "call" /\ f.id = "" -> Goes(reader, <<Failed("other")>>)
      [] f.kind = "call" /\ f.id # "" /\ ~Whole(<<f.part>>) ->
            Goes(reader, <<Failed("malformed_tool_arguments")>>)
      [] f.kind = "call" /\ f.id # "" /\ Whole(<<f.part>>) ->
            Goes(reader, <<Announced(<<f.index, f.id>>)>>)
      [] f.kind = "over" ->
            Goes([reader EXCEPT !.finished = TRUE],
                 <<Billed(NetUsage(UsageAfter(NoUsage, f.usage))), Event("done")>>)
      [] f.kind = "incomplete" -> Ends(<<Failed("output_limit_exceeded")>>)
      [] f.kind = "error" -> Ends(<<Failed(ReportedKind(f.failure))>>)
      [] f.kind \in {"done", "junk"} -> Goes(reader, <<>>)

-----------------------------------------------------------------------------

StreamInit ==
    /\ dialect \in Dialects /\ lenient \in {FALSE, dialect = "chat"}
    /\ conduct = "connecting" /\ frames = <<>> /\ fault = "none"
    /\ reader = FreshReader /\ events = <<>>

Connects ==
    /\ conduct = "connecting" /\ conduct' = "reading"
    /\ UNCHANGED <<dialect, lenient, frames, fault, reader, events>>

\* No response: it was given up, none came in time, or its status is an error.
RequestFails ==
    /\ conduct = "connecting" /\ conduct' = "over" /\ fault' = "transport"
    /\ \/ Emits(<<Failed("cancelled")>>)
       \/ Emits(<<Failed("network")>>)
       \/ \E failure \in Failures :
              failure.status # Unsaid /\ Emits(<<Failed(KindOf(failure))>>)
    /\ UNCHANGED <<dialect, lenient, frames, reader>>

Sent(kinds) == {k \in DOMAIN frames : frames[k].kind \in kinds}

OpenBlocks ==
    {frames[k].index : k \in Sent({"block", "call"})} \ {frames[k].index : k \in Sent({"stop"})}

\* What a server sends: a frame of another kind each time, the parts of a call in
\* order, Anthropic's blocks one after the other, nothing after the end.
Sendable(f) ==
    /\ Len(frames) < LongestStream[dialect] /\ ~\E k \in DOMAIN frames : frames[k] = f
    /\ f.kind \in {"call", "part"} /\ f.part = "close" =>
          \E k \in Sent({f.kind}) : frames[k].index = f.index /\ frames[k].part = "open"
    /\ dialect = "messages" =>
          CASE f.kind = "start" -> frames = <<>>
            [] f.kind \in {"call", "block"} ->
                  /\ OpenBlocks = {}
                  /\ \A k \in Sent({"block", "call"}) : frames[k].index < f.index
            [] f.kind \in {"part", "stop"} ->
                  /\ f.index \in OpenBlocks
                  /\ f.kind = "part" =>
                        \E k \in Sent({"call"}) : frames[k].index = f.index
            [] f.kind \in {"delta", "over", "done"} -> OpenBlocks = {}
            [] OTHER -> TRUE
    /\ dialect = "responses" => ~reader.finished

Frame(f) ==
    /\ conduct = "reading" /\ Sendable(f)
    /\ frames' = Append(frames, f)
    /\ CASE dialect = "chat" -> ChatFrame(f)
         [] dialect = "messages" -> MessageFrame(f)
         [] dialect = "responses" -> ResponseFrame(f)
    /\ UNCHANGED <<dialect, lenient, fault>>

\* The body ends, maybe inside a frame.
Closes(partial) ==
    /\ conduct = "reading"
    /\ fault' = IF partial THEN "cut" ELSE "closed"
    /\ CASE dialect = "chat" -> ChatCloses(partial)
         [] dialect = "messages" -> Ends(<<Failed("protocol_error")>>)
         [] dialect = "responses" ->
               Ends(IF reader.finished THEN <<>> ELSE <<Failed("protocol_error")>>)
    /\ UNCHANGED <<dialect, lenient, frames>>

\* The reader of chat completions words a failure anew and so loses its type.
TransportFails ==
    /\ conduct = "reading" /\ fault' = "transport"
    /\ Ends(<<Failed(IF dialect = "chat" THEN "other" ELSE "network")>>)
    /\ UNCHANGED <<dialect, lenient, frames>>

\* No byte for two minutes.
Silence ==
    /\ conduct = "reading" /\ fault' = "silence"
    /\ Ends(<<Failed("other")>>)
    /\ UNCHANGED <<dialect, lenient, frames>>

\* A line that is not UTF-8.
Garbage ==
    /\ conduct = "reading" /\ dialect # "responses" /\ fault' = "garbage"
    /\ Ends(<<Failed("other")>>)
    /\ UNCHANGED <<dialect, lenient, frames>>

\* The turn loop cancelled the request or dropped the stream.
ReaderStops ==
    /\ conduct = "reading" /\ Ends(<<>>)
    /\ UNCHANGED <<dialect, lenient, frames, fault>>

StreamNext ==
    \/ Connects \/ RequestFails
    \/ \E f \in Frames[dialect] : Frame(f)
    \/ \E partial \in BOOLEAN : Closes(partial)
    \/ TransportFails \/ Silence \/ Garbage \/ ReaderStops

StreamSpec == StreamInit /\ [][StreamNext]_streamVars

-----------------------------------------------------------------------------

\* What the turn loop sees: it stops at the first end.
Heard ==
    LET ends == {k \in DOMAIN events : events[k].kind \in {"done", "error"}}
        before(k) == \A j \in ends : k <= j
    IN  [k \in {i \in DOMAIN events : before(i)} |-> events[k]]

Indices(s) == {frames[k].index : k \in s}

\* The arguments the server sent for a call, whenever it did.
SentArgs(i) ==
    LET own == SelectSeq(frames, LAMBDA f : f.kind \in {"call", "part"} /\ f.index = i
                                                                  /\ f.part # "")
    IN  [k \in DOMAIN own |-> own[k].part]

WholeCalls ==
    {i \in Indices(Sent({"call"})) :
        CASE dialect = "chat" -> Whole(SentArgs(i))
          [] dialect = "messages" ->
                /\ i \in Indices(Sent({"stop"}))
                /\ SentArgs(i) = <<>> \/ Whole(SentArgs(i))
          [] dialect = "responses" ->
                \E k \in Sent({"call"}) :
                    frames[k].index = i /\ frames[k].id # "" /\ frames[k].part = "whole"}

ServerEnded ==
    \/ \E k \in DOMAIN frames : frames[k].kind = "finish" /\ frames[k].reason = "stop"
    \/ Sent({"over"}) # {} \/ (dialect # "responses" /\ Sent({"done"}) # {})
    \/ lenient /\ conduct = "over"

Broken ==
    \/ fault \in {"cut", "transport", "silence", "garbage"}
    \/ fault = "closed" /\ (~ServerEnded \/ dialect = "messages")
    \/ dialect # "responses" /\ Sent({"junk"}) # {}
    \/ Sent({"error", "incomplete"}) # {}
    \/ \E k \in Sent({"finish", "delta"}) :
          frames[k].reason \in {"length", "content_filter", "max_tokens", "refusal"}
    \/ conduct = "over" /\ Indices(Sent({"call"})) # WholeCalls
    \/ dialect = "messages" /\ \E i \in Indices(Sent({"stop"})) :
          i \in Indices(Sent({"call"})) /\ i \notin WholeCalls
    \/ dialect = "responses" /\ Indices(Sent({"call"})) # WholeCalls

Outcome ==
    LET heard == ToSet(Heard)
    IN  IF \E e \in heard : e.kind = "done" THEN "done"
        ELSE IF \E e \in heard : e.kind = "error" THEN "failed"
        ELSE IF conduct = "over" THEN "cancelled" ELSE "open"

\* A call is known by its place in the response.
Protocol ==
    INSTANCE StreamProtocol WITH
        Calls <- Nat,
        begun <- Indices(Sent({"call"})),
        whole <- WholeCalls,
        ended <- ServerEnded,
        broken <- Broken,
        delivered <- LET calls == SelectSeq(Heard, LAMBDA e : e.kind = "call")
                     IN  [k \in DOMAIN calls |-> calls[k].id[1]],
        outcome <- Outcome

\* Whatever the dialect, the order in which the frames arrive and where the
\* response breaks off, the turn loop receives each call once, with the whole of
\* its arguments, then one end: complete only if the server ended the response and
\* every call it began was received, a failure only if something was wrong (the
\* readers of api/, as Engine::run_turn consumes them).  It judges servers that close a
\* tool block before they end the message: the messages reader takes the end of one with
\* a block still open for complete.  And a line of the responses dialect that does not
\* parse is nothing wrong: the reader skips it (openai_responses.rs:366).
StreamsKeepTheProtocol == Protocol!Spec
=============================================================================
