------------------------------ MODULE ChatTurn ------------------------------
(***************************************************************************)
(* One turn on the chat screen (drive_streaming of tui/chat.rs): the       *)
(* engine sends what happens into a channel, and the screen makes bubbles  *)
(* of it, takes the user's keys and asks for permission.  The engine is    *)
(* module Turn seen from the channel: which events it sends, in which      *)
(* order (query.rs).                                                       *)
(*                                                                         *)
(* A piece of text is its number in the turn, and so is a call.            *)
(***************************************************************************)
EXTENDS Naturals, Sequences, SequencesExt, FiniteSets

CONSTANTS
    ChannelCapacity,
    MaxPieces, MaxCalls,    \* bounds of a turn
    MaxAsides               \* how many retries, notices and typed messages in all

VARIABLES
    turn,       \* what the engine is at
    channel,    \* events sent and not yet shown
    screen,     \* what is shown, and what the screen remembers of the batch
    steering,   \* messages typed and not yet delivered
    cancelled,  \* the turn's token
    told,       \* history: per call, what the turn said of it last
    kept,       \* history: the pieces in the conversation
    late        \* history: the pieces that came after a call of their response

chatVars == <<turn, channel, screen, steering, cancelled, told, kept, late>>

Report(kind, of) == [kind |-> kind, of |-> of]

\* The pieces of the response it reads; the calls of it, which are those after
\* first, and what became of each; all pieces, and the retries and notices, so far;
\* once it returned, the last event, if there was one for that.
Engine(at) ==
    [at |-> at, attempt |-> {}, first |-> 0, calls |-> <<>>, pieces |-> 0,
     asides |-> 0, how |-> ""]

\* Bubbles; stream_buffer; running_tools and batch_tools, as places in bubbles;
\* the call a prompt is for; messages typed so far.
Screen ==
    [bubbles |-> <<>>, buffer |-> <<>>, running |-> <<>>, batch |-> <<>>,
     prompt |-> 0, typings |-> 0, open |-> TRUE]

ChatInit ==
    /\ turn = Engine("between") /\ channel = <<>> /\ screen = Screen
    /\ steering = 0 /\ cancelled = FALSE
    /\ told = <<>> /\ kept = {} /\ late = {}

-----------------------------------------------------------------------------
(* The turn. *)

\* It goes on when there is room for what it sends.
Free(at) == turn.at = at /\ Len(channel) < ChannelCapacity /\ screen.open
Does(e, events) == turn' = e /\ channel' = channel \o events /\ UNCHANGED <<screen, cancelled>>
Batch == DOMAIN turn.calls
Call(i) == turn.first + i
Later(at) ==
    [Engine(at) EXCEPT !.pieces = turn.pieces, !.asides = turn.asides]
Spare == turn.asides + screen.typings < MaxAsides
UnderWay == {i \in Batch : turn.calls[i] \in {"reading", "acting"}}
Unbegun == {i \in Batch : turn.calls[i] \in {"reads", "acts"}}
NextUp == CHOOSE i \in Unbegun : \A j \in Unbegun : i <= j

\* Before a request: what was typed, then perhaps a note about the context.
Delivers ==
    /\ Free("between") /\ steering > 0 /\ ~cancelled
    /\ Does(turn, [i \in 1..steering |-> Report("steered", 0)])
    /\ steering' = 0 /\ UNCHANGED <<told, kept, late>>

AsksModel(notice) ==
    /\ Free("between") /\ steering = 0 /\ ~cancelled
    /\ notice => Spare
    /\ Does([Later("stream") EXCEPT !.first = Len(told), !.asides = IF notice THEN @ + 1 ELSE @],
            (IF notice THEN <<Report("notice", 0)>> ELSE <<>>) \o <<Report("request", 0)>>)
    /\ UNCHANGED <<steering, told, kept, late>>

\* An attempt that announced a call is committed.
Committed == turn.calls # <<>>

Says ==
    LET piece == turn.pieces + 1 IN
    /\ Free("stream") /\ piece <= MaxPieces
    /\ Does([turn EXCEPT !.pieces = piece, !.attempt = @ \union {piece}],
            <<Report("text", piece)>>)
    /\ late' = IF Committed THEN late \union {piece} ELSE late
    /\ UNCHANGED <<steering, told, kept>>

Announces(kind) ==
    /\ Free("stream") /\ Len(told) < MaxCalls
    /\ Does([turn EXCEPT !.calls = Append(@, kind)], <<Report("start", Len(told) + 1)>>)
    /\ told' = Append(told, "queued")
    /\ UNCHANGED <<steering, kept, late>>

AttemptFails ==
    /\ Free("stream") /\ ~Committed /\ Spare
    /\ Does([Later("between") EXCEPT !.asides = @ + 1], <<Report("retry", 0)>>)
    /\ UNCHANGED <<steering, told, kept, late>>

\* The last calls told of end in this way.
Settled(status) ==
    [k \in DOMAIN told |-> IF k > turn.first THEN status ELSE told[k]]

Returns(events) ==
    Does([Engine("returned") EXCEPT !.how = IF events = <<>> THEN "" ELSE Last(events).kind], events)

\* finalize_unrun_tools: the calls of a stream that broke are answered.
StreamBreaks ==
    /\ Free("stream")
    /\ Returns([n \in 1..2 * Len(turn.calls) |->
                  IF n % 2 = 1 THEN Report("finished", <<(n + 1) \div 2, TRUE>>)
                               ELSE Report("result", TRUE)]
                  \o <<Report("error", 0)>>)
    /\ told' = Settled("error")
    /\ kept' = IF Committed THEN kept \union turn.attempt ELSE kept
    /\ UNCHANGED <<steering, late>>

StreamInterrupted ==
    /\ Free("stream") /\ cancelled
    /\ Returns([i \in Batch |-> Report("result", TRUE)] \o <<Report("interrupted", 0)>>)
    /\ told' = Settled("error") /\ kept' = kept \union turn.attempt
    /\ UNCHANGED <<steering, late>>

Responds ==
    /\ Free("stream") /\ (Committed \/ turn.attempt # {})
    /\ IF Committed THEN Does([turn EXCEPT !.at = "batch"], <<>>)
                    ELSE Returns(<<Report("done", 0)>>)
    /\ kept' = kept \union turn.attempt
    /\ UNCHANGED <<steering, told, late>>

\* Stopped between two responses.
StopsBetween ==
    /\ Free("between") /\ cancelled
    /\ Returns(<<Report("interrupted", 0)>>) /\ UNCHANGED <<steering, told, kept, late>>

\* Too many rounds, or a compaction that failed: nothing is sent.
FailsBetween ==
    /\ Free("between") /\ ~cancelled
    /\ Returns(<<>>) /\ UNCHANGED <<steering, told, kept, late>>

Tells(i, status) == told' = [told EXCEPT ![Call(i)] = status]

Doing(kind) == IF kind = "reads" THEN "reading" ELSE "acting"

\* execute_tool_reporting.
RunsCall(i) ==
    /\ Does([turn EXCEPT !.at = "batch", !.calls[i] = Doing(@)], <<Report("running", i)>>)
    /\ Tells(i, "running") /\ UNCHANGED <<steering, kept, late>>

\* execute_tool_batch: calls that read run together, a call that acts alone.
Starts ==
    /\ Free("batch") /\ Unbegun # {} /\ ~cancelled /\ steering = 0
    /\ UnderWay # {} =>
          /\ turn.calls[NextUp] = "reads"
          /\ \A i \in UnderWay : turn.calls[i] = "reading"
    /\ RunsCall(NextUp)

Ended(error) == IF error THEN "error" ELSE "success"

Finishes(i, error) ==
    /\ Free("batch") /\ i \in UnderWay
    /\ Does([turn EXCEPT !.calls[i] = Ended(error)], <<Report("finished", <<i, error>>)>>)
    /\ Tells(i, Ended(error)) /\ UNCHANGED <<steering, kept, late>>

AsksPermission ==
    /\ Free("batch") /\ Unbegun # {} /\ UnderWay = {} /\ ~cancelled /\ steering = 0
    /\ Does([turn EXCEPT !.at = "asking"], <<Report("permission", Call(NextUp))>>)
    /\ UNCHANGED <<steering, told, kept, late>>

\* Nobody answers any more.
AskCancelled ==
    /\ Free("asking") /\ cancelled
    /\ Does([turn EXCEPT !.at = "batch", !.calls[NextUp] = "error"], <<>>)
    /\ UNCHANGED <<steering, told, kept, late>>

\* Permission is denied by a rule, or the user typed or interrupted: not run.
Skips ==
    /\ Free("batch") /\ Unbegun # {} /\ UnderWay = {}
    /\ Does([turn EXCEPT !.calls[NextUp] = "error"], <<>>)
    /\ UNCHANGED <<steering, told, kept, late>>

\* The results, in the order of the calls.
BatchEnds ==
    LET results == [i \in Batch |-> Report("result", turn.calls[i] = "error")] IN
    /\ Free("batch") /\ Unbegun = {} /\ UnderWay = {}
    /\ IF cancelled THEN Returns(Append(results, Report("interrupted", 0)))
       ELSE Does(Later("between"), results)
    /\ told' = [k \in DOMAIN told |->
                   IF k > turn.first THEN turn.calls[k - turn.first] ELSE told[k]]
    /\ UNCHANGED <<steering, kept, late>>

-----------------------------------------------------------------------------
(* The screen. *)

TextBubble(by, pieces) == [by |-> by, pieces |-> pieces, call |-> 0, status |-> ""]
Tool(k) == [by |-> "tool", pieces |-> <<>>, call |-> k, status |-> "queued"]

\* flush_stream_buffer.
Flushed(s) ==
    IF s.buffer = <<>> THEN s
    ELSE [s EXCEPT !.bubbles = Append(@, TextBubble("assistant", s.buffer)), !.buffer = <<>>]

Adds(s, bubble) == [s EXCEPT !.bubbles = Append(@, bubble)]

\* set_tool_status_at, for these bubbles.
Marks(s, places, status) ==
    [s EXCEPT !.bubbles = [b \in DOMAIN s.bubbles |->
        IF b \in places THEN [s.bubbles[b] EXCEPT !.status = status] ELSE s.bubbles[b]]]

\* (mutant) The indices of a batch that is over are kept.
ShowsStartAfterTheOthers(s, k) ==
    LET shown == Adds(Flushed(s), Tool(k))
        place == Len(shown.bubbles)
    IN  [shown EXCEPT !.running = Append(@, place), !.batch = Append(@, place)]

\* A call joins the batch, or begins one if none waits for its result.
ShowsStart(s, k) ==
    LET shown == Adds(Flushed(s), Tool(k))
        place == Len(shown.bubbles)
    IN  [shown EXCEPT !.running = Append(@, place),
                      !.batch = Append(IF s.running = <<>> THEN <<>> ELSE @, place)]

\* An index says which call of the batch; an index past it says nothing.
ShowsAt(s, i, status) ==
    IF i \in DOMAIN s.batch THEN Marks(s, {s.batch[i]}, status) ELSE s

\* A result is of the call that waits longest.
ShowsResult(s, error) ==
    IF s.running = <<>> THEN s
    ELSE [Marks(s, {Head(s.running)}, Ended(error)) EXCEPT !.running = Tail(@)]

GivesUp(s) == [Marks(s, ToSet(s.running), "error") EXCEPT !.running = <<>>]

Shows(s, e) ==
    CASE e.kind = "text" -> [s EXCEPT !.buffer = Append(@, e.of)]
      [] e.kind = "retry" -> Adds([s EXCEPT !.buffer = <<>>], TextBubble("system", <<>>))
      [] e.kind = "notice" -> Adds(Flushed(s), TextBubble("system", <<>>))
      [] e.kind = "steered" -> Adds(Flushed(s), TextBubble("user", <<>>))
      [] e.kind = "start" -> ShowsStart(s, e.of)
      [] e.kind = "running" -> ShowsAt(s, e.of, "running")
      [] e.kind = "finished" -> ShowsAt(s, e.of[1], Ended(e.of[2]))
      [] e.kind = "result" -> ShowsResult(s, e.of)
      [] e.kind = "permission" -> [s EXCEPT !.prompt = e.of]
      [] e.kind = "interrupted" -> Adds(GivesUp(Flushed(s)), TextBubble("system", <<>>))
      [] e.kind = "error" -> GivesUp(s)
      [] e.kind = "done" -> Flushed(s)
      [] OTHER -> s

\* The event loop waits while a prompt is open.
Receives ==
    /\ screen.open /\ screen.prompt = 0 /\ channel # <<>>
    /\ screen' = Shows(screen, Head(channel)) /\ channel' = Tail(channel)
    /\ UNCHANGED <<turn, steering, cancelled, told, kept, late>>

\* poll_stream_key: Ctrl+C, or Enter after a text.
Interrupts ==
    /\ screen.open /\ screen.prompt = 0 /\ turn.at # "returned" /\ ~cancelled
    /\ cancelled' = TRUE
    /\ UNCHANGED <<turn, channel, screen, steering, told, kept, late>>

Steers ==
    /\ screen.open /\ screen.prompt = 0 /\ turn.at # "returned"
    /\ Spare /\ steering' = steering + 1
    /\ screen' = [screen EXCEPT !.typings = @ + 1]
    /\ UNCHANGED <<turn, channel, cancelled, told, kept, late>>

PromptCloses ==
    /\ screen.open /\ screen.prompt # 0 /\ UNCHANGED <<kept, late>>
    /\ screen' = [screen EXCEPT !.prompt = 0]

\* A turn that was told to stop may not wait any more.
Waits == turn.at = "asking"

\* The prompt's keys: y and Enter, or a.
Allows ==
    /\ PromptCloses /\ UNCHANGED <<steering, cancelled>>
    /\ IF Waits
       THEN /\ turn' = [turn EXCEPT !.at = "batch", !.calls[NextUp] = Doing(@)]
            /\ channel' = Append(channel, Report("running", NextUp)) /\ Tells(NextUp, "running")
       ELSE UNCHANGED <<turn, channel, told>>

Refused ==
    turn' = IF Waits THEN [turn EXCEPT !.at = "batch", !.calls[NextUp] = "error"] ELSE turn

\* n and Esc, or the program is told to end: the turn ends too.
Denies ==
    /\ PromptCloses /\ Refused /\ cancelled' = TRUE /\ UNCHANGED <<channel, steering, told>>

\* A text and Enter: the rest of the batch is skipped for it.
DeniesWithMessage ==
    /\ PromptCloses /\ Refused
    /\ steering' = steering + 1 /\ UNCHANGED <<channel, cancelled, told>>

\* A key or a draw fails: the turn is dropped where it is, and the chat ends.
TerminalGone ==
    /\ screen.open /\ screen' = [Screen EXCEPT !.open = FALSE]
    /\ turn' = Engine("returned") /\ channel' = <<>> /\ steering' = 0
    /\ UNCHANGED cancelled /\ told' = <<>> /\ kept' = {} /\ late' = {}

ChatNext ==
    \/ Delivers \/ (\E notice \in BOOLEAN : AsksModel(notice))
    \/ Says \/ (\E kind \in {"reads", "acts"} : Announces(kind)) \/ AttemptFails
    \/ StreamBreaks \/ StreamInterrupted \/ Responds \/ StopsBetween \/ FailsBetween
    \/ Starts \/ (\E i \in Batch, error \in BOOLEAN : Finishes(i, error))
    \/ AsksPermission \/ AskCancelled \/ Skips \/ BatchEnds
    \/ Receives \/ Interrupts \/ Steers
    \/ Allows \/ Denies \/ DeniesWithMessage \/ TerminalGone

ChatSpec == ChatInit /\ [][ChatNext]_chatVars

-----------------------------------------------------------------------------

\* The screen has shown all that the turn said.
Drained == screen.open /\ channel = <<>> /\ screen.prompt = 0

Shown == FlattenSeq([b \in DOMAIN screen.bubbles |-> screen.bubbles[b].pieces])
ToolBubbles == SelectSeq(screen.bubbles, LAMBDA b : b.by = "tool")

\* Every call has its bubble, with what became of it, whatever ran beside it.
CallsAreShown ==
    Drained => [b \in DOMAIN ToolBubbles |-> ToolBubbles[b].status] = told

\* Text is shown once and in order, and when the turn is over it is the text of
\* the conversation, but for text that came after a call of its response.  That
\* waits in the buffer until something flushes it, and a turn that ends otherwise
\* than by itself or by the user leaves it there, for the next turn to empty
\* (chat.rs:745).
TextIsShown ==
    /\ LET all == Shown \o screen.buffer IN \A i, j \in DOMAIN all : i < j => all[i] < all[j]
    /\ Drained /\ turn.at = "returned" =>
          /\ ToSet(Shown) \subseteq kept /\ kept \ late \subseteq ToSet(Shown)
          /\ turn.how \in {"done", "interrupted"} => screen.buffer = <<>>

\* Text leaves the screen, where the buffer is drawn too, with the chat or at a retry
\* only, and then what was in no bubble yet.  The comment at chat.rs:1035 says that a
\* retry cannot discard rendered output: that is so of text before a call, and not
\* so of text after the last call of the response before, which the conversation
\* keeps and the screen loses.
TextStays ==
    LET on == ToSet(Shown \o screen.buffer)
        gone == on \ ToSet(Shown' \o screen'.buffer)
    IN  screen'.open /\ gone # {} =>
            /\ Head(channel).kind = "retry" /\ gone = ToSet(screen.buffer)
            /\ gone \intersect kept' \subseteq late

\* The prompt is of the call the turn waits with, and nothing runs beside it;
\* only a turn that was told to end may have gone on.
PromptIsForTheCall ==
    screen.open /\ screen.prompt # 0 /\ ~cancelled =>
        Waits /\ screen.prompt = Call(NextUp) /\ UnderWay = {}
=============================================================================
