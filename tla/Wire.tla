-------------------------------- MODULE Wire --------------------------------
(***************************************************************************)
(* What a history becomes in a request of each dialect: convert_messages   *)
(* of openai_compat.rs and of openai_responses.rs, and the messages of     *)
(* anthropic.rs with their cache breakpoints.                              *)
(***************************************************************************)
EXTENDS History

\* What a request is made of besides the history.
Endpoints == [openrouter : BOOLEAN, replay : BOOLEAN]

\* The ids of a message's blocks of one kind.
Blocks(m, kind) == Ids(m, {kind})

ResultIds(m) == Ids(m, {"result", "lost"})

Item(kind, role, ids) ==
    [kind |-> kind, role |-> role, ids |-> ids, text |-> <<>>, images |-> <<>>,
     thoughts |-> <<>>, marked |-> FALSE]

-----------------------------------------------------------------------------
(* Chat completions *)

\* (mutant) A message with calls has no text.
ChatItemsBare(m, replay) ==
    IF Blocks(m, "use") # <<>> THEN <<Item("calls", "assistant", Blocks(m, "use"))>>
    ELSE [i \in DOMAIN ResultIds(m) |-> Item("result", "tool", <<ResultIds(m)[i]>>)]

\* A message is the one of its calls, or one for each result, or its text.
ChatItems(m, replay) ==
    LET text == Blocks(m, "text")
        images == Blocks(m, "image")
    IN  CASE Blocks(m, "use") # <<>> ->
                <<[Item("calls", "assistant", Blocks(m, "use")) EXCEPT !.text = text]>>
          [] Blocks(m, "use") = <<>> /\ ResultIds(m) # <<>> ->
                [i \in DOMAIN ResultIds(m) |-> Item("result", "tool", <<ResultIds(m)[i]>>)]
          [] Blocks(m, "use") = <<>> /\ ResultIds(m) = <<>> ->
                IF text \o images = <<>> /\ (~replay \/ Blocks(m, "reasoning") = <<>>) THEN <<>>
                ELSE <<[Item("text", m.role, <<>>) EXCEPT !.text = text, !.images = images]>>

\* An assistant's reasoning goes with the item its message became.
WithReasoning(m, items) ==
    IF m.role # "assistant" \/ items = <<>> THEN items
    ELSE [items EXCEPT ![Len(items)].thoughts = Blocks(m, "reasoning")]

\* Only OpenRouter gets reasoning back, or an endpoint that asks for its text.
ChatBody(messages, endpoint) ==
    LET items == FlattenSeq([i \in DOMAIN messages |->
                    WithReasoning(messages[i], ChatItems(messages[i], endpoint.replay))])
    IN  [i \in DOMAIN items |->
            IF endpoint.openrouter \/ endpoint.replay THEN items[i]
            ELSE [items[i] EXCEPT !.thoughts = <<>>]]

-----------------------------------------------------------------------------
(* Anthropic *)

WithoutReasoning(messages) ==
    LET stripped == [i \in DOMAIN messages |->
            [messages[i] EXCEPT !.blocks = SelectSeq(@, LAMBDA b : b.kind # "reasoning")]]
    IN  SelectSeq(stripped, LAMBDA m : m.blocks # <<>>)

\* The last block of each of the last two messages of the user.
Marked(messages) ==
    LET users == {i \in DOMAIN messages : messages[i].role = "user"}
    IN  {i \in users : Cardinality({j \in users : j >= i}) <= 2}

MessagesBody(messages) ==
    LET sent == WithoutReasoning(messages)
    IN  [i \in DOMAIN sent |-> [message |-> sent[i], marked |-> i \in Marked(sent)]]

-----------------------------------------------------------------------------
(* Responses *)

\* Its text, then calls, reasoning and results; what the server has of the
\* conversation it continues is left out.
ResponseItems(m, continuation) ==
    LET said == Blocks(m, "text") \o Blocks(m, "image")
        text == IF said = <<>> THEN <<>>
                ELSE <<[Item("text", m.role, <<>>) EXCEPT !.text = Blocks(m, "text"),
                                                         !.images = Blocks(m, "image")]>>
        other(b) ==
            CASE b.kind = "use" /\ ~continuation -> <<Item("calls", "assistant", <<b.id>>)>>
              [] b.kind = "reasoning" /\ ~continuation ->
                    <<[Item("reasoning", "assistant", <<>>) EXCEPT !.thoughts = <<b.id>>]>>
              [] b.kind \in {"result", "lost"} -> <<Item("result", "tool", <<b.id>>)>>
              [] OTHER -> <<>>
    IN  text \o FlattenSeq([i \in DOMAIN m.blocks |-> other(m.blocks[i])])

ResponsesBody(messages, continuation) ==
    FlattenSeq([i \in DOMAIN messages |-> ResponseItems(messages[i], continuation)])

-----------------------------------------------------------------------------

Concatenated(items, field(_)) == FlattenSeq([i \in DOMAIN items |-> field(items[i])])

Of(items, kind) ==
    Concatenated(SelectSeq(items, LAMBDA item : item.kind = kind), LAMBDA item : item.ids)

\* Between an item with calls and the last of their results is nothing else.
AnsweredAtOnce(items) ==
    \A i \in DOMAIN items : items[i].kind = "calls" =>
        \A k \in DOMAIN items[i].ids :
            \E j \in (i + 1)..Len(items) :
                /\ items[j].kind = "result" /\ items[j].ids = <<items[i].ids[k]>>
                /\ \A between \in (i + 1)..j :
                      items[between].kind \in {"result", "calls", "reasoning"}

\* No message of the engine mixes results with text.
Unmixed(messages) ==
    \A i \in DOMAIN messages :
        IsResultMessage(messages[i]) => \A k \in DOMAIN messages[i].blocks :
            messages[i].blocks[k].kind \in {"result", "lost"}

Complete(items, messages) ==
    /\ Of(items, "calls") = IdsOf(messages, {"use"})
    /\ Of(items, "result") = IdsOf(messages, {"result", "lost"})
    /\ Concatenated(items, LAMBDA item : item.text) = IdsOf(messages, {"text"})
    /\ AnsweredAtOnce(items)

\* Of a resumed history every dialect sends all texts, calls and results, in order,
\* each result right after its call; no reasoning reaches an endpoint that does not
\* take it; and Anthropic's limit of four cache breakpoints, one of them the system
\* prompt's, is kept (convert_messages of openai_compat.rs and of
\* openai_responses.rs, without_provider_reasoning and add_cache_breakpoints of
\* anthropic.rs).
RequestsSayEverything ==
    LET messages == Repair(history)
        sent == MessagesBody(messages)
    IN  Unmixed(messages) =>
        /\ \A endpoint \in Endpoints :
              /\ Complete(ChatBody(messages, endpoint), messages)
              /\ ~endpoint.openrouter /\ ~endpoint.replay =>
                    Concatenated(ChatBody(messages, endpoint), LAMBDA item : item.thoughts) = <<>>
        /\ Complete(ResponsesBody(messages, FALSE), messages)
        /\ \A kind \in {"use", "result", "lost", "text"} :
              IdsOf([i \in DOMAIN sent |-> sent[i].message], {kind}) = IdsOf(messages, {kind})
        /\ \A i \in DOMAIN sent : sent[i].message.blocks # <<>>
        /\ Cardinality({i \in DOMAIN sent : sent[i].marked}) <= 3

\* A session can go on whatever its rows hold: its history is repaired into one that
\* a provider accepts, and every dialect sends all of it (session.rs, api).
HistoryIsServable == history # <<>> => RepairIsValid /\ RequestsSayEverything
=============================================================================
