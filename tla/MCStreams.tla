---------------------------- MODULE MCStreams -----------------------------
EXTENDS Streams

\* Every kind of frame a dialect has, with calls that are whole and in pieces,
\* usage that is partial, and each end.

Fail(status, type) == [status |-> status, type |-> type, too_long |-> TRUE]

MCFailures ==
    {Fail(413, Unsaid), Fail(529, Unsaid), Fail(400, "invalid_request_error"),
     Fail(Unsaid, "overloaded_error"), Fail(429, "insufficient_quota")}

Tokens(i, o, r, w) == [input |-> i, output |-> o, read |-> r, written |-> w]
Bare(kind) == [kind |-> kind, index |-> 0]
Piece(kind, i, id, part) == [kind |-> kind, index |-> i, id |-> id, part |-> part]
Reasoned(type, signature, payload) ==
    [kind |-> "reasoning", index |-> 0,
     detail |-> [type |-> type, signature |-> signature, payload |-> <<payload>>]]
Counted(kind, usage) == [kind |-> kind, index |-> 0, usage |-> usage]
Finish(reason) == [kind |-> "finish", index |-> 0, reason |-> reason]
Delta(reason) ==
    [kind |-> "delta", index |-> 0, usage |-> Tokens(Unsaid, 2, Unsaid, Unsaid), reason |-> reason]
Refusal(type) == [kind |-> "error", index |-> 0, failure |-> Fail(Unsaid, type)]

MCFrames == [
    chat |->
        {Bare(k) : k \in {"text", "done", "junk"}} \union
        {Reasoned("text", Unsaid, "p"), Reasoned("text", "key", "q")} \union
        {Piece("call", 0, "c", "open"), Piece("call", 0, "", "close"), Piece("call", 1, "", "whole")} \union
        {Finish(r) : r \in {"stop", "length", "content_filter"}} \union
        {Counted("usage", Tokens(3, 1, 4, Unsaid)), Refusal("rate_limit_exceeded")},
    messages |->
        {Bare(k) : k \in {"block", "text", "over", "done", "junk"}} \union
        {Piece("stop", i, "", "") : i \in 0..2} \union
        {Piece("call", 1, "c", ""), Piece("part", 1, "", "open"), Piece("part", 1, "", "close")} \union
        {Delta(r) : r \in {"end_turn", "max_tokens", "refusal"}} \union
        {Counted("start", Tokens(3, 1, Unsaid, Unsaid)), [Bare("block") EXCEPT !.index = 2],
         Refusal("invalid_request_error")},
    responses |->
        {Bare(k) : k \in {"text", "done", "junk", "incomplete"}} \union
        {Piece("call", 0, "c", "whole"), Piece("call", 1, "d", "open"), Piece("call", 2, "", "whole")} \union
        {Reasoned("item", Unsaid, "p"), Counted("over", Tokens(3, 1, 1, Unsaid)),
         Refusal("server_error")}]

MCLongest == [chat |-> 5, messages |-> 7, responses |-> 4]
=============================================================================
