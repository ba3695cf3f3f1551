------------------------------ MODULE History ------------------------------
(***************************************************************************)
(* repair_history of session.rs: a history saved by an older build, or by  *)
(* one that was killed inside a turn, is made one a provider accepts.      *)
(*                                                                         *)
(* An id is a sequence: <<"a">> is the id "a", <<"a", 2>> the id "a#2" of  *)
(* a call that was renamed, so that "starts with a#" is "extends <<a>>".   *)
(***************************************************************************)
EXTENDS Naturals, Sequences, SequencesExt, FiniteSets

CONSTANTS
    Savable,        \* the messages a build may have saved
    LongestHistory

VARIABLE history    \* what the session's rows hold

historyVars == <<history>>

Block(kind, id) == [kind |-> kind, id |-> id]

Message(role, blocks) == [role |-> role, blocks |-> blocks]

BlocksOf(m, kinds) == SelectSeq(m.blocks, LAMBDA b : b.kind \in kinds)

IsResultMessage(m) == BlocksOf(m, {"result", "lost"}) # <<>>

Lost(ids) == [i \in DOMAIN ids |-> Block("lost", ids[i])]

-----------------------------------------------------------------------------

\* (mutant) Only a result that names its call exactly is taken for its answer.
MatchingExactly(pending, id) ==
    IF \E i \in DOMAIN pending : pending[i] = id
    THEN CHOOSE i \in DOMAIN pending : pending[i] = id ELSE 0

\* Where in pending a result finds its call: by its id, else by the first
\* renamed from it, else nowhere (0).
Matching(pending, id) ==
    LET same == {i \in DOMAIN pending : pending[i] = id}
        renamed == {i \in DOMAIN pending : IsStrictPrefix(id, pending[i])}
        first(S) == CHOOSE i \in S : \A j \in S : i <= j
    IN  CASE same # {} -> first(same)
          [] same = {} /\ renamed # {} -> first(renamed)
          [] OTHER -> 0

KeepBlock(s, b) ==
    LET at == Matching(s.pending, b.id) IN
    CASE b.kind \notin {"result", "lost"} -> [s EXCEPT !.kept = Append(@, b)]
      [] b.kind \in {"result", "lost"} /\ at # 0 ->
            [pending |-> RemoveAt(s.pending, at),
             kept |-> Append(s.kept, [b EXCEPT !.id = s.pending[at]])]
      [] OTHER -> s

\* A message with results keeps the ones that answer, and says of every other
\* call that its result was lost.
Results(s, m) ==
    LET read == FoldLeft(KeepBlock, [pending |-> s.pending, kept |-> <<>>], m.blocks)
        kept == read.kept \o Lost(read.pending)
    IN  [s EXCEPT !.pending = <<>>,
                  !.repaired = IF kept = <<>> THEN @ ELSE Append(@, Message(m.role, kept))]

WithAnswers(s) ==
    IF s.pending = <<>> THEN s
    ELSE [s EXCEPT !.pending = <<>>,
                   !.repaired = Append(@, Message("user", Lost(s.pending)))]

\* An id no call of the history has yet.
Unused(id, seen) ==
    LET taken == {n \in 2..(Cardinality(seen) + 1) : Append(id, n) \in seen}
        free == (2..(Cardinality(seen) + 2)) \ taken
    IN  IF id \notin seen THEN id
        ELSE Append(id, CHOOSE n \in free : \A k \in free : n <= k)

RenameBlock(s, b) ==
    LET id == Unused(b.id, s.seen) IN
    IF b.kind = "use"
    THEN [seen |-> s.seen \union {id}, pending |-> Append(s.pending, id),
          renamed |-> Append(s.renamed, Block("use", id))]
    ELSE [s EXCEPT !.renamed = Append(@, b)]

Other(s, m) ==
    LET ready == WithAnswers(s)
        read == FoldLeft(RenameBlock,
                         [seen |-> ready.seen, pending |-> <<>>, renamed |-> <<>>], m.blocks)
    IN  [repaired |-> Append(ready.repaired, Message(m.role, read.renamed)),
         pending |-> read.pending, seen |-> read.seen]

RepairMessage(s, m) == IF IsResultMessage(m) THEN Results(s, m) ELSE Other(s, m)

Repair(messages) ==
    WithAnswers(FoldLeft(RepairMessage, [repaired |-> <<>>, pending |-> <<>>, seen |-> {}],
                      messages)).repaired

-----------------------------------------------------------------------------

HistoryInit == history = <<>>

\* A build may have saved anything: a turn may lack its end, its results, or all
\* but its last message.
Saved(m) ==
    /\ Len(history) < LongestHistory
    /\ history' = Append(history, m)

HistoryNext == \E m \in Savable : Saved(m)

HistorySpec == HistoryInit /\ [][HistoryNext]_historyVars

-----------------------------------------------------------------------------

Ids(m, kinds) == [i \in DOMAIN BlocksOf(m, kinds) |-> BlocksOf(m, kinds)[i].id]

IdsOf(messages, kinds) ==
    FoldLeft(LAMBDA ids, m : ids \o Ids(m, kinds), <<>>, messages)

\* What a provider accepts: no empty message, no id twice, and after a message
\* with calls one that answers exactly these.
Valid(messages) ==
    /\ \A i \in DOMAIN messages : messages[i].blocks # <<>>
    /\ IsInjective(IdsOf(messages, {"use"}))
    /\ \A i \in DOMAIN messages :
          LET calls == Ids(messages[i], {"use"})
              next == IF i < Len(messages)
                      THEN Ids(messages[i + 1], {"result", "lost"}) ELSE <<>>
          IN  ToSet(calls) = ToSet(next) /\ Len(calls) = Len(next)
    /\ messages # <<>> => Ids(messages[1], {"result", "lost"}) = <<>>

Bases(ids) == [i \in DOMAIN ids |-> SubSeq(ids[i], 1, 1)]

\* How many of the calls of a saved history had a result in the next message.
AnsweredIn(messages) ==
    LET answered(i) ==
            LET calls == Bases(Ids(messages[i], {"use"}))
                results == Bases(Ids(messages[i + 1], {"result", "lost"}))
                count(s, id) == Cardinality({k \in DOMAIN s : s[k] = id})
                least(n, k) == IF n < k THEN n ELSE k
            IN  IF IsResultMessage(messages[i]) THEN 0
                ELSE FoldSet(LAMBDA id, n : n + least(count(calls, id), count(results, id)),
                             0, ToSet(calls))
    IN  FoldSet(LAMBDA i, n : n + answered(i), 0, 1..(Len(messages) - 1))

\* Whatever a session's rows hold, resume gives the provider a history it
\* accepts; it says of a call that its result was lost only if no result was
\* saved after it, even where the call had to be renamed; it loses no text and no
\* call, and it changes nothing in a history that needs no repair, its own
\* repairs included (repair_history, session.rs).
RepairIsValid ==
    LET repaired == Repair(history)
        base(messages, kinds) == Bases(IdsOf(messages, kinds))
    IN  /\ Valid(repaired)
        /\ Repair(repaired) = repaired
        /\ Valid(history) => repaired = history
        /\ base(repaired, {"use"}) = base(history, {"use"})
        /\ base(repaired, {"text"}) = base(history, {"text"})
        /\ Len(IdsOf(repaired, {"result"})) = AnsweredIn(history)
=============================================================================
