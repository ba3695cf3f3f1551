------------------------------ MODULE WebFetch ------------------------------
(***************************************************************************)
(* The tool WebFetch (tools/web_fetch.rs, web_fetch/policy.rs): it goes    *)
(* where a page leads, looks up every host itself and connects only to     *)
(* what the lookup said, and shows the page up to a length.  What a name   *)
(* stands for may change at any time, and the user may interrupt.          *)
(***************************************************************************)
EXTENDS Naturals, Sequences, SequencesExt, FiniteSets

CONSTANTS
    Urls,           \* of one host
    Proper,         \* those with http or https, without credentials, and with no local name
    Addresses,      \* sets of addresses that a name may stand for
    Public,         \* the addresses that are public
    Pages,          \* bodies, as sequences of chunks of letters
    Width,          \* the bytes of a letter; "<" is one of a tag, which is not shown
    MaxRedirects,   \* 5
    MaxLength       \* max_length of the call, in letters

ASSUME FetchAssumption ==
    /\ Proper \subseteq Urls /\ MaxLength > 0 /\ MaxRedirects \in Nat
    /\ \A letter \in DOMAIN Width : Width[letter] \in 1..4

VARIABLES
    names,      \* what the host stands for now
    fetch,      \* the call
    asked,      \* the addresses that were connected to
    left        \* the user interrupted

fetchVars == <<names, fetch, asked, left>>

NoFetch == [step |-> "", url |-> CHOOSE u \in Urls : TRUE, hops |-> 0, pinned |-> {},
            page |-> <<>>, at |-> 0, body |-> <<>>, cut |-> FALSE, out |-> "", text |-> <<>>]

FetchInit ==
    fetch = NoFetch /\ asked = {} /\ left = FALSE /\ names = CHOOSE a \in Addresses : TRUE

Over(out) == fetch' = [fetch EXCEPT !.step = "over", !.out = out]

Fetches(url) ==
    /\ fetch.step \in {"", "over"} /\ left' = FALSE /\ asked' = {} /\ UNCHANGED names
    /\ fetch' = [NoFetch EXCEPT !.step = "look up", !.url = url]

\* An await takes what is ready, also when the user has interrupted.
FetchStops ==
    /\ left /\ fetch.step \in {"look up", "connect", "read"} /\ Over("interrupted")
    /\ UNCHANGED <<names, asked, left>>

\* (mutant) Only the first destination is judged.
JudgedFirst(url, addresses) ==
    url \in Proper /\ addresses # {} /\ (fetch.hops = 0 => addresses \subseteq Public)

\* All that the name stands for must be public.
Judged(url, addresses) == url \in Proper /\ addresses # {} /\ addresses \subseteq Public

\* validate_destination.
LooksUp ==
    /\ fetch.step = "look up" /\ UNCHANGED <<names, asked, left>>
    /\ IF Judged(fetch.url, names)
       THEN fetch' = [fetch EXCEPT !.step = "connect", !.pinned = names]
       ELSE Over("refused")

\* A redirection leads to the next lookup, a page is read; the rest is an error.
ConnectsTo(address) ==
    /\ fetch.step = "connect" /\ address \in fetch.pinned /\ asked' = asked \union {address}
    /\ UNCHANGED <<names, left>>
    /\ \/ Over("failed")
       \/ \E url \in Urls :
             IF fetch.hops = MaxRedirects THEN Over("too many")
             ELSE fetch' = [fetch EXCEPT !.step = "look up", !.url = url, !.hops = @ + 1]
       \/ \E page \in Pages :
             fetch' = [fetch EXCEPT !.step = "read", !.page = page]

Bytes(letters) == FoldLeft(LAMBDA n, letter : n + Width[letter], 0, letters)

\* The first bytes; a letter that is cut in two is none, and shown as a mark.
FirstBytes(letters, limit) ==
    LET whole == {k \in 0..Len(letters) : Bytes(SubSeq(letters, 1, k)) <= limit}
        last == CHOOSE k \in whole : \A j \in whole : j <= k
    IN  SubSeq(letters, 1, last) \o
        IF last < Len(letters) /\ Bytes(SubSeq(letters, 1, last)) < limit THEN <<"?">> ELSE <<>>

\* read_bounded_body.
ReadsChunk ==
    /\ fetch.step = "read" /\ fetch.at < Len(fetch.page) /\ UNCHANGED <<names, asked, left>>
    /\ LET chunk == fetch.page[fetch.at + 1]
           room == 4 * MaxLength - Bytes(fetch.body)
       IN  \/ Over("failed")
           \/ fetch' = IF Bytes(chunk) > room
                       THEN [fetch EXCEPT !.body = @ \o FirstBytes(chunk, room), !.cut = TRUE,
                                          !.at = Len(fetch.page)]
                       ELSE [fetch EXCEPT !.body = @ \o chunk, !.at = @ + 1]

Displayed(letters) == SelectSeq(letters, LAMBDA letter : letter # "<")

\* The text, and the words that it is not all.
ReadEnds ==
    /\ fetch.step = "read" /\ fetch.at = Len(fetch.page) /\ UNCHANGED <<names, asked, left>>
    /\ LET text == Displayed(fetch.body)
           long == Len(text) > MaxLength
       IN  fetch' = [fetch EXCEPT !.step = "over", !.out = "page", !.cut = @ \/ long,
                                  !.text = IF long THEN SubSeq(text, 1, MaxLength) ELSE text]

NamesChange ==
    /\ names' \in Addresses /\ names' # names /\ fetch.step # "" /\ UNCHANGED <<fetch, asked, left>>

UserLeaves ==
    /\ ~left /\ fetch.step \in {"look up", "connect", "read"} /\ left' = TRUE
    /\ UNCHANGED <<names, fetch, asked>>

FetchNext ==
    \/ (\E url \in Urls : Fetches(url)) \/ FetchStops \/ LooksUp
    \/ (\E address \in fetch.pinned : ConnectsTo(address))
    \/ ReadsChunk \/ ReadEnds \/ NamesChange \/ UserLeaves

FetchSpec == FetchInit /\ [][FetchNext]_fetchVars

-----------------------------------------------------------------------------

\* However the call is led, and whatever the names stand for meanwhile, it connects
\* only to public addresses, and follows so many redirections.
ConnectsToPublic == asked \subseteq Public /\ fetch.hops <= MaxRedirects

\* And what it shows of a page is short enough, and it shows all of it or says that it
\* does not.
FetchIsBounded ==
    /\ ConnectsToPublic
    /\ fetch.out = "page" =>
          /\ Len(fetch.text) <= MaxLength
          /\ ~fetch.cut => fetch.text = Displayed(FlattenSeq(fetch.page))
=============================================================================
