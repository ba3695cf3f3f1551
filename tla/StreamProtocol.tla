--------------------------- MODULE StreamProtocol ---------------------------
(***************************************************************************)
(* What a provider's stream promises the turn loop, whatever its dialect:  *)
(* the calls of the response, each once and with whole arguments, then one *)
(* end.  A response that is whole is never turned into a failure, and one  *)
(* that is not is never passed off as complete.                            *)
(***************************************************************************)
EXTENDS Sequences, SequencesExt

CONSTANT Calls      \* what identifies a call of the response

VARIABLES
    begun,      \* the calls the server began
    whole,      \* the ones whose arguments arrived in full
    ended,      \* the server said that the response is over
    broken,     \* something is wrong with the response, or with its transport
    delivered,  \* the calls the turn loop received, in order
    outcome     \* how the stream ended for it

protocolVars == <<begun, whole, ended, broken, delivered, outcome>>

Init ==
    /\ begun = {} /\ whole = {} /\ ended = FALSE /\ broken = FALSE
    /\ delivered = <<>> /\ outcome = "open"

Arrives ==
    /\ begun \subseteq begun' /\ begun' \subseteq Calls
    /\ whole \subseteq whole' /\ whole' \subseteq begun'
    /\ (ended => ended') /\ (broken => broken')

Delivers ==
    /\ IsPrefix(delivered, delivered') /\ IsInjective(delivered')
    /\ ToSet(delivered') \subseteq whole'

Hear == outcome = "open" /\ outcome' = "open" /\ Arrives /\ Delivers

Finish ==
    /\ outcome = "open" /\ outcome' = "done"
    /\ Arrives /\ Delivers
    /\ ended' /\ ToSet(delivered') = begun'

Fail == outcome = "open" /\ outcome' = "failed" /\ Arrives /\ Delivers /\ broken'

\* The turn loop gave up on it: the stream just closes.
Cancel == outcome = "open" /\ outcome' = "cancelled" /\ Arrives /\ UNCHANGED delivered

\* What the reader meets after the end is nothing to the turn loop.
After == outcome # "open" /\ Arrives /\ UNCHANGED <<delivered, outcome>>

Next == Hear \/ Finish \/ Fail \/ Cancel \/ After

Spec == Init /\ [][Next]_protocolVars
=============================================================================
