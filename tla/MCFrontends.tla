----------------------------- MODULE MCFrontends -----------------------------
(* Instances of Frontends for TLC. *)
EXTENDS Frontends, TLC

CONSTANTS s1, s2

\* A session of an older build, with a message this one cannot read.
MCOldMessages == s1 :> <<Message(1, "plain"), Message(2, "alien")>>
MCOldArchives == s1 :> <<>>

NoBudget == [c \in Countable |-> 0]

\* One process that is told to end and fails to save; one among deletions; one
\* that compacts; two processes; two processes of which one compacts.
MCBudgets ==
    {[NoBudget EXCEPT !.said = 2, !.faults = 2, !.signals = 1],
     [NoBudget EXCEPT !.said = 1, !.faults = 1, !.deletions = 1, !.lines = 1],
     [NoBudget EXCEPT !.said = 2, !.faults = 1, !.compactions = 1],
     [NoBudget EXCEPT !.said = 2, !.lines = 1],
     [NoBudget EXCEPT !.said = 1, !.compactions = 1, !.lines = 1]}
=============================================================================
