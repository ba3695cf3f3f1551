----------------------------- MODULE ArchiveLog -----------------------------
(***************************************************************************)
(* What the session store promises of the archive of a session: it is a    *)
(* log.  While the session exists its archive grows at its end; when the   *)
(* session is deleted it goes as a whole, and does not come back.          *)
(***************************************************************************)
EXTENDS SequencesExt

CONSTANT Sessions

VARIABLES life, log

Init ==
    /\ life \in [Sessions -> {"never", "live", "gone"}]
    /\ \A s \in Sessions : life[s] # "live" => log[s] = <<>>

Others(s) ==
    \A t \in Sessions \ {s} : life'[t] = life[t] /\ log'[t] = log[t]

Create(s) ==
    /\ life[s] = "never" /\ life'[s] = "live"
    /\ log'[s] = <<>>
    /\ Others(s)

Extend(s) ==
    /\ life[s] = "live" /\ life'[s] = "live"
    /\ IsPrefix(log[s], log'[s])
    /\ Others(s)

Delete(s) ==
    /\ life[s] = "live" /\ life'[s] = "gone"
    /\ log'[s] = <<>>
    /\ Others(s)

Next == \E s \in Sessions : Create(s) \/ Extend(s) \/ Delete(s)

Spec == Init /\ [][Next]_<<life, log>>
=============================================================================
