------------------------------ MODULE MCTurn ------------------------------
(* Turn on small instances; the configurations give every constant. *)
EXTENDS Turn

=============================================================================
