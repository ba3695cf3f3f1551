------------------------ MODULE MCResponsesCursor ------------------------
(* ResponsesCursor on a small instance. *)
EXTENDS ResponsesCursor

=============================================================================
