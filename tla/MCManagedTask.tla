--------------------------- MODULE MCManagedTask ---------------------------
(* One managed task; its worker processes are model values.                *)
EXTENDS ManagedTask
=============================================================================
