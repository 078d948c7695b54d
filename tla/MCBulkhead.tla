----------------------------- MODULE MCBulkhead -----------------------------
(* The instance of Bulkhead for model checking.  Liveness is checked with  *)
(* the safety properties, so no symmetry is used.                          *)
EXTENDS Bulkhead
=============================================================================
