--------------------------- MODULE MCSourceDelete ---------------------------
(* Two helpers are enough for an orphan and its successor to overlap; the  *)
(* properties include liveness, so no symmetry is declared.                *)
EXTENDS SourceDelete, TLC
=============================================================================
