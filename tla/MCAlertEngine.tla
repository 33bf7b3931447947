--------------------------- MODULE MCAlertEngine ---------------------------
(***************************************************************************)
(* Instances of AlertEngine with one key, of every kind in turn: the keys  *)
(* share a sweep and its file and nothing else.                            *)
(***************************************************************************)
EXTENDS AlertEngine

=============================================================================
