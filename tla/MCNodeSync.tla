----------------------------- MODULE MCNodeSync -----------------------------
(* Small instances of NodeSync for TLC. *)
EXTENDS NodeSync
=============================================================================
