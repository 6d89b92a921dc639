-------------------------- MODULE MCAppSupervisor --------------------------
(* Small instances of AppSupervisor for TLC. *)
EXTENDS AppSupervisor
=============================================================================
