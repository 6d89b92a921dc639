-------------------------- MODULE MCAdapterManager --------------------------
(***************************************************************************)
(* Small instances of AdapterManager for TLC.  Sessions and interactions   *)
(* are interchangeable: no definition compares two of them except for      *)
(* equality.                                                               *)
(***************************************************************************)
EXTENDS AdapterManager, TLC

Symmetry == Permutations(Sids) \cup Permutations(Ids)

=============================================================================
