------------------------------ MODULE MCMediation ------------------------------
(***************************************************************************)
(* TLC instances of Mediation: two native keys and two interaction ids, so *)
(* that ids share a key one after the other or hold two keys at once.      *)
(***************************************************************************)
EXTENDS Mediation, TLC

CONSTANTS k1, k2, i1, i2, w1, w2

\* Used by the safety run only.
Symmetry == Permutations(Ids) \cup Permutations(Keys)
=============================================================================
