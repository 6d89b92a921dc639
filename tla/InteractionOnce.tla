---------------------------- MODULE InteractionOnce ----------------------------
(***************************************************************************)
(* What mediation promises to a reader of the durable log                  *)
(* (docs/architecture/mediation.md, event-model.md:60): an interaction     *)
(* appears at most once, is resolved at most once, and a resolution is     *)
(* never replaced by another one.  `fate` is the log's view of each        *)
(* interaction; a resolution may become visible before its request.        *)
(***************************************************************************)

CONSTANT Ids

VARIABLE fate

Outcomes == {"answered", "timed_out", "cancelled"}

Init == fate = [i \in Ids |-> "absent"]

Appear(i) ==
  /\ fate[i] = "absent"
  /\ fate' = [fate EXCEPT ![i] = "pending"]

Settle(i) ==
  /\ fate[i] \in {"absent", "pending"}
  /\ \E o \in Outcomes : fate' = [fate EXCEPT ![i] = o]

Next == \E i \in Ids : Appear(i) \/ Settle(i)

Spec == Init /\ [][Next]_fate

=============================================================================
