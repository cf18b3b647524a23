----------------------------- MODULE MCOneClaim -----------------------------
(* Binding: fresh hosts as the inventory creates them (spec.power either  *)
(* way, the machine either way) and one claim on one of them that users   *)
(* create and keep, powered on without an ignition, against the host      *)
(* controller, with transient failures.                                   *)
EXTENDS Metal

MCClaimHost == [c \in Claims |-> CHOOSE h \in Hosts : TRUE]
MCClaimSpec == [c \in Claims |-> [power |-> "On", ignition |-> FALSE]]

=============================================================================
