----------------------------- MODULE MCTwoClaims -----------------------------
(* Contention: several claims that users create and keep, all naming the  *)
(* same host, against the host controller; no ignition, so no PXE worker. *)
EXTENDS Metal

MCClaimHost == [c \in Claims |-> CHOOSE h \in Hosts : TRUE]
MCClaimSpec == [c \in Claims |-> [power |-> "On", ignition |-> FALSE]]

=============================================================================
