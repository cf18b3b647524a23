----------------------------- MODULE MCRelease -----------------------------
(* Releasing a host: the manager (re)starts with one claim bound to its    *)
(* host -- finalizers on both, host Reserved and Bound, powered on as the  *)
(* claim asks -- and the user may delete the claim at any point after.     *)
EXTENDS Metal

MCClaimHost == [c \in Claims |-> CHOOSE h \in Hosts : TRUE]
MCClaimSpec == [c \in Claims |-> [power |-> "On", ignition |-> FALSE]]

TheClaim == CHOOSE c \in Claims : TRUE

BoundHost == [claimRef |-> TheClaim, power |-> "On", finalizer |-> TRUE,
              state |-> "Reserved", phase |-> "Bound", powerState |-> "On"]

MCInit ==
    /\ StoreInitFrom({BoundHost},
         [c \in Claims |-> [life |-> "live", finalizer |-> TRUE, phase |-> "Bound"]],
         [c \in Claims |-> [life |-> "live", finalizer |-> FALSE, state |-> "Created"]],
         [c \in Claims |-> "Created"], NoClaim)
    /\ ClaimInit
    /\ HostInitFrom({"On"}, {FALSE})

MCSpec == MCInit /\ [][MetalNext]_metalVars /\ MetalFairness

=============================================================================
