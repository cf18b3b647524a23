----------------------------- MODULE MCTakeover -----------------------------
(* A second claim on a taken host: the manager (re)starts with one claim  *)
(* bound to its host, as in MCRelease, and the other claims, naming the   *)
(* same host, are created after and kept; no ignition, so no PXE worker. *)
EXTENDS Metal

MCClaimHost == [c \in Claims |-> CHOOSE h \in Hosts : TRUE]
MCClaimSpec == [c \in Claims |-> [power |-> "On", ignition |-> FALSE]]

TheClaim == CHOOSE c \in Claims : TRUE

BoundHost == [claimRef |-> TheClaim, power |-> "On", finalizer |-> TRUE,
              state |-> "Reserved", phase |-> "Bound", powerState |-> "On"]

MCInit ==
    /\ StoreInitFrom({BoundHost},
         [c \in Claims |-> IF c = TheClaim
                           THEN [life |-> "live", finalizer |-> TRUE, phase |-> "Bound"]
                           ELSE [life |-> "none", finalizer |-> FALSE, phase |-> ""]],
         [c \in Claims |-> IF c = TheClaim
                           THEN [life |-> "live", finalizer |-> FALSE, state |-> "Created"]
                           ELSE [life |-> "absent", finalizer |-> FALSE, state |-> ""]],
         [c \in Claims |-> IF c = TheClaim THEN "Created" ELSE "absent"],
         NoClaim)
    /\ ClaimInit
    /\ HostInitFrom({"On"}, {FALSE})

MCSpec == MCInit /\ [][MetalNext]_metalVars /\ MetalFairness

=============================================================================
