---------------------------- MODULE MCPXERelease ----------------------------
(* PXE cleanup: the manager (re)starts after a claim was deleted and its  *)
(* host released (Available, unclaimed, off); the claim's PXE, with the    *)
(* PXE finalizer, is still there for the garbage collector, and the ipxe  *)
(* secret holds the claim's ignition if it has one.                        *)
EXTENDS BareMetal

MCClaimHost == [c \in Claims |-> CHOOSE h \in Hosts : TRUE]

\* Whether the claim has spec.ignitionRef set.
Ignition == TRUE

\* A claim without spec.ignitionRef: its PXE never got to write a secret.
NoIgnition == FALSE

MCClaimSpec == [c \in Claims |-> [power |-> "On", ignition |-> Ignition]]

TheClaim == CHOOSE c \in Claims : TRUE

ReleasedHost == [claimRef |-> NoClaim, power |-> "Off", finalizer |-> FALSE,
                 state |-> "Available", phase |-> "Unbound", powerState |-> "Off"]

MCInit ==
    /\ StoreInitFrom({ReleasedHost},
         [c \in Claims |-> [life |-> "gone", finalizer |-> FALSE, phase |-> "Bound"]],
         [c \in Claims |-> [life |-> "live", finalizer |-> TRUE,
                            state |-> IF Ignition THEN "Ready" ELSE "Created"]],
         [c \in Claims |-> "Created"],
         IF Ignition THEN TheClaim ELSE NoClaim)
    /\ ClaimInit
    /\ HostInitFrom({"Off"}, {TRUE})
    /\ PXEInit

MCSpec == MCInit /\ [][Next]_vars /\ Fairness

=============================================================================
