------------------------------- MODULE MCBoot -------------------------------
(* Network boot and its cleanup: claims with an ignition and power On,    *)
(* the PXE controller serving their PXE objects.  The manager (re)starts  *)
(* either over settled hosts and claims yet to be created, or after the   *)
(* claims were deleted and their hosts released, their PXE objects (Ready, *)
(* with the PXE finalizer) and the ipxe secret left for the garbage        *)
(* collector and the PXE controller.                                      *)
EXTENDS BareMetal

\* Claims on distinct hosts while there are enough hosts.
MCClaimHost ==
    CHOOSE f \in [Claims -> Hosts] :
        Cardinality(Claims) <= Cardinality(Hosts) =>
            \A c1, c2 \in Claims : c1 # c2 => f[c1] # f[c2]

MCClaimSpec == [c \in Claims |-> [power |-> "On", ignition |-> TRUE]]

\* The manager (re)starts over hosts it has brought to Available, machines
\* off with the boot override the Initial pass armed.
SettledHost == [claimRef |-> NoClaim, power |-> "Off", finalizer |-> FALSE,
                state |-> "Available", phase |-> "Unbound", powerState |-> "Off"]

TheClaim == CHOOSE c \in Claims : TRUE

BeforeClaims == StoreInitFrom({SettledHost}, NoClaims, NoPXEs, NoDHCPs, NoClaim)

AfterRelease ==
    StoreInitFrom({SettledHost},
        [c \in Claims |-> [life |-> "gone", finalizer |-> FALSE, phase |-> "Bound"]],
        [c \in Claims |-> [life |-> "live", finalizer |-> TRUE, state |-> "Ready"]],
        [c \in Claims |-> "Created"],
        TheClaim)

MCInit ==
    /\ BeforeClaims \/ AfterRelease
    /\ ClaimInit
    /\ HostInitFrom({"Off"}, {TRUE})
    /\ PXEInit

MCSpec == MCInit /\ [][Next]_vars /\ Fairness

=============================================================================
