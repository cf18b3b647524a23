----------------------------- MODULE MCHostBMC -----------------------------
(* One host, two possible IDs and two data values per list, either BMC    *)
(* type.  Two scenarios, each varying one half of the pass:               *)
(*  - inventory: a host as created on a Redfish BMC, its machine already   *)
(*    in the desired power state; the NIC list starts as none, one or two  *)
(*    entries and may change once to any list; spec.power does not change; *)
(*  - power: a host whose lists are recorded and stay as they are, with    *)
(*    any desired and observed power and either BMC type; spec.power may    *)
(*    change twice.                                                         *)
EXTENDS HostBMC

CONSTANTS i1, i2, d1, d2

MCIDs == {i1, i2}
MCData == {d1, d2}

\* The NICs start as none, one or two; the change may make them any
\* list (an entry updated, added, removed, or the members reordered).  The
\* processors (which do not hot-plug) are one fixed pair.
Processors == <<[id |-> i1, data |-> d1], [id |-> i2, data |-> d2]>>

MCInitialLists ==
    [nic : {<<>>, <<[id |-> i1, data |-> d1]>>, Processors},
     processor : {Processors}]

InventoryStart ==
    /\ bmcLists \in InitialLists
    /\ bmcType = "Redfish"
    /\ host \in {[NoCopy EXCEPT !.power = p] : p \in PowerStates}
    /\ machine = [power |-> host.power, pending |-> {}]
    /\ cache = host
    /\ unseen = FALSE
    /\ queued = TRUE
    /\ pc = "idle"
    /\ local = NoCopy
    /\ changes = 0 /\ powerChanges = MaxPowerChanges /\ failures = 0

RecordedNICs == <<[id |-> i1, data |-> d1]>>

PowerStart ==
    /\ bmcLists = [nic |-> RecordedNICs, processor |-> Processors]
    /\ machine \in [power : PowerStates, pending : {{}}]
    /\ bmcType \in BMCTypes
    /\ host \in {[nic |-> RecordedNICs, processor |-> Processors,
                  powerState |-> s, power |-> p] : s \in PowerStates, p \in PowerStates}
    /\ cache = host
    /\ unseen = FALSE
    /\ queued = TRUE
    /\ pc = "idle"
    /\ local = NoCopy
    /\ changes = MaxChanges /\ powerChanges = 0 /\ failures = 0

MCSpec == (InventoryStart \/ PowerStart) /\ [][Next]_vars /\ Fairness

=============================================================================
