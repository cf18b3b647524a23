------------------------------- MODULE HostBMC -------------------------------
(***************************************************************************)
(* One host's reconcile against its BMC: the half of the host controller  *)
(* (internal/controller/metal/baremetalhost_controller.go) that talks to   *)
(* internal/bmc.  A pass reads the host from the informer cache, creates   *)
(* the BMC client the host's spec.bmc.type names, patches the status with  *)
(* GetSystemInfo (the NIC and processor lists merged by ID into the copy   *)
(* read, and the observed power state), then ensurePowerState issues       *)
(* PowerOn or PowerOff on a mismatch with spec.power.                      *)
(*                                                                         *)
(* The two backends differ in how a power command takes effect.            *)
(* RedfishBMC sends a ComputerSystem.Reset (On, GracefulShutdown): the BMC *)
(* accepts it and the machine changes later.  RedfishLocalBMC PATCHes the  *)
(* system's PowerState, which the local endpoint applies at once.          *)
(*                                                                         *)
(* The state/phase steps of the same pass, initializeHost's forcing of     *)
(* spec.power Off and the claim controller's power patch are              *)
(* HostReconciler's and ClaimReconciler's.  Here they are the environment  *)
(* changing spec.power (DesiredPowerChange); they write no list.           *)
(***************************************************************************)
EXTENDS Naturals, Sequences, SequencesExt, NICMerge

CONSTANTS
    IDs,             \* NIC / processor IDs the BMC may report
    Data,            \* what an entry carries besides its ID (MACs, CPU facts)
    InitialLists,    \* the BMC's lists when the host is created
    BMCTypes,        \* the values spec.bmc.type may hold
    Credentials,     \* the keys of the BMC access secret's data
    MaxChanges,      \* bound on changes of the BMC's lists
    MaxPowerChanges, \* bound on changes of spec.power by the other writers
    MaxFailures      \* bound on failed BMC calls

Kinds == {"nic", "processor"}

PowerStates == {"On", "Off"}

Entry == [id : IDs, data : Data]

\* A list the BMC reports: its collection members, one per ID.
MemberLists == {s \in SeqOf(Entry, Cardinality(IDs)) :
                  \A i, j \in DOMAIN s : i # j => s[i].id # s[j].id}

ASSUME InitialLists \subseteq [Kinds -> MemberLists]

\* The fields of a host the pass reads or writes.  The lists and the
\* powerState are status; power is spec.power.
HostRecord == [nic : Seq(Entry), processor : Seq(Entry),
               powerState : PowerStates \cup {""}, power : PowerStates]

StatusFields == {"nic", "processor", "powerState"}

VARIABLES
    bmcLists,     \* per kind, the members the BMC's system reports
    machine,      \* the system behind the BMC: its power, and the Reset
                  \* requests the BMC accepted and has not carried out
    bmcType,      \* spec.bmc.type (never written by any controller)
    host,         \* the persisted host
    cache,        \* the informer's copy of the host
    unseen,       \* a write the watch has not delivered yet
    queued,       \* the host's key is in the work queue
    pc,           \* "idle", "got" (holds a copy), "power" (status patched)
    local,        \* the worker's copy: read from the cache, then the
                  \* server's answer to the status patch
    changes,
    powerChanges,
    failures

vars == <<bmcLists, machine, bmcType, host, cache, unseen, queued, pc, local,
          changes, powerChanges, failures>>

NoCopy == [nic |-> <<>>, processor |-> <<>>, powerState |-> "", power |-> "Off"]

\* A host as created: no status, its create event queued.
Init ==
    /\ bmcLists \in InitialLists
    /\ machine \in [power : PowerStates, pending : {{}}]
    /\ bmcType \in BMCTypes
    /\ host \in {[NoCopy EXCEPT !.power = p] : p \in PowerStates}
    /\ cache = host
    /\ unseen = FALSE
    /\ queued = TRUE
    /\ pc = "idle"
    /\ local = NoCopy
    /\ changes = 0 /\ powerChanges = 0 /\ failures = 0

-----------------------------------------------------------------------------
(* The BMC clients (internal/bmc)                                          *)

\* createBMCClient: RedfishLocal needs only the address; Redfish reads
\* the access secret and needs its username and password.  Any other type,
\* or a missing key, fails every pass alike.
BMCClientOK(t) ==
    \/ t = "RedfishLocal"
    \/ t = "Redfish" /\ {"username", "password"} \subseteq Credentials

\* RedfishBMC.GetSystemInfo: the system with the host's systemID, its
\* power state, and each list built by the by-ID merge from empty.
RedfishGetSystemInfo ==
    [nic |-> MergeByID(<<>>, bmcLists["nic"]),
     processor |-> MergeByID(<<>>, bmcLists["processor"]),
     powerState |-> machine.power]

\* RedfishLocalBMC.GetSystemInfo: the same code.
RedfishLocalGetSystemInfo ==
    [nic |-> MergeByID(<<>>, bmcLists["nic"]),
     processor |-> MergeByID(<<>>, bmcLists["processor"]),
     powerState |-> machine.power]

GetSystemInfo(t) ==
    IF t = "Redfish" THEN RedfishGetSystemInfo ELSE RedfishLocalGetSystemInfo

\* RedfishBMC.PowerOn / PowerOff: system.Reset(On) or
\* Reset(GracefulShutdown); the BMC accepts the request.
RedfishReset(m, p) == [m EXCEPT !.pending = @ \cup {p}]

\* RedfishLocalBMC.PowerOn / PowerOff: system.PowerState = p, then
\* system.Patch; the local endpoint sets the power.
RedfishLocalPatchPower(m, p) == [m EXCEPT !.power = p]

SetPower(t, m, p) ==
    IF t = "Redfish" THEN RedfishReset(m, p) ELSE RedfishLocalPatchPower(m, p)

\* Mutant: the PowerOff branch of ensurePowerState left out.
EnsurePowerOnOnly(t, l, m) ==
    IF l.power = "On" /\ l.powerState = "Off" THEN SetPower(t, m, "On") ELSE m

\* ensurePowerState: PowerOn when spec.power is On and the status says
\* Off, PowerOff when spec.power is Off and the status says On.
EnsurePower(t, l, m) ==
    CASE l.power = "On" /\ l.powerState = "Off" -> SetPower(t, m, "On")
      [] l.power = "Off" /\ l.powerState = "On" -> SetPower(t, m, "Off")
      [] OTHER                                  -> m

-----------------------------------------------------------------------------
(* The machine and the other writers                                      *)

\* The BMC carries out an accepted Reset; requests are carried out in no
\* guaranteed order.
BMCCarryOutReset(p) ==
    /\ p \in machine.pending
    /\ machine' = [power |-> p, pending |-> machine.pending \ {p}]
    /\ UNCHANGED <<bmcLists, bmcType, host, cache, unseen, queued, pc, local,
                   changes, powerChanges, failures>>

\* The BMC's inventory changes.
HardwareChange(k, l) ==
    /\ changes < MaxChanges
    /\ l # bmcLists[k]
    /\ bmcLists' = [bmcLists EXCEPT ![k] = l]
    /\ changes' = changes + 1
    /\ UNCHANGED <<machine, bmcType, host, cache, unseen, queued, pc, local,
                   powerChanges, failures>>

\* Another writer patches spec.power: the claim controller copying the
\* claim's power, or initializeHost forcing an unclaimed host Off.
DesiredPowerChange(p) ==
    /\ powerChanges < MaxPowerChanges
    /\ p # host.power
    /\ host' = [host EXCEPT !.power = p]
    /\ unseen' = TRUE
    /\ powerChanges' = powerChanges + 1
    /\ UNCHANGED <<bmcLists, machine, bmcType, cache, queued, pc, local,
                   changes, failures>>

-----------------------------------------------------------------------------
(* The informer and the host controller                                    *)

\* The informer delivers the latest write: the cache takes it and the
\* For(&BareMetalHost{}) handler enqueues the host.
SyncHost ==
    /\ unseen
    /\ cache' = host
    /\ unseen' = FALSE
    /\ queued' = TRUE
    /\ UNCHANGED <<bmcLists, machine, bmcType, host, pc, local, changes,
                   powerChanges, failures>>

\* The informer's periodic resync re-delivers the cached host as an
\* update, which For() enqueues like any other.
Resync ==
    /\ ~queued
    /\ queued' = TRUE
    /\ UNCHANGED <<bmcLists, machine, bmcType, host, cache, unseen, pc, local,
                   changes, powerChanges, failures>>

\* Reconcile: r.Get from the cache.  The queue never hands one key to two
\* workers; a key added while it is processed waits in the queue.
HostGet ==
    /\ pc = "idle" /\ queued
    /\ queued' = FALSE
    /\ pc' = "got"
    /\ local' = cache
    /\ UNCHANGED <<bmcLists, machine, bmcType, host, cache, unseen, changes,
                   powerChanges, failures>>

\* A BMC call fails (GetSystemInfo, PowerOn, PowerOff, or the
\* connection): reconcile returns the error and the key is requeued with
\* backoff.
HostBMCFail ==
    /\ pc \in {"got", "power"}
    /\ failures < MaxFailures
    /\ failures' = failures + 1
    /\ pc' = "idle"
    /\ local' = NoCopy
    /\ queued' = TRUE
    /\ UNCHANGED <<bmcLists, machine, bmcType, host, cache, unseen, changes,
                   powerChanges>>

\* The JSON merge patch client.MergeFrom(hostBase) sends to the status
\* subresource: each status field the copy changed replaces the persisted
\* one (a list is sent whole); spec and unchanged fields are untouched.
StatusPatch(persisted, base, modified) ==
    [f \in DOMAIN persisted |->
        IF f \in StatusFields /\ modified[f] # base[f] THEN modified[f]
                                                     ELSE persisted[f]]

\* Mutant: hostBase copied after the lists were merged, so the patch is
\* empty.
HostPatchSystemInfoFromMerged ==
    /\ pc = "got"
    /\ BMCClientOK(bmcType)
    /\ pc' = "power"
    /\ UNCHANGED <<bmcLists, machine, bmcType, host, cache, unseen, queued,
                   local, changes, powerChanges, failures>>

\* createBMCClient, then updateHostStatusFromSystemInfo: the merge of each
\* list into the copy read, powerState from the system info, and the
\* Status().Patch, whose answer (the persisted host) replaces the copy.
\* A client that cannot be created fails the pass before any write, every
\* time: the pass never gets further.
HostPatchSystemInfo ==
    /\ pc = "got"
    /\ BMCClientOK(bmcType)
    /\ LET info     == GetSystemInfo(bmcType)
           modified == [local EXCEPT
                          !.nic = UpdateHostNICsFromSystemInfo(local.nic, info.nic),
                          !.processor = UpdateHostProcessors(local.processor, info.processor),
                          !.powerState = info.powerState]
       IN  host' = StatusPatch(host, local, modified)
    /\ unseen' = (unseen \/ host' # host)
    /\ local' = host'
    /\ pc' = "power"
    /\ UNCHANGED <<bmcLists, machine, bmcType, cache, queued, changes,
                   powerChanges, failures>>

\* ensurePowerState on the copy the status patch returned; the pass goes
\* on to ensureHostStatus (HostReconciler), which this module leaves out.
HostEnsurePowerState ==
    /\ pc = "power"
    /\ machine' = EnsurePower(bmcType, local, machine)
    /\ pc' = "idle"
    /\ local' = NoCopy
    /\ UNCHANGED <<bmcLists, bmcType, host, cache, unseen, queued, changes,
                   powerChanges, failures>>

Next ==
    \/ \E p \in PowerStates : BMCCarryOutReset(p) \/ DesiredPowerChange(p)
    \/ \E k \in Kinds, l \in MemberLists : HardwareChange(k, l)
    \/ SyncHost
    \/ Resync
    \/ HostGet
    \/ HostBMCFail
    \/ HostPatchSystemInfo
    \/ HostEnsurePowerState

\* One worker per host and the informer run freely; the resync period
\* (the manager's SyncPeriod, controller-runtime's default: nothing in
\* the repository sets it) keeps coming round; a BMC carries out a Reset
\* it accepted.
Fairness ==
    /\ WF_vars(SyncHost)
    /\ WF_vars(Resync)
    /\ WF_vars(HostGet)
    /\ WF_vars(HostPatchSystemInfo)
    /\ WF_vars(HostEnsurePowerState)
    /\ \A p \in PowerStates : WF_vars(BMCCarryOutReset(p))

Spec == Init /\ [][Next]_vars /\ Fairness

-----------------------------------------------------------------------------
(* Properties                                                              *)

\* The hand-written merge loops (updateHostNICsFromSystemInfo, the
\* processor loop, and GetSystemInfo's own) compute the merge the spec
\* states: merging any report of up to MaxListLen entries -- duplicate IDs
\* included -- into the list the host's status holds gives the reference
\* result.
MaxListLen == 2

MergeMatchesReference ==
    \A k \in Kinds : \A i \in SeqOf(Entry, MaxListLen) :
        MergeByID(host[k], i) = MergeReference(host[k], i)

\* However reconciles, stale cache reads, failed BMC calls and hardware
\* changes interleave, the persisted lists never hold two entries with one
\* ID -- so the list stays bounded by the IDs the BMC ever reported.
StatusIDsUnique ==
    \A k \in Kinds : \A i, j \in DOMAIN host[k] :
        i # j => host[k][i].id # host[k][j].id

\* Once the BMC's lists stop changing, every entry it reports is
\* eventually in the host's status, with the reported data, and stays
\* there: the resync brings a reconcile round even when no event does.
InventoryRecorded ==
    <>[](\A k \in Kinds : ToSet(GetSystemInfo(bmcType)[k]) \subseteq ToSet(host[k]))

\* Section 4.1 (c), with either backend: once the other writers stop
\* changing spec.power, the machine ends, for good, in the desired power
\* state with no Reset outstanding, and status.powerState reports it.  A
\* Redfish Reset is carried out after the pass that sent it has ended, and
\* a graceful shutdown still pending when spec.power turns On again is
\* seen as On by the next pass, which sends nothing.  The host's watch
\* raises no event when the machine changes, so only a resync brings the
\* pass that corrects it.
PowerConverges ==
    <>[](/\ machine.pending = {}
         /\ machine.power = host.power
         /\ host.powerState = machine.power)

=============================================================================
