--------------------------- MODULE HostReconciler ---------------------------
(***************************************************************************)
(* BareMetalHostReconciler (internal/controller/metal/                     *)
(* baremetalhost_controller.go) and the machine behind the BMC.           *)
(*                                                                         *)
(* reconcile runs updateHostStatusFromSystemInfo, ensurePowerState and     *)
(* ensureHostStatus (initializeHost, then the status patch) in this order. *)
(* hpc[h] is the step the worker of h is at, hlocal[h] its copy of the     *)
(* host (from the cache, replaced by the server's answer to each patch),   *)
(* htarget[h] the state determineTargetHostStatus computed.                *)
(* machine[h] is the machine behind the BMC: its power state, whether a   *)
(* one-time PXE boot override is armed, and image, the claim whose         *)
(* ignition provisioned what it runs (NoClaim: none).                      *)
(***************************************************************************)
EXTENDS Store

VARIABLES hpc, hlocal, htarget, machine

hostVars == <<hpc, hlocal, htarget, machine>>

HostSteps == {"idle", "init", "status"}

\* After the system-info patch the copy is only the base of a spec.power
\* patch and of a state / phase patch: its powerState and finalizer never
\* reach a patch, and are forgotten.
HostView(r) == [r EXCEPT !.finalizer = FALSE, !.powerState = ""]

\* Reconcile returns; its copies die with it.
HostReturn(h) ==
    /\ hpc' = [hpc EXCEPT ![h] = "idle"]
    /\ hlocal' = [hlocal EXCEPT ![h] = NoCopy]
    /\ htarget' = [htarget EXCEPT ![h] = "Initial"]

\* Machines in power P with the boot override in B, running no claim's
\* ignition.
HostInitFrom(P, B) ==
    /\ hpc = [h \in Hosts |-> "idle"]
    /\ hlocal = [h \in Hosts |-> NoCopy]
    /\ htarget = [h \in Hosts |-> "Initial"]
    /\ machine \in [Hosts -> [power: P, bootOnce: B, image: {NoClaim}]]

HostInit == HostInitFrom(PowerStates, {FALSE})

HostTypeOK ==
    /\ hpc \in [Hosts -> HostSteps]
    /\ hlocal \in [Hosts -> HostRecord]
    /\ htarget \in [Hosts -> HostStates]
    /\ machine \in [Hosts -> [power: PowerStates, bootOnce: BOOLEAN,
                               image: Claims \cup {NoClaim}]]

\* determineTargetHostStatus with isHostReady returning true.
\* Mutation: any state but Initial is kept as it is.
DetermineTargetKeepsState(s) ==
    CASE s = "Initial" -> "Available"
      [] OTHER         -> s

DetermineTargetHostStatus(s) ==
    CASE s = "Initial"   -> "Available"
      [] s = "Available" -> "Available"
      [] OTHER           -> "Initial"

\* ensurePowerState: SetPXEBootOnce while Initial; PowerOn / PowerOff only
\* on a mismatch between spec.power and the observed status.powerState.
\* A power-on with the override armed (SetPXEBootOnce runs first) boots
\* from the network and is provisioned with the ignition in the ipxe
\* secret, consuming the override; one without it boots from disk, the
\* image last provisioned.
PowerAfter(l, m) ==
    CASE l.power = "On" /\ l.powerState = "Off"  -> "On"
      [] l.power = "Off" /\ l.powerState = "On"  -> "Off"
      [] OTHER                                  -> m.power

EnsurePowerState(l, m) ==
    LET on    == PowerAfter(l, m)
        armed == m.bootOnce \/ l.state = "Initial"
        boots == on = "On" /\ m.power = "Off"
    IN [power    |-> on,
        bootOnce |-> armed /\ ~boots,
        image    |-> IF boots /\ armed THEN ipxeSecret ELSE m.image]

\* Reconcile reads the host from the cache; the BMC client is created and
\* GetSystemInfo read; the status patch writes the observed power state;
\* then ensurePowerState.  Its BMC calls touch only the machine, which no
\* other worker reads, so they are taken in the same step, and so is the
\* target state ensureHostStatus computes from the copy.
HostUpdateStatusFromSystemInfo(h) ==
    /\ h \in hostQueue
    /\ hpc[h] = "idle"
    /\ LET local == hostCache[h]
           target == DetermineTargetHostStatus(host'[h].state)
       IN /\ WriteHost(h, MergePatch(host[h], local,
                          [local EXCEPT !.powerState = machine[h].power],
                          StatusFields))
          /\ hlocal' = [hlocal EXCEPT ![h] = HostView(host'[h])]
          /\ machine' = [machine EXCEPT ![h] = EnsurePowerState(host'[h], @)]
          /\ htarget' = [htarget EXCEPT ![h] = target]
          /\ hpc' = [hpc EXCEPT ![h] = IF target = "Initial" THEN "init"
                                                           ELSE "status"]
    /\ hostQueue' = hostQueue \ {h}
    /\ UNCHANGED <<claim, pxe, pxeUnseen, dhcp, ipxeSecret, hostCache, claimCache,
                   pxeCache, claimQueue, pxeQueue, failures>>

\* ensureHostStatus with target Initial: initializeHost sets an unclaimed
\* host's spec.power Off; the patch is sent (and its answer taken) whether
\* or not anything changed.
HostInitialize(h) ==
    /\ hpc[h] = "init"
    /\ LET l == hlocal[h]
       IN WriteHost(h, MergePatch(host[h], l,
                        IF l.claimRef = NoClaim THEN [l EXCEPT !.power = "Off"]
                                                ELSE l,
                        SpecFields))
    /\ hlocal' = [hlocal EXCEPT ![h] = HostView(host'[h])]
    /\ hpc' = [hpc EXCEPT ![h] = "status"]
    /\ UNCHANGED <<claim, pxe, pxeUnseen, dhcp, ipxeSecret, hostCache, claimCache,
                   pxeCache, hostQueue, claimQueue, pxeQueue,
                   failures, machine, htarget>>

\* The status patch: state = target, overridden to Reserved / Bound when
\* the copy has a claimRef, phase Unbound when it has none.
\* Mutations: phase always Unbound; state always the target, with no
\* Reserved override for a claimed host.
HostPatchStatusNoPhase(h) ==
    /\ hpc[h] = "status"
    /\ LET l == hlocal[h]
           modified == [l EXCEPT !.state = IF l.claimRef # NoClaim THEN "Reserved" ELSE htarget[h],
                                 !.phase = "Unbound"]
       IN WriteHost(h, MergePatch(host[h], l, modified, StatusFields))
    /\ HostReturn(h)
    /\ UNCHANGED <<claim, pxe, pxeUnseen, dhcp, ipxeSecret, hostCache, claimCache,
                   pxeCache, hostQueue, claimQueue, pxeQueue,
                   failures, machine>>

HostPatchStatusNoReserve(h) ==
    /\ hpc[h] = "status"
    /\ LET l == hlocal[h]
           modified == [l EXCEPT !.state = htarget[h],
                                 !.phase = IF l.claimRef # NoClaim THEN "Bound" ELSE "Unbound"]
       IN WriteHost(h, MergePatch(host[h], l, modified, StatusFields))
    /\ HostReturn(h)
    /\ UNCHANGED <<claim, pxe, pxeUnseen, dhcp, ipxeSecret, hostCache, claimCache,
                   pxeCache, hostQueue, claimQueue, pxeQueue,
                   failures, machine>>

HostPatchStatus(h) ==
    /\ hpc[h] = "status"
    /\ LET l == hlocal[h]
           bound == l.claimRef # NoClaim
           modified == [l EXCEPT !.state = IF bound THEN "Reserved" ELSE htarget[h],
                                 !.phase = IF bound THEN "Bound" ELSE "Unbound"]
       IN WriteHost(h, MergePatch(host[h], l, modified, StatusFields))
    /\ HostReturn(h)
    /\ UNCHANGED <<claim, pxe, pxeUnseen, dhcp, ipxeSecret, hostCache, claimCache,
                   pxeCache, hostQueue, claimQueue, pxeQueue,
                   failures, machine>>

\* A BMC or API call of a reconcile in flight fails: error, requeue.
HostFail(h) ==
    /\ hpc[h] # "idle"
    /\ failures < MaxFailures
    /\ failures' = failures + 1
    /\ HostReturn(h)
    /\ hostQueue' = hostQueue \cup {h}
    /\ UNCHANGED <<host, hostUnseen, rvHeld, claim, pxe, pxeUnseen, dhcp, ipxeSecret, hostCache, claimCache,
                   pxeCache, claimQueue, pxeQueue, machine>>

HostWork(h) ==
    \/ HostUpdateStatusFromSystemInfo(h) \/ HostInitialize(h) \/ HostPatchStatus(h)

HostNext(h) == HostWork(h) \/ HostFail(h)

=============================================================================
