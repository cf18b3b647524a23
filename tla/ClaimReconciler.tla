--------------------------- MODULE ClaimReconciler ---------------------------
(***************************************************************************)
(* BareMetalHostClaimReconciler (internal/controller/metal/                *)
(* baremetalhostclaim_controller.go).  One worker per claim key: a key is  *)
(* never reconciled twice at once, different claims run in parallel.      *)
(*                                                                         *)
(* A reconcile is a sequence of steps, one per call that reaches the API   *)
(* server; between two steps other workers run.  cpc[c] is the step the    *)
(* worker of c is at, clocal[c] its in-memory copy of the host (read from  *)
(* the cache by r.Get, replaced by the server's answer after each          *)
(* r.Patch), ctaint[c] the status patch the delete path computed against  *)
(* its hostBase.                                                           *)
(* An error return puts the key back in the queue (rate-limited requeue).  *)
(***************************************************************************)
EXTENDS Store

VARIABLES cpc, clocal, ctaint

claimVars == <<cpc, clocal, ctaint>>

ClaimSteps == {"idle", "applyPXE", "bind", "power", "status",
               "taint", "unfinalizeHost", "unfinalizeClaim"}

\* The Tainted status patch of delete: its fields, and whether it carries a
\* resourceVersion (hostBase and the copy it is diffed with differ in it).
NoPatch == [conditional |-> FALSE, fields |-> Diff(NoCopy, NoCopy, {})]

ClaimInit ==
    /\ cpc = [c \in Claims |-> "idle"]
    /\ clocal = [c \in Claims |-> NoCopy]
    /\ ctaint = [c \in Claims |-> NoPatch]

ClaimTypeOK ==
    /\ cpc \in [Claims -> ClaimSteps]
    /\ clocal \in [Claims -> HostRecord]
    /\ \A c \in Claims :
          /\ ctaint[c].conditional \in BOOLEAN
          /\ DOMAIN ctaint[c].fields \subseteq StatusFields

\* The live path patches only spec.claimRef, spec.power and the finalizer,
\* with its copy as the base: the status fields of that copy never reach
\* a patch, and are forgotten.
SpecView(r) == [r EXCEPT !.state = "", !.phase = "", !.powerState = ""]

\* Reconcile picks key c off the queue and reads the claim from the cache.
Dequeue(c) ==
    /\ c \in claimQueue
    /\ cpc[c] = "idle"

\* return ctrl.Result{}, err with err # nil
Requeue(c) == claimQueue' = claimQueue \cup {c}

\* Reconcile returns; its copies die with it.
Return(c) ==
    /\ cpc' = [cpc EXCEPT ![c] = "idle"]
    /\ clocal' = [clocal EXCEPT ![c] = NoCopy]
    /\ ctaint' = [ctaint EXCEPT ![c] = NoPatch]

\* Reconcile: r.Get ... IgnoreNotFound.  The cache has no such claim.
ClaimNotFound(c) ==
    /\ Dequeue(c)
    /\ claimCache[c].life \in {"none", "gone"}
    /\ claimQueue' = claimQueue \ {c}
    /\ UNCHANGED <<host, hostUnseen, rvHeld, claim, pxe, pxeUnseen, dhcp, ipxeSecret, hostCache, claimCache,
                   pxeCache, hostQueue, pxeQueue, failures, claimVars>>

\* reconcile: PatchEnsureFinalizer(claim) added the finalizer: return.
\* The patch of a claim the server no longer has fails with NotFound and
\* the request is retried: a step that changes nothing, so not an action.
ClaimEnsureFinalizer(c) ==
    /\ Dequeue(c)
    /\ claimCache[c].life = "live"
    /\ ~claimCache[c].finalizer
    /\ Exists(c)
    /\ claim' = [claim EXCEPT ![c].finalizer = TRUE]
    /\ claimQueue' = claimQueue \ {c}
    /\ UNCHANGED <<host, hostUnseen, rvHeld, pxe, pxeUnseen, dhcp, ipxeSecret, hostCache, claimCache, pxeCache,
                   hostQueue, pxeQueue, failures, claimVars>>

\* The live path with the claim finalizer in place reads the host.
LivePath(c) ==
    /\ Dequeue(c)
    /\ claimCache[c].life = "live"
    /\ claimCache[c].finalizer

\* A host the cache shows claimed by another claim is an error: the request
\* is retried and nothing changes, so the two steps below are guarded by
\* HostFree instead of an action of its own.
\* Mutation: the check that the host is claimed by another claim is dropped.
HostFreeUnchecked(c) == TRUE

HostFree(c) == hostCache[ClaimHost[c]].claimRef \in {NoClaim, c}

\* PatchEnsureFinalizer(host) added the claim finalizer to the host: return.
ClaimEnsureHostFinalizer(c) ==
    /\ LivePath(c)
    /\ LET h == ClaimHost[c]
           local == hostCache[h]
       IN /\ HostFree(c)
          /\ ~local.finalizer
          /\ WriteHost(h, MergePatch(host[h], local,
                          [local EXCEPT !.finalizer = TRUE], {"finalizer"}))
    /\ claimQueue' = claimQueue \ {c}
    /\ UNCHANGED <<claim, pxe, pxeUnseen, dhcp, ipxeSecret, hostCache, claimCache, pxeCache,
                   hostQueue, pxeQueue, failures, claimVars>>

\* Mutation: the host's claim finalizer is not waited for.
ClaimGetHostUnprotected(c) ==
    /\ LivePath(c)
    /\ LET local == hostCache[ClaimHost[c]]
       IN /\ HostFree(c)
          /\ clocal' = [clocal EXCEPT ![c] = SpecView(local)]
    /\ cpc' = [cpc EXCEPT ![c] = "applyPXE"]
    /\ claimQueue' = claimQueue \ {c}
    /\ UNCHANGED <<host, hostUnseen, rvHeld, claim, pxe, pxeUnseen, dhcp, ipxeSecret, hostCache, claimCache,
                   pxeCache, hostQueue, pxeQueue, failures, ctaint>>

\* Both checks passed: keep the host copy and go on to the boot configs.
ClaimGetHost(c) ==
    /\ LivePath(c)
    /\ LET local == hostCache[ClaimHost[c]]
       IN /\ HostFree(c)
          /\ local.finalizer
          /\ clocal' = [clocal EXCEPT ![c] = SpecView(local)]
    /\ cpc' = [cpc EXCEPT ![c] = "applyPXE"]
    /\ claimQueue' = claimQueue \ {c}
    /\ UNCHANGED <<host, hostUnseen, rvHeld, claim, pxe, pxeUnseen, dhcp, ipxeSecret, hostCache, claimCache,
                   pxeCache, hostQueue, pxeQueue, failures, ctaint>>

\* applyPXEConfiguration: server-side apply of the PXE (creating it if need
\* be), then a status patch to state Created -- whatever state it had; then
\* applyDHCPConfiguration: server-side apply, status Created.  No
\* controller reads the DHCP object, so its two calls are taken in the same
\* step as the PXE's.
ClaimApplyBootConfigs(c) ==
    /\ cpc[c] = "applyPXE"
    /\ WritePXE(c, [pxe[c] EXCEPT !.life = IF @ = "absent" THEN "live" ELSE @,
                                   !.state = "Created"])
    /\ dhcp' = [dhcp EXCEPT ![c] = "Created"]
    /\ cpc' = [cpc EXCEPT ![c] = "bind"]
    /\ UNCHANGED <<host, hostUnseen, rvHeld, claim, ipxeSecret, hostCache, claimCache,
                   pxeCache, hostQueue, claimQueue, pxeQueue,
                   failures, clocal, ctaint>>

\* if host.Spec.ClaimRef == nil: patch spec.claimRef to this claim.  The
\* nil was read from the cache at ClaimGetHost; the patch carries no
\* resourceVersion, so it overwrites whatever the store holds by now.
ClaimBindHost(c) ==
    /\ cpc[c] = "bind"
    /\ LET h == ClaimHost[c] IN
       \/ /\ clocal[c].claimRef = NoClaim
          /\ WriteHost(h, MergePatch(host[h], clocal[c],
                          [clocal[c] EXCEPT !.claimRef = c], SpecFields))
          /\ clocal' = [clocal EXCEPT ![c] = SpecView(host'[h])]
       \/ /\ clocal[c].claimRef # NoClaim
          /\ UNCHANGED <<host, hostUnseen, rvHeld, clocal>>
    /\ cpc' = [cpc EXCEPT ![c] = "power"]
    /\ UNCHANGED <<claim, pxe, pxeUnseen, dhcp, ipxeSecret, hostCache, claimCache,
                   pxeCache, hostQueue, claimQueue, pxeQueue,
                   failures, ctaint>>

\* Power on only once the PXE is Ready when the claim has an ignition;
\* otherwise copy the claim's power to the host.  The PXE is read from the
\* cache; not finding it is an error.  The code checks host.Spec.ClaimRef
\* # nil first, but the copy is the answer to the bind patch or already
\* named this claim: the check always holds.
\* Mutations: power on without waiting for the PXE; wait for the PXE even
\* when the claim has no ignition (the IgnitionRef # nil test dropped).
GatedNever(c) == FALSE
GatedOnPowerOnly(c) == ClaimSpec[c].power = "On"

Gated(c) == ClaimSpec[c].power = "On" /\ ClaimSpec[c].ignition

ClaimEnsurePower(c) ==
    /\ cpc[c] = "power"
    /\ LET h == ClaimHost[c]
           setPower == WriteHost(h, MergePatch(host[h],
                          clocal[c], [clocal[c] EXCEPT !.power = ClaimSpec[c].power],
                          SpecFields))
       IN \/ /\ ~Gated(c)
             /\ setPower
          \/ /\ Gated(c)
             /\ pxeCache[c].life # "absent"
             /\ IF pxeCache[c].state = "Ready" THEN setPower ELSE UNCHANGED <<host, hostUnseen, rvHeld>>
    /\ cpc' = [cpc EXCEPT ![c] = "status"]
    /\ UNCHANGED <<claim, pxe, pxeUnseen, dhcp, ipxeSecret, hostCache, claimCache,
                   pxeCache, hostQueue, claimQueue, pxeQueue,
                   failures, clocal, ctaint>>

ClaimPXENotFound(c) ==
    /\ cpc[c] = "power"
    /\ Gated(c)
    /\ pxeCache[c].life = "absent"
    /\ Return(c)
    /\ Requeue(c)
    /\ UNCHANGED <<host, hostUnseen, rvHeld, claim, pxe, pxeUnseen, dhcp, ipxeSecret, hostCache, claimCache,
                   pxeCache, hostQueue, pxeQueue, failures>>

\* claim.Status.Phase = Bound.  The claim still exists: only this worker's
\* delete path removes its finalizer.
ClaimSetBound(c) ==
    /\ cpc[c] = "status"
    /\ claim' = [claim EXCEPT ![c].phase = "Bound"]
    /\ Return(c)
    /\ UNCHANGED <<host, hostUnseen, rvHeld, pxe, pxeUnseen, dhcp, ipxeSecret, hostCache, claimCache,
                   pxeCache, hostQueue, claimQueue, pxeQueue, failures>>

-----------------------------------------------------------------------------
(* delete: the claim has a deletionTimestamp.                              *)

\* Read the host (from the cache) and patch spec.claimRef to nil --
\* whichever claim it names.  The host now holds the server's answer; the
\* status patch to Tainted is diffed from it against hostBase, the copy
\* read before the unbind.  It carries a resourceVersion when the two
\* differ in it: the cache was behind, or the unbind changed the host.
ClaimUnbindHost(c) ==
    /\ Dequeue(c)
    /\ claimCache[c].life = "deleting"
    /\ LET h == ClaimHost[c]
           local == hostCache[h]
           new == MergePatch(host[h], local, [local EXCEPT !.claimRef = NoClaim],
                             SpecFields)
       IN /\ WriteHostAs(h, new, {c})
          /\ ctaint' = [ctaint EXCEPT ![c] =
                [conditional |-> h \in hostUnseen \/ new # host[h],
                 fields |-> Diff(local, [new EXCEPT !.state = "Tainted"],
                                 StatusFields)]]
    /\ cpc' = [cpc EXCEPT ![c] = "taint"]
    /\ claimQueue' = claimQueue \ {c}
    /\ UNCHANGED <<claim, pxe, pxeUnseen, dhcp, ipxeSecret, hostCache, claimCache,
                   pxeCache, hostQueue, pxeQueue, failures, clocal>>

\* The status patch: applied if it is unconditional or the host was not
\* written since the unbind's answer; a conflict is an error.
ClaimTaintHost(c) ==
    /\ cpc[c] = "taint"
    /\ LET h == ClaimHost[c] IN
       \/ /\ ~ctaint[c].conditional \/ c \in rvHeld[h]
          /\ WriteHostAs(h, ApplyPatch(host[h], ctaint[c].fields), {c})
          /\ clocal' = [clocal EXCEPT ![c] = SpecView(host'[h])]
          /\ ctaint' = [ctaint EXCEPT ![c] = NoPatch]
          /\ cpc' = [cpc EXCEPT ![c] = "unfinalizeHost"]
          /\ UNCHANGED claimQueue
       \/ /\ ctaint[c].conditional
          /\ c \notin rvHeld[h]
          /\ Return(c)
          /\ Requeue(c)
          /\ UNCHANGED <<host, hostUnseen, rvHeld>>
    /\ UNCHANGED <<claim, pxe, pxeUnseen, dhcp, ipxeSecret, hostCache, claimCache,
                   pxeCache, hostQueue, pxeQueue, failures>>

\* PatchEnsureNoFinalizer(host): patches only if the copy has it.
\* Mutation: the host's finalizer is never removed.
ClaimKeepHostFinalizer(c) ==
    /\ cpc[c] = "unfinalizeHost"
    /\ cpc' = [cpc EXCEPT ![c] = "unfinalizeClaim"]
    /\ UNCHANGED <<storeVars, clocal, ctaint>>

ClaimRemoveHostFinalizer(c) ==
    /\ cpc[c] = "unfinalizeHost"
    /\ LET h == ClaimHost[c] IN
          WriteHost(h, MergePatch(host[h], clocal[c],
                      [clocal[c] EXCEPT !.finalizer = FALSE], {"finalizer"}))
    /\ cpc' = [cpc EXCEPT ![c] = "unfinalizeClaim"]
    /\ UNCHANGED <<claim, pxe, pxeUnseen, dhcp, ipxeSecret, hostCache, claimCache,
                   pxeCache, hostQueue, claimQueue, pxeQueue,
                   failures, clocal, ctaint>>

\* PatchEnsureNoFinalizer(claim): the last finalizer goes, the server
\* deletes the claim.
ClaimRemoveFinalizer(c) ==
    /\ cpc[c] = "unfinalizeClaim"
    /\ \/ /\ Exists(c)
          /\ claim' = [claim EXCEPT ![c].finalizer = FALSE, ![c].life = "gone"]
          /\ UNCHANGED claimQueue
       \/ /\ ~Exists(c)
          /\ UNCHANGED claim
          /\ Requeue(c)
    /\ Return(c)
    /\ UNCHANGED <<host, hostUnseen, rvHeld, pxe, pxeUnseen, dhcp, ipxeSecret, hostCache, claimCache,
                   pxeCache, hostQueue, pxeQueue, failures>>

\* Any API call of a reconcile in flight fails (timeout, server error).
ClaimFail(c) ==
    /\ cpc[c] # "idle"
    /\ failures < MaxFailures
    /\ failures' = failures + 1
    /\ Return(c)
    /\ Requeue(c)
    /\ UNCHANGED <<host, hostUnseen, rvHeld, claim, pxe, pxeUnseen, dhcp, ipxeSecret, hostCache, claimCache,
                   pxeCache, hostQueue, pxeQueue>>

\* The steps a reconcile of c takes when its calls succeed.
ClaimWork(c) ==
    \/ ClaimNotFound(c) \/ ClaimEnsureFinalizer(c)
    \/ ClaimEnsureHostFinalizer(c) \/ ClaimGetHost(c) \/ ClaimApplyBootConfigs(c)
    \/ ClaimBindHost(c) \/ ClaimEnsurePower(c)
    \/ ClaimPXENotFound(c) \/ ClaimSetBound(c) \/ ClaimUnbindHost(c)
    \/ ClaimTaintHost(c) \/ ClaimRemoveHostFinalizer(c)
    \/ ClaimRemoveFinalizer(c)

ClaimNext(c) == ClaimWork(c) \/ ClaimFail(c)

=============================================================================
