---------------------------- MODULE PXEReconciler ----------------------------
(***************************************************************************)
(* PXEReconciler (internal/controller/boot/pxe_controller.go).  One worker *)
(* per PXE key (the PXE is named after its claim).  ppc[c] is the step,    *)
(* plocal[c] the status.state of the copy read at the start of reconcile   *)
(* (the base of the final status patch).                                   *)
(*                                                                         *)
(* The secret is named "ipxe-" + spec.SystemUUID.  applyPXEConfiguration   *)
(* never sets SystemUUID, so every PXE names the same secret: ipxeSecret   *)
(* is that one secret.                                                     *)
(***************************************************************************)
EXTENDS Store

VARIABLES ppc, plocal

pxeVars == <<ppc, plocal>>

PXESteps == {"idle", "apply", "unfinalize"}

PXEInit ==
    /\ ppc = [c \in Claims |-> "idle"]
    /\ plocal = [c \in Claims |-> ""]

PXETypeOK ==
    /\ ppc \in [Claims -> PXESteps]
    /\ plocal \in [Claims -> {"", "Created", "Ready"}]

PXEDequeue(c) ==
    /\ c \in pxeQueue
    /\ ppc[c] = "idle"

PXERequeue(c) == pxeQueue' = pxeQueue \cup {c}

PXEReturn(c) ==
    /\ ppc' = [ppc EXCEPT ![c] = "idle"]
    /\ plocal' = [plocal EXCEPT ![c] = ""]

\* Reconcile: r.Get ... IgnoreNotFound.
PXENotFound(c) ==
    /\ PXEDequeue(c)
    /\ pxeCache[c].life = "absent"
    /\ pxeQueue' = pxeQueue \ {c}
    /\ UNCHANGED <<host, hostUnseen, rvHeld, claim, pxe, pxeUnseen, dhcp, ipxeSecret, hostCache, claimCache,
                   pxeCache, hostQueue, claimQueue, failures, pxeVars>>

\* reconcile: PatchEnsureFinalizer added the PXE finalizer: return.  On a
\* PXE the server no longer has, the patch fails and the request is
\* retried: a step that changes nothing.
PXEEnsureFinalizer(c) ==
    /\ PXEDequeue(c)
    /\ pxeCache[c].life = "live"
    /\ ~pxeCache[c].finalizer
    /\ pxe[c].life = "live"
    /\ WritePXE(c, [pxe[c] EXCEPT !.finalizer = TRUE])
    /\ pxeQueue' = pxeQueue \ {c}
    /\ UNCHANGED <<host, hostUnseen, rvHeld, claim, dhcp, ipxeSecret, hostCache, claimCache,
                   pxeCache, hostQueue, claimQueue, failures, pxeVars>>

\* Finalizer in place: keep the state read as the base of the status patch.
PXEGet(c) ==
    /\ PXEDequeue(c)
    /\ pxeCache[c].life = "live"
    /\ pxeCache[c].finalizer
    /\ plocal' = [plocal EXCEPT ![c] = pxeCache[c].state]
    /\ ppc' = [ppc EXCEPT ![c] = "apply"]
    /\ pxeQueue' = pxeQueue \ {c}
    /\ UNCHANGED <<host, hostUnseen, rvHeld, claim, pxe, pxeUnseen, dhcp, ipxeSecret, hostCache, claimCache,
                   pxeCache, hostQueue, claimQueue, failures>>

\* Get the claim and its ignition secret (both from the cache), apply the
\* ipxe secret with the ignition data, patch status Ready against the copy
\* read at PXEGet (no write if that copy was already Ready).
PXEApply(c) ==
    /\ ppc[c] = "apply"
    /\ claimCache[c].life \in {"live", "deleting"}
    /\ ClaimSpec[c].ignition
    /\ ipxeSecret' = c
    /\ WritePXE(c, IF plocal[c] # "Ready" /\ pxe[c].life # "absent"
                    THEN [pxe[c] EXCEPT !.state = "Ready"] ELSE pxe[c])
    /\ PXEReturn(c)
    /\ UNCHANGED <<host, hostUnseen, rvHeld, claim, dhcp, hostCache, claimCache, pxeCache,
                   hostQueue, claimQueue, pxeQueue, failures>>

\* The claim is not in the cache (NotFound), or spec.IgnitionRef is nil and
\* pxeConfig.Spec.IgnitionRef.Name dereferences nil (a panic the controller
\* recovers as an error): requeue without progress.
PXENoIgnition(c) ==
    /\ ppc[c] = "apply"
    /\ ~(claimCache[c].life \in {"live", "deleting"} /\ ClaimSpec[c].ignition)
    /\ PXEReturn(c)
    /\ PXERequeue(c)
    /\ UNCHANGED <<host, hostUnseen, rvHeld, claim, pxe, pxeUnseen, dhcp, ipxeSecret, hostCache, claimCache,
                   pxeCache, hostQueue, claimQueue, failures>>

\* delete: r.Delete(ipxe secret).  A NotFound is an error, not ignored: with
\* no secret the request is retried forever and nothing changes, so the
\* step is only taken while the secret exists.
\* Mutation: delete returns after removing the secret, leaving the
\* finalizer to a later pass.
PXEDeleteSecretOnly(c) ==
    /\ PXEDequeue(c)
    /\ pxeCache[c].life = "deleting"
    /\ ipxeSecret # NoClaim
    /\ ipxeSecret' = NoClaim
    /\ pxeQueue' = pxeQueue \ {c}
    /\ UNCHANGED <<host, hostUnseen, rvHeld, claim, pxe, pxeUnseen, dhcp, hostCache, claimCache, pxeCache,
                   hostQueue, claimQueue, failures, pxeVars>>

PXEDeleteSecret(c) ==
    /\ PXEDequeue(c)
    /\ pxeCache[c].life = "deleting"
    /\ ipxeSecret # NoClaim
    /\ ipxeSecret' = NoClaim
    /\ ppc' = [ppc EXCEPT ![c] = "unfinalize"]
    /\ pxeQueue' = pxeQueue \ {c}
    /\ UNCHANGED <<host, hostUnseen, rvHeld, claim, pxe, pxeUnseen, dhcp, hostCache, claimCache, pxeCache,
                   hostQueue, claimQueue, failures, plocal>>

\* PatchEnsureNoFinalizer: the last finalizer goes, the server deletes it.
PXERemoveFinalizer(c) ==
    /\ ppc[c] = "unfinalize"
    /\ WritePXE(c, IF pxe[c].life = "deleting"
                    THEN [life |-> "absent", finalizer |-> FALSE, state |-> ""]
                    ELSE pxe[c])
    /\ ppc' = [ppc EXCEPT ![c] = "idle"]
    /\ UNCHANGED <<host, hostUnseen, rvHeld, claim, dhcp, ipxeSecret, hostCache, claimCache,
                   pxeCache, hostQueue, claimQueue, pxeQueue,
                   failures, plocal>>

PXEFail(c) ==
    /\ ppc[c] # "idle"
    /\ failures < MaxFailures
    /\ failures' = failures + 1
    /\ PXEReturn(c)
    /\ PXERequeue(c)
    /\ UNCHANGED <<host, hostUnseen, rvHeld, claim, pxe, pxeUnseen, dhcp, ipxeSecret, hostCache, claimCache,
                   pxeCache, hostQueue, claimQueue>>

PXEWork(c) ==
    \/ PXENotFound(c) \/ PXEEnsureFinalizer(c) \/ PXEGet(c) \/ PXEApply(c)
    \/ PXENoIgnition(c) \/ PXEDeleteSecret(c) \/ PXERemoveFinalizer(c)

PXENext(c) == PXEWork(c) \/ PXEFail(c)

=============================================================================
