------------------------------ MODULE BareMetal ------------------------------
(***************************************************************************)
(* The whole operator: Metal with the PXE controller of                    *)
(* internal/controller/boot serving the PXE objects claims apply.         *)
(***************************************************************************)
EXTENDS Metal, PXEReconciler

vars == <<storeVars, claimVars, hostVars, pxeVars>>

Init ==
    /\ MetalInit
    /\ PXEInit

PXEStep(c) == PXENext(c) /\ UNCHANGED <<claimVars, hostVars>>

Next ==
    \/ MetalNext /\ UNCHANGED pxeVars
    \/ \E c \in Claims : PXEStep(c)

\* MetalFairness, and the PXE worker and the events and collection it
\* depends on.
Fairness ==
    /\ \A h \in Hosts :
          /\ WF_vars(MetalStore(SyncHost(h)) /\ UNCHANGED pxeVars)
          /\ WF_vars(HostWork(h) /\ UNCHANGED <<claimVars, pxeVars>>)
    /\ \A c \in Claims :
          /\ WF_vars(MetalStore(SyncClaim(c)) /\ UNCHANGED pxeVars)
          /\ WF_vars(MetalStore(SyncPXE(c)) /\ UNCHANGED pxeVars)
          /\ WF_vars(MetalStore(CollectPXE(c)) /\ UNCHANGED pxeVars)
          /\ WF_vars(ClaimWork(c) /\ UNCHANGED <<hostVars, pxeVars>>)
          /\ WF_vars(PXEWork(c) /\ UNCHANGED <<claimVars, hostVars>>)

Spec == Init /\ [][Next]_vars /\ Fairness

-----------------------------------------------------------------------------
(* Properties                                                              *)

\* What a bound claim's machine runs: while a live claim with an ignition
\* reports Bound, its host names it and the machine is on, the machine
\* was provisioned with that claim's ignition.  That takes a network boot
\* (the one-time override ensurePowerState arms only while the host is
\* Initial) after the claim's PXE controller wrote the ipxe secret, which
\* the claim controller waits for before it patches spec.power On.  (A
\* host still naming a claim that is gone is the CleanupOrdering
\* violation, checked on its own.)
RunsOwnIgnition ==
    \A c \in Claims :
        LET h == ClaimHost[c] IN
        /\ ClaimSpec[c].ignition
        /\ claim[c].life = "live" /\ claim[c].phase = "Bound"
        /\ host[h].claimRef = c /\ machine[h].power = "On"
        => machine[h].image = c

\* Garbage collection completes: once a claim is gone, the PXE controller's
\* delete (remove the ipxe secret, then the PXE finalizer) eventually lets
\* the PXE object go, and the secret with the claim's ignition is removed.
PXECleanedUp ==
    \A c \in Claims :
        claim[c].life = "gone" ~> (pxe[c].life = "absent" /\ ipxeSecret # c)

\* Level-triggered and idempotent (section 9): once users stop, the
\* controllers run out of work -- no reconcile keeps causing another.
Quiescence ==
    <>[](hostQueue = {} /\ claimQueue = {} /\ pxeQueue = {})

=============================================================================
