-------------------------------- MODULE Metal --------------------------------
(***************************************************************************)
(* The two controllers of internal/controller/metal -- hosts and claims -- *)
(* of one manager over one store and one informer cache, with users        *)
(* creating and deleting claims and the garbage collector removing what a  *)
(* deleted claim owned.  The PXE objects a claim applies are in the store; *)
(* the controller that serves them is added in BareMetal.  For a claim     *)
(* without an ignition the claim controller never reads a PXE, so Metal    *)
(* is the whole operator as far as such a claim and its host are concerned.*)
(***************************************************************************)
EXTENDS ClaimReconciler, HostReconciler

metalVars == <<storeVars, claimVars, hostVars>>

MetalInit ==
    /\ StoreInit
    /\ ClaimInit
    /\ HostInit

\* Each actor's steps, with the variables of the others left alone.
MetalStore(A) == A /\ UNCHANGED <<claimVars, hostVars>>
ClaimStep(c)  == ClaimNext(c) /\ UNCHANGED hostVars
HostStep(h)   == HostNext(h) /\ UNCHANGED claimVars

\* The informer delivers a watch event; the handlers enqueue.
Informer ==
    \/ \E h \in Hosts : SyncHost(h)
    \/ \E c \in Claims : SyncClaim(c) \/ SyncPXE(c)

\* Users, and the API server's garbage collector.
Environment ==
    \E c \in Claims : \/ CreateClaim(c) \/ DeleteClaim(c)
                     \/ CollectPXE(c) \/ CollectDHCP(c)

MetalNext ==
    \/ MetalStore(Informer \/ Environment)
    \/ \E c \in Claims : ClaimStep(c)
    \/ \E h \in Hosts : HostStep(h)

\* The manager runs every queued key and the informer delivers every event:
\* a worker step or cache update that stays possible happens.  Users and
\* failures carry no fairness (users may stop; failures are bounded).
MetalFairness ==
    /\ \A h \in Hosts :
          /\ WF_metalVars(MetalStore(SyncHost(h)))
          /\ WF_metalVars(HostWork(h) /\ UNCHANGED claimVars)
    /\ \A c \in Claims :
          /\ WF_metalVars(MetalStore(SyncClaim(c)))
          /\ WF_metalVars(ClaimWork(c) /\ UNCHANGED hostVars)

MetalSpec == MetalInit /\ [][MetalNext]_metalVars /\ MetalFairness

-----------------------------------------------------------------------------
(* Properties                                                              *)

MetalTypeOK ==
    /\ StoreTypeOK
    /\ ClaimTypeOK
    /\ HostTypeOK

\* Exclusivity (section 8): at most one live claim of a host reports the
\* binding (status.phase Bound).  The claim controller binds after reading
\* spec.claimRef from the cache and patches without a resourceVersion, so
\* the store's optimistic-concurrency check never arbitrates two claims.
ExclusiveBinding ==
    \A c1, c2 \in Claims :
        /\ c1 # c2
        /\ ClaimHost[c1] = ClaimHost[c2]
        /\ claim[c1].life = "live" /\ claim[c2].life = "live"
        => ~(claim[c1].phase = "Bound" /\ claim[c2].phase = "Bound")

\* Cleanup ordering (section 8, delete in the claim controller): when a
\* claim's own finalizer goes and the server removes it, its host no longer
\* names it in spec.claimRef and no longer carries the claim finalizer.
CleanupOrdering ==
    [][\A c \in Claims :
          claim[c].life # "gone" /\ claim'[c].life = "gone" =>
             /\ host'[ClaimHost[c]].claimRef # c
             /\ ~host'[ClaimHost[c]].finalizer]_metalVars

\* The binding invariant of the data model and the host state machine, as
\* the level-triggered controllers can deliver them: eventually, for good,
\* every host's phase is Bound exactly when it has a claimRef, a claimed
\* host is Reserved and an unclaimed one Available (Tainted -> Initial ->
\* Available after a release).
HostSettled(h) ==
    /\ (host[h].claimRef # NoClaim) <=> (host[h].phase = "Bound")
    /\ host[h].state = IF host[h].claimRef # NoClaim THEN "Reserved"
                                                 ELSE "Available"

HostStatusConverges == <>[](\A h \in Hosts : HostSettled(h))

\* The claim controller implements the binding protocol of HostBinding:
\* the abstract owner of a host is its spec.claimRef, its protection the
\* claim finalizer on it, and a claim's report its status.phase.  Every
\* step of every controller is a step of the protocol or leaves all four
\* unchanged, and a deleted claim's host is released and the claim goes.
AbstractBinding == INSTANCE HostBinding WITH
    owner     <- [h \in Hosts |-> host[h].claimRef],
    protected <- [h \in Hosts |-> host[h].finalizer],
    life      <- [c \in Claims |-> claim[c].life],
    bound     <- [c \in Claims |-> claim[c].phase = "Bound"]

BindingRefinement == AbstractBinding!Spec

\* Scenario A and section 4: a host leaves Initial without a claim only
\* with its desired power forced Off, so an Available, unclaimed host is
\* never left powered on -- not even one a deleted claim released while
\* the host controller's copy still showed the claimRef.
ReleasedHostPoweredOff ==
    \A h \in Hosts :
        host[h].state = "Available" /\ host[h].claimRef = NoClaim
            => host[h].power = "Off"

\* Scenario B: a claim that stays is eventually, for good, Bound, holds its
\* host, and the host's spec.power and the machine follow the claim.
ClaimServed(c) ==
    LET h == ClaimHost[c] IN
    /\ claim[c].phase = "Bound"
    /\ host[h].claimRef = c
    /\ host[h].power = ClaimSpec[c].power
    /\ machine[h].power = ClaimSpec[c].power

ClaimEventuallyServed ==
    \A c \in Claims : <>[](claim[c].life = "live") => <>[]ClaimServed(c)

=============================================================================
