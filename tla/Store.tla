------------------------------- MODULE Store -------------------------------
(***************************************************************************)
(* The object store the controllers share, as the controllers see it.      *)
(*                                                                         *)
(*  - host, claim, pxe, dhcp: the persisted BareMetalHost, BareMetalHost-  *)
(*    Claim, PXE and DHCP objects (api/*/v1alpha1), with only the fields   *)
(*    some controller reads or writes.                                     *)
(*  - hostCache, claimCache, pxeCache: the manager's shared     *)
(*    cache.  Every r.Get / r.List of a controller reads it; it            *)
(*    trails the store and catches up by the Sync actions, which also run  *)
(*    the event handlers of SetupWithManager (they enqueue requests).      *)
(*  - hostQueue, claimQueue, pxeQueue: the controllers' work queues (a set *)
(*    of keys, as the client-go workqueue deduplicates).                   *)
(*  - ipxeSecret: the "ipxe-<SystemUUID>" secret of the PXE controller;    *)
(*    its value is the claim whose ignition data it holds.                 *)
(*                                                                         *)
(* Writes are JSON merge patches computed by client.MergeFrom(base): only  *)
(* the fields that differ between the base copy and the modified copy are *)
(* sent, and no resourceVersion is sent unless the two copies differ in    *)
(* it.  MergePatch below is that semantics on a flat record.               *)
(***************************************************************************)
EXTENDS Naturals, FiniteSets

CONSTANTS
    Hosts,          \* BareMetalHost names
    Claims,         \* BareMetalHostClaim names (a PXE and a DHCP share it)
    ClaimHost,      \* claim -> the host its spec.bareMetalHostRef names
    ClaimSpec,      \* claim -> its spec.power and whether spec.ignitionRef is set
    NoClaim,        \* a nil spec.claimRef / no ipxe secret
    Deletable,      \* the claims users may delete
    MaxFailures     \* bound on transient API/BMC errors in a behaviour

ASSUME NoClaim \notin Claims
ASSUME ClaimHost \in [Claims -> Hosts]
ASSUME Deletable \subseteq Claims
ASSUME ClaimSpec \in [Claims -> [power: {"On", "Off"}, ignition: BOOLEAN]]
ASSUME MaxFailures \in Nat

VARIABLES
    host, claim, pxe, dhcp, ipxeSecret,
    hostCache, claimCache, pxeCache,
    hostQueue, claimQueue, pxeQueue,
    hostUnseen, pxeUnseen, rvHeld,
    failures

storeVars == <<host, claim, pxe, dhcp, ipxeSecret,
               hostCache, claimCache, pxeCache,
               hostQueue, claimQueue, pxeQueue,
               hostUnseen, pxeUnseen, rvHeld, failures>>

PowerStates == {"On", "Off"}
HostStates  == {"Initial", "Available", "Tainted", "Reserved", "Maintenance"}
Phases      == {"Bound", "Unbound"}

\* BareMetalHost: spec.claimRef, spec.power, the claim finalizer (metadata)
\* and status.state, status.phase, status.powerState.  "" is an unset field.
HostRecord == [claimRef: Claims \cup {NoClaim}, power: PowerStates,
               finalizer: BOOLEAN, state: HostStates \cup {""},
               phase: Phases \cup {""}, powerState: PowerStates \cup {""}]
SpecFields   == {"claimRef", "power"}
StatusFields == {"state", "phase", "powerState"}

\* BareMetalHostClaim: life cycle, its finalizer and status.phase.  The two
\* spec fields the controllers branch on (power, ignitionRef # nil) are
\* the constant ClaimSpec.  "none": not created yet; "gone": deleted.
ClaimLife   == {"none", "live", "deleting", "gone"}
ClaimRecord == [life: ClaimLife, finalizer: BOOLEAN, phase: Phases \cup {""}]

PXELife   == {"absent", "live", "deleting"}
PXERecord == [life: PXELife, finalizer: BOOLEAN,
              state: {"", "Created", "Ready"}]

DHCPStates == {"absent", "Created"}

\* The value a reconciler's copy of a host holds while it is idle.
NoCopy == [claimRef |-> NoClaim, power |-> "Off", finalizer |-> FALSE,
           state |-> "", phase |-> "", powerState |-> ""]

Exists(c) == claim[c].life \in {"live", "deleting"}

\* client.MergeFrom(base): the patch holds the fields of `fields` that the
\* caller changed from base to modified.  Patch overwrites those stored
\* fields and leaves every other one as it is.
Diff(base, modified, fields) ==
    [f \in {g \in fields : modified[g] # base[g]} |-> modified[f]]

ApplyPatch(stored, patch) ==
    [f \in DOMAIN stored |-> IF f \in DOMAIN patch THEN patch[f] ELSE stored[f]]

MergePatch(stored, base, modified, fields) ==
    ApplyPatch(stored, Diff(base, modified, fields))

\* A write that changes an object bumps its resourceVersion: the watch
\* delivers it even if a later write restores the old content.  hostUnseen
\* and pxeUnseen hold the objects with a write the cache has not seen yet.
\* rvHeld[h] holds the claim workers whose copy of h, the answer to their
\* own last patch (cs), still carries h's current resourceVersion.
WriteHostAs(h, r, cs) ==
    /\ host' = [host EXCEPT ![h] = r]
    /\ hostUnseen' = IF r = host[h] THEN hostUnseen ELSE hostUnseen \cup {h}
    /\ rvHeld' = [rvHeld EXCEPT ![h] = cs \cup IF r = host[h] THEN @ ELSE {}]

WriteHost(h, r) == WriteHostAs(h, r, {})

WritePXE(c, r) ==
    /\ pxe' = [pxe EXCEPT ![c] = r]
    /\ pxeUnseen' = IF r = pxe[c] THEN pxeUnseen ELSE pxeUnseen \cup {c}

\* The claims a host event enqueues (enqueueBareMetalHostClaimsByRefs): the
\* map function lists claims from the cache and returns after the FIRST one
\* whose bareMetalHostRef names the host; list order is unspecified.
ClaimsToEnqueue(h) ==
    LET refs == {c \in Claims : claimCache[c].life \in {"live", "deleting"}
                                /\ ClaimHost[c] = h}
    IN IF refs = {} THEN {{}} ELSE {{c} : c \in refs}

\* A host as the inventory creates it: no status, spec.power as written.
FreshHost(p) == [claimRef |-> NoClaim, power |-> p, finalizer |-> FALSE,
                 state |-> "", phase |-> "", powerState |-> ""]

\* The manager starts over a store holding hosts from H and the claims cl
\* with their PXE and DHCP objects px, dh and the ipxe secret holding sec.
\* The informers have listed them all (WaitForCacheSync) and queued every
\* object they list.
StoreInitFrom(H, cl, px, dh, sec) ==
    /\ host \in [Hosts -> H]
    /\ claim = cl
    /\ pxe = px
    /\ dhcp = dh
    /\ ipxeSecret = sec
    /\ hostCache = host
    /\ claimCache = claim
    /\ pxeCache = pxe
    /\ hostQueue = Hosts
    /\ claimQueue = {c \in Claims : cl[c].life # "none"}
    /\ pxeQueue = {c \in Claims : px[c].life # "absent"}
    /\ hostUnseen = {}
    /\ pxeUnseen = {}
    /\ rvHeld = [h \in Hosts |-> {}]
    /\ failures = 0

NoClaims == [c \in Claims |-> [life |-> "none", finalizer |-> FALSE, phase |-> ""]]
NoPXEs   == [c \in Claims |-> [life |-> "absent", finalizer |-> FALSE, state |-> ""]]
NoDHCPs  == [c \in Claims |-> "absent"]

StoreInit == StoreInitFrom({FreshHost(p) : p \in PowerStates}, NoClaims, NoPXEs, NoDHCPs, NoClaim)

StoreTypeOK ==
    /\ host \in [Hosts -> HostRecord]
    /\ hostCache \in [Hosts -> HostRecord]
    /\ claim \in [Claims -> ClaimRecord]
    /\ claimCache \in [Claims -> ClaimRecord]
    /\ pxe \in [Claims -> PXERecord]
    /\ pxeCache \in [Claims -> PXERecord]
    /\ dhcp \in [Claims -> DHCPStates]
    /\ ipxeSecret \in Claims \cup {NoClaim}
    /\ hostQueue \subseteq Hosts
    /\ claimQueue \subseteq Claims
    /\ pxeQueue \subseteq Claims
    /\ hostUnseen \subseteq Hosts
    /\ rvHeld \in [Hosts -> SUBSET Claims]
    /\ pxeUnseen \subseteq Claims
    /\ failures \in 0..MaxFailures

-----------------------------------------------------------------------------
(* Informer: the cache catches up with the store and the handlers of      *)
(* SetupWithManager enqueue.  An update only fires on a real change.       *)

\* Host controller For(BareMetalHost); claim controller Watches(BareMetalHost)
SyncHost(h) ==
    /\ h \in hostUnseen
    /\ hostCache' = [hostCache EXCEPT ![h] = host[h]]
    /\ hostUnseen' = hostUnseen \ {h}
    /\ hostQueue' = hostQueue \cup {h}
    /\ \E cs \in ClaimsToEnqueue(h) : claimQueue' = claimQueue \cup cs
    /\ UNCHANGED <<host, rvHeld, claim, pxe, pxeUnseen, dhcp, ipxeSecret,
                   claimCache, pxeCache, pxeQueue, failures>>

\* Claim controller For(BareMetalHostClaim)
SyncClaim(c) ==
    /\ claimCache[c] # claim[c]
    /\ claimCache' = [claimCache EXCEPT ![c] = claim[c]]
    /\ claimQueue' = claimQueue \cup {c}
    /\ UNCHANGED <<host, hostUnseen, rvHeld, claim, pxe, pxeUnseen, dhcp, ipxeSecret, hostCache, pxeCache,
                   hostQueue, pxeQueue, failures>>

\* PXE controller For(PXE); claim controller Owns(PXE)
SyncPXE(c) ==
    /\ c \in pxeUnseen
    /\ pxeCache' = [pxeCache EXCEPT ![c] = pxe[c]]
    /\ pxeUnseen' = pxeUnseen \ {c}
    /\ pxeQueue' = pxeQueue \cup {c}
    /\ claimQueue' = claimQueue \cup {c}
    /\ UNCHANGED <<host, hostUnseen, rvHeld, claim, pxe, dhcp, ipxeSecret, hostCache,
                   claimCache, hostQueue, failures>>

-----------------------------------------------------------------------------
(* The API server's own steps and the users'.                              *)

\* A user creates a claim.
CreateClaim(c) ==
    /\ claim[c].life = "none"
    /\ claim' = [claim EXCEPT ![c].life = "live"]
    /\ UNCHANGED <<host, hostUnseen, rvHeld, pxe, pxeUnseen, dhcp, ipxeSecret, hostCache, claimCache,
                   pxeCache, hostQueue, claimQueue, pxeQueue,
                   failures>>

\* A user deletes a claim: finalizers hold it in "deleting".
DeleteClaim(c) ==
    /\ c \in Deletable
    /\ claim[c].life = "live"
    /\ claim' = [claim EXCEPT ![c].life =
                    IF claim[c].finalizer THEN "deleting" ELSE "gone"]
    /\ UNCHANGED <<host, hostUnseen, rvHeld, pxe, pxeUnseen, dhcp, ipxeSecret, hostCache, claimCache,
                   pxeCache, hostQueue, claimQueue, pxeQueue,
                   failures>>

\* Garbage collector: a PXE whose owner claim is gone is deleted.
CollectPXE(c) ==
    /\ claim[c].life = "gone"
    /\ pxe[c].life = "live"
    /\ WritePXE(c, [pxe[c] EXCEPT !.life =
                       IF pxe[c].finalizer THEN "deleting" ELSE "absent"])
    /\ UNCHANGED <<host, hostUnseen, rvHeld, claim, dhcp, ipxeSecret, hostCache, claimCache,
                   pxeCache, hostQueue, claimQueue, pxeQueue,
                   failures>>

CollectDHCP(c) ==
    /\ claim[c].life = "gone"
    /\ dhcp[c] = "Created"
    /\ dhcp' = [dhcp EXCEPT ![c] = "absent"]
    /\ UNCHANGED <<host, hostUnseen, rvHeld, claim, pxe, pxeUnseen, ipxeSecret, hostCache, claimCache,
                   pxeCache, hostQueue, claimQueue, pxeQueue,
                   failures>>

=============================================================================
