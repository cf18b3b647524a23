----------------------------- MODULE HostBinding -----------------------------
(***************************************************************************)
(* What the claim controller promises about hosts and claims (sections    *)
(* 3, 4.2 and 8 of the spec), with no caches, workers or patches: a host   *)
(* is owned by at most one claim; a live claim takes a free host after     *)
(* protecting it with the claim finalizer, and reports Bound only while    *)
(* it owns it; a deleted claim gives the host back, unprotects it, and     *)
(* only then goes.                                                         *)
(***************************************************************************)
CONSTANTS Hosts, Claims, NoClaim, ClaimHost, Deletable

VARIABLES
    owner,      \* owner[h]: the claim host h is bound to, or NoClaim
    protected,  \* protected[h]: h carries the claim finalizer
    life,       \* life[c]: "none", "live", "deleting" or "gone"
    bound       \* bound[c]: c has reported status.phase Bound

vars == <<owner, protected, life, bound>>

Life == {"none", "live", "deleting", "gone"}

Consistent ==
    /\ owner \in [Hosts -> Claims \cup {NoClaim}]
    /\ protected \in [Hosts -> BOOLEAN]
    /\ life \in [Claims -> Life]
    /\ bound \in [Claims -> BOOLEAN]
    /\ \A h \in Hosts : owner[h] # NoClaim =>
          /\ ClaimHost[owner[h]] = h
          /\ life[owner[h]] \in {"live", "deleting"}
          /\ protected[h]

Init == Consistent

Create(c) ==
    /\ life[c] = "none"
    /\ life' = [life EXCEPT ![c] = "live"]
    /\ UNCHANGED <<owner, protected, bound>>

\* A claim that holds no host may go at once (it has no finalizer yet).
Delete(c) ==
    /\ c \in Deletable /\ life[c] = "live"
    /\ \/ life' = [life EXCEPT ![c] = "deleting"]
       \/ owner[ClaimHost[c]] # c /\ life' = [life EXCEPT ![c] = "gone"]
    /\ UNCHANGED <<owner, protected, bound>>

Protect(c) ==
    /\ life[c] = "live"
    /\ owner[ClaimHost[c]] \in {NoClaim, c}
    /\ ~protected[ClaimHost[c]]
    /\ protected' = [protected EXCEPT ![ClaimHost[c]] = TRUE]
    /\ UNCHANGED <<owner, life, bound>>

Bind(c) ==
    /\ life[c] = "live"
    /\ owner[ClaimHost[c]] = NoClaim /\ protected[ClaimHost[c]]
    /\ owner' = [owner EXCEPT ![ClaimHost[c]] = c]
    /\ UNCHANGED <<protected, life, bound>>

ReportBound(c) ==
    /\ life[c] = "live"
    /\ owner[ClaimHost[c]] = c /\ ~bound[c]
    /\ bound' = [bound EXCEPT ![c] = TRUE]
    /\ UNCHANGED <<owner, protected, life>>

Release(c) ==
    /\ life[c] = "deleting"
    /\ owner[ClaimHost[c]] = c
    /\ owner' = [owner EXCEPT ![ClaimHost[c]] = NoClaim]
    /\ UNCHANGED <<protected, life, bound>>

\* Only a host no claim owns loses its protection: the finalizer of an
\* owned host stays until its owner has released it.
Unprotect(c) ==
    /\ life[c] = "deleting"
    /\ owner[ClaimHost[c]] = NoClaim /\ protected[ClaimHost[c]]
    /\ protected' = [protected EXCEPT ![ClaimHost[c]] = FALSE]
    /\ UNCHANGED <<owner, life, bound>>

Remove(c) ==
    /\ life[c] = "deleting"
    /\ owner[ClaimHost[c]] # c /\ ~protected[ClaimHost[c]]
    /\ life' = [life EXCEPT ![c] = "gone"]
    /\ UNCHANGED <<owner, protected, bound>>

Next ==
    \E c \in Claims :
        \/ Create(c) \/ Delete(c) \/ Protect(c) \/ Bind(c) \/ ReportBound(c)
        \/ Release(c) \/ Unprotect(c) \/ Remove(c)

\* A deleted claim's host is given back and unprotected, and the claim
\* goes.
Fairness ==
    \A c \in Claims : WF_vars(Release(c)) /\ WF_vars(Unprotect(c)) /\ WF_vars(Remove(c))

Spec == Init /\ [][Next]_vars /\ Fairness

=============================================================================
