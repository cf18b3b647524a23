CONSTANTS
    Hosts = {h1}
    Claims = {c1}
    NoClaim = NoClaim
    Deletable = {}
    MaxFailures = 0
    ClaimHost <- MCClaimHost
    ClaimSpec <- MCClaimSpec

SPECIFICATION MCSpec


INVARIANT RunsOwnIgnition
PROPERTY PXECleanedUp

CHECK_DEADLOCK FALSE
