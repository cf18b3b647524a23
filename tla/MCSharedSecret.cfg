CONSTANTS
    Hosts = {h1, h2}
    Claims = {c1, c2}
    NoClaim = NoClaim
    Deletable = {}
    MaxFailures = 0
    ClaimHost <- MCClaimHost
    ClaimSpec <- MCClaimSpec

SPECIFICATION MCSpec

INVARIANT RunsOwnIgnition

CHECK_DEADLOCK FALSE
