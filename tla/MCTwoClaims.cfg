CONSTANTS
    Hosts = {h1}
    Claims = {c1, c2}
    NoClaim = NoClaim
    Deletable = {}
    MaxFailures = 0
    ClaimHost <- MCClaimHost
    ClaimSpec <- MCClaimSpec

SPECIFICATION MetalSpec

INVARIANT ExclusiveBinding

CHECK_DEADLOCK FALSE
