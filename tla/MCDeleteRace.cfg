CONSTANTS
    Hosts = {h1}
    Claims = {c1}
    NoClaim = NoClaim
    Deletable = {c1}
    MaxFailures = 0
    ClaimHost <- MCClaimHost
    ClaimSpec <- MCClaimSpec

SPECIFICATION MetalSpec

PROPERTY CleanupOrdering

CHECK_DEADLOCK FALSE
