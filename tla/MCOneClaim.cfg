CONSTANTS
    Hosts = {h1}
    Claims = {c1}
    NoClaim = NoClaim
    Deletable = {}
    MaxFailures = 1
    ClaimHost <- MCClaimHost
    ClaimSpec <- MCClaimSpec

SPECIFICATION MetalSpec

INVARIANT MetalTypeOK

PROPERTY ClaimEventuallyServed
PROPERTY HostStatusConverges
PROPERTY BindingRefinement

CHECK_DEADLOCK FALSE
