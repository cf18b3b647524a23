CONSTANTS
    Hosts = {h1}
    Claims = {c1}
    NoClaim = NoClaim
    Deletable = {c1}
    MaxFailures = 1
    ClaimHost <- MCClaimHost
    ClaimSpec <- MCClaimSpec

SPECIFICATION MCSpec

PROPERTY BindingRefinement
PROPERTY HostStatusConverges

CHECK_DEADLOCK FALSE
