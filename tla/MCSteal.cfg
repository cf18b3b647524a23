CONSTANTS
    Hosts = {h1}
    Claims = {c1, c2}
    NoClaim = NoClaim
    Deletable = {c2}
    MaxFailures = 1
    ClaimHost <- MCClaimHost
    ClaimSpec <- MCClaimSpec

SPECIFICATION MCSpec

PROPERTY BindingRefinement


CHECK_DEADLOCK FALSE
