CONSTANTS
    i1 = i1
    i2 = i2
    d1 = d1
    d2 = d2
    IDs <- MCIDs
    Data <- MCData
    InitialLists <- MCInitialLists
    BMCTypes = {"Redfish", "RedfishLocal"}
    Credentials = {"username", "password"}
    MaxChanges = 1
    MaxPowerChanges = 2
    MaxFailures = 1

SPECIFICATION MCSpec

INVARIANT MergeMatchesReference
INVARIANT StatusIDsUnique
PROPERTY InventoryRecorded
PROPERTY PowerConverges

CHECK_DEADLOCK FALSE
