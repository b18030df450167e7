\* Liveness for a PowerFlex CR whose modules and metrics are switched on and off.
SPECIFICATION FairSpec
CONSTANTS
    DriverType = "powerflex"
    Specs <- MetricsSpecs
    UpgradePairs <- AllPairs
    MaxEdits = 1
    MaxFaults = 1
    MaxUids = 1
    ObjectCacheLag = FALSE
    GetMayFail = FALSE
PROPERTIES DeletionCompletes Converges
CHECK_DEADLOCK FALSE
