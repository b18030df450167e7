\* A COSI CR that is deleted, kept or removed, and created again under a lagging object cache.
SPECIFICATION Spec
CONSTANTS
    DriverType = "cosi"
    Specs <- ForceSpecs
    UpgradePairs <- AllPairs
    MaxEdits = 0
    MaxFaults = 1
    MaxUids = 2
    ObjectCacheLag = TRUE
    GetMayFail = TRUE
INVARIANTS IInv
PROPERTIES CreatesOnlyUnderFinalizer
CHECK_DEADLOCK FALSE
