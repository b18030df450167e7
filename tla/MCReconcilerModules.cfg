\* A PowerStore CR whose modules are switched on and off.
SPECIFICATION Spec
CONSTANTS
    DriverType = "powerstore"
    Specs <- ModuleSpecs
    UpgradePairs <- AllPairs
    MaxEdits = 2
    MaxFaults = 1
    MaxUids = 1
    ObjectCacheLag = FALSE
    GetMayFail = TRUE
INVARIANTS TypeOK ObjectsUnderFinalizer ModulesRecorded
PROPERTY Lifecycle
CHECK_DEADLOCK FALSE
