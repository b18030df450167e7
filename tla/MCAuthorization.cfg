\* An authorization CR that changes between v2.4 and v2.5 and is deleted.
SPECIFICATION Spec
CONSTANTS
    Specs <- Upgrades
    OpenShift = FALSE
    Lagging = {"gateway", "dataPlane"}
    MaxEdits = 2
    MaxFaults = 1
INVARIANTS TypeOK SettledAsAsked RemovedForGood
PROPERTIES Converges DeletionCompletes
CHECK_DEADLOCK FALSE
