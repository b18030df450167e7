\* A PowerStore CR whose components change; nobody else brings cert-manager.
SPECIFICATION Spec
CONSTANTS
    Specs <- PowerStoreModules
    CertComponents = {"otel-collector", "metrics"}
    CRDsInstalled = FALSE
    MaxEdits = 3
    MaxFaults = 2
INVARIANTS TypeOK ComponentsRecorded
PROPERTIES Converges DeletionCompletes
CHECK_DEADLOCK FALSE
