\* Every driver type.  A refused CR stays as it is once the edits are used up.
SPECIFICATION ChecksSpec
CONSTANTS
    Versions <- DriverVersions
    MinPath <- DriverMinPath
    AuthServer = FALSE
    CRs <- DriverCRs
    Contents <- FlexContents
    MaxChanges = 1
    MaxFaults = 1
INVARIANTS ChecksTypeOK MountedWereFound ArraysUsable AcceptedIsValid Undoable
PROPERTY VersionsAccepted
CHECK_DEADLOCK FALSE
