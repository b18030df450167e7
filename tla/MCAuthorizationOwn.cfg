\* The sample of v2.5 without the gateway component.
SPECIFICATION Spec
CONSTANTS
    Specs <- WithOwnGateway
    OpenShift = FALSE
    Lagging <- Objects
    MaxEdits = 0
    MaxFaults = 0
PROPERTIES OwnGateway
CHECK_DEADLOCK FALSE
