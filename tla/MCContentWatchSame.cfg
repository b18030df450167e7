\* Two CSMs with the same name in different namespaces.
SPECIFICATION Spec
CONSTANTS
    CSMs <- SameName
    NoChannel = NoChannel
    MaxWatches = 3
INVARIANT DeployedAreServed
