\* Two CSMs that share the process; every CR states the mode of its proxy.
SPECIFICATION ProcessSpec
CONSTANTS
    CSMs = {c1, c2}
    Modules <- Explicit
    MaxEdits = 3
    NoChannel = NoChannel
    MaxWatches = 9
    MaxFaults = 1
INVARIANTS ProcessTypeOK DeployedAsAsked ProxyPresent NoLeakedWatch NoClosedChannelKept DeployedAreServed
PROPERTY AllServed
CHECK_DEADLOCK FALSE
