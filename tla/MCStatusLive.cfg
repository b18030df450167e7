\* A driver without observability, or an authorization server: liveness.
SPECIFICATION FairSpec
CONSTANTS
    Kinds = {"driver", "authorization"}
    Replicas = 1
    Observability = FALSE
    MaxSpecs = 1
    MaxChanges = 2
    MaxEvents = 1
    MaxGiveUps = 1
PROPERTIES HandlersReturn StateSettles
