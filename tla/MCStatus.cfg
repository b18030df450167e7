\* A driver without observability, or an authorization server: safety.
SPECIFICATION Spec
CONSTANTS
    Kinds = {"driver", "authorization"}
    Replicas = 1
    Observability = FALSE
    MaxSpecs = 2
    MaxChanges = 2
    MaxEvents = 1
    MaxGiveUps = 1
INVARIANTS TypeOK SuccessfulWasApplied
