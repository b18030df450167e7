\* Seven CRs of three drivers; one edit, two changes of csm-images or the Secret
\* and one fault at any step.
SPECIFICATION Spec
CONSTANTS
    CRs <- AllCRs
    ImageMaps <- Maps
    Domains <- DomainSegments
    OpenShift = TRUE
    MaxEdits = 1
    MaxChanges = 2
    MaxFaults = 1
INVARIANTS TypeOK RejectedOnlyIfRaced ModulesAsAsked ImagesByPriority OneDriverImage
PROPERTY Deploys
CHECK_DEADLOCK FALSE
