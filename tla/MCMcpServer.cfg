CONSTANTS
    None = None
    Regimes = {"iso", "atlas"}
    Refs = {"a", "b", "t"}
    Identifiers = {"control"}
    Published <- MCPublished
    Kinds <- MCKinds
    Mappings <- MCMappings
    Exclusions <- MCExclusions
    Totals <- MCTotals
    MaxRows <- MCMaxRows
    MaxMappings = 2
    Ids = {"1", "2"}
    Requests <- MCRequests
    Deployed <- MCDeployed
    MaxEdits = 2
SPECIFICATION Spec
INVARIANTS
    TypeOK
    NoFalseCompleteness
    EveryRequestIsAnswered
PROPERTIES
    ThreatsRequireNothing
    CompleteUnlessTakenBack
    FailureIsNotRemembered
