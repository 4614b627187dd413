CONSTANTS
    None = None
    assistant = assistant
    billing = billing
    Controls <- MCControls
    Order <- MCOrder
    Grace <- MCGrace
    MaxLease <- MCMaxLease
    Horizon = 2
    Catalog <- MCCatalog
    Scope <- MCScope
    Subject = assistant
    Sources = {assistant, billing}
    Observations <- MCObservations
    Scheme = "sha256-digest"
    MaxPasses = 2
SPECIFICATION Spec
INVARIANTS
    ScopedToOneSubject
CHECK_DEADLOCK FALSE
