CONSTANTS
    None = None
    assistant = assistant
    billing = billing
    Controls <- MCControls
    Order <- MCOrder
    Grace <- MCGrace
    MaxLease <- MCMaxLease
    Horizon = 2
    Catalog <- MCCatalog
    Scope <- MCScope
    Subject = assistant
    Sources = {assistant}
    Observations <- MCObservations
    Scheme = "sha256-digest"
    MaxPasses = 2
SPECIFICATION LiveSpec
INVARIANTS
    TypeOK
    SettledDirectoryIsTheGateway
    LiesCaughtInAnyMixture
PROPERTIES
    PublishedCatchesUp
CHECK_DEADLOCK FALSE
