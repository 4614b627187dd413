CONSTANTS
    None = None
    provider = provider
    application = application
    product = product
    Controls <- MCControls
    Grace <- MCGrace
    MaxLease <- MCMaxLeaseShort
    Horizon = 6
    Catalog <- MCCatalog
    Systems <- MCChain
    Scopings <- MCScopingsChain
    QuietFrom = 1
    Fragile = {provider}
    MaxRunning = 1
SPECIFICATION Spec
INVARIANTS
    TypeOK
    DecayPropagates
    NoEvidenceNoBadge
CHECK_DEADLOCK FALSE
