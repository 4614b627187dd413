CONSTANTS
    None = None
    provider = provider
    application = application
    product = product
    Controls <- MCControls
    Grace <- MCGrace
    MaxLease <- MCMaxLease
    Horizon = 7
    Catalog <- MCCatalog
    Systems <- MCPair
    Scopings <- MCScopingsPair
    QuietFrom = 2
    Fragile = {}
    MaxRunning = 1
SPECIFICATION Spec
INVARIANTS
    StaleUpstreamStaleDependent
CHECK_DEADLOCK FALSE
