CONSTANTS
    None = None
    provider = provider
    application = application
    product = product
    Controls <- MCControls
    Grace <- MCGrace
    MaxLease <- MCMaxLeaseShort
    Horizon = 1
    Catalog <- MCCatalog
    Systems <- MCChain
    Scopings <- MCScopingsLadder
    QuietFrom = 1
    Fragile = {}
    MaxRunning = 2
SPECIFICATION Spec
INVARIANTS
    NoLaundering
CHECK_DEADLOCK FALSE
