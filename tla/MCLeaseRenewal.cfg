CONSTANTS
    None = None
    Controls <- MCControls
    Grace <- MCGrace
    MaxLease <- MCMaxLease
    Horizon = 5
    Catalog <- MCCatalog
    Publishers = {p1, p2}
    Scopes <- MCScopesPolicy
    Emissions <- MCEmissionsPolicy
    Lags <- MCLags
    MaxRecords = 2
    MaxEntries = 2
    QuietFrom = 1
    SilentFrom = 2
    SigningKeys = {"ed25519"}
SPECIFICATION LiveSpec
INVARIANTS
    BadgeSound
    BadgePrompt
PROPERTIES
    BadgesOnlyDecay
    SilenceLapses
CHECK_DEADLOCK FALSE
