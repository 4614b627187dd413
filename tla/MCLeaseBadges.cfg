CONSTANTS
    None = None
    Controls <- MCControls
    Grace <- MCGrace
    MaxLease <- MCMaxLease
    Horizon = 6
    Catalog <- MCCatalog
    Publishers = {p1}
    Scopes <- MCScopes
    Emissions <- MCEmissions
    Lags <- MCLagsBadges
    MaxRecords = 1
    MaxEntries = 1
    QuietFrom = 1
    SilentFrom = 3
    SigningKeys = {"ed25519", "sha256-digest"}
SPECIFICATION Spec
INVARIANTS
    TypeOK
    BadgeSound
    BadgePrompt
    FabricationNeverBadges
    NoBadgeOverdue
CHECK_DEADLOCK FALSE
