CONSTANTS
    None = None
    Controls <- MCControls
    Horizon = 0
    Grace <- MCGrace
    MaxLease <- MCMaxLease
    Catalog <- MCCatalog
    Strangers = {"retired"}
    Facts <- MCFacts
    Scoped <- MCScoped
    OffLadder = {"auto"}
    Files <- MCFiles
    MaxEdits = 3
SPECIFICATION Spec
INVARIANTS
    TypeOK
    NothingIsShed
    NoDeclarationIgnored
    NothingForNothing
CHECK_DEADLOCK FALSE
