CONSTANTS
    None = None
    Writers = {w1}
    Verifiers = {v1}
    Systems = {s1}
    MaxEntries = 3
    CrashesHappen = TRUE
    MaxEdits = 3
SPECIFICATION Spec
INVARIANTS
    TypeOK
    IntactMeansGenuine
    KeptHashFixesThePast
    IntactMeansComplete
    ReadableMeansIntact
CHECK_DEADLOCK FALSE
