CONSTANTS
    None = None
    Writers = {w1, w2, w3}
    Verifiers = {v1}
    Systems = {s1, s2}
    MaxEntries = 4
    CrashesHappen = TRUE
    MaxEdits = 0
SPECIFICATION Spec
INVARIANTS
    HalfLineCostsOneEntry
PROPERTIES
    AppendsOnly
    ShowsLatestPublished
CHECK_DEADLOCK FALSE
