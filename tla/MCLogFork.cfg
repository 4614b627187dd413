CONSTANTS
    None = None
    Writers = {w1, w2}
    Verifiers = {v1}
    Systems = {s1, s2}
    MaxEntries = 3
    CrashesHappen = FALSE
    MaxEdits = 0
SPECIFICATION Spec
INVARIANTS
    AlwaysIntact
CHECK_DEADLOCK FALSE
