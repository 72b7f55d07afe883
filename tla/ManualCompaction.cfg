\* /compact between the target and the soft threshold.
CONSTANTS
    Handle = {h1}
    Text = {t1, t2}
    Payload = {small, big}
    Large = {big}
    Slimmable = {small}
    CallId = {c1}
    NoId = NoId
    NoCheckpoint = NoCheckpoint
    Manual = TRUE
    Faults = TRUE
    MaxArtifactRefs = 1
    MaxJournal = 7
    MaxActive = 3
SPECIFICATION Spec
SYMMETRY CallSymmetry
CHECK_DEADLOCK FALSE
INVARIANT
    NoSpuriousPoison
