\* Two handles attached to one session id, and /compact below soft.
CONSTANTS
    Handle = {h1, h2}
    Text = {t1}
    Payload = {big}
    Large = {big}
    Slimmable = {}
    CallId = {c1, c2}
    NoId = NoId
    NoCheckpoint = NoCheckpoint
    Manual = TRUE
    Faults = FALSE
    MaxArtifactRefs = 0
    MaxJournal = 6
    MaxActive = 3
SPECIFICATION Spec
SYMMETRY WriterSymmetry
CHECK_DEADLOCK FALSE
INVARIANTS
    CheckpointSealsJournal
    Recoverable
