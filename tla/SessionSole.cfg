\* One process, crashes and store failures; /compact below soft is not used.
CONSTANTS
    Handle = {h1}
    Text = {t1, t2}
    Payload = {small, big}
    Large = {big}
    Slimmable = {small}
    CallId = {c1, c2}
    NoId = NoId
    NoCheckpoint = NoCheckpoint
    Manual = FALSE
    Faults = TRUE
    MaxArtifactRefs = 1
    MaxJournal = 7
    MaxActive = 4
SPECIFICATION Spec
SYMMETRY CallSymmetry
CHECK_DEADLOCK FALSE
INVARIANTS
    TypeOK
    JournalSound
    ResumesAsLeft
    NothingForgotten
PROPERTIES
    AuthorityKept
    WorkingSetKept
    ImplementsTranscript
