\* A resumed marker keeps its artifact reference (resume.rs says so).
CONSTANTS
    Handle = {h1}
    Text = {t1, t2}
    Payload = {small, big}
    Large = {big}
    Slimmable = {small}
    CallId = {c1, c2}
    NoId = NoId
    NoCheckpoint = NoCheckpoint
    Manual = FALSE
    Faults = TRUE
    MaxArtifactRefs = 1
    MaxJournal = 7
    MaxActive = 3
SPECIFICATION Spec
SYMMETRY CallSymmetry
CHECK_DEADLOCK FALSE
INVARIANT
    ResumeKeepsArtifactRefs
