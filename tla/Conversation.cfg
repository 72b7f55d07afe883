CONSTANTS
    Scenarios = {"protocol", "stream", "summary", "tasks", "store", "ui", "view", "composer", "settings", "delegation"}
    None = None
    Shapes <- Histories
    MaxMessages = 5
    Windows <- TokenWindows
    w1 = w1  w2 = w2
    TaskIds = {1, 2, 3}
    Workers = {w1, w2}
    MaxTaskOps = 4
    s1 = s1  s2 = s2  h = h  v1 = v1  v2 = v2
    Ids = {s1, s2}
    Hashes = {h}
    Previews = {v1, v2}
    MaxJournal = 4
    a = a  b = b  forged = forged  noart = noart
    m1 = m1  m2 = m2  c1 = c1
    MaxRetries = 2
    Indexes = {0, 1}
    MaxText = 2
    Contents = {a, b}
    Forged = forged
    NoArtifact = noart
    MaxRefs = 1
    Flaws = {"decode", "bounds", "blank"}
    MaxFacts = 6
    StoredIds <- UiSessions
    RowIds = {c1}
    StartModes = {"default"}
    Models = {m1, m2}
    MaxRuns = 2
    MaxEvents = 2
    MaxAsks = 2
    MaxKeys = 2
    MaxInputs = 4
    HeaderHeight = 2
    FooterHeight = 1
    ModeHintHeight = 1
    MinConversationRows = 2
    PlanMaxRows = 3
    FrameHeights = {2, 5, 8, 11}
    PanelHeights = {3, 5}
    ScrollStep = 3
    MaxContent = 4
    MaxPlan = 3
    Unset = None
    NotGiven = None
    Files <- AllFiles
    Overrides <- GivenModels
    Flags <- FlagSets
    Wanted <- ModelNames
    U32Max = 2000000000
    Shelves <- DelegationShelves
    ParentTools = {"bash", "read", "task"}
    Registry <- NearAndFar
    Requested = {"", "fork", "x", "y"}
    MaxIterations = 2
    MaxBatch = 1
    MaxTurns = 2
SYMMETRY WorkerSymmetry
SPECIFICATION ConversationSpec
INVARIANTS
    ContextIsManaged
    StreamedIsOneShot
    
    ClaimedAfterBlockers
    WorkNeverSticks
    TablesAgree
    TurnsSettle
    ScreenIsTrue
    RunnersAreAsConfigured
    DelegationsStand
PROPERTIES
    WholeOperationsOnly
    KeysDoWhatIsShown
CHECK_DEADLOCK FALSE
