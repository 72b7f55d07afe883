CONSTANTS
    Scenarios = {"authorization", "ledger", "memory", "paths", "bash", "pages", "search", "policy", "web", "html"}
    None = None
    plain = plain  risky = risky  roomy = roomy  broken = broken  rogue = rogue
    before = before  after = after
    edit = edit  command = command  outside = outside  note = note  secret = secret
    first = first  second = second
    NoInput = NoInput
    World = {before, after}
    Input <- MCInput
    Check <- MCCheck
    Verdict <- MCVerdict
    ChecksOf <- MCChecksOf
    Default <- MCDefault
    Kind <- MCKind
    StaticRule <- MCStaticRule
    Trusted = FALSE
    Modes = {"default", "acceptEdits", "plan", "dontAsk"}
    Hook = {first, second}
    MayAllow = {first}
    MayRewrite = {first, second}
    MayAnswer = {first}
    MayPersist = {first}
    HookReplies <- MCHookReplies
    MaxRewrites = 2
    MaxGeneration = 4
    MaxIterations = 3
    MaxRestarts = 1
    MaxCalls = 2
    MaxRevision = 1
    Root <- W
    Subs = {c1, c2}
    Texts <- PolicyTexts
    Targets <- PolicyTargets
    Whitelists <- Lists
    Roots <- PolicyRoots
    MaxChanges = 3
    Races = TRUE
    Spills = TRUE
    MaxVersion = 3
    MaxIds = 4
    Slugs <- MemorySlugs
    LinkTarget <- AllToA
    Starts <- MemoryStarts
    MaxLoads = 3
    Pages <- WebPages
    Headers <- WebHeaders
    Hosts <- WebHosts
    Literals = {dev, inner, mapped}
    MaxLengths = {0, 1, 2, 4}
    MaxBody = 3
    Prescan = 2
    MaxRedirects = 1
    Helpers = {h1, h2}
    HeadBytes = 1
    TailBytes = 2
    ChunkBytes = 3
    MaxLine = 4
    MaxOutput = 5
    site = site  dev = dev  inner = inner  mapped = mapped
    h1 = h1  h2 = h2  c1 = c1  c2 = c2
SPECIFICATION ToolsSpec
INVARIANTS
    GrantsStayNarrow
    StandingIsWitnessed
    PathsLeadWhereTheySay
    RulesCoverWhatTheySay
    PagesTileTheWhole
    ListingIsATree
    CommandsEndTruly
    VersionsIdentify
    ConnectsAsAuthorized
    WordsSurvive
PROPERTIES
    OnlyAuthorizedRuns
    EveryCallEnds
    BlindOnlyByKnownWays
    MemoriesAreGuarded
    PrefixIsStable
CHECK_DEADLOCK FALSE
