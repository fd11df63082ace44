SPECIFICATION Spec
CONSTANTS
    OnePartAtATime = TRUE
    Amounts = {1, 2}
    NoAmount = NoAmount
    MaxRevision = 5
    Callers = {c1, c2}
    MaxCaseAttempts = 3
    Uploads = {u1, u2}
    Importers = {m1}
    MaxOcrJobs = 2
    MaxRows = 1
    MaxDrafts = 2
    SlowStorage = FALSE
    Records = {d1}
    Keepers = {k1, k2}
    Searchers = {s1}
    MaxIndexRuns = 3
    AgentJobs = {j1, j2}
    Watchers = {w1}
    MaxBatch = 2
    MaxEvents = 7
    People = {p1, p2}
    Clubs = {club1}
    Invitations = {i1}
    NoOne = NoOne
    MaxSessions = 2
    MaxClock = 1
    DiscordMessages = {g1, g2}
    Channels = {h1, h2}
    Collectors = {x1, x2}
    Editors = {e1, e2}
    Nothing = Nothing
    MaxConnection = 2
    MaxSegments = 2
    MaxJobs = 2
    MaxVersion = 2
    Requests = {r1, r2}
    Labels = {l1, l2}
    Names = {n1}
    NoName = NoName
    MaxReview = 8
    KeyMayChange = FALSE
    PhaseOrder <- MCPhases
    BY_CODE <- MCByCode
    DetailedStep = "a"
    MaxPlanEdits = 2
    MaxToolCalls = 2
    MaxPerResponse = 2
    MaxHistory = 10
    MaxTurns = 2
    UserIds = {"u1", "u2"}
    MAX_PLANNING_HISTORY = 7
    MAX_TOOL_CALLS = 2
    MaxCallIds = 2
    MaxCallsPerAnswer = 2
    ToolIds = {"t1"}
    MaxChunks = 3
    MaxBlocks = 2
    MaxModelCalls = 2
    CHUNK_MAX_CHARS = 6
    CHUNK_OVERLAP_CHARS = 3
    TITLE_MAX_CHARS = 3
    Sheets <- MCSheets
    Documents <- MCDocuments
    Catalog <- MCCatalog
    PlanTexts <- MCPlanTexts
    Compositions <- MCCompositions
    Bases <- MCBases
    QueryTexts = {"", "q1", "q2"}
    StoredChunks <- MCChunks
    MAX_QUERIES = 2
    MAX_SEARCH_ROUNDS = 2
    MaxHits = 2
    Probabilities = {0, 34, 35, 100, 101}
    JEV_THRESHOLD = 35
    DEFAULT_MAX_RETRIES = 2
    SearchLimit = 3
    EventFactsLimit = 2
    CandidateLists <- MCCandidates
    ToriRecords = {"d1", "d2"}
    AnswerLimit = 2
    LexicalLimit = 1
    ListLimit = 1
    FigureValues = {0, 1, 400, 3400, 23000, 10, 11, 100, 110, 1000, 1010, 5000, 9999, 10000, 10001, 11000, 20000, 23400, 45000, 105000, 120000, 1000000, 1200034, 12000000}
    Units = {"", "won", "people"}
    PreRoll = 2
    SilenceEnd = 4
    MaxUtterance = 9
    MinVoice = 3
    MaxTime = 16
    MaxStart = 1
    MAX_MEETING_MS = 14
    HeardTexts <- MCTexts
    AllowedDates <- MCDates
    WeekdayOf <- MCWeekday
    AllowedAmounts = {45000}
    DraftTexts <- MCDraftTexts
    MAX_ATTEMPTS = 2
    LLM_MAX_RETRIES = 2
    EMBEDDING_DIMENSIONS = 2
    MaxReplyChunks = 3
    MaxEmbedTexts = 2
CHECK_DEADLOCK FALSE
INVARIANTS
    CaseIsAnsweredOnce
    ReceiptIsBookedOnce
    RecordsStayWhole
    
    ClubsAreInOrder
    DiscordIsReadOnce
    MeetingIsJudgedAsSaid
    ReviewIsPaidOnce
    PlanIsToldAsItIs
    AgentKeepsItsWord
    TextIsToldAsItIs
    AnswersRestOnRecords
    OutputIsChecked
