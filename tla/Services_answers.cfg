SPECIFICATION ServicesSpec
CONSTANTS
    Storages = {a1, a2}
    MaxSessions = 3
    MaxCreated = 1
    MaxEntries = 2
    MaxFaults = 1
    Loaders = {a1, a2}
    MaxEvents = 3
    NoSession = NoSession
    NoLoader = NoLoader
    MaxStarts = 4
    MaxHooks = 2
    MaxRunning = 2
    MaxRetained = 1
    Closers = {a1, a2}
    Tellers = {a1, a2}
    QueueSize = 2
    MaxTold = 3
    Enders = {b1, b2}
    Threshold = 1
    InitialCooldown = 1
    MaxCooldown = 2
    Agents = {a1, a2}
    Servers = {b1, b2}
    ToolNames = {name1, name2}
    Reserved = {name2}
    NoServer = NoServer
    MaxServers = 4
    Watchers = {a1, a2}
    Readers = {read1}
    MaxRunEvents = 2
    Hashes = {a1, a2}
    NoHash = NoHash
    Scanners = {b1, b2}
    MaxUpsets = 1
    MaxReviews = 2
    Compacters = {a1, a2}
    KeepTurns = 1
    MaxLog = 5
    MaxTime = 5
    MaxLive = 5
    MaxSubagentDepth = 2
    MaxParallel = 2
    MaxBatch = 2
    MaxTurns = 4
    Scripts = {s1, s2, s3}
    Managers = {envs1}
    NoScript = NoScript
    MaxCuts = 2
    Loggers = {a1, a2}
    LogClosers = {b1, b2}
    LogQueue = 2
    MaxLines = 4
    MaxDays = 1
    MaxDiskFaults = 1
    Askers = {a1, a2}
    MaxTyped = 3
    NoAsker = NoAsker
    Prompts = {a1, a2}
    Steering = Steering
    NoPrompt = NoPrompt
    PinCallers = {a1, a2}
    PinAgents = {agent1, agent2}
    OwnDefault = {agent2}
    Chosen = {agent1}
    Refs = {ref1}
    NoRef = NoRef
    Words = {a1, a2}
    MaxShellDepth = 1
    MaxSteps = 3
    MaxLimit = 2
    MaxAsked = 1
    MaxSpent = 2
    MinuteCounts = {0, 1, 7, 15, 30, 45, 60, 90}
    HourCounts = {1, 5, 6, 24, 36}
    DayCounts = {1, 2, 7, 31, 40}
    ClockHours = {0, 1, 11, 12, 13, 23, 24}
    ClockMinutes = {0, 30, 59, 60}
    MaxSkillRuns = 2
    MaxTimeout = 2
    MaxMeddling = 1
    MaxPieces = 3
    MaxAsks = 2
    MaxContents = 4
    MaxCalls = 2
    Hosts = {a1, a2}
    Pages = {1, 2}
    Redirector = Redirector
    MaxRedirects = 2
    MaxResults = 1
    MaxFetches = 2
    Forgers = {a1, a2}
    Languages = {b1, b2}
    NoLanguage = NoLanguage
    MaxForged = 3
    MaxForgeFaults = 2
    Services = {a1, a2, s1}
    NoService = NoService
    Clients = {a1, a2}
    KeptImages = 1
    MaxRemote = 2
    Procs = {b1}
    Pictures = {a1, a2}
    MaxPressed = 2
    MaxEntered = 3
    Texts = {line1, rule, blank}
    Rule = rule
    Blank = blank
    MaxFile = 3
    MaxDiffCuts = 2
    MaxDoc = 3
    MaxSaves = 1
    MaxTouched = 1
    Runs = {a1, a2}
    CallSessions = {s1}
    CallModels = {m1, m2}
    SpareModel = m2
    Paid = {m1}
    SeedTakers = {m1}
    NoModel = NoModel
    MaxAnswers = 2
    MaxSettings = 1
    MaxFiles = 4
    GrepWorkers = 2
    OrderSize = 2
    MaxMatches = 1
    MaxMessages = 3
    MaxEntriesWalked = 3
    Room = 2
    Pics = {b1, b2}
    PicLoaders = {a1, a2}
    NoPic = NoPic
    RetainDays = 1
    MaxAge = 2
    MaxPrompts = 1
    MaxWanted = 2
    MaxEdge = 5
    Owners = {a1, a2}
    Spellings = {path1, path2}
    NoOwner = NoOwner
    MaxRoots = 2
    BuiltIn = {name1}
    Found = {name2}
    MaxWalked = 2
    MaxContent = 3
    MaxDefinition = 5
    MaxAncestors = 2
    MaxChain = 3
    MaxKept = 2
    MaxStamps = 3
    NoHome = NoHome
    ChainCallers = {a1, a2}
    Length = 2
    MaxInt = 2
    DiffLines = 1
INVARIANT
    AnswersKept
CHECK_DEADLOCK FALSE
