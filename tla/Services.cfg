SPECIFICATION ServicesSpec
CONSTANTS
    Connections = {c1, c2}
    Pushers = {p1, p2}
    MaxPushes = 2
    McpCallers = {t1, t2}
    McpClients = {m1, m2}
    NoClient = NoClient
    Processes = {q1, q2, q3}
    NoProcess = NoProcess
    MaxRestarts = 1
    MaxOps = 3
    RpcCallers = {t1, t2}
    NoCaller = NoCaller
    MaxRpcs = 4
    MaxUnasked = 2
    Roles = {"sisyphus", "fixer"}
    OtherAgents = {"alice"}
    Runners = {r1, r2}
    max_per_agent = 1
    MaxTasks = 2
    MaxRequests = 4
    CallIds = {1, 2}
    Texts = {"x", "decided"}
    Decisions = {"decided"}
    preserve_recent_turns = 2
    preserve_recent_tool_results = 1
    error_threshold = 1
    keep_recent = 1
    max_total = 2
    parts = 2
    budget = 2
    MaxHistory = 4
    HIDDEN_THOUGHT_TAIL_CHARS = 2
    MaxText = 6
    MaxCalls = 2
    MaxParts = 2
    Spellings = {"here", "absolute"}
    Lines = {"a"}
    Scopes = {"user"}
    Signals = {"s"}
    MaxClock = 2
    MaxCrashes = 1
    Chats = {s1}
    Keys = {"k"}
    Models = {"opencode/x", "claude"}
    Selections = {"openrouter"}
    MaxChanges = 2
    MaxMessages = 2
    MaxTexts = 2
    MaxUses = 1
    MaxErrors = 1
    MaxWire = 1
    Dispatches = {d1}
    Tiers = {"core"}
    Strategies = {"merge"}
    HookNames = {h1, h2, h3}
    PageSize = 1
    MaxSessions = 2
    MaxLength = 3
    MaxAsked = 3
    Tasks = {{"ship-it", "insecurity"}, {"it", "task"}, {"run", "workflow"}}
    Phases = {"implement", "security"}
    Risks = {"medium", "high"}
    TraceSize = 1
    MaxEdits = 1
    Contents = {0, 1}
    NewTexts = {1, 2}
    Hashes = 16
    MaxLines = 3
    MaxEditsOfCall = 2
    Builtin = {"scribe"}
    Custom = {"mine", "yours"}
    Capitalised = {"Mine"}
    SlugOf <- AgentSlugs
    MaxAgentCalls = 2
    max_sessions = 1
    maxReconnectAttempts = 1
    MaxUserConnects = 2
    Accounts = {u1, u2}
    MaxAnswers = 3
    MaxCostFaults = 1
    MaxCostCrashes = 1
    Selectable = {"lmstudio", "openai", "google"}
    ToolUseIds = {1, 2}
    MaxDialogue = 5
CHECK_DEADLOCK FALSE
INVARIANTS
    PushesInOrder
    AnswersMatch
    RunsAccountForBoard
    CompactionSound
    ThoughtsStayHidden
    CallsArriveWhole
    MemoriesCurrent
    KeysAreCurrent
    ShowsWhatWasRecorded
    HooksInOrder
    HistoryFits
    SkillsSound
    EditsLandWhereShown
    AgentsAreKept
    BridgeSound
    UsageIsBooked
    RequestsSound
PROPERTIES ServerIsMoved
