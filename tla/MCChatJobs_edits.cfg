CONSTANTS
    NodeIds = {n1}
    Principals = {p1}
    Models = {m1}
    RequestRoles = {"User"}
    PeriodicRuns = {}
    InitialRuns = {"initial"}
    MAX_TOOL_RESPONSES = 1
    MAX_CHATS = 2
    MAX_MESSAGES = 5
    MAX_JOBS = 3
    PENDING_TIMEOUT = 0
    INPROGRESS_TIMEOUT = 0
    TEMP_CHAT_TTL = 0
    CHAT_TTL = 0
    ARCHIVED_TTL = 0
SPECIFICATION Spec
INVARIANTS HistoryIsSound ContextIsStable
