CONSTANTS
    NodeIds = {n1}
    Principals = {p1, p2}
    Models = {m1}
    RequestRoles = {"User"}
    PeriodicRuns = {"run"}
    InitialRuns = {}
    MAX_TOOL_RESPONSES = 1
    MAX_CHATS = 2
    MAX_MESSAGES = 4
    MAX_JOBS = 2
    PENDING_TIMEOUT = 0
    INPROGRESS_TIMEOUT = 0
    TEMP_CHAT_TTL = 1
    CHAT_TTL = 1
    ARCHIVED_TTL = 1
SPECIFICATION FairSpec
INVARIANTS TypeOK ActiveJobsAgree ListsAreExact
PROPERTIES FinishedIsFinal DeletionIsDue LocksGenerations GenerationEnds
