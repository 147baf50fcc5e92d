SPECIFICATION SceneSpec
CONSTANTS
    Chats = {c1}
    MaxJobs = 2
    MaxSockets = 2
    MaxConnects = 2
    MaxTimers = 1
    MaxOps = 1
    MaxTurns = 2
    AskTurns = 1
    ToolCalls = TRUE
    large = large
    small = small
    n1 = n1
    n2 = n2
    Models = {large, small}
    Info <- TwoModels
    Nodes = {n1, n2}
    Serves <- OneNodeEach
    Tools = {t1}
    NoModel = nomodel
PROPERTY FinalIsNoError
CHECK_DEADLOCK FALSE
