SPECIFICATION PagesSpec
CONSTANTS
    Files = {f1, f2}
    TextFiles = {f1, f2}
    Folders = {root, d1}
    Root = root
    Nowhere = nowhere
    MaxEdits = 2
    MaxWorks = 2
    MaxRuns = 2
    Presets = {p1, p2}
    ImportRows = {r1, r2}
    MaxPending = 2
    MaxReviews = 1
    Users = {u1, u2}
    Nobody = nobody
    MaxVisits = 2
    MaxSetups = 1
INVARIANTS
    IndexIsMaintained
    LoadingMeansWork
    ValuesSurvive
    ToggleKeepsModel
PROPERTIES
    ToolRunsEnd
    CreatedOnce
    StartupEnds
CHECK_DEADLOCK FALSE
