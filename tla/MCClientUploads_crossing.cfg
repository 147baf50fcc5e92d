SPECIFICATION InputSpec
CONSTANTS
    ConcurrencyLimit = 1
    MaxOcrRetries = 1
    MaxBatches = 1
    MaxUploads = 1
    MaxPicks = 1
    MaxSessions = 2
    MaxPolls = 2
    MaxRenames = 2
    Texts = {"a", "root"}
    MAX_FILES_PER_USER = 2
    MAX_FOLDERS_PER_USER = 4
    MAX_FS_DEPTH = 3
    MAX_ITEMS_PER_FOLDER = 2
    MAX_FOLDER_ID = 5
    MAX_FILE_ID = 3
    MaxMessages = 8
    Letters = {"a"}
    Ideographs = {"k"}
    Mark = "."
    Blank = " "
    MaxResults = 1
    MaxQuery = 2
    MaxChunk = 2
INVARIANT FilesStayHome
CHECK_DEADLOCK FALSE
