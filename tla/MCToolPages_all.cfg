SPECIFICATION SumSpec
CONSTANTS
    LastRow = 2
    BackendJobs = {1, 2}
    JobEnds = {"completed", "interrupted"}
    MAX_ROWS = 2
    MaxPollsInFlight = 2
    MaxActivityFaults = 1
    Entries = {1, 2}
    ScanLimit = 1
    Folders <- MCFolders
    Maintenance = {"rebuild"}
    AdminJobs = {1}
    MaxAdminClicks = 3
    MaxAdminFaults = 1
    Tabs = {t1, t2}
    PageSizes = {1, 2}
    ViewModes = {"grid", "list"}
    SafetyClasses = {"sfw"}
    DefaultSettings <- MCDefaultSettings
    OldPayloads <- MCOldPayloads
    MaxSettingsEdits = 2
    Records = {1, 2, 3}
    DbFilters <- MCDbFilters
    PAGE_SIZE = 1
    MaxDbClicks = 3
    MaxDbFaults = 1
    Shas = {1}
    SmallShas = {}
    MaxByteGets = 2
    MaxCacheFaults = 1
    NodeTypes = {"tag", "lora"}
    TypedTexts = {"", "a"}
    MaxGraphClicks = 3
    MaxGraphFaults = 1
    Picks = {1, 2, 3}
    TypedUrls <- MCTypedUrls
    MAX = 2
    MaxTrayClicks = 4
    MaxTrayReloads = 1
    Dirs = {"a", "A"}
    Readable = {"a"}
    PathKey <- MCPathKey
    MaxFolderPolls = 1
    MaxFolderClicks = 3
    MaxFolderFaults = 1
    PageSize = 4
    WindowPages = 5
    ViewRows = 1
    ListLengths = {4, 21, 22, 26, 41}
    ColumnCounts = {2, 3}
    MaxWindowMoves = 3
    Books = 2
    Shelves = {"fantasy"}
    OverrideTags <- MCOverrideTags
    MaxScrapeFaults = 2
    MaxShelfClicks = 2
    FolderFiles = {f1, f2}
    Contents = {a, b}
    NoContent = NoContent
    IngestJobs = {j1}
    Keepers = {k1}
    IngestRequests <- MCIngestRequests
    ProgressEvery = 2
    MaxKept = 1
    MaxMischief = 1
INVARIANTS AnswersFitTheirQuestion NothingIsSkipped PicksComeFromTheList
    ServedAsAsked FilesAreAccounted
PROPERTIES StoredChoicesSurvive KeepsItsPromise OnlyTheEndIsBlank
CHECK_DEADLOCK FALSE
