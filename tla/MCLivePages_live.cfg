SPECIFICATION SumSpec
CONSTANTS
    BackendJobs = {1}
    JobEnds = {"completed", "interrupted"}
    LastRow = 2
    MAX_ROWS = 2
    MaxPollsInFlight = 2
    MaxActivityFaults = 1
    Bases = {"label"}
    Letters = {a}
    MaxQueuePolls = 2
    MaxQueueClicks = 1
    MaxQueueFaults = 1
    Queries <- MCQueries
    FirstFiles = {1}
    ScanSlots = {s1, s2}
    Polls = {p1}
    MaxDiskChanges = 1
    MaxSiteFaults = 1
    MaxSiteClicks = 1
    Services = {"search"}
    HealthPolls = {1, 2}
    ActivityPolls = {3}
    MaxServiceChanges = 1
    MaxBoardFaults = 1
    MaxBoardClicks = 1
    Apps = {"comfyui", "files"}
    AppQueries = {{"comfyui", "files"}, {"files"}}
    MaxAppChanges = 1
    MaxHubClicks = 2
PROPERTIES RowsSettle StuckLettersAreShown OpenGalleryCatchesUp OpenBoardsSettle
CHECK_DEADLOCK FALSE
