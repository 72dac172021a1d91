SPECIFICATION FairSpec
CONSTANTS
    Workers = {w1}
    MaxRetries = 2
    LlmEnabled = FALSE
    MaxScans = 1
    MaxToggles = 0
    MaxCrashes = 1
    MaxFailures = 1
    MaxDegraded = 0
    MaxDeletes = 0
PROPERTIES
    EventuallyIndexed
CHECK_DEADLOCK FALSE
