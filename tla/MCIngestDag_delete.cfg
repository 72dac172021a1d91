SPECIFICATION Spec
CONSTANTS
    Workers = {w1}
    MaxRetries = 1
    LlmEnabled = TRUE
    MaxScans = 1
    MaxToggles = 1
    MaxCrashes = 0
    MaxFailures = 1
    MaxDegraded = 1
    MaxDeletes = 1
CONSTRAINT TwoTroubles
INVARIANTS
    FanInHolds
    NodeOwed
CHECK_DEADLOCK FALSE
