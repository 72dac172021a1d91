SPECIFICATION FairSpec
CONSTANTS
    Images = {a, b}
    Rebuilders = {r1}
    Deleters = {d1}
    Flusher = flusher
    BatchMax = 2
    MaxPosts = 3
    MaxRuns = 2
    MaxFailures = 1
INVARIANTS
    AckedIsStored
PROPERTIES
    AllAnswered
CHECK_DEADLOCK FALSE
