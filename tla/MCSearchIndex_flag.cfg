SPECIFICATION Spec
CONSTANTS
    Images = {a}
    Rebuilders = {r1}
    Deleters = {d1}
    Flusher = flusher
    BatchMax = 2
    MaxPosts = 2
    MaxRuns = 2
    MaxFailures = 0
SYMMETRY Symmetry
INVARIANTS
    FlagIsHonest
CHECK_DEADLOCK FALSE
