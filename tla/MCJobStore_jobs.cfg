SPECIFICATION FairSpec
CONSTANTS
    Jobs = {j1, j2}
    Concurrency = 2
    MaxItems = 2
    MaxDisruptions = 1
INVARIANTS
    LiveJobsAreHeld
    ScansDoNotStack
PROPERTIES
    JobsEnd
CHECK_DEADLOCK FALSE
