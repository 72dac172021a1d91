SPECIFICATION Spec
CONSTANTS
    LastImage = 3
    FirstImages = 2
    LinkFilters = {"all", "odd"}
    PanelFilters = {"all", "odd"}
    Match <- MCMatch
    Near <- MCNear
    Links <- MCLinks
    PageSize = 2
    PREFETCH_AHEAD = 1
    MAX_RESTORE_PAGES = 2
    PollWindow = 2
    MaxSearches = 1
    MaxMishaps = 1
INVARIANTS NoDuplicateRows ListIsAsItSays WarmPagesAreCurrent
PROPERTY ScrollingEnds
CHECK_DEADLOCK FALSE
