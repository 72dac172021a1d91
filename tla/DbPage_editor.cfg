SPECIFICATION DbSpec
CONSTANTS
    Records = {1, 2, 3}
    DbFilters = {{1, 2, 3}, {1, 3}}
    PAGE_SIZE = 1
    MaxDbClicks = 3
    MaxDbFaults = 1
INVARIANT EditorIsOfSelected
CHECK_DEADLOCK FALSE
