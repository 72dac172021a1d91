SPECIFICATION SumSpec
CONSTANTS
    LastRow = 3
    FirstRows = 2
    NearEnd = 1
    STRIP_HALF = 1
    MaxMoves = 3
    MaxTroubles = 1
    Searches <- MCSearches
    Pictures = {1, 2}
    FirstCards = {1, 2}
    Ratings = {0, 1}
    TagNames = {"t"}
    Lanes = 2
    MaxClicks = 4
    MaxFaults = 1
    Exportable = {1, 2, 3}
    Kinds = {"simple-csv"}
    LANES = 2
    MAX_IDS = 3
    MaxExportClicks = 4
    MaxExportFaults = 1
    Texts = {"", "a"}
    KeyOf <- MCKeyOf
    PrefixMatches <- MCPrefixMatches
    Catalog <- MCCatalog
    Within <- MCWithin
    MAX_SHOWN = 2
    MaxTagKeys = 4
    MaxTagFaults = 1
    Pics = {1, 2, 3}
    FolderOf <- MCFolderOf
    StarsOf <- MCStarsOf
    Sorts = {"newest", "rating_desc"}
    MaxGridClicks = 6
    MaxGridFaults = 1
    Stars = {0, 1}
    NoteIds = {1, 2}
    MaxDetailClicks = 2
    MaxDetailFaults = 1
INVARIANTS DetailIsOfShown WhatIsShownIsStored OneOutcomePerImage
    CardsOpenThemselves
PROPERTIES ViewerKeepsImage DeleteIsOfPrimedImage CardsLeaveWhenGone LatestTextWins
CHECK_DEADLOCK FALSE
