\* The drawing of the main window, its long lists, the preparation window
\* and the player.
SPECIFICATION MCSpec
CONSTANTS
    Focuses = {"draw", "long", "prep", "play"}
    Sections = {"downloads", "settings"}
    Themes = {"dark", "light"}
    Untouched = "dark"
    NoTheme = "none"
    MaxRefreshes = 2
    MaxGestures = 4
    LongRows = {1, 2, 3, 4}
    Tall = 3
    Estimated = 2
    Viewport = 2
    Overscan = 1
    MaxScrolls = 2
    Batch = 1
    Preparations = {TRUE, FALSE}
    MaxAsked = 2
    Items = {1, 2}
    MaxRequests = 2
    MaxLoads = 3
INVARIANTS
    PartTypes
    ReadyIsAsked
PROPERTIES
    PlayerSettles
    RendersCatchUp
    ListSettles
    BusyEnds
CHECK_DEADLOCK FALSE
