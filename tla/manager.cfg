\* The list of downloads: its snapshot, dialogs, search, images and controls.
SPECIFICATION MCSpec
CONSTANTS
    Focuses = {"list", "dialog", "search", "thumb", "ctrl", "video", "set"}
    Jobs = {j1}
    Modes = {"stable", "v2"}
    MaxChanges = 1
    MaxUses = 1
    MaxFailures = 1
    Removable = {1, 2}
    MaxActs = 3
    MaxMoves = 1
    Words = {a, b}
    Link = link
    Title = title
    Nothing = nothing
    MaxInputs = 3
    Images = {1, 2}
    Pictures = {1, 2, 3}
    Local = {3}
    Slots = 1
    CacheSize = 1
    Rows = {1, 2}
    MaxClicks = 3
    MaxNews = 1
    Queries = {x, y}
    NoQuery = untitled
    MaxQueries = 5
    Listings = {1, 2}
    External = {2}
    MaxSettings = 2
    MaxTurns = 1
INVARIANTS
    PartTypes
    SuggestionsFit
    ControlsHold
    PartsHold
PROPERTIES
    SearchEnds
    ImagesSettle
    ViewConverges
    
CHECK_DEADLOCK FALSE
