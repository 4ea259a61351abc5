\* What the pages keep and show: rows, editor, storage, links, settings, updates
\* and the requests of the extension.
SPECIFICATION MCSpec
CONSTANTS
    Focuses = {"rows", "editor", "store", "intake", "pref", "look", "comp", "update", "bridge"}
    Jobs = {1, 2}
    Playlists = {2}
    Total = 1
    MaxNews = 2
    MaxMenus = 2
    Together = FALSE
    HistoryLimit = 2
    MaxEdits = 1
    MaxOpens = 2
    MaxSaves = 1
    MaxFailures = 1
    Records = {r1, r2}
    Keys = {k1}
    MaxStarts = 3
    MaxWrites = 2
    Files = {lf}
    Videos = {lv, lw}
    NoLink = nolink
    MaxCopies = 2
    MaxInputs = 1
    Fields = {pf, pg}
    Boxes = {pb}
    MaxChanges = 2
    MaxRefusals = 1
    Looks = {1, 2}
    NoLook = 0
    MaxLooks = 2
    MaxOpenings = 1
    MaxMishaps = 1
    Ids = {c}
    MaxActs = 2
    CompMaxReleases = 2
    CompMaxFaults = 1
    MaxReleases = 2
    MaxChecks = 2
    MaxInstalls = 1
    MaxLaunches = 1
    MaxSlips = 1
    Requests = {1, 2}
    MaxFaults = 1
INVARIANTS
    PartTypes
    
    
    
    
CHECK_DEADLOCK FALSE
