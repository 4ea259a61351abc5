\* A download whose address may change while it is captured, two sends of one
\* selection, one death of the worker; two tabs. One unresolved capture fills its
\* journal, while a retry of a send needs room for two; the host is busy for
\* captures only.
SPECIFICATION MCFairSpec
CONSTANTS
    Calls <- MCCalls
    Prints <- MCPrints
    Ids <- MCIds
    Capacity = 1
    SendCapacity = 2
    SendReplies = {"accepted", "rejected"}
    Urls <- MCUrls
    Order <- MCOrder
    HostReplies = {"accepted", "rejected", "busy"}
    Downloads = {d1}
    Panel = panel
    Menu = menu
    Selections = {s1}
    Tabs = {t1, t2}
    NamingFirst = {}
    MaxRestarts = 1
    MaxSends = 2
    MaxMoves = 2
    MaxAsks = 1
    Focuses = {"capture", "send", "tabs"}
INVARIANTS
    PartTypes
    NoBlindResend
    CancelledMeansTaken
PROPERTIES
    
    FilenameResolves
    PanelSettles
CHECK_DEADLOCK FALSE
