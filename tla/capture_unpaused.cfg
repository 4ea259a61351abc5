\* The filename event comes first, as in the repository's smoke test.
SPECIFICATION MCSpec
CONSTANTS
    Calls <- MCCalls
    Prints <- MCPrints
    Ids <- MCIds
    Capacity = 1
    SendCapacity = 1
    SendReplies = {}
    Urls <- MCUrls
    Order <- MCOrder
    HostReplies = {"accepted", "rejected", "busy"}
    Downloads = {d1}
    Panel = panel
    Menu = menu
    Selections = {s1}
    Tabs = {t1}
    NamingFirst = {d1}
    MaxRestarts = 0
    MaxSends = 0
    MaxMoves = 0
    MaxAsks = 0
    Focuses = {"capture"}
PROPERTY
    UncertainIsHeld
CHECK_DEADLOCK FALSE
