\* Two HTTP rows that share one slot and a media row, whose slots are one or two.
SPECIFICATION Spec
CONSTANTS
    NumHttp = 2
    NumMedia = 1
    Playlist = FALSE
    NoBatch = NoBatch
    Jobs <- MCJobs
    Kind <- MCKind
    Batch <- MCBatch
    Position <- MCPosition
    Ranks <- MCOneRank
    MaxLimit <- MCTwoMedia
INVARIANTS
    TypeOK
    PermitsAccounted
    WithinLargestLimit
    LaunchFindsJobIdle
