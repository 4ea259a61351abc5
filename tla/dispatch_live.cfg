\* Two HTTP rows of two priorities, a limit of one or two.
SPECIFICATION FairSpec
CONSTANTS
    NumHttp = 2
    NumMedia = 0
    Playlist = FALSE
    NoBatch = NoBatch
    Jobs <- MCJobs
    Kind <- MCKind
    Batch <- MCBatch
    Position <- MCPosition
    Ranks <- MCTwoRanks
    MaxLimit <- MCTwoHttp
PROPERTIES
    FirstIsServed
    LimitReductionSettles
