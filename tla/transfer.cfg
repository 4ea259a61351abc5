\* A server that honours If-Range: two representations of two lengths.
SPECIFICATION Spec
CONSTANTS
    v1 = v1
    v2 = v2
    NoTag = NoTag
    Versions <- MCVersions
    Size <- MCDifferentSizes
    Tagged = {v1, v2}
    Announced = {v1}
    LaxServer = FALSE
    Limits = {FALSE}
    PausableFrom <- MCPausableStale
    MaxClaims = 2
    MaxRetries = 1
    MaxAttempts = 2
INVARIANTS
    TypeOK
    WorkerHoldsLease
    PublishedIsWhole
    CompletedHasFile
    
PROPERTIES
    StopIsRespected
    
