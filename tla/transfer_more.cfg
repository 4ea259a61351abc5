\* A server that ignores validators and tags one version of two of a length,
\* fair threads, and a bandwidth limit that comes and goes.
SPECIFICATION FairSpec
CONSTANTS
    v1 = v1
    v2 = v2
    NoTag = NoTag
    Versions <- MCVersions
    Size <- MCEqualSizes
    Tagged = {v1}
    Announced = {v1, v2}
    LaxServer = TRUE
    Limits = {TRUE, FALSE}
    PausableFrom <- MCPausable
    MaxClaims = 2
    MaxRetries = 1
    MaxAttempts = 1
INVARIANT
    PublishedHasSomeSize
PROPERTY
    StopTakesEffect
