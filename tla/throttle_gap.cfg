\* A bandwidth limit may be in force.
SPECIFICATION Spec
CONSTANTS
    v1 = v1
    v2 = v2
    NoTag = NoTag
    Versions <- MCVersions
    Size <- MCEqualSizes
    Tagged = {v1, v2}
    Announced = {v1}
    LaxServer = TRUE
    Limits = {TRUE, FALSE}
    PausableFrom <- MCPausable
    MaxClaims = 2
    MaxRetries = 1
    MaxAttempts = 2
INVARIANT PublishedIsWhole
