\* Builds and session reuse by concurrent runs that may die anywhere.
CONSTANTS
    a = a
    b = b
    c = c
    shared = shared
    other = other
    Runs <- MCRuns
    Markers <- MCMarkers
    Marker <- MCMarker
    MaxMishaps = 1
    None = None
SPECIFICATION FairSpec
INVARIANTS LockExclusive NoTheftWhileFresh BuildOnce SessionExclusive
    ClaimIsBacked
PROPERTIES NoDuplicateWriter WaiterGetsIn
