CONSTANTS
    None = None
    r1 = r1
    r2 = r2
    Names = {n1,n2}
    Callers = {c1,c2}
    NUpstreams = 2
    Healthy = {0}
    Responses <- MCResponses
    Reals = {r1, r2}
    Capacity = 1
    MinTTL = 1
    MaxTTL = 1
SPECIFICATION FairSpec
INVARIANTS
    TypeOK
    NothingEscapes
    FallbackReachesAll
PROPERTIES
    FailuresNotCached
    QueriesEnd
