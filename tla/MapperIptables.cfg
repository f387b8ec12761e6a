CONSTANTS
    None = None
    Backend = "iptables"
    Fakes = {f1,f2}
    ForeignFakes = {x1}
    Reals = {r1,r2}
    Callers = {c1,c2}
    TTL = 2
    LeaseTTL = 1
    Slack = 1
    AddFails = TRUE
    CleanFails = TRUE
    AdoptFails = FALSE
    CrashWhen = "any"
SPECIFICATION FairSpec
INVARIANTS
    DnatUnambiguous
    NoOrphans
PROPERTIES
    CallsReturn
    PoolDrains
