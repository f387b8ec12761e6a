CONSTANTS
    None = None
    Backend = "nft"
    Fakes = {f1,f2,f3}
    ForeignFakes = {x1}
    Reals = {r1,r2}
    Callers = {c1,c2}
    TTL = 3
    LeaseTTL = 2
    Slack = 1
    AddFails = TRUE
    CleanFails = TRUE
    AdoptFails = FALSE
    CrashWhen = "settled"
SPECIFICATION Spec
SYMMETRY Symmetry
INVARIANTS
    TypeOK
    OneOwner
    TableInKernel
    NoOrphans
    LeaseHonoured
PROPERTY RefinesFakePool
