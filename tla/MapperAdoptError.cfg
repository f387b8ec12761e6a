CONSTANTS
    None = None
    Backend = "iptables"
    Fakes = {f1,f2}
    ForeignFakes = {x1}
    Reals = {r1,r2}
    Callers = {c1}
    TTL = 2
    LeaseTTL = 1
    Slack = 1
    AddFails = FALSE
    CleanFails = FALSE
    AdoptFails = TRUE
    CrashWhen = "never"
SPECIFICATION Spec
INVARIANT DnatUnambiguous
