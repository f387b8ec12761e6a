CONSTANTS
    None = None
    Sources = {s1,s2}
    MaxVersion = 3
    EmptyVersions = {2}
    MaxConfig = 2
    ConfigReverts = FALSE
    Backends = {"fst", "radix"}
    WriteFails = TRUE
    SaveFails = TRUE
    CrashWhen = "saved"
SPECIFICATION FairSpec
INVARIANTS
    TypeOK
    RunsInForce
    NotModifiedIsTrue
PROPERTIES
    LastKnownGood
    CatchesUp
