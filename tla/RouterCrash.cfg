CONSTANTS
    None = None
    Sources = {s1,s2}
    MaxVersion = 2
    EmptyVersions = {}
    MaxConfig = 1
    ConfigReverts = FALSE
    Backends = {"fst"}
    WriteFails = FALSE
    SaveFails = FALSE
    CrashWhen = "any"
SPECIFICATION Spec
INVARIANT RunsInForce
