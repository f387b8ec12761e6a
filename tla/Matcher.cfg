CONSTANTS
    NSources = 3
    MaxRecords = 4
    Texts <- MCTexts
    Queries <- MCQueries
    Pass = Pass
SPECIFICATION Spec
INVARIANTS
    TypeOK
    ResolvesAsPromised
    BackendsAgree
    TreeDescends
    BuilderAccepts
    LastPruneOverrides
