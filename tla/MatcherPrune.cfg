CONSTANTS
    NSources = 3
    MaxRecords = 3
    Texts <- MCTexts
    Queries <- MCQueries
    Pass = Pass
SPECIFICATION Spec
INVARIANT PruneCutsInTurn
