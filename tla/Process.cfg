CONSTANTS
    Runs = {r1, r2, old}
    FST = FST
    Listed = {r1, r2}
    Listeners = {l1, l2}
SPECIFICATION Spec
INVARIANTS
    TypeOK
    NothingCutShort
    TempsOwned
    NoAnswerWithoutMatcher
PROPERTIES
    ReloadServed
    ProcessEnds
    InFlightAnswered
