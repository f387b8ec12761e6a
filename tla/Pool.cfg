CONSTANTS
    Network = 4
    Broadcast = 8
SPECIFICATION Spec
INVARIANTS
    TypeOK
    NoDoubleIssue
    NoLeak
    BoundedMemory
PROPERTY RefinesFakePool
