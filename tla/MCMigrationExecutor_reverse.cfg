CONSTANTS
    p1 = p1
    p2 = p2
    Migrators <- MCMigrators
    Last = 3
    NumOps <- MCNumOps
    Calls <- AllCalls
    FaultyReads = TRUE
SPECIFICATION Spec
SYMMETRY MCSymmetry
INVARIANT OneRowEach
INVARIANT RecordedRan
