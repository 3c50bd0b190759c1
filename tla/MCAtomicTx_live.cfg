CONSTANTS
    t1 = t1
    t2 = t2
    a1 = a1
    a2 = a2
    x1 = x1
    x2 = x2
    x3 = x3
    x4 = x4
    None = None
    Threads <- MCTwo
    Aliases <- MCAliases
    TxIds <- MCTx
    MaxConns = 3
    MaxDepth = 2
    Nests <- MCOrdered
    Escapes = FALSE
    Panics = FALSE
SPECIFICATION FairSpec
PROPERTY EveryCallEnds
INVARIANT OpenIsOwned
