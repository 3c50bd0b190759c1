CONSTANTS
    Null = Null
    NoName = NoName
    Blank = Blank
    Clients = {c1, c2}
    Connections = 2
    MaxSets = 4
    BusySets = 2
    Model = "Item"
    Snake <- MCSnake
    WithId <- MCWithId
    Table <- MCTable
    Struct <- MCStruct
    Ordered <- MCOrdered
    DefaultOrdering <- MCReversed
    Steps <- MCSteps
    Tables <- MCTables
    Creates <- MCCreates
    Wanted <- MCWanted
    Assigned <- MCAssigned
    Computed <- MCComputed
    Selects <- SelectResults
    Counts <- CountReply
    Deletes <- DeleteReply
    Updates <- UpdateReply
    UpdatesExpr <- UpdateExprReply
    NewRow <- InsertRow
SPECIFICATION ormSpec
SYMMETRY MCAlike
CHECK_DEADLOCK FALSE
INVARIANT StatementsMeanTheirChain
INVARIANT EndsOfTheOrder
INVARIANT OneRowIsCreated
INVARIANT GetOrCreateGoesByTheKey
INVARIANT OnlyAggregateKeepsOne
PROPERTY QuerySetsAreImmutable
