CONSTANTS
    p1 = p1
    p2 = p2
    Migrators <- MCTwo
    Last = 4
    NumOps <- MCBlogOps
    Migrations <- MCBlog
    Calls <- MCApplyAllOnly
    FaultyReads = TRUE
    Faults <- AllFaults
    SnakeCase <- MCSnakeCase
    WithId <- MCWithId
SPECIFICATION SchemaSpec
SYMMETRY MCSymmetry
INVARIANT SchemaMatchesRecords
INVARIANT SuccessIsComplete
INVARIANT DamageAtFrontier
PROPERTY LedgerSpec
