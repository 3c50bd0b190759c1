CONSTANTS
    p1 = p1
    p2 = p2
    Migrators <- MCTwo
    Last = 4
    NumOps <- MCBlogOps
    Migrations <- MCBlog
    Calls <- MCApplyAllOnly
    FaultyReads = FALSE
    Faults <- MCNoFaults
    SnakeCase <- MCSnakeCase
    WithId <- MCWithId
SPECIFICATION FairSchemaSpec
INVARIANT RaceLeavesNoDamage
PROPERTY EventuallyMigrated
