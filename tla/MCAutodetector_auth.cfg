CONSTANTS
    Declarations <- MCAuth
    MaxMigrations = 3
    SnakeCase <- MCSnakeCase
    WithId <- MCWithId
SPECIFICATION Spec
INVARIANT NothingBreaks
