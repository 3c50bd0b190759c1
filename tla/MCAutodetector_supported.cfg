CONSTANTS
    Declarations <- MCSupported
    MaxMigrations = 3
    SnakeCase <- MCSnakeCase
    WithId <- MCWithId
SPECIFICATION Spec
INVARIANT NothingBreaks
INVARIANT DatabaseIsDeclared
INVARIANT RepeatsSendNothing
INVARIANT ChangesAreWritten
