CONSTANTS
    Migrations <- MCInitial
    SnakeCase <- MCSnakeCase
    WithId <- MCWithId
SPECIFICATION Spec
INVARIANT PrintsWhatIsExecuted
