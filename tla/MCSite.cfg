SPECIFICATION SiteSpec
CONSTANTS
    None = None
    Objects = {"base", "open"}
    Given <- MCGiven
    Environ <- MCEnviron
    Apps = {"auth", "notes"}
    Label <- MCLabel
    Programs <- MCPrograms
    NoMatch = NoMatch
    Numerals = {"1", "2", "9", "01"}
    ZeroLed = {"01"}
    Slugs = {"t1", "t2", "1", "2", "9", "01", "x", "notes", "home"}
    Uuids = {}
    Quoted <- MCQuoted
    Snake <- MCSnake
    WithId <- MCWithId
    Table <- MCTable
    NoName = NoName
    Null = Null
    Unset = Unset
    Unstorable = Unstorable
    GoName <- MCGoName
    Says <- MCSays
    Rejected <- MCRejected
    Layers <- MCLayers
    AllowedHosts = {"shop"}
    Users <- MCUsers
    Invalid = Invalid
    Split <- MCSplit
    Order <- MCOrder
    Containing <- MCContaining
    Decoded <- MCDecoded
    MaxLimit = 5
    DefaultLimit = 2
    Clients = {"a", "b"}
    Readers = {"a", "b"}
    Incomplete = Incomplete
    EngineDirs <- MCEngineDirs
    AppDirs <- MCAppDirs
    Patterns <- MCPatterns
    Views <- MCViews
    Sites <- MCSites
    WalkRequest <- MCWalkRequest
    CursorOf <- MCCursorOf
    Struct <- MCStruct
    Model = "Note"
    Ordered <- MCOrdered
    Config <- MCConfig
    Locked <- MCLocked
    Contradictory <- MCContradictory
    Zero <- MCZero
    StartRows <- MCStartRows
    MaxId = 3
INVARIANT SiteTypeOK
INVARIANT SetupHolds
INVARIANT DeletedOnce
INVARIANT RefusedChangesNothing
INVARIANT OwnDataIsStored
INVARIANT CursorWalkIsComplete
INVARIANT EveryRequestIsAnswered
INVARIANT ReversedPathsArrive
INVARIANT PagesShowTheirTemplate
PROPERTY NoChangeWithoutPermission
CHECK_DEADLOCK FALSE
