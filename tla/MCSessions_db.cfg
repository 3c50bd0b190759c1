CONSTANTS
    r1 = r1
    r2 = r2
    b1 = b1
    b2 = b2
    k1 = k1
    k2 = k2
    None = None
    Requests <- MCRequests
    Browsers <- MCBrowsers
    Names = {"cart"}
    Keys <- MCKeys
    Engine = "db"
    CookieAge = 2
    Lives = {0}
SPECIFICATION Spec
SYMMETRY MCSymmetry
INVARIANT SessionsApart
PROPERTY SessionIsKept
PROPERTY PurgeSparesTheLive
