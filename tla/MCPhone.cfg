SPECIFICATION Spec
CONSTANTS
    a = a
    b = b
    k1 = k1
    k2 = k2
    k3 = k3
    t1 = t1
    t2 = t2
    p1 = p1
    x = x
    y = y
    m1 = m1
    m2 = m2
    g1 = g1
    NoUser = NoUser
    User = {a, b}
    Call = {k1, k2, k3}
    Me = k1
    MaxKills = 2
    Spot = {"x", "y"}
    OutboxMax = 2
    Effect = {"e1"}
    MaxPoints = 3
    Captain = {a, b}
    NoCaptain = NoCaptain
    Token = {t1, t2}
    NoToken = NoToken
    Push = {p1}
    Order = {x, y}
    NoOrder = NoOrder
    MaxChanges = 2
    Entry = {1, 2, 3, 4, 5}
    PageSize = 2
    MaxMoves = 2
    Nothing = Nothing
    Courier = {m1, m2}
    NoCourier = NoCourier
    Desk = {g1}
    InRoom = {g1}
    MaxTasks = 2
INVARIANTS
    PhoneTypeOK
    SignedOutStays
    OneUser
    SavedUnlessOverlapped
    SubmittedReaches
    ScreenIsWhole
    HistoryIsPrefix
    SwitchIsTrue
    NewsReaches
PROPERTIES
    StartEnds
    OutboxDrains
CHECK_DEADLOCK FALSE
