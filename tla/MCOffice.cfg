SPECIFICATION OfficeSpec
CONSTANTS
    adm = adm
    man = man
    dis = dis
    fre = fre
    sup = sup
    c1 = c1
    c2 = c2
    b1 = b1
    b2 = b2
    b3 = b3
    r1 = r1
    j1 = j1
    w1 = w1
    w2 = w2
    d1 = d1
    d2 = d2
    o1 = o1
    o2 = o2
    q1 = q1
    q2 = q2
    h1 = h1
    h2 = h2
    e1 = e1
    e2 = e2
    t1 = t1
    t2 = t2
    v1 = v1
    l1 = l1
    l2 = l2
    NoOffer = NoOffer
    Account = {adm, man, dis, fre, sup}
    NoAccount = NoAccount
    Member <- Members
    Company = {c1, c2}
    NoCompany = NoCompany
    Branch = {b1, b2, b3}
    NoBranch = NoBranch
    CompanyOf <- Companies
    FirstBranch <- Oldest
    Shop = {"s1", "s2"}
    Rider = {r1}
    NoRider = NoRider
    Job = {j1}
    NotYet = NotYet
    Person = {w1, w2}
    Door = {d1, d2}
    NoPerson = NoPerson
    AccessLife = 2
    RefreshLife = 3
    Ticket = {o1, o2}
    NoTicket = NoTicket
    MaxAssigns = 3
    MaxVisits = 2
    NoRole = NoRole
    MaxSent = 1
    NoFigure = NoFigure
    Figures = {30505, 1250000}
    Costs = {20000, 1300000}
    MaxEntries = 1
    MaxBooked = 2
    Setting = {"map", "prepaid"}
    Choice = {"default", "set"}
    Initially <- Untouched
    OfMap = {"map"}
    View = {"map"}
    Unset = "unset"
    MaxSaves = 2
    Carrier = {q1, q2}
    NoCarrier = NoCarrier
    Self = q1
    MaxTaps = 2
    Order = {h1, h2}
    Captain = {e1, e2}
    NoCaptain = NoCaptain
    Prepaid = {e1, e2}
    Commission <- OrderCommission
    Charges = {3}
    Adjustments <- Corrections
    Request = {t1, t2}
    NoTx = NoTx
    MaxRows = 3
SYMMETRY RequestSymmetry
INVARIANTS
    LinkedIsVisible
    DeactivationBites
    RefusedOnlyWhere
    OrdersAsEntered
    CollectedAlike
    SurfacesAgree
    StepByStep
    TotalsAdd
    DeliveredIsPaid
    WorkSurvives
PROPERTIES
    OneCommand
    SaveKeepsTheRest
    DeductedOnDelivery
CHECK_DEADLOCK FALSE
