\* Two orders, every operation but the raw status route.
SPECIFICATION Spec
CONSTANTS
    o1 = o1
    o2 = o2
    l1 = l1
    l2 = l2
    l3 = l3
    NoOffer = NoOffer
    NoCaptain = NoCaptain
    Order = {o1, o2}
    Captain = {1, 2}
    LogId = {l1, l2, l3}
    MaxAttempts = 1
    Seat <- OrderSeat
    ManualOverride = FALSE
    StaffTargets = {}
SYMMETRY LogSymmetry
INVARIANTS AssignedIffOffered SingleAutoOrder WorkbenchButtonsWork MapAgreesWithPhone
PROPERTY AcceptedLeftAlone
CHECK_DEADLOCK FALSE
