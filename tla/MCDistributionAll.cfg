\* One order, every operation, staff writing any status through PATCH /orders/:id/status; the tick running.
SPECIFICATION FairSpec
CONSTANTS
    o1 = o1
    o2 = o2
    l1 = l1
    l2 = l2
    l3 = l3
    NoOffer = NoOffer
    NoCaptain = NoCaptain
    Order = {o1}
    Captain = {1, 2}
    LogId = {l1, l2}
    MaxAttempts = 3
    Seat <- OrderSeat
    ManualOverride = FALSE
    StaffTargets <- OrderStatus
INVARIANTS OneOpenOffer AttemptsBounded ModeOfOffer
PROPERTIES OffersClose ChainEnds
CHECK_DEADLOCK FALSE
