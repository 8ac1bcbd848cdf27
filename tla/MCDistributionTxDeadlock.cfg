\* A reject and the tick wait for each other.
SPECIFICATION Spec
CONSTANTS
    o1 = o1
    l1 = l1
    l2 = l2
    l3 = l3
    t1 = t1
    t2 = t2
    NoLog = NoLog
    NoTx = NoTx
    NoCaptain = NoCaptain
    Order = {o1}
    Captain = {1, 2}
    LogId = {l1, l2}
    Request = {t1, t2}
    MaxAttempts = 3
    Seat <- OrderSeat
    ManualOverride = FALSE
    StaffTargets = {}
    Ops = {"START", "REJECT", "EXPIRE"}
INVARIANT NoDeadlock
CHECK_DEADLOCK FALSE
