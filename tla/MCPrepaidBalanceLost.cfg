\* Two movements of one account that overlap.
SPECIFICATION Spec
CONSTANTS
    o1 = o1
    o2 = o2
    c1 = c1
    c2 = c2
    t1 = t1
    t2 = t2
    NoTx = NoTx
    NoCaptain = NoCaptain
    Order = {o1}
    Captain = {c1, c2}
    Prepaid = {c1}
    Commission <- OrderCommission
    Charges = {3}
    Adjustments <- Corrections
    Request = {t1, t2}
    MaxRows = 3
SYMMETRY RequestSymmetry
INVARIANT BalanceIsLedger
CHECK_DEADLOCK FALSE
