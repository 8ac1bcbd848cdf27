\* The fee shown and the fee charged.
SPECIFICATION EntrySpec
CONSTANTS
    NoFigure = NoFigure
    Figures = {30505, 1250000}
    Costs = {20000, 1300000}
    MaxEntries = 1
    MaxBooked = 2
INVARIANT FeeMeansFee
CHECK_DEADLOCK FALSE
