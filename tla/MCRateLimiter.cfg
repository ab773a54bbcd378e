\* Three windows fit into the time, and each takes more requests than the limit.
SPECIFICATION Spec
CONSTANTS
    Addresses = {a1, a2}
    Limit = 2
    Window = 1
    NoEntry = NoEntry
    MaxTime = 5
    MaxRequests = 3
INVARIANTS TypeOK BurstBounded RefusedForAReason
SYMMETRY MCSymmetry
CHECK_DEADLOCK FALSE
