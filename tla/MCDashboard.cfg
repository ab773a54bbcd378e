\* Two tenants and a key nobody knows, two loads at once, every fault.
SPECIFICATION FairSpec
CONSTANTS
    k1 = k1  k2 = k2  k3 = k3
    Keys = {k1, k2, k3}
    Known = {k1, k2}
    FirstKey = k1
    NoKey = NoKey
    Calls = {c1, c2}
    MaxAlerts = 2
    MaxClosing = 1
    OwnerOf <- MCOwnerOf
    Faults = {"request", "socket"}
INVARIANTS TypeOK NoRowTwice ListIsOwn MissedForAReason ConnectedIsLive
PROPERTIES LoadingEnds
CHECK_DEADLOCK FALSE
