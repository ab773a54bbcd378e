\* Two workers, failing stores and restarts.
SPECIFICATION FairSpec
CONSTANTS
    a1 = a1  a2 = a2  a3 = a3  k1 = k1
    Alerts = {a1, a2, a3}
    Keys = {k1}
    KeyOf <- MCKeyOf
    Workers = 2
    Suppress = 2
    Faults = {"store", "crash"}
    NoEntry = NoEntry
    MaxTime = 4
    MaxBoots = 1
INVARIANTS TypeOK PassedAreSpaced SuppressedForAReason ShownIsStored
PROPERTIES PassedIsShown
CHECK_DEADLOCK FALSE
