\* Failing stores, no restart.
SPECIFICATION Spec
CONSTANTS
    a1 = a1  a2 = a2  a3 = a3  k1 = k1
    Alerts = {a1, a2, a3}
    Keys = {k1}
    KeyOf <- MCKeyOf
    Workers = 2
    Suppress = 2
    Faults = {"store"}
    NoEntry = NoEntry
    MaxTime = 3
    MaxBoots = 0
INVARIANTS SuppressedIsDuplicate
CHECK_DEADLOCK FALSE
