\* Two connections, peers that stall, resume and close.
SPECIFICATION FairSpec
CONSTANTS
    Conns = {c1, c2}
    NoConn = NoConn
    Faults = {"stall"}
    MaxAlerts = 2
INVARIANTS TypeOK ExactlyItsAlerts GaugeCountsHandlers
PROPERTIES ImplementsFeed LeaverIsForgotten DueIsWritten
CHECK_DEADLOCK FALSE
