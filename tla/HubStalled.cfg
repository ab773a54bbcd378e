\* A peer may stop reading.
SPECIFICATION FairSpec
CONSTANTS
    Conns = {c1, c2}
    NoConn = NoConn
    Faults = {"stall"}
    MaxAlerts = 1
PROPERTIES AlertReachesDashboards
CHECK_DEADLOCK FALSE
