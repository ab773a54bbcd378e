\* Failed logins and requests for suspicious and other paths, from two addresses and
\* from none, of two tenants that share a key.
SPECIFICATION Spec
CONSTANTS
    Words <- MCWords
    Tenants <- MCTenants
    Addresses <- MCAddresses
    Types = {"auth_failure", "access_log"}
    Origins = {"nginx", "apache"}
    Paths = {"/admin", "/index.html"}
    NoPath = NoPath
    NoEntry = NoEntry
    Threshold = 3
    Window = 1
    MaxTime = 2
    MaxSeen = 5
INVARIANTS TypeOK AlertJustified AttackNoticed
CHECK_DEADLOCK FALSE
