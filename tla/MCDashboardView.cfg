\* A feed of one row, a console of two entries, one value for most fields of the form.
\* No filter narrows the table: which rows can be opened is read by no property.
\* The service knows the key of one tenant; no alert is of the other one.
SPECIFICATION Spec
CONSTANTS
    MaxAlerts = 2
    OwnerOf <- MCOwnerOf
    SeverityOf <- MCSeverityOf
    IpOf <- MCIpOf
    Severities = {}
    Texts = {""}
    Hits <- MCHits
    Top = 1
    Limit = 1
    Tenants = {"tenant1", "tenant2"}
    FirstTenant = "tenant1"
    Known = {"tenant1"}
    Thresholds = {5}
    Webhooks = {"hook"}
    Retentions = {30}
    FirstForm <- MCFirstForm
    Keep = 1
    ToastTime = 1
    MaxBlind = 2
    None = None
INVARIANTS TypeOK ToastEnds ConsoleIsRecent
PROPERTIES OlderAboveOnlyInBatches SelectionIsKept
