SPECIFICATION FairSpec
CONSTANTS
    d1 = d1  d2 = d2  ea = ea  eb = eb  ec = ec
    Device = {d1}
    Endpoint = {ea, ec}
    Host <- Hosts
    Hold = 1
    Cooldown = 2
    RequestTimeout = 1
    Lease = 3
    BackoffCap = 4
    MaxAttempts = 1
    Concurrency = 2
    MaxRegistrations = 2
    MaxPending = 2
    NoRow = NoRow
INVARIANTS WakeIsDue OnePerHost
PROPERTIES AttemptsSpaced WakeArrives
CHECK_DEADLOCK FALSE
