SPECIFICATION FairSpec
CONSTANTS
    a1 = a1  a2 = a2  u1 = u1  u2 = u2  v1 = v1
    None = None
    Ask = {a1}
    User = {u1}
    Value = {v1}
    Request <- OneRequest
    MaxTimeout = 1
    Retention = 1
    InsertLag = 0
    MaxInFlight = 1
    FaultKinds = {}
    MaxFaults = 0
    Waiter = {w1}
    MaxPolls = 1
    MaxOptions = 1
    MaxSelectOptions = 1
    MaxEditAttempts = 2
    MaxTime = 2
PROPERTIES TimedOutButtonsGo
