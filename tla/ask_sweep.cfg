SPECIFICATION FairSpec
CONSTANTS
    a1 = a1  a2 = a2  u1 = u1  u2 = u2  v1 = v1
    None = None
    Ask = {a1, a2}
    User = {u1}
    Value = {v1}
    Request <- TwoRequests
    MaxTimeout = 2
    Retention = 2
    InsertLag = 0
    MaxInFlight = 0
    FaultKinds = {"api", "crash"}
    MaxFaults = 2
    Waiter = {w1}
    MaxPolls = 1
    MaxOptions = 1
    MaxSelectOptions = 1
    MaxEditAttempts = 3
    MaxTime = 2
INVARIANTS EditQueueSound
PROPERTIES EveryAskIsDecided EveryWaitReturns QueuedButtonsGo
