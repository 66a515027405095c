SPECIFICATION Spec
CONSTANTS
    a1 = a1  a2 = a2  u1 = u1  u2 = u2  v1 = v1
    None = None
    Ask = {a1}
    User = {u1, u2}
    Value = {v1}
    Request <- OneRequest
    MaxTimeout = 1
    Retention = 1
    InsertLag = 0
    MaxInFlight = 1
    FaultKinds = {"api", "store", "crash", "lost", "delete"}
    MaxFaults = 2
    Waiter = {w1}
    MaxPolls = 1
    MaxOptions = 1
    MaxSelectOptions = 1
    MaxEditAttempts = 2
    MaxTime = 3
INVARIANTS IInv Agreement PendingCanBeAnswered OneFailureIsVisible
PROPERTIES ImplementsAskOutcome
