SPECIFICATION Spec
CONSTANTS
    a1 = a1  a2 = a2  u1 = u1  u2 = u2  v1 = v1
    None = None
    Ask = {a1}
    User = {u1, u2}
    Value = {v1}
    Request <- OneRequest
    MaxTimeout = 1
    Retention = 1
    InsertLag = 1
    MaxInFlight = 2
    FaultKinds = {"lost"}
    MaxFaults = 0
    Waiter = {w1, w2}
    MaxPolls = 1
    MaxOptions = 1
    MaxSelectOptions = 1
    MaxEditAttempts = 2
    MaxTime = 2
SYMMETRY WaiterSymmetry
INVARIANTS TypeOK AnswerWasAskedFor
PROPERTIES NoEarlyTimeout DeletedOnlyPastDeadline WaitGivesUpOnlyBeforeDeadline
