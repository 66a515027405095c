SPECIFICATION FairSpec
CONSTANTS
    None = None
    Gone = Gone
    Daemon = {d1, d2, d3}
    Launcher = {c1}
    Stopper = {s1}
    MaxMishaps = 2
    FaultKinds = {"stale", "empty", "config", "fatal", "crash", "stall", "slow", "io"}
INVARIANTS TypeOK StoppedIsGone CleanStartsExclude EntriesAreCleanedUp
PROPERTIES SomeoneComesUp StartReturns
\* Every process ends sooner or later.
CHECK_DEADLOCK FALSE
