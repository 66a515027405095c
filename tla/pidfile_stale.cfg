SPECIFICATION Spec
CONSTANTS
    MaxMishaps = 2
    None = None
    Gone = Gone
    Daemon = {d1, d2}
    Launcher = {}
    Stopper = {}
    FaultKinds = {"stale"}
SYMMETRY Symmetry
INVARIANTS OneDaemon
\* Every process ends sooner or later.
CHECK_DEADLOCK FALSE
