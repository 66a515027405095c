SPECIFICATION Spec
CONSTANTS
    MaxMishaps = 2
    None = None
    Gone = Gone
    Daemon = {d1}
    Launcher = {c1}
    Stopper = {}
    FaultKinds = {"fatal"}
PROPERTIES StartedMeansHealthy
\* Every process ends sooner or later.
CHECK_DEADLOCK FALSE
