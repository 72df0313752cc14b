\* Permits, budgets and attempts when clients leave at any moment and the daemon
\* dies.
\* The system may stop: every connection may end up having lost its permit.
SPECIFICATION Spec
SYMMETRY Alike
CONSTANTS
    c1 = c1
    c2 = c2
    c3 = c3
    A = A
    B = B
    INITIAL_WINDOW = 1
    SOFT_FAILURE_WINDOW_FLOOR = 1
    MAX_WINDOW = 2
    NEVER = 3
    Hints = {1}
    LocalDelays = {1}
    Conns = {c1, c2, c3}
    Launches = {A}
    Request <- BudgetedRequests
    Reports <- MixedReports
    ClientsLeave = TRUE
    CachesWritten = TRUE
    MaxCrashes = 1
INVARIANTS
    PermitAccounting
    InFlightAccounting
    AttemptsWithinWindows
PROPERTIES
    AdmissionWithinWindow
    NoAdmissionOnceCondemned
CHECK_DEADLOCK FALSE
