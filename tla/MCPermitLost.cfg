\* A client that leaves while its grant is on the way.
\* The system may stop: every connection may end up having lost its permit.
SPECIFICATION Spec
CONSTANTS
    c1 = c1
    c2 = c2
    c3 = c3
    A = A
    B = B
    INITIAL_WINDOW = 1
    SOFT_FAILURE_WINDOW_FLOOR = 1
    MAX_WINDOW = 2
    NEVER = 3
    Hints = {1}
    LocalDelays = {1}
    Conns = {c1, c2}
    Launches = {A}
    Request <- BudgetedRequests
    Reports <- BudgetedReports
    ClientsLeave = TRUE
    CachesWritten = FALSE
    MaxCrashes = 0
INVARIANTS
    PermitsReturned
CHECK_DEADLOCK FALSE
