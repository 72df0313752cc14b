\* Turns, budgets and an end of waiting, for clients that stay.
SPECIFICATION FairSpec
CONSTANTS
    c1 = c1
    c2 = c2
    c3 = c3
    A = A
    B = B
    INITIAL_WINDOW = 1
    SOFT_FAILURE_WINDOW_FLOOR = 1
    MAX_WINDOW = 2
    NEVER = 3
    Hints = {1}
    LocalDelays = {1}
    Conns = {c1, c2, c3}
    Launches = {A, B}
    Request <- MixedRequests
    Reports <- MixedReports
    ClientsLeave = FALSE
    CachesWritten = FALSE
    MaxCrashes = 0
INVARIANTS
    TypeOK
    HeadPassedOverOnce
PROPERTIES
    AdmissionHonoursBudget
    RequestsServed
