\* The wall clock may also step back; fairness for CapacityRecovers.
SPECIFICATION FairSpec
CONSTANTS
    INITIAL_WINDOW = 2
    SOFT_FAILURE_WINDOW_FLOOR = 2
    MAX_WINDOW = 3
    NEVER = 2
    Hints = {2}
    LocalDelays = {1}
    MIN_GROWTH_INTERVAL = 1
    BASE_GROWTH_HOLD = 1
    MAX_GROWTH_HOLD = 2
    CACHE_TTL = 1
    MaxHold = 2
    MaxUnsaved = 1
    ClockSteps <- OneTickBack
INVARIANTS
    TypeOK
    CeilingRespected
    PenaltyHasAnEnd
    BelowInitialOnlyWhenLimited
    NoRepeatedProbe
PROPERTIES
    ImplementsEnvelope
    CapacityRecovers
