\* One logical request with the limits of the code; times in quarters of a second.
SPECIFICATION Spec
CONSTANTS
    MAX_ATTEMPTS = 3
    MAX_UPSTREAM_SENDS = 8
    MAX_SEMANTIC_RECOVERY_ATTEMPTS = 8
    MAX_RECOVERY_ATTEMPTS = 5
    RetryWait = 480
    NonRateLimitWait = 180
    RetryFallbackBase = 1
    RateLimitBase = 60
    RecoveryFloor = 4
    RateLimitJitters = {20}
    Jitters = {4}
    Hints = {120, 481}
INVARIANTS
    TypeOK
    SendNeverRefused
    NoPermitWhilePausing
    OverIsReported
PROPERTIES
    ImplementsLogicalRequest
