\* Cleanup in order, nothing left behind in silence, and an end.
\* A launch that has returned has nothing more to do.
SPECIFICATION FairSpec
CONSTANTS
    NONE = NONE
INVARIANTS
    TypeOK
    UsersAreServed
    SuccessIsClean
PROPERTIES
    LaunchEnds
CHECK_DEADLOCK FALSE
