\* Elections, stale receipts, idle exits and deaths of daemons.
SPECIFICATION FairSpec
CONSTANTS
    old = old
    new = new
    NONE = NONE
    Daemons = {d1, d2, d3}
    Clients = {old, new}
    Version <- TwoVersions
    MaxStops = 1
INVARIANTS
    TypeOK
    ServingIsPublished
    OneCapacityAuthority
PROPERTIES
    EveryClientIsAnswered
