\* A count that does not take the start lock deletes a marker on its way to
\* being locked, and the lease it belongs to keeps nothing alive.
SPECIFICATION Spec
CONSTANTS
    NONE = NONE
    Launchers = {l1}
    Hosts = {h1}
    Inspectors = {i1}
INVARIANTS
    LeaseKeepsBackend
