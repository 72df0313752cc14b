\* Safety with two launchers, two hosts and a command that counts interests.
SPECIFICATION Spec
CONSTANTS
    NONE = NONE
    Launchers = {l1, l2}
    Hosts = {h1, h2}
    Inspectors = {i1}
SYMMETRY Symmetry
INVARIANTS
    TypeOK
    ShutdownSparesLeases
    RecordNamesOwner
PROPERTIES
    RecoversForLeases
