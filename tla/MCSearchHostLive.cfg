\* Nothing outlives the last session.
\* The system may stop: every marker may have been left by a dead launcher.
SPECIFICATION FairSpec
CONSTANTS
    NONE = NONE
    Launchers = {l1, l2}
    Hosts = {h1, h2}
    Inspectors = {}
PROPERTIES
    NothingStaysBehind
CHECK_DEADLOCK FALSE
