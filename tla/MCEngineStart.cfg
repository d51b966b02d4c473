CONSTANTS
    Calls = {c1, c2, c3}
    NoRun = NoRun
    Connections = {}
SPECIFICATION FairSpec
PROPERTY StartLeavesARunningServer
CHECK_DEADLOCK FALSE
