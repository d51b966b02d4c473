CONSTANTS
    launchCall = launchCall
    quitCall = quitCall
    LaunchCall = launchCall
    QuitCall = quitCall
    Calls = {launchCall, quitCall}
    NoRun = NoRun
    Connections = {x}
SPECIFICATION ShellFairSpec
INVARIANT NoRunIsLost
INVARIANT ConnectionsHearTheStop
INVARIANT StatusIsTrue
INVARIANT ShownIsTrue
PROPERTY CallsReturn
PROPERTY QuitReturns
CHECK_DEADLOCK FALSE
