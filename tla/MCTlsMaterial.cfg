SPECIFICATION FairSpec
CONSTANTS
    Processes = {p1, p2}
    None = None
    MaxFaults = 1
INVARIANT TheWinnersPairIsStored
PROPERTY EveryProcessServes
CHECK_DEADLOCK FALSE
