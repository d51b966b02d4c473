CONSTANTS
    Ids = {i1, i2, i3}
    Files = {f1}
    Passwords = {p1, p2}
    None = None
    MaxSessions = 1
    SessionTtl = 3
    RememberedTtl = 2
    TransientTtl = 1
    MaxTime = 3
    Calls = {c1}
    MaxAttempts = 3
SPECIFICATION FairSpec
INVARIANT KeptOpenedItsFile
INVARIANT NeverOverTheCap
PROPERTY EndedStaysEnded
PROPERTY KeptByLeave
PROPERTY ExpiredIsWiped
PROPERTY CallsReturn
