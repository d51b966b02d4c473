CONSTANTS
    Calls = {c1, c2, c3, c4}
    NoCall = NoCall
    Sites = {s1, s2}
    Guids = {g}
    MaxGates = 0
    MaxOriginState = 1
SPECIFICATION Spec
SYMMETRY Symmetry
INVARIANT FinishedByItsOwnSite
INVARIANT SeedsGoToAllowedSites
PROPERTY EnrollmentsAreNotReplaced
CHECK_DEADLOCK FALSE
