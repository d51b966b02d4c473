CONSTANTS
    Calls = {c1, c2}
    pfx = pfx
    yks = yks
    PfxPaths = {pfx}
    YksPaths = {yks}
    SwapExtension <- MCSwapExtension
    Pairs = {k1, k2}
    NoCall = NoCall
    MaxCuts = 1
SPECIFICATION Spec
SYMMETRY Symmetry
PROPERTY FreshNeverReplaces
CHECK_DEADLOCK FALSE
