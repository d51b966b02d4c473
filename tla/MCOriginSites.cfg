CONSTANTS
    Calls = {c1, c2}
    NoCall = NoCall
    https = https
    http = http
    other = other
    d1 = d1
    d2 = d2
    Origins = {https, http, other}
    NullOrigin = NullOrigin
    Domains = {d1, d2}
    DomainOf <- MCDomainOf
    MaxGates = 0
    MaxForgets = 1
    MaxRestarts = 1
SPECIFICATION FairSpec
INVARIANT OneAtATimePerSite
INVARIANT NothingAskedTwice
INVARIANT RecordsComeFromThePerson
INVARIANT StoreMatchesMemory
PROPERTY EveryCallIsDecided
CHECK_DEADLOCK FALSE
