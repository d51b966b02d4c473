SPECIFICATION SpecWithBer
CONSTANTS
    Bits = 3
    Infinity = Infinity
    Params <- SmallCurves
    Radix = 4
    ScalarOctets = 2
    Encoded <- Encoding
    Failed = Failed
    MaxDepth = 4
    MaxTagOctets = 2
    TagBits = 7
    MaxLengthOctets = 3
    None = None
    ReadOnlyPassword = "00000000"
    PasswordIncorrect = PasswordIncorrect
    DSKEYS = "DSKEYS"
    HiddenStem = ".h"
    BadStem = "bad"
    IdData = IdData
    GostDigest = GostDigest
    BadOid = BadOid
    Der <- SmallDer
    Pending = Pending
INVARIANT SignaturesAreExact
INVARIANT EncodingsAreExact
INVARIANT CanonicalFormIsUnique
INVARIANT ConversionsKeepKeys
INVARIANT EveryListedKeyOpens
INVARIANT VerifiedMeansSigned
CHECK_DEADLOCK FALSE
