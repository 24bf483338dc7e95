SPECIFICATION MCSpec
CONSTANTS
    Requests = {r1, r2}
    Extractions <- MCExtractions
    Later <- MCLater
    Nothing = Nothing
    Single = r1
    Refills = 2
    Changes = 1
INVARIANT LadderIsComplete
INVARIANT RangesFitFile
INVARIANT MemoIsHonest
INVARIANT RevokedStaysRevoked
