SPECIFICATION EvictionSpec
CONSTANTS
    LastChunk = 1
    Encodes = {e1, e2}
    Requests = {r1}
    Stripes = {0, 1}
    StripeOf <- OwnStripe
    Absent = Absent
    Purger = Purger
    Free = Free
    UnlinkFails = FALSE
    Evictors = {x1}
    Limit = 1
SYMMETRY Symmetric
INVARIANTS  LruReachesLimit
PROPERTY ClearIsAudited
