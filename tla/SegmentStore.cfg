SPECIFICATION Spec
CONSTANTS
    LastChunk = 0
    Encodes = {e1, e2}
    Requests = {r1, r2}
    Stripes = {0}
    StripeOf <- SharedStripe
    Absent = Absent
    Purger = Purger
    Free = Free
    UnlinkFails = TRUE
INVARIANTS TypeOK  
PROPERTIES  PurgeSlotReleased
