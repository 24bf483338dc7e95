SPECIFICATION Spec
CONSTANTS
    Accounts = {1, 2, 3}
    Pins = {p1, p2}
    NoPin = NoPin
    Unborn = Unborn
    Gone = Gone
    Nobody = Nobody
    Requests = {r1, r2, r3}
    Browsers = {mom, dad, tablet}
    MaxFailures = 1
    Kid <- TheKid
    Videos = {v1, v2}
    Channels = {1, 2}
    TrueChannel <- OneEach
    Uploads <- AllUploads
    Elapsed = {1, 2}
    MaxUsage = 3
    Starts <- Starting
    v1 = v1  v2 = v2 r1 = r1 r2 = r2 r3 = r3 mom = mom dad = dad tablet = tablet p1 = p1 p2 = p2
CHECK_DEADLOCK FALSE
INVARIANTS TypeOK SessionsAreProven AParentRemains    AckedTimeCounted
