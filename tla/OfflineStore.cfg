SPECIFICATION LiveSpec
CONSTANTS
    Items = {i1, i2}
    VideoOf <- OneVideo
    Kept = {i1}
    Older = {i1, i2}
    Pages = {p1, p2}
    Tasks = {t1, t2}
    NoPage = NoPage
    i1 = i1  i2 = i2  vid = vid
INVARIANTS  MigrationLosesNothing
PROPERTY FetchIsAnswered
CHECK_DEADLOCK FALSE
