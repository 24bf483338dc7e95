SPECIFICATION Spec
CONSTANTS
    Videos = {a}
    Children = {k1}
    Shelve = 2
    DeadAfter = 1
    Sidecar = TRUE
    NoChannel = NoChannel
    NoTag = NoTag
INVARIANTS TypeOK TagIsBacked
PROPERTIES TombstonesAreEarned FallbacksAreSpaced
