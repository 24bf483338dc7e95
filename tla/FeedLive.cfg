SPECIFICATION LiveSpec
CONSTANTS
    Videos = {a}
    Children = {k1}
    Shelve = 1
    DeadAfter = 1
    Sidecar = FALSE
    NoChannel = NoChannel
    NoTag = NoTag
PROPERTY CatalogueHeals
