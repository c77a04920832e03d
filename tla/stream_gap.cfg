CONSTANTS
    Writers = {w1}
    Clients = {c1}
    NoWriter = NoWriter
    RetentionLimit = 2
    PageSize = 2
    MaxEvents = 4
    MaxWire = 0
    MaxLosses = 0
SPECIFICATION FairSpec
CHECK_DEADLOCK FALSE
PROPERTIES NothingIsSkipped
