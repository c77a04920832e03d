CONSTANTS
    Writers = {w1, w2}
    Clients = {c1}
    NoWriter = NoWriter
    RetentionLimit = 3
    PageSize = 2
    MaxEvents = 6
    MaxWire = 1
    MaxLosses = 2
SPECIFICATION FairSpec
CHECK_DEADLOCK FALSE
INVARIANTS TypeOK LogIsTail NeverAhead ResetsAreNeeded
PROPERTIES OnlyPrunedEventsAreSkipped FollowsFeed CatchesUp
