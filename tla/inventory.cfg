CONSTANTS
    NodeIds = {1, 2, 3}
    NoNode = NoNode
    Labels = {box}
    NoLabel = NoLabel
    OrphanLocation = NoLabel
    Tags = {fragile, tool}
    BadTag = BadTag
    Keep = Keep
    EarlyCommit = FALSE
    MaxTagsPerRequest = 1
SPECIFICATION FollowerSpec
VIEW Tables
INVARIANTS TypeOK NoDanglingRows ParentsAreContainers Forest
PROPERTIES EventsCarryEveryChange EventsNeverDangle
