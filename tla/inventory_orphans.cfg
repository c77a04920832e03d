CONSTANTS
    NodeIds = {1, 2, 3}
    NoNode = NoNode
    Labels = {box, lost}
    NoLabel = NoLabel
    OrphanLocation = lost
    Tags = {tool}
    BadTag = BadTag
    Keep = Keep
    EarlyCommit = TRUE
    MaxTagsPerRequest = 0
SPECIFICATION FollowerSpec
VIEW Tables
INVARIANTS ParentsAreContainers OnlyBareRowsAreUnknown
PROPERTIES EventsCarryEveryChange EventsNeverDangle CyclesComeFromOrphaning DeletionKeepsTheRest
