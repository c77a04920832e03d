CONSTANTS
    NodeIds = {1, 2, 3}
    NoNode = NoNode
    Labels = {box, lost}
    NoLabel = NoLabel
    OrphanLocation = lost
    Tags = {}
    BadTag = BadTag
    Keep = Keep
    EarlyCommit = FALSE
    MaxTagsPerRequest = 0
SPECIFICATION FollowerSpec
VIEW Tables
INVARIANT Forest
