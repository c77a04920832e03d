CONSTANTS
    NodeIds = {1, 2, 3}
    NoNode = NoNode
    Labels = {box}
    NoLabel = NoLabel
    OrphanLocation = NoLabel
    Tags = {}
    BadTag = BadTag
    Keep = Keep
    EarlyCommit = TRUE
    MaxTagsPerRequest = 0
SPECIFICATION FollowerSpec
VIEW Tables
PROPERTY RefusalsChangeNothing
