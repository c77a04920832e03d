CONSTANTS
    NodeIds = {1, 2, 3, 4}
    NoNode = NoNode
    Tags = {tool, box}
    tool = tool
    box = box
    Threads = {first, second, last}
    first = first
    second = second
    last = last
    Keep = Keep
    Relabel = Relabel
    Engines = {"sqlite", "postgres"}
    Settings <- MCSettings
SPECIFICATION OrderedSpec
CHECK_DEADLOCK FALSE
INVARIANTS
    TypeOK
    CirclesNeedLocksOutOfOrder
PROPERTIES
    CyclesNeedTwoMoves
    ItemsGetChildrenInRaces
    OnlyDeletionsDangle
    CopiesGoStaleInRaces
    TagsBecomeTheList
    EveryRequestIsAnswered
