CONSTANTS
    Base = 2
    Draws = 2
    MaxId = 4
    Limits = {1, 2}
    Clocks <- MCClocks
    Texts <- MCTexts
    MaxChanges = 3
    FarOff = 5
SPECIFICATION Spec
CHECK_DEADLOCK FALSE
INVARIANTS
    ListsAreExactUnlessRowsMove
    NodesAnswerToOneText
PROPERTIES
    ListsEnd
