\* Fifteen nodes: the smallest tree that insertions leave without balance.
SPECIFICATION ScriptSpec
CONSTANTS
    Few = 2
    Many = 3
    Limit = 2
    Step = 1
    Objects = {o1}
    Values = {1, 2}
    Unknown = 0
    MaxLen = 3
    MaxCap = 10
    Capacities = {0, 2}
    Slack = 1
    NumberBound = 16
    Alphabet = {65, 97}
    MaxArgument = 2
    MaxPattern = 3
    MaxText = 4
    MaxTextCap = 5
    Documents <- MCDocuments
    JsonKeys <- MCKeys
    JsonValues <- MCValues
    JsonTypes = {"Null", "Object", "Array"}
    MaxParts = 2
    Octets = {b1, b2}
    MaxData = 2
    MaxSize = 3
    MaxMoves = 2
    Nodes = {n1, n2, n3, n4, n5, n6, n7, n8, n9, n10, n11, n12, n13, n14, n15}
    NULL = NULL
    Keys = {1, 2, 3, 4, 5, 6, 7, 8, 9, 10, 11, 12, 13, 14, 15}
INVARIANT SomeCommentHolds
CHECK_DEADLOCK FALSE
