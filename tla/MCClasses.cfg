SPECIFICATION Spec
CONSTANTS
    Few = 2
    Many = 3
    Limit = 2
    Step = 1
    Objects = {o1, o2, o3}
    Values = {1, 2}
    Unknown = 0
    MaxLen = 3
    MaxCap = 10
    Capacities = {0, 2}
    Slack = 1
    NumberBound = 16
    Alphabet = {65, 97}
    MaxArgument = 2
    MaxPattern = 3
    MaxText = 4
    MaxTextCap = 5
    Documents <- MCDocuments
    JsonKeys <- MCKeys
    JsonValues <- MCValues
    JsonTypes = {"Null", "Object", "Array"}
    MaxParts = 2
    Octets = {b1, b2}
    MaxData = 2
    MaxSize = 3
    MaxMoves = 2
SYMMETRY Interchangeable
INVARIANTS
    StringEnded
    OneOwner
    PodArraysKeepOrder
    StringIsASequence
    SearchesFind
    ReplaceReplaces
    ConversionsReadBack
    JsonKeepsItsWord
    WrittenAsPromised
    DescriptorsKept
CHECK_DEADLOCK FALSE
