\* Five nodes and two keys: equal keys, single and double rotations.
CONSTANTS
    Nodes = {n1, n2, n3, n4, n5}
    NULL = NULL
    Keys = {1, 2}
SPECIFICATION FairSpec
INVARIANTS
    TypeOK
    LinksAgree
    SizesAgree
    LookupsAgree
PROPERTIES
    AddBalancesTheRoot
    CallsReturn
    ImplementsSortedList
