SPECIFICATION Spec
CONSTANTS
    Nodes = {n1, n2, n3, n4}
    NULL = NULL
    Keys = {1, 2, 3}
    Dangling = Dangling
SYMMETRY Interchangeable
INVARIANTS
    ViewsAgree
    ShowsItsOrder
CHECK_DEADLOCK FALSE
