\* Three bytes in, two out; a read returns two bytes, the kernel holds one.
CONSTANTS
    MaxIn = 3
    MaxOut = 2
    ReadSize = 2
    SendSpace = 1
SPECIFICATION FairSpec
CHECK_DEADLOCK FALSE
INVARIANTS
    StreamsIntact
PROPERTIES
    NoSpuriousClosedByPeer
    CloseOnSentWaits
    NoEdgeIsLost
    HangupsAreReported
