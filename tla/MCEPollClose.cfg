\* One byte and the FIN behind it reach the socket as one edge.
CONSTANTS
    MaxIn = 1
    MaxOut = 1
    ReadSize = 2
    SendSpace = 2
SPECIFICATION FairSpec
CHECK_DEADLOCK FALSE
PROPERTY PeerCloseIsReported
