\* Two messages; Radix 4 makes 16 the first long length, 30 bytes are the limit.
CONSTANTS
    HttpMessages <- MCHttpMessages
    Frames <- MCFrames
    MaxMessages = 2
    Junk = {0, 3}
    CR = CR
    LF = LF
    NoKey = NoKey
    line = line
    a = a
    b = b
    p = p
    q = q
    Radix = 4
    ShortMax = 2
    FrameLengthLimit = 30
SPECIFICATION FairSpec
INVARIANTS
    StreamIntact
PROPERTIES
    ImplementsMessageChannel
    AllArrive
CHECK_DEADLOCK FALSE
