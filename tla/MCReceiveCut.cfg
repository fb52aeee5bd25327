\* As MCReceive.cfg, with nothing but zeros behind the data in the buffer.
CONSTANTS
    HttpMessages <- MCHttpMessages
    Frames <- MCFrames
    MaxMessages = 2
    Junk = {0}
    CR = CR
    LF = LF
    NoKey = NoKey
    line = line
    a = a
    b = b
    p = p
    q = q
    Radix = 4
    ShortMax = 2
    FrameLengthLimit = 30
SPECIFICATION FairSpec
INVARIANT CutReportsZero
CHECK_DEADLOCK FALSE
