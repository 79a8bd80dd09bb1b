SPECIFICATION Spec
CONSTANTS
    Streams = {m, s}
    Meta = m
    m = m
    s = s
    FutureOffset = 2
    Channels <- LinkedOnly
    BufNum = 2
    MaxFrame = 3
    Requests <- Bursts
    FlushTo = {2}
    MaxCmds = 2
INVARIANT NoBufferIsLost
CHECK_DEADLOCK FALSE
