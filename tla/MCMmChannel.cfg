SPECIFICATION FairSpec
CONSTANTS
    Streams = {m, s}
    Meta = m
    m = m
    s = s
    FutureOffset = 2
    Channels <- AllChannels
    BufNum = 2
    MaxFrame = 3
    Requests <- Bursts
    FlushTo = {2}
    MaxCmds = 2
INVARIANTS TypeOK LoopsEnd BuffersAreAccounted ZslSnapshotEnds
PROPERTIES GivenInOrder CallsReturn
CHECK_DEADLOCK FALSE
