SPECIFICATION FairSpec
CONSTANTS
    NOFID = 3
    FileName = {}
    PartialWalk = TRUE
    ServerErrors = {5}
    MaxObjects = 0
    CommandLines <- MCCommandLines
    MaxAddresses = 3
    Versions = {"9P2000.L", "9P2000"}
    MessageSizes = {1048576, 8192}
    DokanErrors <- MCDokanErrors
INVARIANTS TypeOK MountedIsReady SocketsOwned
PROPERTY MainEnds
CHECK_DEADLOCK FALSE
