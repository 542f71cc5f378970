SPECIFICATION Spec
CONSTANTS
    DWORD = 4
    Epoch = 3
    Frequency = 2
    Unit = 2
    FileTimes = {1, 12, 15}
    ServerTimes <- MCServerTimes
    Sizes = {3, 6}
    Types = {4, 8}
    ErrorCodes = {13, 61}
INVARIANTS TypeOK InformationAgrees RefusalsReported SpaceOrdered
PROPERTY ContentKept
