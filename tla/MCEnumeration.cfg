SPECIFICATION FairSpec
CONSTANTS
    a = a
    b = b
    o = o
    p = p
    Name = {a, b}
    Object = {o, p}
    MaxOffset = 4
    ErrorCodes = {5}
    MaxChanges = 2
INVARIANT TypeOK
PROPERTIES ImplementsListing FindFilesReturns
