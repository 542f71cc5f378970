SPECIFICATION Spec
CONSTANTS
    t1 = t1
    t2 = t2
    h1 = h1
    h2 = h2
    Thread = {t1}
    Handle = {h1, h2}
    Path <- MCPath
    Disposition = {"CREATE"}
    Access = {TRUE}
    Option = {"any"}
    InitialTrees <- MCFewTrees
    NOFID = 4
    FileName = {"a", "b"}
    PartialWalk = TRUE
    ServerErrors = {}
    MaxObjects = 3
    MaxCallbacks = 3
INVARIANT CollisionIsReal
CHECK_DEADLOCK FALSE
