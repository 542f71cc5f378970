SPECIFICATION Spec
CONSTANTS
    t1 = t1
    t2 = t2
    h1 = h1
    h2 = h2
    Thread = {t1}
    Handle = {h1, h2}
    Path <- MCPath
    Disposition = {"OPEN_IF"}
    Access = {TRUE}
    Option = {"any"}
    InitialTrees <- MCFewTrees
    NOFID = 4
    FileName = {"a", "b"}
    PartialWalk = FALSE
    ServerErrors = {}
    MaxObjects = 3
    MaxCallbacks = 4
INVARIANT IdsComeBack
CHECK_DEADLOCK FALSE
