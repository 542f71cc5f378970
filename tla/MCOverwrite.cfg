SPECIFICATION Spec
CONSTANTS
    t1 = t1
    t2 = t2
    h1 = h1
    h2 = h2
    Thread = {t1}
    Handle = {h1}
    Path <- MCPath
    Disposition = {"OVERWRITE_IF"}
    Access = {TRUE}
    Option = {"any"}
    InitialTrees <- MCTrees
    NOFID = 4
    FileName = {"a", "b"}
    PartialWalk = FALSE
    ServerErrors = {5}
    MaxObjects = 3
    MaxCallbacks = 2
PROPERTY OverwriteOverwrites
CHECK_DEADLOCK FALSE
