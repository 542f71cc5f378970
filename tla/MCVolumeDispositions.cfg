SPECIFICATION Spec
CONSTANTS
    t1 = t1
    t2 = t2
    h1 = h1
    h2 = h2
    Thread = {t1}
    Handle = {h1}
    Path <- MCPathAndRoot
    Disposition = {"SUPERSEDE", "OPEN", "CREATE", "OPEN_IF", "OVERWRITE", "OVERWRITE_IF"}
    Access = {TRUE, FALSE}
    Option = {"any", "directory", "nonDirectory"}
    InitialTrees <- MCTrees
    NOFID = 4
    FileName = {"a", "b"}
    PartialWalk = TRUE
    ServerErrors = {5, 13}
    MaxObjects = 3
    MaxCallbacks = 4
INVARIANT NoServerLeak
PROPERTIES DispositionHonoured CallbacksReturn
CHECK_DEADLOCK FALSE
