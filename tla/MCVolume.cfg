SPECIFICATION Spec
CONSTANTS
    t1 = t1
    t2 = t2
    h1 = h1
    h2 = h2
    Thread = {t1, t2}
    Handle = {h1, h2}
    Path <- MCPath
    Disposition = {"OPEN_IF"}
    Access = {TRUE}
    Option = {"any"}
    InitialTrees <- MCFewTrees
    NOFID = 4
    FileName = {"a", "b"}
    PartialWalk = TRUE
    ServerErrors = {5}
    MaxObjects = 2
    MaxCallbacks = 4
INVARIANTS TypeOK OneOwner HandleIntact NoServerLeak
PROPERTY IdDiscipline
SYMMETRY ThreadAndHandleSymmetry
CHECK_DEADLOCK FALSE
