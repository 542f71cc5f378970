SPECIFICATION Spec
CONSTANTS
    t1 = t1
    t2 = t2
    Thread = {t1, t2}
    NoThread = NoThread
    Operation = {"Version", "Attach", "Clunk", "Write", "Read"}
    ErrorCodes = {2, 11, 34, 35}
    MaxCalls = 4
    MaxRead = 2
    EchoesTags = TRUE
INVARIANTS TypeOK StreamDrained RequestsFramed
PROPERTIES KeepsPromise MutexReleased
CHECK_DEADLOCK FALSE
