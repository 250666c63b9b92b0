SPECIFICATION Spec
CONSTANTS
    w1 = w1
    w2 = w2
    t1 = t1
    Worker = {w1, w2}
    t2 = t2
    Task = {t1, t2}
PROPERTY IndexedTaskRuns
CHECK_DEADLOCK FALSE
