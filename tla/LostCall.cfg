CONSTANTS
    Call_ = {c1, c2}
    SameId = {}
    SyncCall = {c2}
    MaxLife = 2
    KeyMoved = TRUE
    Careful = TRUE
SPECIFICATION Spec
INVARIANT NeverForgotten
CHECK_DEADLOCK FALSE
