SPECIFICATION Spec
CONSTANTS
    Caller = {c1, c2}
    Session = {s1}
    MaxSrv = 2
    MaxSend = 0
INVARIANTS OneAcceptLoop
CHECK_DEADLOCK FALSE
