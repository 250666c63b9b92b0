SPECIFICATION RacesSpec
CONSTANTS
    c1 = c1
    c2 = c2
    s1 = s1
    s2 = s2
    Caller = {c1, c2}
    Session = {s1, s2}
    OneCaller = c1
    OneSession = s1
    MaxSrv = 1
    MaxSend = 1
INVARIANTS
    GuardIsUnique
    SessionsAreCaught
    LeavingIsTold
    StopIsLast
CHECK_DEADLOCK FALSE
