SPECIFICATION ServicesSpec
CONSTANTS
    gui = gui
    s1 = s1
    i1 = i1
    w1 = w1
    w2 = w2
    t1 = t1
    t2 = t2
    t3 = t3
    io = io
    h1 = h1
    h2 = h2
    h3 = h3
    h4 = h4
    Caller = {gui}
    Session = {s1}
    MaxSrv = 1
    MaxSend = 1
    Id = {i1}
    MaxObj = 2
    LateCalls = 0
    Worker = {w1, w2}
    Task = {t1, t2, t3}
    Level = {1, 2}
    MaxLines = 2
    RollSize = 1
    Io = io
    Handler = {h1, h2, h3, h4}
    Large = {h4}
    MaxStream = 3
INVARIANT
    PartsAreSound
PROPERTIES
    CallsReturn IsService
    StepsAreSound StopsEnd WorkIsDone TlsEnds
CHECK_DEADLOCK FALSE
