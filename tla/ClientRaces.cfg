SPECIFICATION Spec
CONSTANTS
    gui = gui
    worker = worker
    Caller = {gui, worker}
    MaxSend = 1
    MaxPosted = 2
    Chatty = TRUE
INVARIANTS
    DisconnectOwnsGuard
    StoppedIsComplete
    ToldTheTruth
    PromiseIsKept
PROPERTIES
    QuietWhenStopped
    StopStops
CHECK_DEADLOCK FALSE
