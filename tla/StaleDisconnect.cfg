SPECIFICATION Spec
CONSTANTS
    gui = gui
    worker = worker
    Caller = {gui, worker}
    MaxSend = 1
    MaxPosted = 2
    Chatty = FALSE
INVARIANTS
    NoStaleDisconnect
CHECK_DEADLOCK FALSE
