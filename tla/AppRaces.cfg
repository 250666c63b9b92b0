SPECIFICATION AppSpec
CONSTANTS
    gui = gui
    worker1 = worker1
    worker2 = worker2
    Caller = {gui, worker1, worker2}
    Gui = gui
    MaxSignals = 1
    MaxSend = 1
    MaxPosted = 1
    Chatty = FALSE
INVARIANTS
    Settled
CHECK_DEADLOCK FALSE
