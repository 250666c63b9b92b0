SPECIFICATION AppSpec
CONSTANTS
    gui = gui
    worker = worker
    Caller = {gui, worker}
    Gui = gui
    MaxSignals = 0
    MaxSend = 0
    MaxPosted = 1
    Chatty = FALSE
PROPERTIES
    StartPromiseIsSet
CHECK_DEADLOCK FALSE
