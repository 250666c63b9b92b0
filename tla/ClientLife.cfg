SPECIFICATION LifeSpec
CONSTANTS
    gui = gui
    worker = worker
    Caller = {gui, worker}
    Gui = gui
    MaxSignals = 0
    MaxSend = 1
    MaxPosted = 2
    Chatty = FALSE
INVARIANTS
    TypeOK
    PreviousIsClosed
PROPERTIES
    CallsReturnToOne
    CloseIsReached
    IsService
    ButtonComesBack
    GuiComesBack
CHECK_DEADLOCK FALSE
