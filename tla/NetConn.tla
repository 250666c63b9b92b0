-------------------------------- MODULE NetConn --------------------------------
(***************************************************************************)
(* The application around the client: the GUI thread with the connect      *)
(* button, the detached threads NetConn::run starts, and the callbacks on  *)
(* the client's io_context thread, which all meet in the plain member      *)
(* _state.  The user works with the TcpClient protocol only, so the server *)
(* of the NetConnItem is never started and its stop() returns at once.     *)
(*                                                                         *)
(* The client is the one of module TcpClient; its callers are the GUI      *)
(* thread and the detached threads.  While a callback runs the io_context  *)
(* runs nothing else.                                                      *)
(***************************************************************************)
EXTENDS TcpClient

CONSTANTS Gui,        \* the GUI thread
          MaxSignals  \* bound: no connection succeeds while more are queued

Io == "io"
Worker == Caller \ {Gui}

ASSUME AppAssumption ==
    /\ Gui \in Caller
    /\ Io \notin Caller
    /\ MaxSignals \in Nat

VARIABLES
    conn,     \* _state
    view,     \* the state the connect button was last told
    signals,  \* stateChanged, posted to the GUI thread by another thread
    setter,   \* setter[t]: the setState thread t is in
    worker    \* worker[w]: the detached thread w

appVars == <<conn, view, signals, setter, worker>>
allVars == <<vars, appVars>>

ConnState == {"Disconnected", "Connecting", "Connected"}

NotSetting == [at |-> "none", to |-> "Disconnected"]
Setting(v) == [at |-> "check", to |-> v]

AppInit ==
    /\ Init
    /\ conn = "Disconnected"
    /\ view = "Disconnected"
    /\ signals = <<>>
    /\ setter = [t \in {Gui, Io} |-> NotSetting]
    /\ worker = [w \in Worker |-> "none"]

-----------------------------------------------------------------------------
(* setState(v): if (_state != v) { _state = v; emit stateChanged(v); }     *)

Goes(t, at) == setter' = [setter EXCEPT ![t].at = at]

(* Where thread t goes on after setState: the GUI thread starts a thread.  *)
Returned(t) == IF t = Gui THEN "spawn" ELSE "none"

SetCheck(t) ==
    /\ setter[t].at = "check"
    /\ Goes(t, IF conn # setter[t].to THEN "assign" ELSE Returned(t))
    /\ UNCHANGED <<vars, conn, view, signals, worker>>

SetAssign(t) ==
    /\ setter[t].at = "assign"
    /\ conn' = setter[t].to
    /\ Goes(t, "emit")
    /\ UNCHANGED <<vars, view, signals, worker>>

(* Mutant: a signal of another thread than the object's is not queued.     *)
SetEmit_NotQueued(t) ==
    /\ setter[t].at = "emit"
    /\ IF t = Gui
       THEN view' = setter[t].to
       ELSE UNCHANGED view
    /\ Goes(t, Returned(t))
    /\ UNCHANGED <<vars, conn, signals, worker>>

(* On the GUI thread the button's handler is called directly, another      *)
(* thread's signal is queued.                                              *)
SetEmit(t) ==
    /\ setter[t].at = "emit"
    /\ IF t = Gui
       THEN view' = setter[t].to /\ UNCHANGED signals
       ELSE signals' = Append(signals, setter[t].to) /\ UNCHANGED view
    /\ Goes(t, Returned(t))
    /\ UNCHANGED <<vars, conn, worker>>

-----------------------------------------------------------------------------
(* The GUI thread.                                                         *)

GuiIdle == pc[Gui] = "idle" /\ setter[Gui].at = "none"

(* connectBtnClicked, the button being enabled.  run() when disconnected,  *)
(* stop() when connected, nothing otherwise.                               *)
ClickRun ==
    /\ GuiIdle
    /\ view # "Connecting"
    /\ conn = "Disconnected"
    /\ Len(inbox) <= MaxPosted
    /\ \E w \in Worker : worker[w] = "none"     \* bound: threads at a time
    /\ setter' = [setter EXCEPT ![Gui] = Setting("Connecting")]
    /\ UNCHANGED <<vars, conn, view, signals, worker>>

ClickStop ==
    /\ GuiIdle
    /\ view # "Connecting"
    /\ conn = "Connected"
    /\ Len(inbox) <= MaxPosted
    /\ Call(Gui, "stop")
    /\ UNCHANGED appVars

SpawnWorker ==
    /\ setter[Gui].at = "spawn"
    /\ Goes(Gui, "none")
    /\ \E w \in Worker :
        /\ worker[w] = "none"
        /\ worker' = [worker EXCEPT ![w] = "new"]
    /\ UNCHANGED <<vars, conn, view, signals>>

SendMessage ==
    /\ GuiIdle
    /\ conn = "Connected"
    /\ Send(Gui)
    /\ UNCHANGED appVars

(* The button's handler of a queued signal.                                *)
DeliverSignal ==
    /\ GuiIdle
    /\ signals # <<>>
    /\ view' = Head(signals)
    /\ signals' = Tail(signals)
    /\ UNCHANGED <<vars, conn, setter, worker>>

-----------------------------------------------------------------------------
(* The detached threads, and the calls all threads are in.                 *)

WorkerRun(w) ==
    /\ worker[w] = "new"
    /\ Call(w, "run")
    /\ worker' = [worker EXCEPT ![w] = "running"]
    /\ UNCHANGED <<conn, view, signals, setter>>

WorkerEnd(w) ==
    /\ worker[w] = "running"
    /\ pc[w] = "idle"
    /\ setter[Io].at = "none"
    /\ worker' = [worker EXCEPT ![w] = "none"]
    /\ UNCHANGED <<vars, conn, view, signals, setter>>

(* The promise of stop() is fulfilled after on_disconnect has returned.    *)
InCall(c) ==
    /\ pc[c] = "stop_pool" => setter[Io].at = "none"
    /\ GoOn(c)
    /\ UNCHANGED appVars

-----------------------------------------------------------------------------
(* The io_context thread.                                                  *)

(* Mutant: on_connect does not look at the error.                          *)
Callback_NoError ==
    IF state = "starting" /\ state' = "started" THEN Setting("Connected")
    ELSE IF state = "started" /\ state' = "stopped" THEN Setting("Disconnected")
    ELSE NotSetting

(* on_connect and on_disconnect set the state to what has become of the    *)
(* connection.                                                             *)
Callback ==
    IF state = "starting" /\ state' = "started" THEN Setting("Connected")
    ELSE IF state # "stopped" /\ state' = "stopped" THEN Setting("Disconnected")
    ELSE NotSetting

IoStep ==
    /\ setter[Io].at = "none"
    /\ IoNext
    /\ Callback = Setting("Connected") => Len(signals) <= MaxSignals
    /\ setter' = [setter EXCEPT ![Io] = Callback]
    /\ UNCHANGED <<conn, view, signals, worker>>

AppNext ==
    \/ \E t \in {Gui, Io} : SetCheck(t) \/ SetAssign(t) \/ SetEmit(t)
    \/ ClickRun \/ ClickStop \/ SpawnWorker \/ SendMessage \/ DeliverSignal
    \/ \E w \in Worker : WorkerRun(w) \/ WorkerEnd(w)
    \/ \E c \in Caller : InCall(c)
    \/ IoStep

(* The user need not do anything; threads that can run do.                 *)
AppFairness ==
    /\ Fairness
    /\ \A t \in {Gui, Io} : WF_allVars(SetCheck(t) \/ SetAssign(t) \/ SetEmit(t))
    /\ WF_allVars(SpawnWorker) /\ WF_allVars(DeliverSignal)
    /\ \A w \in Worker : WF_allVars(WorkerRun(w)) /\ WF_allVars(WorkerEnd(w))

AppSpec == AppInit /\ [][AppNext]_allVars /\ AppFairness

-----------------------------------------------------------------------------
Quiet ==
    /\ pc[Gui] = "idle"
    /\ \A t \in {Gui, Io} : setter[t].at = "none"
    /\ \A w \in Worker : worker[w] = "none"
    /\ signals = <<>>

(* When nothing is going on, _state and the button say what the client is. *)
Settled ==
    Quiet =>
        /\ conn = IF state = "started" THEN "Connected" ELSE "Disconnected"
        /\ view = conn

(* A start begins when the connection before it, retries included, is      *)
(* completely closed.                                                      *)
PreviousIsClosed ==
    \A c \in Caller :
        pc[c] \in {"start_pool", "start_check", "start_post"} => stopped

(* The button does not stay disabled.                                      *)
ButtonComesBack == view = "Connecting" ~> view # "Connecting"

(* The GUI thread comes back from every stop().                            *)
GuiComesBack == pc[Gui] # "idle" ~> pc[Gui] = "idle"
=============================================================================
