----------------------------- MODULE NetConnProofs -----------------------------
(***************************************************************************)
(* NetConn, for any number of detached threads and any bounds: whenever    *)
(* everything has come to rest, _state and the button agree with the       *)
(* client.                                                                 *)
(***************************************************************************)
EXTENDS NetConn, TcpClientProofs

(* What the callbacks say of the client.                                   *)
Shown == IF state = "started" THEN "Connected" ELSE "Disconnected"

AppTypeOK ==
    /\ conn \in ConnState /\ view \in ConnState
    /\ signals \in Seq(ConnState)
    /\ setter \in [{Gui, Io} -> [at : {"none", "check", "assign", "emit", "spawn"},
                                 to : ConnState]]
    /\ worker \in [Worker -> {"none", "new", "running"}]

(* A stopped pool has no io_context running, a pool that stops has a       *)
(* thread waiting for that.                                                *)
PoolIsWaitedFor ==
    /\ pool = "stopped" => ~ctx
    /\ pool = "stopping" => \E c \in Caller : pc[c] = "pool_wait"

(* Only the GUI thread sets Connecting, and it is in no stop() then, nor   *)
(* while that is what _state says.                                         *)
GuiSetsConnecting ==
    /\ setter[Gui].at # "none" => setter[Gui].to = "Connecting" /\ pc[Gui] = "idle"
    /\ pc[Gui] # "idle" => conn # "Connecting"

(* What a callback sets is what the client is, from the moment the client  *)
(* changes until the GUI thread overwrites it.                             *)
CallbackIsTrue ==
    /\ setter[Io].at # "spawn"
    /\ IF setter[Io].at \in {"check", "assign"}
       THEN setter[Io].to = Shown
       ELSE conn # "Connecting" => conn = Shown

(* The button knows _state, or is going to be told last.                   *)
ButtonIsTold ==
    conn # "Connecting" =>
        IF setter[Io].at = "emit" THEN setter[Io].to = conn
        ELSE IF signals # <<>> THEN signals[Len(signals)] = conn
        ELSE view = conn /\ setter[Gui].at # "emit"

(* A detached thread is in a call only while it runs NetConnItem::run.     *)
WorkersRun ==
    \A w \in Worker :
        /\ worker[w] = "running" => job[w] = "run"
        /\ pc[w] # "idle" => worker[w] = "running"

(* Thread w is going to cause a callback, or sees to it that another does: *)
(* it is before its stop, or between its stop and its start with no        *)
(* connection there that the start would be refused for.                   *)
Bound(w) ==
    \/ worker[w] = "new"
    \/ /\ worker[w] = "running"
       /\ \/ pc[w] \in {"stop_post", "stop_wait"}
          \/ /\ state # "started"
             /\ pc[w] \in {"stop_pool", "pool_wait", "start_pool", "start_check",
                           "start_post", "start_wait"}
             /\ pc[w] = "start_check" => pool = "started"

(* While _state says Connecting and no callback is about to change it,     *)
(* somebody is going to cause one.                                         *)
ConnectingEnds ==
    (conn = "Connecting" /\ setter[Io].at \notin {"check", "assign"}) =>
        \/ setter[Gui].at # "none"
        \/ \E w \in Worker : Bound(w)

AppInv ==
    /\ AppTypeOK /\ PoolIsWaitedFor /\ GuiSetsConnecting /\ CallbackIsTrue
    /\ ButtonIsTold /\ WorkersRun /\ ConnectingEnds

-----------------------------------------------------------------------------
(* The client inside the application.                                      *)

LEMMA Threads ==
    /\ Gui \in Caller /\ Gui \notin Worker /\ Io # Gui /\ Io \notin Worker
    /\ Worker \subseteq Caller
    /\ \A c \in Caller : c = Gui \/ c \in Worker
  BY AppAssumption DEF Worker

(* What a step of the application is to the client.                        *)
LEMMA AppActs ==
    [AppNext]_allVars => UNCHANGED vars \/ IoNext \/ \E c \in Caller : Acts(c)
  <1> SUFFICES ASSUME [AppNext]_allVars
               PROVE  UNCHANGED vars \/ IoNext \/ \E c \in Caller : Acts(c)
    OBVIOUS
  <1>1. CASE IoStep
    BY <1>1 DEF IoStep
  <1>2. ASSUME NEW c \in Caller, InCall(c) PROVE \E d \in Caller : Acts(d)
    BY <1>2 DEF InCall, Acts
  <1>3. CASE ClickStop \/ SendMessage
    BY <1>3, Threads DEF ClickStop, SendMessage, Acts
  <1>4. ASSUME NEW w \in Worker, WorkerRun(w) PROVE \E d \in Caller : Acts(d)
    BY <1>4, Threads DEF WorkerRun, Acts
  <1>5. ASSUME NEW w \in Worker, WorkerEnd(w) PROVE UNCHANGED vars
    BY <1>5 DEF WorkerEnd
  <1>6. CASE ClickRun \/ SpawnWorker \/ DeliverSignal
    BY <1>6 DEF ClickRun, SpawnWorker, DeliverSignal
  <1>7. ASSUME NEW t \in {Gui, Io}, SetCheck(t) \/ SetAssign(t) \/ SetEmit(t) PROVE UNCHANGED vars
    BY <1>7 DEF SetCheck, SetAssign, SetEmit
  <1>8. CASE UNCHANGED allVars
    BY <1>8 DEF allVars
  <1> QED
    BY <1>1, <1>2, <1>3, <1>4, <1>5, <1>6, <1>7, <1>8 DEF AppNext

LEMMA ClientStep ==
    ASSUME IInv, PInv, [AppNext]_allVars
    PROVE  IInv' /\ PInv'
  <1>1. CASE UNCHANGED vars \/ IoNext
    BY <1>1, StepIInv, StepPInv DEF Next
  <1>2. ASSUME NEW c \in Caller, Acts(c) PROVE IInv' /\ PInv'
    BY <1>2, CallerStep, CallerKeeps
  <1> QED
    BY <1>1, <1>2, AppActs

-----------------------------------------------------------------------------
(* setState.                                                               *)

Where == {"none", "check", "assign", "emit", "spawn"}

LEMMA GoesFacts ==
    ASSUME AppTypeOK, NEW t \in {Gui, Io}, NEW at \in Where, Goes(t, at)
    PROVE  /\ setter' \in [{Gui, Io} -> [at : Where, to : ConnState]]
           /\ setter'[t].at = at /\ setter'[t].to = setter[t].to
           /\ \A u \in {Gui, Io} : u # t => setter'[u] = setter[u]
  BY DEF AppTypeOK, Goes, Where

(* A step in which the client does nothing, and no thread begins or ends.  *)
LEMMA SameClient ==
    ASSUME AppInv, UNCHANGED <<vars, worker>>
    PROVE  /\ PoolIsWaitedFor' /\ WorkersRun' /\ Shown' = Shown
           /\ \A w \in Worker : Bound(w)' <=> Bound(w)
           /\ pc' = pc
  BY DEF AppInv, PoolIsWaitedFor, WorkersRun, Shown, Bound, vars

LEMMA GuiSetStep ==
    ASSUME AppInv, SetCheck(Gui) \/ SetAssign(Gui) \/ SetEmit(Gui)
    PROVE  AppInv'
  <1>1. /\ UNCHANGED <<vars, worker>> /\ Io # Gui
        /\ PoolIsWaitedFor' /\ WorkersRun' /\ Shown' = Shown /\ pc' = pc
    BY SameClient, Threads DEF SetCheck, SetAssign, SetEmit
  <1>2. /\ setter[Gui].at # "none" /\ setter[Gui].to = "Connecting" /\ pc[Gui] = "idle"
    BY DEF SetCheck, SetAssign, SetEmit, AppInv, GuiSetsConnecting
  <1>3. ASSUME NEW at \in Where, Goes(Gui, at)
        PROVE  /\ setter' \in [{Gui, Io} -> [at : Where, to : ConnState]]
               /\ setter'[Gui].at = at /\ setter'[Gui].to = "Connecting" /\ setter'[Io] = setter[Io]
    BY <1>1, <1>2, <1>3, GoesFacts DEF AppInv
  <1>4. CASE SetCheck(Gui)
    <2>1. /\ setter' \in [{Gui, Io} -> [at : Where, to : ConnState]]
          /\ setter'[Gui].at \in {"assign", "spawn"} /\ setter'[Gui].to = "Connecting"
          /\ setter'[Io] = setter[Io] /\ UNCHANGED <<conn, view, signals>>
      BY <1>3, <1>4 DEF SetCheck, Returned, Where
    <2> QED
      BY <1>1, <1>2, <2>1
         DEF AppInv, AppTypeOK, GuiSetsConnecting, CallbackIsTrue, ButtonIsTold, ConnectingEnds, Where
  <1>5. CASE SetAssign(Gui)
    <2>1. /\ setter' \in [{Gui, Io} -> [at : Where, to : ConnState]]
          /\ setter'[Gui].at = "emit" /\ setter'[Gui].to = "Connecting"
          /\ setter'[Io] = setter[Io] /\ conn' = "Connecting" /\ UNCHANGED <<view, signals>>
      BY <1>2, <1>3, <1>5 DEF SetAssign, Where
    <2> QED
      BY <1>1, <1>2, <2>1
         DEF AppInv, AppTypeOK, GuiSetsConnecting, CallbackIsTrue, ButtonIsTold, ConnectingEnds, Where,
             ConnState
  <1>6. CASE SetEmit(Gui)
    <2>1. /\ setter' \in [{Gui, Io} -> [at : Where, to : ConnState]]
          /\ setter[Gui].at = "emit" /\ setter'[Gui].at = "spawn" /\ setter'[Gui].to = "Connecting"
          /\ setter'[Io] = setter[Io] /\ view' = "Connecting" /\ UNCHANGED <<conn, signals>>
      BY <1>2, <1>3, <1>6 DEF SetEmit, Returned, Where
    <2> QED
      BY <1>1, <1>2, <2>1
         DEF AppInv, AppTypeOK, GuiSetsConnecting, CallbackIsTrue, ButtonIsTold, ConnectingEnds, Where,
             ConnState
  <1> QED
    BY <1>4, <1>5, <1>6

LEMMA IoSetStep ==
    ASSUME AppInv, SetCheck(Io) \/ SetAssign(Io) \/ SetEmit(Io)
    PROVE  AppInv'
  <1>1. /\ UNCHANGED <<vars, worker>> /\ Io # Gui
        /\ PoolIsWaitedFor' /\ WorkersRun' /\ Shown' = Shown /\ pc' = pc
        /\ \A w \in Worker : Bound(w)' <=> Bound(w)
    BY SameClient, Threads DEF SetCheck, SetAssign, SetEmit
  <1>2. Shown \in ConnState /\ Shown # "Connecting"
    BY DEF Shown, ConnState
  <1>3. ASSUME NEW at \in Where, Goes(Io, at)
        PROVE  /\ setter' \in [{Gui, Io} -> [at : Where, to : ConnState]]
               /\ setter'[Io].at = at /\ setter'[Io].to = setter[Io].to /\ setter'[Gui] = setter[Gui]
    BY <1>1, <1>3, GoesFacts DEF AppInv
  <1>4. CASE SetCheck(Io)
    <2>1. /\ setter' \in [{Gui, Io} -> [at : Where, to : ConnState]]
          /\ setter[Io].at = "check" /\ setter[Io].to = Shown
          /\ setter'[Io].at = IF conn # Shown THEN "assign" ELSE "none"
          /\ setter'[Io].to = setter[Io].to
          /\ setter'[Gui] = setter[Gui] /\ UNCHANGED <<conn, view, signals>>
      BY <1>1, <1>3, <1>4 DEF SetCheck, Returned, Where, AppInv, CallbackIsTrue
    <2> QED
      BY <1>1, <1>2, <2>1
         DEF AppInv, AppTypeOK, GuiSetsConnecting, CallbackIsTrue, ButtonIsTold, ConnectingEnds, Where
  <1>5. CASE SetAssign(Io)
    <2>1. /\ setter' \in [{Gui, Io} -> [at : Where, to : ConnState]]
          /\ setter[Io].at = "assign" /\ setter[Io].to = Shown /\ conn' = Shown
          /\ setter'[Io].at = "emit" /\ setter'[Io].to = Shown
          /\ setter'[Gui] = setter[Gui] /\ UNCHANGED <<view, signals>>
      BY <1>1, <1>3, <1>5 DEF SetAssign, Where, AppInv, CallbackIsTrue
    <2> QED
      BY <1>1, <1>2, <2>1
         DEF AppInv, AppTypeOK, GuiSetsConnecting, CallbackIsTrue, ButtonIsTold, ConnectingEnds, Where
  <1>6. CASE SetEmit(Io)
    <2>1. /\ setter' \in [{Gui, Io} -> [at : Where, to : ConnState]]
          /\ setter[Io].at = "emit" /\ setter'[Io].at = "none"
          /\ setter'[Gui] = setter[Gui] /\ UNCHANGED <<conn, view>>
          /\ signals' = Append(signals, setter[Io].to)
      BY <1>1, <1>3, <1>6 DEF SetEmit, Returned, Where
    <2>2. setter[Io].to \in ConnState /\ signals \in Seq(ConnState)
      BY DEF AppInv, AppTypeOK
    <2>3. /\ signals' \in Seq(ConnState) /\ signals' # <<>>
          /\ signals'[Len(signals')] = setter[Io].to
      BY <2>1, <2>2
    <2> QED
      BY <1>1, <1>2, <2>1, <2>3
         DEF AppInv, AppTypeOK, GuiSetsConnecting, CallbackIsTrue, ButtonIsTold, ConnectingEnds, Where
  <1> QED
    BY <1>4, <1>5, <1>6

-----------------------------------------------------------------------------
(* The GUI thread.                                                         *)

LEMMA ClickRunStep ==
    ASSUME AppInv, ClickRun
    PROVE  AppInv'
  <1>1. /\ UNCHANGED <<vars, worker, conn, view, signals>> /\ Io # Gui
        /\ PoolIsWaitedFor' /\ WorkersRun' /\ Shown' = Shown /\ pc' = pc
    BY SameClient, Threads DEF ClickRun
  <1>2. pc[Gui] = "idle"
    BY DEF ClickRun, GuiIdle
  <1>3. /\ setter' \in [{Gui, Io} -> [at : Where, to : ConnState]]
        /\ setter'[Gui] = Setting("Connecting") /\ setter'[Io] = setter[Io]
    <2>1. Setting("Connecting") \in [at : Where, to : ConnState]
      BY DEF Setting, Where, ConnState
    <2> QED
      BY <1>1, <2>1 DEF ClickRun, AppInv, AppTypeOK, Where
  <1>4. setter'[Gui].at = "check" /\ setter'[Gui].to = "Connecting"
    BY <1>3 DEF Setting
  <1> QED
    BY <1>1, <1>2, <1>3, <1>4
       DEF AppInv, AppTypeOK, GuiSetsConnecting, CallbackIsTrue, ButtonIsTold, ConnectingEnds, Where

LEMMA ClickStopStep ==
    ASSUME IInv, AppInv, ClickStop
    PROVE  AppInv'
  <1>1. /\ conn = "Connected" /\ UNCHANGED appVars /\ setter[Gui].at = "none"
        /\ pc[Gui] = "idle" /\ UNCHANGED <<pool, ctx, state>>
        /\ job' = [job EXCEPT ![Gui] = "stop"]
        /\ \E l \in Place : pc' = [pc EXCEPT ![Gui] = l]
    BY DEF ClickStop, GuiIdle, Call, Goto, AfterStop, Place, connVars
  <1>2. pc \in [Caller -> Place] /\ job \in [Caller -> {"run", "stop"}]
    BY DEF IInv, TypeOK
  <1>3. \A c \in Caller : c # Gui => pc'[c] = pc[c] /\ job'[c] = job[c]
    BY <1>1, <1>2
  <1>4. PoolIsWaitedFor'
    BY <1>1, <1>3 DEF AppInv, PoolIsWaitedFor
  <1>5. WorkersRun'
    BY <1>1, <1>3, Threads DEF AppInv, WorkersRun, appVars
  <1> QED
    BY <1>1, <1>4, <1>5
       DEF AppInv, AppTypeOK, GuiSetsConnecting, CallbackIsTrue, ButtonIsTold, ConnectingEnds, appVars,
           Shown

LEMMA SpawnStep ==
    ASSUME AppInv, SpawnWorker
    PROVE  AppInv'
  <1>1. /\ UNCHANGED <<vars, conn, view, signals>> /\ Io # Gui /\ pc' = pc /\ job' = job
        /\ state' = state /\ pool' = pool /\ ctx' = ctx
    BY Threads DEF SpawnWorker, vars
  <1>2. /\ setter' \in [{Gui, Io} -> [at : Where, to : ConnState]]
        /\ setter'[Gui].at = "none" /\ setter'[Io] = setter[Io]
        /\ setter[Gui].at = "spawn" /\ pc[Gui] = "idle"
    BY <1>1, GoesFacts DEF SpawnWorker, AppInv, Where, GuiSetsConnecting
  <1>3. PICK w \in Worker : worker[w] = "none" /\ worker' = [worker EXCEPT ![w] = "new"]
    BY DEF SpawnWorker
  <1>4. /\ worker' \in [Worker -> {"none", "new", "running"}] /\ worker'[w] = "new"
        /\ \A v \in Worker : v # w => worker'[v] = worker[v]
    BY <1>3 DEF AppInv, AppTypeOK
  <1>5. WorkersRun'
    BY <1>1, <1>3, <1>4 DEF AppInv, WorkersRun
  <1>6. ConnectingEnds'
    BY <1>4 DEF ConnectingEnds, Bound
  <1> QED
    BY <1>1, <1>2, <1>4, <1>5, <1>6
       DEF AppInv, AppTypeOK, GuiSetsConnecting, CallbackIsTrue, ButtonIsTold, PoolIsWaitedFor, Where, Shown

LEMMA SendMessageStep ==
    ASSUME AppInv, SendMessage
    PROVE  AppInv'
  <1>1. UNCHANGED appVars /\ UNCHANGED <<pc, job, pool, ctx, state>>
    BY DEF SendMessage, Send, connVars
  <1>2. \A w \in Worker : Bound(w)' <=> Bound(w)
    BY <1>1 DEF Bound, appVars
  <1> QED
    BY <1>1, <1>2
       DEF AppInv, AppTypeOK, GuiSetsConnecting, CallbackIsTrue, ButtonIsTold, ConnectingEnds, appVars,
           PoolIsWaitedFor, WorkersRun, Shown

LEMMA DeliverStep ==
    ASSUME AppInv, DeliverSignal
    PROVE  AppInv'
  <1>1. /\ UNCHANGED <<vars, conn, setter, worker>> /\ Io # Gui
        /\ PoolIsWaitedFor' /\ WorkersRun' /\ Shown' = Shown /\ pc' = pc
        /\ \A w \in Worker : Bound(w)' <=> Bound(w)
    BY SameClient, Threads DEF DeliverSignal
  <1>2. /\ setter[Gui].at = "none" /\ signals \in Seq(ConnState) /\ signals # <<>>
        /\ view' = Head(signals) /\ signals' = Tail(signals)
    BY DEF DeliverSignal, GuiIdle, AppInv, AppTypeOK
  <1>3. /\ view' \in ConnState /\ signals' \in Seq(ConnState)
        /\ signals' # <<>> => signals'[Len(signals')] = signals[Len(signals)]
        /\ signals' = <<>> => view' = signals[Len(signals)]
    <2> DEFINE n == Len(signals)
    <2>1. /\ n \in Nat /\ n # 0 /\ signals' \in Seq(ConnState) /\ Len(signals') = n - 1
          /\ \A i \in 1..(n - 1) : signals'[i] = signals[i + 1]
          /\ view' = signals[1] /\ view' \in ConnState
      BY <1>2
    <2>2. signals' = <<>> => n = 1
      BY <2>1
    <2>3. signals' # <<>> => n - 1 \in 1..(n - 1)
      BY <2>1
    <2> QED
      BY <2>1, <2>2, <2>3
  <1>4. ButtonIsTold'
    BY <1>1, <1>2, <1>3 DEF AppInv, ButtonIsTold
  <1> QED
    BY <1>1, <1>3, <1>4
       DEF AppInv, AppTypeOK, GuiSetsConnecting, CallbackIsTrue, ConnectingEnds

-----------------------------------------------------------------------------
(* The detached threads.                                                   *)

LEMMA StoppedPool ==
    ASSUME IInv, ~ctx
    PROVE  state = "stopped"
  BY DEF IInv, NoContext, StoppedIsComplete

LEMMA WorkerRunStep ==
    ASSUME IInv, AppInv, NEW w \in Worker, WorkerRun(w)
    PROVE  AppInv'
  <1>1. /\ worker[w] = "new" /\ pc[w] = "idle" /\ UNCHANGED <<pool, ctx, state>>
        /\ job' = [job EXCEPT ![w] = "run"]
        /\ pc' = [pc EXCEPT ![w] = IF pool = "stopped" THEN "start_pool" ELSE "stop_post"]
        /\ worker' = [worker EXCEPT ![w] = "running"]
        /\ UNCHANGED <<conn, view, signals, setter>>
    BY DEF WorkerRun, Call, Goto, AfterStop, connVars
  <1>2. /\ pc \in [Caller -> Place] /\ job \in [Caller -> {"run", "stop"}] /\ w \in Caller /\ w # Gui
        /\ worker \in [Worker -> {"none", "new", "running"}]
    BY Threads DEF IInv, TypeOK, AppInv, AppTypeOK
  <1>3. /\ \A c \in Caller : c # w => pc'[c] = pc[c] /\ job'[c] = job[c]
        /\ \A v \in Worker : v # w => worker'[v] = worker[v]
        /\ pc'[w] = IF pool = "stopped" THEN "start_pool" ELSE "stop_post"
        /\ job'[w] = "run" /\ worker'[w] = "running"
        /\ worker' \in [Worker -> {"none", "new", "running"}]
    BY <1>1, <1>2
  <1>4. PoolIsWaitedFor'
    BY <1>1, <1>3 DEF AppInv, PoolIsWaitedFor
  <1>5. WorkersRun'
    BY <1>3, Threads DEF AppInv, WorkersRun
  <1>6. Bound(w)'
    <2>1. pool = "stopped" => state # "started"
      BY StoppedPool DEF AppInv, PoolIsWaitedFor
    <2> QED
      BY <1>1, <1>3, <2>1 DEF Bound
  <1>7. GuiSetsConnecting'
    BY <1>1, <1>2, <1>3, Threads DEF AppInv, GuiSetsConnecting
  <1> QED
    BY <1>1, <1>3, <1>4, <1>5, <1>6, <1>7
       DEF AppInv, AppTypeOK, CallbackIsTrue, ButtonIsTold, ConnectingEnds, Shown

LEMMA WorkerEndStep ==
    ASSUME AppInv, NEW w \in Worker, WorkerEnd(w)
    PROVE  AppInv'
  <1>1. /\ worker[w] = "running" /\ pc[w] = "idle"
        /\ worker' = [worker EXCEPT ![w] = "none"] /\ UNCHANGED <<conn, view, signals, setter>>
        /\ UNCHANGED <<pc, job, pool, ctx, state>>
    BY DEF WorkerEnd, vars
  <1>2. /\ worker' \in [Worker -> {"none", "new", "running"}] /\ worker'[w] = "none"
        /\ \A v \in Worker : v # w => worker'[v] = worker[v]
    BY <1>1 DEF AppInv, AppTypeOK
  <1>3. \A v \in Worker : Bound(v) => Bound(v)'
    BY <1>1, <1>2 DEF Bound
  <1>4. WorkersRun'
    BY <1>1, <1>2 DEF AppInv, WorkersRun
  <1> QED
    BY <1>1, <1>2, <1>3, <1>4
       DEF AppInv, AppTypeOK, GuiSetsConnecting, CallbackIsTrue, ButtonIsTold, ConnectingEnds,
           PoolIsWaitedFor, Shown

(* What going on with a call does to the thread and to the pool.           *)
Progress(c) ==
    \/ /\ pc[c] = "stop_post" /\ pc'[c] = "stop_wait" /\ UNCHANGED <<pool, ctx>>
    \/ /\ pc[c] = "stop_wait" /\ pc'[c] = "stop_pool" /\ ~ctx /\ UNCHANGED <<pool, ctx>>
    \/ /\ pc[c] = "stop_pool" /\ pool = "started" /\ UNCHANGED ctx
       /\ pool' = "stopping" /\ pc'[c] = "pool_wait"
    \/ /\ pc[c] = "stop_pool" /\ pool # "started" /\ UNCHANGED <<pool, ctx>>
       /\ pc'[c] = AfterStop(job[c])
    \/ /\ pc[c] = "pool_wait" /\ pc'[c] = pc[c] /\ UNCHANGED <<pool, ctx>>
    \/ /\ pc[c] = "pool_wait" /\ ~ctx /\ UNCHANGED ctx
       /\ pool' = "stopped" /\ pc'[c] = AfterStop(job[c])
    \/ /\ pc[c] = "start_pool" /\ pc'[c] = "start_check"
       /\ IF pool = "stopped" THEN pool' = "started" ELSE UNCHANGED <<pool, ctx>>
    \/ /\ pc[c] = "start_check" /\ UNCHANGED <<pool, ctx>>
       /\ pc'[c] = IF pool = "started" THEN "start_post" ELSE "idle"
    \/ /\ pc[c] = "start_post" /\ pc'[c] = "start_wait" /\ UNCHANGED <<pool, ctx>>

LEMMA GoOnFacts ==
    ASSUME IInv, NEW c \in Caller, GoOn(c)
    PROVE  /\ Progress(c)
           /\ \A d \in Caller : d # c => pc'[d] = pc[d]
           /\ UNCHANGED <<job, state>>
  <1>1. pc \in [Caller -> Place]
    BY DEF IInv, TypeOK
  <1>2. CASE StopPost(c) \/ StopGiveUp(c)
    BY <1>1, <1>2 DEF StopPost, StopGiveUp, Goto, Progress, connVars
  <1>3. CASE StopIopool(c)
    BY <1>1, <1>3 DEF StopIopool, Goto, Progress, connVars
  <1>4. CASE PoolCancel(c) \/ PoolStopped(c)
    BY <1>1, <1>4 DEF PoolCancel, PoolStopped, Goto, Progress, connVars
  <1>5. CASE StartIopool(c) \/ StartCheck(c) \/ StartPost(c)
    BY <1>1, <1>5 DEF StartIopool, StartCheck, StartPost, Goto, Progress, connVars
  <1> QED
    BY <1>2, <1>3, <1>4, <1>5 DEF GoOn

LEMMA InCallStep ==
    ASSUME IInv, AppInv, NEW c \in Caller, InCall(c)
    PROVE  AppInv'
  <1>1. /\ Progress(c) /\ \A d \in Caller : d # c => pc'[d] = pc[d]
        /\ UNCHANGED <<job, state>> /\ UNCHANGED appVars
    BY GoOnFacts DEF InCall
  <1>2. /\ pc[c] # "idle" /\ pool \in {"stopped", "started", "stopping"}
        /\ job[c] \in {"run", "stop"}
    BY <1>1 DEF Progress, IInv, TypeOK
  <1>3. PoolIsWaitedFor'
    <2>1. pool' = "stopped" => ~ctx'
      BY <1>1 DEF Progress, AppInv, PoolIsWaitedFor
    <2>2. ASSUME pool' = "stopping" PROVE \E d \in Caller : pc'[d] = "pool_wait"
      <3>1. CASE pool' = pool
        <4>1. PICK d \in Caller : pc[d] = "pool_wait"
          BY <2>2, <3>1 DEF AppInv, PoolIsWaitedFor
        <4>2. CASE d # c
          BY <1>1, <4>1, <4>2
        <4>3. CASE d = c
          BY <1>1, <1>2, <2>2, <4>1, <4>3 DEF Progress
        <4> QED
          BY <4>2, <4>3
      <3>2. CASE pool' # pool
        BY <1>1, <2>2, <3>2 DEF Progress
      <3> QED
        BY <3>1, <3>2
    <2> QED
      BY <2>1, <2>2 DEF PoolIsWaitedFor
  <1>4. WorkersRun'
    BY <1>1, <1>2, Threads DEF AppInv, WorkersRun, appVars
  <1>5. GuiSetsConnecting'
    BY <1>1, <1>2, Threads DEF AppInv, GuiSetsConnecting, appVars
  <1>6. ConnectingEnds'
    <2>1. SUFFICES ASSUME conn = "Connecting", setter[Io].at \notin {"check", "assign"},
                          setter[Gui].at = "none"
                   PROVE  \E w \in Worker : Bound(w)'
      BY <1>1 DEF ConnectingEnds, appVars
    <2>2. PICK w \in Worker : Bound(w)
      BY <2>1 DEF AppInv, ConnectingEnds
    <2>3. ASSUME NEW d \in Caller, pc[d] # "idle"
          PROVE  d \in Worker /\ worker[d] = "running" /\ job[d] = "run"
      BY <2>1, <2>3, Threads DEF AppInv, GuiSetsConnecting, WorkersRun
    <2>4. /\ c \in Worker /\ worker[c] = "running" /\ AfterStop(job[c]) = "start_pool"
          /\ worker' = worker
      BY <1>1, <1>2, <2>3 DEF AfterStop, appVars
    <2>5. CASE w # c
      <3>1. pc'[w] = pc[w]
        BY <1>1, <2>5, Threads
      <3>2. CASE Bound(w)'
        BY <3>2
      <3>3. CASE ~Bound(w)'
        <4>1. state # "started" /\ pool = "started" /\ pool' # "started"
          BY <1>1, <2>2, <2>4, <3>1, <3>3 DEF Bound
        <4>2. pc'[c] \in {"pool_wait", "start_pool"}
          BY <1>1, <2>4, <4>1 DEF Progress
        <4>3. Bound(c)'
          BY <1>1, <2>4, <4>1, <4>2 DEF Bound
        <4> QED
          BY <2>4, <4>3
      <3> QED
        BY <3>2, <3>3
    <2>6. CASE w = c
      <3>1. /\ pc[c] \in {"stop_post", "stop_wait"} \/ state # "started"
            /\ pc[c] = "start_check" => pool = "started"
        BY <2>2, <2>4, <2>6 DEF Bound
      <3>2. ~ctx => state # "started"
        BY StoppedPool
      <3>3. CASE pc[c] = "start_pool" /\ pool = "stopping"
        <4>1. PICK d \in Caller : pc[d] = "pool_wait"
          BY <3>3 DEF AppInv, PoolIsWaitedFor
        <4>2. d # c /\ d \in Worker /\ worker[d] = "running"
          BY <2>3, <3>3, <4>1
        <4>3. Bound(d)'
          BY <1>1, <2>4, <3>1, <3>3, <4>1, <4>2 DEF Bound
        <4> QED
          BY <4>2, <4>3
      <3>4. CASE ~(pc[c] = "start_pool" /\ pool = "stopping")
        <4>1. /\ pc'[c] \in {"stop_wait", "stop_pool", "pool_wait", "start_pool", "start_check",
                             "start_post", "start_wait"}
              /\ pc'[c] = "start_check" => pool' = "started"
              /\ pc'[c] # "stop_wait" => state # "started"
          BY <1>1, <1>2, <2>4, <3>1, <3>2, <3>4 DEF Progress
        <4>2. Bound(c)'
          BY <1>1, <2>4, <4>1 DEF Bound
        <4> QED
          BY <2>4, <4>2
      <3> QED
        BY <3>3, <3>4
    <2> QED
      BY <2>5, <2>6
  <1> QED
    BY <1>1, <1>3, <1>4, <1>5, <1>6
       DEF AppInv, AppTypeOK, CallbackIsTrue, ButtonIsTold, Shown, appVars

-----------------------------------------------------------------------------
(* The io_context thread.                                                  *)

LEMMA IoFrame ==
    ASSUME IoNext
    PROVE  UNCHANGED <<job, pool>> /\ (ctx' = ctx \/ ctx' = FALSE)
  <1> DEFINE Frame == UNCHANGED <<job, pool>> /\ (ctx' = ctx \/ ctx' = FALSE)
  <1>1. CASE RunReturns \/ RunPosted \/ RunConnect \/ RunReconnect \/ RunSend
    BY <1>1 DEF RunReturns, RunPosted, RunConnect, RunReconnect, RunSend, poolVars
  <1>2. ASSUME NEW q, NEW r, Close(q, r) PROVE Frame
    BY <1>2 DEF Close
  <1>3. ASSUME NEW q, NEW r, PostShutdown(q, r) PROVE Frame
    BY <1>2, <1>3 DEF PostShutdown, poolVars
  <1>4. CASE RunStop \/ RunDisconnect
    BY <1>3, <1>4 DEF RunStop, RunDisconnect, poolVars
  <1>5. CASE ShutdownTimer \/ ReadEnd
    BY <1>2, <1>5 DEF ShutdownTimer, ReadEnd, poolVars
  <1>6. CASE ReconnectTimer \/ ConnectTimeout \/ ResolveDone \/ NextEndpoint
    BY <1>6 DEF ReconnectTimer, ConnectTimeout, ResolveDone, NextEndpoint, poolVars
  <1>7. CASE ResolveFailed \/ NoEndpoint \/ Connected
    BY <1>7 DEF ResolveFailed, NoEndpoint, Connected, ConnectFailed
  <1>8. CASE RecvData \/ RecvError \/ \E ok \in BOOLEAN : WriteDone(ok)
    BY <1>8 DEF RecvData, RecvError, WriteDone, poolVars
  <1> QED
    BY <1>1, <1>4, <1>5, <1>6, <1>7, <1>8 DEF IoNext

(* The callbacks are called when what they say changes, and say it.        *)
LEMMA CallbackFacts ==
    ASSUME IInv, Move
    PROVE  \/ /\ Callback.at = "check" /\ Callback.to = Shown'
              /\ Callback \in [at : Where, to : ConnState]
           \/ /\ Callback = NotSetting /\ Shown' = Shown
              /\ NotSetting \in [at : Where, to : ConnState]
              /\ ~(state = "starting" /\ state' \in {"started", "stopped"})
              /\ state' = "started" => state = "started"
  <1>1. state \in {"stopped", "starting", "started"}
    BY DEF IInv, TypeOK
  <1>2. /\ Setting("Connected") = [at |-> "check", to |-> "Connected"]
        /\ Setting("Disconnected") = [at |-> "check", to |-> "Disconnected"]
        /\ NotSetting = [at |-> "none", to |-> "Disconnected"]
        /\ \A x \in {"Connected", "Disconnected"} : [at |-> "check", to |-> x] \in [at : Where, to : ConnState]
        /\ NotSetting \in [at : Where, to : ConnState]
    BY DEF Setting, NotSetting, Where, ConnState
  <1>3. CASE state = "starting" /\ state' = "started"
    BY <1>2, <1>3 DEF Callback, Shown
  <1>4. CASE state # "stopped" /\ state' = "stopped"
    BY <1>2, <1>4 DEF Callback, Shown
  <1>5. CASE ~(state = "starting" /\ state' = "started") /\ ~(state # "stopped" /\ state' = "stopped")
    <2>1. Callback = NotSetting
      BY <1>5 DEF Callback
    <2>2. state' = state \/ (state = "stopped" /\ state' = "starting")
      BY <1>1, <1>5 DEF Move
    <2> QED
      BY <1>1, <1>2, <1>5, <2>1, <2>2 DEF Shown
  <1> QED
    BY <1>3, <1>4, <1>5

LEMMA IoStepStep ==
    ASSUME IInv, PInv, AppInv, IoStep
    PROVE  AppInv'
  <1>1. /\ IoNext /\ setter[Io].at = "none" /\ setter' = [setter EXCEPT ![Io] = Callback]
        /\ UNCHANGED <<conn, view, signals, worker>>
    BY DEF IoStep
  <1>2. /\ UNCHANGED <<job, pool>> /\ (ctx' = ctx \/ ctx' = FALSE) /\ Move
    BY <1>1, IoFrame, IoMove
  <1>3. \A c \in Caller :
            \/ pc'[c] = pc[c]
            \/ pc[c] = "stop_wait" /\ pc'[c] = "stop_pool" /\ state' = "stopped"
            \/ /\ pc[c] = "start_wait" /\ pc'[c] = "idle"
               /\ \/ state = "starting" /\ state' \in {"started", "stopped"}
                  \/ state = "started" /\ state' = "started"
    BY <1>1, Released
  <1>4. Callback \in [at : Where, to : ConnState]
    BY <1>2, CallbackFacts
  <1>5. /\ setter' \in [{Gui, Io} -> [at : Where, to : ConnState]]
        /\ setter'[Io] = Callback /\ setter'[Gui] = setter[Gui]
    BY <1>1, <1>4, Threads DEF AppInv, AppTypeOK, Where
  <1>6. PoolIsWaitedFor'
    <2>1. \A c \in Caller : pc[c] = "pool_wait" => pc'[c] = "pool_wait"
      BY <1>3
    <2> QED
      BY <1>2, <2>1 DEF AppInv, PoolIsWaitedFor, IInv, TypeOK
  <1>7. WorkersRun'
    BY <1>1, <1>2, <1>3, Threads DEF AppInv, WorkersRun
  <1>8. GuiSetsConnecting'
    BY <1>1, <1>3, <1>5, Threads DEF AppInv, GuiSetsConnecting
  <1>9. CASE Callback.at = "check" /\ Callback.to = Shown'
    BY <1>1, <1>5, <1>6, <1>7, <1>8, <1>9
       DEF AppInv, AppTypeOK, CallbackIsTrue, ButtonIsTold, ConnectingEnds, Where
  <1>10. CASE /\ Callback = NotSetting /\ Shown' = Shown
              /\ ~(state = "starting" /\ state' \in {"started", "stopped"})
              /\ state' = "started" => state = "started"
    <2>1. setter'[Io].at = "none"
      BY <1>5, <1>10 DEF NotSetting
    <2>2. ASSUME NEW w \in Worker, Bound(w) PROVE Bound(w)'
      <3>1. \/ pc'[w] = pc[w]
            \/ pc[w] = "stop_wait" /\ pc'[w] = "stop_pool" /\ state' # "started"
            \/ pc[w] = "start_wait" /\ state = "started"
        BY <1>3, <1>10, Threads
      <3> QED
        BY <1>1, <1>2, <1>10, <2>2, <3>1 DEF Bound
    <2>3. ConnectingEnds'
      BY <1>1, <1>5, <2>1, <2>2 DEF AppInv, ConnectingEnds
    <2> QED
      BY <1>1, <1>5, <1>6, <1>7, <1>8, <1>10, <2>1, <2>3
         DEF AppInv, AppTypeOK, CallbackIsTrue, ButtonIsTold, Where
  <1> QED
    BY <1>2, <1>9, <1>10, CallbackFacts

-----------------------------------------------------------------------------
LEMMA InitAppInv == AppInit => AppInv
  <1> SUFFICES ASSUME AppInit PROVE AppInv
    OBVIOUS
  <1>1. /\ Init /\ conn = "Disconnected" /\ view = "Disconnected" /\ signals = <<>>
        /\ setter = [t \in {Gui, Io} |-> NotSetting] /\ worker = [w \in Worker |-> "none"]
    BY DEF AppInit
  <1>2. /\ \A c \in Caller : pc[c] = "idle"
        /\ pool = "stopped" /\ ctx = FALSE /\ state = "stopped"
    BY <1>1 DEF Init
  <1>3. NotSetting \in [at : Where, to : ConnState] /\ NotSetting.at = "none"
    BY DEF NotSetting, Where, ConnState
  <1>4. AppTypeOK
    BY <1>1, <1>3 DEF AppTypeOK, Where, ConnState
  <1>5. setter[Gui].at = "none" /\ setter[Io].at = "none"
    BY <1>1, <1>3
  <1> QED
    BY <1>1, <1>2, <1>4, <1>5, Threads
       DEF AppInv, PoolIsWaitedFor, GuiSetsConnecting, CallbackIsTrue, ButtonIsTold, WorkersRun,
           ConnectingEnds, Shown

LEMMA StepAppInv == IInv /\ PInv /\ AppInv /\ [AppNext]_allVars => AppInv'
  <1> SUFFICES ASSUME IInv, PInv, AppInv, [AppNext]_allVars PROVE AppInv'
    OBVIOUS
  <1>1. ASSUME NEW t \in {Gui, Io}, SetCheck(t) \/ SetAssign(t) \/ SetEmit(t) PROVE AppInv'
    BY <1>1, GuiSetStep, IoSetStep
  <1>2. CASE ClickRun
    BY <1>2, ClickRunStep
  <1>3. CASE ClickStop
    BY <1>3, ClickStopStep
  <1>4. CASE SpawnWorker
    BY <1>4, SpawnStep
  <1>5. CASE SendMessage
    BY <1>5, SendMessageStep
  <1>6. CASE DeliverSignal
    BY <1>6, DeliverStep
  <1>7. ASSUME NEW w \in Worker, WorkerRun(w) \/ WorkerEnd(w) PROVE AppInv'
    BY <1>7, WorkerRunStep, WorkerEndStep
  <1>8. ASSUME NEW c \in Caller, InCall(c) PROVE AppInv'
    BY <1>8, InCallStep
  <1>9. CASE IoStep
    BY <1>9, IoStepStep
  <1>10. CASE UNCHANGED allVars
    <2>1. UNCHANGED <<vars, worker>> /\ UNCHANGED <<conn, view, signals, setter>>
      BY <1>10 DEF allVars, appVars
    <2> QED
      BY <2>1, SameClient
         DEF AppInv, AppTypeOK, GuiSetsConnecting, CallbackIsTrue, ButtonIsTold, ConnectingEnds
  <1> QED
    BY <1>1, <1>2, <1>3, <1>4, <1>5, <1>6, <1>7, <1>8, <1>9, <1>10 DEF AppNext

LEMMA AppInductive == AppSpec => [](IInv /\ PInv /\ AppInv)
  <1>1. AppInit => IInv /\ PInv /\ AppInv
    BY InitIInv, InitPInv, InitAppInv DEF AppInit
  <1>2. (IInv /\ PInv /\ AppInv) /\ [AppNext]_allVars => (IInv /\ PInv /\ AppInv)'
    BY ClientStep, StepAppInv
  <1> QED
    BY <1>1, <1>2, PTL DEF AppSpec

(* However many detached threads there are at a time, and however their    *)
(* stops and starts, the user's clicks and the callbacks interleave: when  *)
(* all have come to rest, _state and the button say what the client is.    *)
THEOREM SettlesRight == AppSpec => []Settled
  <1>1. AppInv => Settled
    <2> SUFFICES ASSUME AppInv, Quiet
                 PROVE  conn = Shown /\ view = conn
      BY DEF Settled, Shown
    <2>1. /\ setter[Gui].at = "none" /\ setter[Io].at = "none" /\ signals = <<>>
          /\ \A w \in Worker : ~Bound(w)
      BY DEF Quiet, Bound
    <2>2. conn # "Connecting"
      BY <2>1 DEF AppInv, ConnectingEnds
    <2> QED
      BY <2>1, <2>2 DEF AppInv, CallbackIsTrue, ButtonIsTold
  <1> QED
    BY <1>1, AppInductive, PTL

-----------------------------------------------------------------------------
(* One detached thread at a time, as the button, being disabled while a    *)
(* connection is tried, means it.                                          *)

Starts == {"start_pool", "start_check", "start_post", "start_wait"}

(* The GUI thread starts nothing; from the end of the thread's stop() to   *)
(* the post of its start() the client stays completely stopped.            *)
Alone(w) ==
    /\ job[Gui] = "stop" /\ pc[Gui] \notin Starts
    /\ pc[w] \in {"stop_pool", "pool_wait", "start_pool", "start_check", "start_post"} => stopped

LEMMA StepAlone ==
    ASSUME NEW w, Worker = {w}, IInv, PInv, AppInv, Alone(w), [AppNext]_allVars
    PROVE  Alone(w)'
  <1>1. /\ pc \in [Caller -> Place] /\ job \in [Caller -> {"run", "stop"}]
        /\ w \in Caller /\ Gui \in Caller /\ w # Gui /\ \A c \in Caller : c = Gui \/ c = w
    BY Threads DEF IInv, TypeOK
  <1>2. CASE IoStep
    <2>1. IoNext /\ job' = job /\ Wakes
      BY <1>2, IoFrame, IoMove DEF IoStep
    <2>2. \A c \in Caller :
              \/ pc'[c] = pc[c]
              \/ pc[c] = "stop_wait" /\ pc'[c] = "stop_pool"
              \/ pc[c] = "start_wait" /\ pc'[c] = "idle"
      BY <2>1, Released
    <2>3. pc'[Gui] \notin Starts
      BY <1>1, <2>2 DEF Alone, Starts
    <2>4. ASSUME pc'[w] \in {"stop_pool", "pool_wait", "start_pool", "start_check", "start_post"}
          PROVE  stopped'
      <3>1. CASE pc'[w] = pc[w]
        <4>1. stopped
          BY <2>4, <3>1 DEF Alone
        <4>2. \A c \in Caller : pc[c] # "start_wait"
          BY <1>1, <2>4, <3>1 DEF Alone, Starts
        <4> QED
          BY <2>1, <4>1, <4>2, Revived
      <3>2. CASE pc'[w] # pc[w]
        BY <1>1, <2>1, <2>2, <2>4, <3>2 DEF Wakes
      <3> QED
        BY <3>1, <3>2
    <2> QED
      BY <2>1, <2>3, <2>4 DEF Alone
  <1>3. ASSUME NEW c \in Caller, InCall(c) PROVE Alone(w)'
    <2>1. /\ Progress(c) /\ \A d \in Caller : d # c => pc'[d] = pc[d]
          /\ UNCHANGED <<job, state>>
      BY <1>3, GoOnFacts DEF InCall
    <2>2. stopped' = stopped
      BY <1>3 DEF InCall, GoOn, StopPost, StopGiveUp, StopIopool, PoolCancel, PoolStopped,
                  StartIopool, StartCheck, StartPost, connVars
    <2>3. ~ctx => stopped
      BY DEF IInv, NoContext
    <2>4. CASE c = Gui
      <3>1. pc'[Gui] \notin Starts
        BY <2>1, <2>4 DEF Progress, Alone, Starts, AfterStop
      <3> QED
        BY <1>1, <2>1, <2>2, <2>4, <3>1 DEF Alone
    <2>5. CASE c = w
      BY <1>1, <2>1, <2>2, <2>3, <2>5 DEF Progress, Alone
    <2> QED
      BY <1>1, <2>4, <2>5
  <1>4. CASE ClickStop
    <2>1. /\ job' = [job EXCEPT ![Gui] = "stop"] /\ stopped' = stopped
          /\ pc' = [pc EXCEPT ![Gui] = IF pool = "stopped" THEN "idle" ELSE "stop_post"]
      BY <1>4 DEF ClickStop, Call, Goto, AfterStop, connVars
    <2> QED
      BY <1>1, <2>1 DEF Alone, Starts
  <1>5. ASSUME NEW v \in Worker, WorkerRun(v) PROVE Alone(w)'
    <2>1. /\ job' = [job EXCEPT ![w] = "run"] /\ stopped' = stopped
          /\ pc' = [pc EXCEPT ![w] = IF pool = "stopped" THEN "start_pool" ELSE "stop_post"]
      BY <1>5 DEF WorkerRun, Call, Goto, AfterStop, connVars
    <2>2. pool = "stopped" => stopped
      BY DEF AppInv, PoolIsWaitedFor, IInv, NoContext
    <2> QED
      BY <1>1, <2>1, <2>2 DEF Alone
  <1>6. CASE SendMessage
    BY <1>6 DEF SendMessage, Send, connVars, Alone
  <1>7. CASE UNCHANGED vars
    BY <1>7 DEF vars, Alone
  <1>8. CASE ClickRun \/ SpawnWorker \/ DeliverSignal \/ UNCHANGED allVars
             \/ (\E v \in Worker : WorkerEnd(v))
             \/ (\E t \in {Gui, Io} : SetCheck(t) \/ SetAssign(t) \/ SetEmit(t))
    <2>1. UNCHANGED vars
      BY <1>8 DEF ClickRun, SpawnWorker, DeliverSignal, allVars, WorkerEnd, SetCheck, SetAssign, SetEmit
    <2> QED
      BY <1>7, <2>1
  <1> QED
    BY <1>2, <1>3, <1>4, <1>5, <1>6, <1>8 DEF AppNext

(* With one detached thread at a time, whatever the user and the network   *)
(* do meanwhile: from the moment NetConnItem::run has stopped the client   *)
(* until it posts the start, the previous connection is completely closed, *)
(* its retries included, as the comment there says.                        *)
THEOREM StartsClosed ==
    ASSUME NEW w, Worker = {w}
    PROVE  AppSpec => []PreviousIsClosed
  <1>1. AppInit => Alone(w)
    <2>1. w \in Caller /\ Gui \in Caller
      BY Threads
    <2> QED
      BY <2>1 DEF AppInit, Init, Alone, Starts
  <1>2. IInv /\ PInv /\ AppInv /\ Alone(w) /\ [AppNext]_allVars => Alone(w)'
    BY StepAlone
  <1>3. Alone(w) => PreviousIsClosed
    <2>1. \A c \in Caller : c = Gui \/ c = w
      BY Threads
    <2> QED
      BY <2>1 DEF Alone, PreviousIsClosed, Starts
  <1> QED
    BY <1>1, <1>2, <1>3, AppInductive, PTL DEF AppSpec

=============================================================================
