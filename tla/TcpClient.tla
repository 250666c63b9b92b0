------------------------------- MODULE TcpClient -------------------------------
(***************************************************************************)
(* asio2::tcp_client as net-assistant uses it: the connect, shutdown,      *)
(* close, disconnect and reconnect components running as events of one     *)
(* event queue on the client's io_context thread, the io_context pool they *)
(* run in, and the threads that call start(), stop() and async_send().     *)
(*                                                                         *)
(* Every action of the io_context is one handler, up to the next point     *)
(* where the guard of the running event is passed on; phase "run" is that  *)
(* point, and no other handler is run in it.  Two timers are simplified    *)
(* without changing what can be seen of them: cancelling one removes it    *)
(* (its late handler finds another timer or the canceled flag and returns),*)
(* and waking the reconnect timer starts its one second wait directly.     *)
(***************************************************************************)
EXTENDS Naturals, Sequences, FiniteSets, Occurrences

CONSTANTS Caller,    \* the threads other than the io_context's
          MaxSend,   \* bound: send events posted or queued at a time
          MaxPosted, \* bound: no call is begun while more is posted
          Chatty     \* whether the peer goes on sending after our shutdown

NoCaller == "nobody"

ASSUME ClientAssumption ==
    /\ IsFiniteSet(Caller)
    /\ NoCaller \notin Caller
    /\ MaxSend \in Nat
    /\ MaxPosted \in Nat
    /\ Chatty \in BOOLEAN

VARIABLES
    pc,             \* pc[c]: where thread c is in start() or stop()
    job,            \* job[c]: the function of NetConnItem thread c is in
    pool,           \* iopool::state_
    ctx,            \* whether the io_context's run() is being executed
    reg,            \* the client is in io_t::objects_ (and holds a work guard)
    inbox,          \* what other threads, and post_event, posted to the io_context
    queue,          \* events_; the front owns the guard
    phase,          \* what the front of the queue waits for
    state,          \* state_
    stopped,        \* stopped_: "completely stopped"
    sock,           \* the socket is open
    reading,        \* reading_: an async_read is outstanding
    disconnecting,  \* disconnecting_
    shut,           \* shutdown_timer_
    fresh,          \* data arrived since shutdown_timer_ was started
    timeout,        \* connect_timeout_timer_ is set
    recon,          \* reconnect_timer_: not there, waiting for ever, one second
    told            \* the last of on_connect and on_disconnect

poolVars == <<pc, job, pool, ctx, reg>>
connVars == <<state, stopped, sock, reading, disconnecting, shut, fresh,
              timeout, recon, told>>
vars == <<pc, job, pool, ctx, reg, inbox, queue, phase, state, stopped, sock,
          reading, disconnecting, shut, fresh, timeout, recon, told>>

(* An event.  live is what the code compares when the event runs: the      *)
(* life_id of a send, the canceled flag of a reconnect's timer.  A         *)
(* disconnect compares nothing; its live is a history bit, TRUE while the  *)
(* connection it was requested for is the current one.                     *)
Event == [k : {"connect", "stop", "send", "disconnect", "reconnect"},
          by : Caller \cup {NoCaller}, live : BOOLEAN]
Ev(k, c) == [k |-> k, by |-> c, live |-> TRUE]

(* Handlers that are not events: io_t::unregobj and io_t::cancel.          *)
Unreg  == Ev("unreg", NoCaller)
Cancel == Ev("cancel", NoCaller)
Posted == Event \cup {Unreg, Cancel}

Kill(kinds, q) ==
    [i \in DOMAIN q |-> IF q[i].k \in kinds THEN [q[i] EXCEPT !.live = FALSE] ELSE q[i]]

Count(k, q) == Cardinality({i \in DOMAIN q : q[i].k = k})

Init ==
    /\ pc = [c \in Caller |-> "idle"]
    /\ job = [c \in Caller |-> "stop"]
    /\ pool = "stopped" /\ ctx = FALSE /\ reg = FALSE
    /\ inbox = <<>> /\ queue = <<>> /\ phase = "idle"
    /\ state = "stopped" /\ stopped = TRUE
    /\ sock = FALSE /\ reading = FALSE /\ disconnecting = FALSE
    /\ shut = "none" /\ fresh = FALSE
    /\ timeout = FALSE /\ recon = "none"
    /\ told = "none"

-----------------------------------------------------------------------------
(* The threads.  NetConnItem::run stops the client and starts it again,    *)
(* NetConnItem::stop stops it (the server has no part in it here).         *)

Goto(c, l) == pc' = [pc EXCEPT ![c] = l]

(* Where thread c goes on after its stop(), its job being j.               *)
AfterStop(j) == IF j = "run" THEN "start_pool" ELSE "idle"

(* Mutant: run() does not stop the client first.                           *)
Call_NoStop(c, j) ==
    /\ pc[c] = "idle"
    /\ job' = [job EXCEPT ![c] = j]
    /\ Goto(c, IF pool = "stopped" \/ j = "run" THEN AfterStop(j) ELSE "stop_post")
    /\ UNCHANGED <<pool, ctx, reg, inbox, queue, phase, connVars>>

(* NetConnItem's function j is called.  stop() returns at once when the     *)
(* pool is stopped.                                                        *)
Call(c, j) ==
    /\ pc[c] = "idle"
    /\ job' = [job EXCEPT ![c] = j]
    /\ Goto(c, IF pool = "stopped" THEN AfterStop(j) ELSE "stop_post")
    /\ UNCHANGED <<pool, ctx, reg, inbox, queue, phase, connVars>>

StopPost(c) ==
    /\ pc[c] = "stop_post"
    /\ Goto(c, "stop_wait")
    /\ inbox' = inbox \o <<Unreg, Ev("stop", c)>>
    /\ UNCHANGED <<job, pool, ctx, reg, queue, phase, connVars>>

(* The wait polls: it is also left when the io_context is stopped.  The    *)
(* event stays posted, and nobody waits for it any more.                   *)
StopGiveUp(c) ==
    /\ pc[c] = "stop_wait"
    /\ ~ctx
    /\ Goto(c, "stop_pool")
    /\ inbox' = [i \in DOMAIN inbox |->
                    IF inbox[i].by = c THEN [inbox[i] EXCEPT !.by = NoCaller] ELSE inbox[i]]
    /\ UNCHANGED <<job, pool, ctx, reg, queue, phase, connVars>>

(* stop_iopool: only one thread stops the pool, the others return.         *)
StopIopool(c) ==
    /\ pc[c] = "stop_pool"
    /\ IF pool = "started"
       THEN pool' = "stopping" /\ Goto(c, "pool_wait")
       ELSE UNCHANGED pool /\ Goto(c, AfterStop(job[c]))
    /\ UNCHANGED <<job, ctx, reg, inbox, queue, phase, connVars>>

(* wait_for_io_context_stopped posts io_t::cancel in every round.          *)
PoolCancel(c) ==
    /\ pc[c] = "pool_wait"
    /\ ctx
    /\ Count("cancel", inbox) = 0
    /\ inbox' = Append(inbox, Cancel)
    /\ UNCHANGED <<pc, job, pool, ctx, reg, queue, phase, connVars>>

PoolStopped(c) ==
    /\ pc[c] = "pool_wait"
    /\ ~ctx
    /\ pool' = "stopped"
    /\ Goto(c, AfterStop(job[c]))
    /\ UNCHANGED <<job, ctx, reg, inbox, queue, phase, connVars>>

(* start().  iopool::start is a no-op, successful, unless the pool is      *)
(* stopped.                                                                *)
StartIopool(c) ==
    /\ pc[c] = "start_pool"
    /\ Goto(c, "start_check")
    /\ IF pool = "stopped"
       THEN pool' = "started" /\ ctx' = TRUE
       ELSE UNCHANGED <<pool, ctx>>
    /\ UNCHANGED <<job, reg, inbox, queue, phase, connVars>>

(* is_iopool_started(): start() returns false without any callback if not. *)
StartCheck(c) ==
    /\ pc[c] = "start_check"
    /\ Goto(c, IF pool = "started" THEN "start_post" ELSE "idle")
    /\ UNCHANGED <<job, pool, ctx, reg, inbox, queue, phase, connVars>>

StartPost(c) ==
    /\ pc[c] = "start_post"
    /\ Goto(c, "start_wait")
    /\ inbox' = Append(inbox, Ev("connect", c))
    /\ UNCHANGED <<job, pool, ctx, reg, queue, phase, connVars>>

(* async_send, from a thread that is not in start() or stop().             *)
Send(c) ==
    /\ pc[c] = "idle"
    /\ Count("send", inbox) + Count("send", queue) < MaxSend
    /\ inbox' = Append(inbox, Ev("send", NoCaller))
    /\ UNCHANGED <<pc, job, pool, ctx, reg, queue, phase, connVars>>

-----------------------------------------------------------------------------
(* The io_context.                                                         *)

Ready == ctx /\ phase # "run"

(* Mutant: the pool is stopped with io_context::stop, whatever is left.    *)
RunReturns_Forced ==
    /\ ctx
    /\ pool = "stopping"
    /\ ctx' = FALSE
    /\ UNCHANGED <<pc, job, pool, reg, inbox, queue, phase, connVars>>

(* run() returns when the pool's work guard is reset and nothing is left.  *)
RunReturns ==
    /\ ctx
    /\ pool = "stopping"
    /\ inbox = <<>> /\ phase = "idle"
    /\ ~reg /\ ~reading /\ ~timeout /\ recon = "none"
    /\ ctx' = FALSE
    /\ UNCHANGED <<pc, job, pool, reg, inbox, queue, phase, connVars>>

(* events_.emplace, running the event if the queue was empty.              *)
Enqueue(e) ==
    /\ queue' = Append(queue, e)
    /\ phase' = IF queue = <<>> THEN "run" ELSE phase

(* Mutant: the handlers of io_t, too, are pushed into the event queue.     *)
RunPosted_AllQueued ==
    /\ Ready
    /\ inbox # <<>>
    /\ Enqueue(Head(inbox))
    /\ inbox' = Tail(inbox)
    /\ UNCHANGED reg
    /\ UNCHANGED <<pc, job, pool, ctx, connVars>>

RunPosted ==
    /\ Ready
    /\ inbox # <<>>
    /\ LET h == Head(inbox) IN
       CASE h = Unreg ->
                /\ reg' = FALSE
                /\ inbox' = Tail(inbox)
                /\ UNCHANGED <<queue, phase>>
         [] h = Cancel ->   \* calls the stop() of a registered client
                /\ reg' = FALSE
                /\ inbox' = Tail(inbox) \o
                            IF reg THEN <<Unreg, Ev("stop", NoCaller)>> ELSE <<>>
                /\ UNCHANGED <<queue, phase>>
         [] OTHER ->
                /\ Enqueue(h)
                /\ inbox' = Tail(inbox)
                /\ UNCHANGED reg
    /\ UNCHANGED <<pc, job, pool, ctx, connVars>>

(* The running event's guard is destroyed, leaving q's tail to run.        *)
NextEvent(q) ==
    /\ queue' = Tail(q)
    /\ phase' = IF Tail(q) # <<>> THEN "run" ELSE "idle"

(* The promise of the event e is fulfilled.                                *)
Fulfil(e) ==
    IF e.by = NoCaller
    THEN UNCHANGED pc
    ELSE Goto(e.by, IF e.k = "stop" THEN "stop_pool" ELSE "idle")

Front == Head(queue)
Running(k) == ctx /\ phase = "run" /\ Front.k = k

-----------------------------------------------------------------------------
(* Disconnecting.  q and r are the queue and the reconnect timer as the    *)
(* running handler has left them so far.                                   *)

(* Mutant: the reconnect timer is left alone.                              *)
DoStop_KeepsReconnect(q) ==
    /\ recon' = recon
    /\ timeout' = FALSE
    /\ stopped' = TRUE
    /\ inbox' = Kill({"send"}, inbox)
    /\ Fulfil(Front)
    /\ NextEvent(Kill({"send", "reconnect"}, q))

(* _do_stop: the client is completely stopped, the promise of stop() is    *)
(* fulfilled, the queue goes on.                                           *)
DoStop(q) ==
    /\ recon' = "none"
    /\ timeout' = FALSE
    /\ stopped' = TRUE
    /\ inbox' = Kill({"send"}, inbox)
    /\ Fulfil(Front)
    /\ NextEvent(Kill({"send", "reconnect"}, q))

(* Mutant: the reconnect timer is not woken.                               *)
FinishDisconnect_NoWake(q, r) ==
    IF Front.k = "stop"
    THEN DoStop(q)
    ELSE /\ recon' = r
         /\ Fulfil(Front)
         /\ NextEvent(q)
         /\ UNCHANGED <<inbox, timeout, stopped>>

(* What is left once the disconnect is finished: a stop event's chain is   *)
(* _do_stop, an empty chain wakes the reconnect timer.                     *)
FinishDisconnect(q, r) ==
    IF Front.k = "stop"
    THEN DoStop(q)
    ELSE /\ recon' = IF r = "none" THEN "none" ELSE "delay"
         /\ Fulfil(Front)
         /\ NextEvent(q)
         /\ UNCHANGED <<inbox, timeout, stopped>>

(* Mutant: on_disconnect is not called for the user's own stop().          *)
Close_Silent(q, r) ==
    /\ state' = "stopped"
    /\ told' = IF state = "started" /\ Front.k # "stop" THEN "down" ELSE told
    /\ sock' = FALSE
    /\ shut' = "none"
    /\ fresh' = FALSE
    /\ IF reading
       THEN /\ disconnecting' = TRUE
            /\ phase' = "readend"
            /\ queue' = q /\ recon' = r
            /\ UNCHANGED <<pc, inbox, timeout, stopped>>
       ELSE /\ disconnecting' = FALSE
            /\ FinishDisconnect(q, r)
    /\ UNCHANGED <<job, pool, ctx, reg, reading>>

(* _do_close, _post_close, _handle_disconnect: the state goes through      *)
(* stopping to stopped, on_disconnect is called if it was started, the     *)
(* socket is closed; an outstanding read is waited for.                    *)
Close(q, r) ==
    /\ state' = "stopped"
    /\ told' = IF state = "started" THEN "down" ELSE told
    /\ sock' = FALSE
    /\ shut' = "none"
    /\ fresh' = FALSE
    /\ IF reading
       THEN /\ disconnecting' = TRUE
            /\ phase' = "readend"
            /\ queue' = q /\ recon' = r
            /\ UNCHANGED <<pc, inbox, timeout, stopped>>
       ELSE /\ disconnecting' = FALSE
            /\ FinishDisconnect(q, r)
    /\ UNCHANGED <<job, pool, ctx, reg, reading>>

(* Mutant: the timer is started without the chain and its guard.           *)
PostShutdown_GuardDropped(q, r) ==
    \/ /\ sock /\ reading
       /\ disconnecting' = TRUE
       /\ shut' = "armed"
       /\ fresh' = FALSE
       /\ recon' = r
       /\ Fulfil(Front)
       /\ NextEvent(q)
       /\ UNCHANGED <<job, pool, ctx, reg, inbox, state, stopped, sock, reading, timeout, told>>
    \/ Close(q, r)

(* _post_shutdown_tcp: shutdown(send), then wait for the peer's end of     *)
(* stream if there is a read to see it; shutdown() may fail.               *)
PostShutdown(q, r) ==
    \/ /\ sock /\ reading
       /\ disconnecting' = TRUE
       /\ shut' = "armed"
       /\ fresh' = FALSE
       /\ phase' = "shutdown"
       /\ queue' = q /\ recon' = r
       /\ UNCHANGED <<poolVars, inbox, state, stopped, sock, reading, timeout, told>>
    \/ Close(q, r)

(* _do_disconnect with an empty chain, from a handler outside the queue.   *)
RequestDisconnect ==
    IF shut # "none" \/ disconnecting
    THEN /\ shut' = IF shut = "armed" THEN "canceled" ELSE shut
         /\ UNCHANGED <<queue, phase>>
    ELSE /\ Enqueue(Ev("disconnect", NoCaller))
         /\ UNCHANGED shut

RunDisconnect ==
    /\ Running("disconnect")
    /\ IF state \in {"started", "starting"}
       THEN PostShutdown(queue, recon)
       ELSE NextEvent(queue) /\ UNCHANGED <<poolVars, inbox, connVars>>

(* Mutant: the chain is dropped, not run, if nothing is to be disconnected.*)
RunStop_ChainDropped ==
    /\ Running("stop")
    /\ IF shut = "none" /\ ~disconnecting /\ state \in {"started", "starting"}
       THEN PostShutdown(Kill({"reconnect"}, queue), "none")
       ELSE NextEvent(queue) /\ UNCHANGED <<poolVars, inbox, connVars>>

(* The stop event: first close the reconnect timer, then disconnect with   *)
(* _do_stop in the chain; when there is nothing to disconnect, or a        *)
(* disconnect is in progress, the chain is destroyed at once.              *)
RunStop ==
    /\ Running("stop")
    /\ IF shut = "none" /\ ~disconnecting /\ state \in {"started", "starting"}
       THEN PostShutdown(Kill({"reconnect"}, queue), "none")
       ELSE /\ DoStop(queue)
            /\ shut' = IF shut = "armed" THEN "canceled" ELSE shut
            /\ UNCHANGED <<job, pool, ctx, reg, state, sock, reading, disconnecting, fresh, told>>

(* Mutant: only the end of the read ends the shutdown.                     *)
ShutdownTimer_NoTimeout ==
    /\ Ready
    /\ shut = "canceled"
    /\ Close(queue, recon)

(* The shutdown timer: canceled because the read has ended, or expired;    *)
(* data that arrived meanwhile prolongs it.                                *)
ShutdownTimer ==
    /\ Ready
    /\ shut # "none"
    /\ IF shut = "armed" /\ fresh
       THEN /\ fresh' = FALSE
            /\ UNCHANGED <<poolVars, inbox, queue, phase, state, stopped, sock, reading,
                           disconnecting, shut, timeout, recon, told>>
       ELSE Close(queue, recon)

(* The readend timer, canceled by the read's handler: closing the socket   *)
(* ends the read long before the timer expires.                            *)
ReadEnd ==
    /\ Ready
    /\ phase = "readend" /\ ~reading
    /\ disconnecting' = FALSE
    /\ FinishDisconnect(queue, recon)
    /\ UNCHANGED <<job, pool, ctx, reg, state, sock, reading, shut, fresh, told>>

-----------------------------------------------------------------------------
(* Connecting.                                                             *)

(* _start_connect, the state being starting: a new reconnect timer (the    *)
(* old one is canceled), the timeout timer, and the resolver.              *)
StartConnect ==
    /\ state' = "starting"
    /\ recon' = "idle"
    /\ queue' = Kill({"reconnect"}, queue)
    /\ timeout' = TRUE
    /\ phase' = "resolve"

(* Mutant: stopped_ is not reset by a start.                               *)
RunConnect_NoReset ==
    /\ Running("connect")
    /\ IF state = "stopped"
       THEN /\ StartConnect
            /\ reg' = TRUE
            /\ UNCHANGED <<pc, stopped, sock, reading, disconnecting, shut, fresh, told>>
       ELSE /\ NextEvent(queue)
            /\ Fulfil(Front)
            /\ UNCHANGED <<reg, connVars>>
    /\ UNCHANGED <<job, pool, ctx, inbox>>

(* The event start() posts.                                                *)
RunConnect ==
    /\ Running("connect")
    /\ IF state = "stopped"
       THEN /\ StartConnect
            /\ stopped' = FALSE
            /\ reg' = TRUE
            /\ UNCHANGED <<pc, sock, reading, disconnecting, shut, fresh, told>>
       ELSE /\ NextEvent(queue)
            /\ Fulfil(Front)
            /\ UNCHANGED <<reg, connVars>>
    /\ UNCHANGED <<job, pool, ctx, inbox>>

(* The event the reconnect timer pushes.                                   *)
RunReconnect ==
    /\ Running("reconnect")
    /\ IF Front.live /\ state = "stopped"
       THEN /\ StartConnect
            /\ UNCHANGED <<stopped, sock, reading, disconnecting, shut, fresh, told>>
       ELSE /\ NextEvent(queue)
            /\ UNCHANGED connVars
    /\ UNCHANGED <<poolVars, inbox>>

ReconnectTimer ==
    /\ Ready
    /\ recon = "delay"
    /\ recon' = "idle"
    /\ Enqueue(Ev("reconnect", NoCaller))
    /\ UNCHANGED <<poolVars, inbox, state, stopped, sock, reading, disconnecting,
                   shut, fresh, timeout, told>>

(* The timeout timer closes the socket under the connect.                  *)
ConnectTimeout ==
    /\ Ready
    /\ timeout
    /\ timeout' = FALSE
    /\ sock' = FALSE
    /\ UNCHANGED <<poolVars, inbox, queue, phase, state, stopped, reading,
                   disconnecting, shut, fresh, recon, told>>

(* Mutant: the whole chain is passed to the disconnect and lost there.     *)
ConnectFailed_NoPromise ==
    /\ told' = "failed"
    /\ timeout' = FALSE
    /\ state' = "stopped"
    /\ sock' = FALSE
    /\ recon' = IF recon = "none" THEN "none" ELSE "delay"
    /\ NextEvent(queue)
    /\ UNCHANGED <<pc, job, pool, ctx, reg, inbox, stopped, reading, disconnecting, shut, fresh>>

(* _done_connect with an error: on_connect is called, start()'s promise is *)
(* fulfilled, and the client disconnects with an empty chain.  No read is  *)
(* outstanding, so nothing is waited for.                                  *)
ConnectFailed ==
    /\ told' = "failed"
    /\ timeout' = FALSE
    /\ state' = "stopped"
    /\ sock' = FALSE
    /\ recon' = IF recon = "none" THEN "none" ELSE "delay"
    /\ Fulfil(Front)
    /\ NextEvent(queue)
    /\ UNCHANGED <<job, pool, ctx, reg, inbox, stopped, reading, disconnecting, shut, fresh>>

ResolveDone ==
    /\ Ready
    /\ phase = "resolve"
    /\ timeout
    /\ sock' = TRUE
    /\ phase' = "connect"
    /\ UNCHANGED <<poolVars, inbox, queue, state, stopped, reading, disconnecting,
                   shut, fresh, timeout, recon, told>>

(* No address, timed out, or the socket cannot be opened.                  *)
ResolveFailed ==
    /\ Ready
    /\ phase = "resolve"
    /\ ConnectFailed

(* An address refused the connection and there is another one: the socket  *)
(* is opened again if the timeout timer has closed it.                     *)
NextEndpoint ==
    /\ Ready
    /\ phase = "connect"
    /\ ~sock
    /\ sock' = TRUE
    /\ UNCHANGED <<poolVars, inbox, queue, phase, state, stopped, reading, disconnecting,
                   shut, fresh, timeout, recon, told>>

(* No address accepted, or the socket was closed.                          *)
NoEndpoint ==
    /\ Ready
    /\ phase = "connect"
    /\ ConnectFailed

(* _done_connect without error; when the timeout timer has fired it is one.*)
Connected ==
    /\ Ready
    /\ phase = "connect"
    /\ IF timeout
       THEN /\ state' = "started"
            /\ told' = "up"
            /\ timeout' = FALSE
            /\ reading' = TRUE
            /\ Fulfil(Front)
            /\ NextEvent(Kill({"disconnect"}, queue))
            /\ UNCHANGED <<job, pool, ctx, reg, inbox, stopped, sock, disconnecting,
                           shut, fresh, recon>>
       ELSE ConnectFailed

-----------------------------------------------------------------------------
(* Receiving and sending.                                                  *)

(* A read with data, and the next one.                                     *)
RecvData ==
    /\ Ready
    /\ reading /\ state = "started" /\ sock
    /\ shut # "none" /\ Chatty
    /\ fresh' = TRUE
    /\ UNCHANGED <<poolVars, inbox, queue, phase, state, stopped, sock, reading,
                   disconnecting, shut, timeout, recon, told>>

(* A read with an error: end of stream, connection reset, socket closed.   *)
RecvError ==
    /\ Ready
    /\ reading
    /\ reading' = FALSE
    /\ IF state = "started"
       THEN RequestDisconnect
       ELSE UNCHANGED <<queue, phase, shut>>
    /\ UNCHANGED <<poolVars, inbox, state, stopped, sock, disconnecting, fresh,
                   timeout, recon, told>>

RunSend ==
    /\ Running("send")
    /\ IF state = "started" /\ sock /\ Front.live
       THEN phase' = "write" /\ UNCHANGED queue
       ELSE NextEvent(queue)
    /\ UNCHANGED <<poolVars, inbox, connVars>>

(* The write's handler: the guard is destroyed after the handler's body.   *)
WriteDone(ok) ==
    /\ Ready
    /\ phase = "write"
    /\ IF ok \/ state # "started"
       THEN NextEvent(queue)
       ELSE NextEvent(Append(queue, Ev("disconnect", NoCaller)))
    /\ UNCHANGED <<poolVars, inbox, connVars>>

-----------------------------------------------------------------------------
(* A thread goes on with the call it is in.                                *)
GoOn(c) ==
    \/ StopPost(c) \/ StopGiveUp(c) \/ StopIopool(c)
    \/ PoolCancel(c) \/ PoolStopped(c)
    \/ StartIopool(c) \/ StartCheck(c) \/ StartPost(c)

CallerNext(c) ==
    \/ \E j \in {"run", "stop"} : Len(inbox) <= MaxPosted /\ Call(c, j)
    \/ GoOn(c)
    \/ Send(c)

IoNext ==
    \/ RunReturns \/ RunPosted
    \/ RunConnect \/ RunReconnect \/ RunStop \/ RunDisconnect \/ RunSend
    \/ ShutdownTimer \/ ReadEnd \/ ReconnectTimer \/ ConnectTimeout
    \/ ResolveDone \/ ResolveFailed \/ NextEndpoint \/ NoEndpoint \/ Connected
    \/ RecvData \/ RecvError
    \/ \E ok \in BOOLEAN : WriteDone(ok)

Next == IoNext \/ \E c \in Caller : CallerNext(c)

(* A thread goes on with the call it is in; the io_context runs what is    *)
(* ready; resolvers, connects and writes complete, timers expire; a read   *)
(* on a closed socket ends.  Neither the peer nor the user has to do       *)
(* anything.                                                               *)
Fairness ==
    /\ \A c \in Caller :
        /\ WF_vars(StartIopool(c)) /\ WF_vars(StartCheck(c)) /\ WF_vars(StartPost(c))
        /\ WF_vars(StopPost(c)) /\ WF_vars(StopGiveUp(c)) /\ WF_vars(StopIopool(c))
        /\ WF_vars(PoolCancel(c)) /\ WF_vars(PoolStopped(c))
    /\ SF_vars(RunReturns) /\ SF_vars(RunPosted)
    /\ WF_vars(RunConnect) /\ WF_vars(RunReconnect) /\ WF_vars(RunStop)
    /\ WF_vars(RunDisconnect) /\ WF_vars(RunSend)
    /\ SF_vars(ShutdownTimer) /\ SF_vars(ReadEnd) /\ SF_vars(ReconnectTimer)
    /\ SF_vars(ResolveDone \/ ResolveFailed)
    /\ SF_vars(NoEndpoint \/ Connected)
    /\ SF_vars(RecvError /\ ~sock)
    /\ SF_vars(\E ok \in BOOLEAN : WriteDone(ok))

Spec == Init /\ [][Next]_vars /\ Fairness

-----------------------------------------------------------------------------
Place == {"idle", "start_pool", "start_check", "start_post", "start_wait",
          "stop_post", "stop_wait", "stop_pool", "pool_wait"}

TypeOK ==
    /\ pc \in [Caller -> Place]
    /\ job \in [Caller -> {"run", "stop"}]
    /\ pool \in {"stopped", "started", "stopping"}
    /\ ctx \in BOOLEAN /\ reg \in BOOLEAN
    /\ inbox \in Seq(Posted)
    /\ queue \in Seq(Event)
    /\ phase \in {"idle", "run", "resolve", "connect", "shutdown", "readend", "write"}
    /\ state \in {"stopped", "starting", "started"}
    /\ stopped \in BOOLEAN /\ sock \in BOOLEAN
    /\ reading \in BOOLEAN /\ disconnecting \in BOOLEAN
    /\ shut \in {"none", "armed", "canceled"}
    /\ fresh \in BOOLEAN /\ timeout \in BOOLEAN
    /\ recon \in {"none", "idle", "delay"}
    /\ told \in {"none", "failed", "up", "down"}

(* A disconnect in progress owns the guard, so a stop event never finds    *)
(* one: _do_shutdown would then destroy the chain and _do_stop would run   *)
(* in a state that is not stopped.                                         *)
DisconnectOwnsGuard ==
    /\ disconnecting <=> phase \in {"shutdown", "readend"}
    /\ shut # "none" <=> phase = "shutdown"

(* stopped_ means completely stopped: no connection, no read, no timer and *)
(* no reconnect that could still bring the connection back.                *)
StoppedIsComplete ==
    stopped =>
        /\ state = "stopped" /\ ~sock /\ ~reading /\ ~timeout /\ recon = "none"
        /\ phase \in {"idle", "run"}
        /\ \A i \in DOMAIN queue : queue[i].k = "reconnect" => ~queue[i].live

(* The user was told what is true: the last callback was a successful      *)
(* on_connect exactly while the client is started.                         *)
ToldTheTruth == told = "up" <=> state = "started"

(* An event that would tear a connection down was requested for that       *)
(* connection, not for an earlier one.                                     *)
NoStaleDisconnect ==
    (Running("disconnect") /\ state \in {"starting", "started"}) => Front.live

(* What is queued, and then what is posted.                                *)
Line == queue \o inbox

(* The events whose promise thread c waits for, and where it waits.        *)
Asked(k, c) == [k : {k}, by : {c}, live : BOOLEAN]
WaitFor == [connect |-> "start_wait", stop |-> "stop_wait"]

(* A thread waits for exactly as long as its event is pending: the promise *)
(* is neither lost with the event nor fulfilled twice, whichever way the   *)
(* connect and the disconnect pass it on.                                  *)
PromiseIsKept ==
    \A c \in Caller, k \in {"connect", "stop"} :
        IF pc[c] = WaitFor[k] THEN Once(Line, Asked(k, c)) ELSE Never(Line, Asked(k, c))

(* No callback reaches the user of a completely stopped client.            *)
QuietWhenStopped == [][told' # told => ~stopped]_vars

(* stop() returns to its only caller with the client completely stopped.   *)
StopStops ==
    [][\A c \in Caller :
        (pc[c] = "stop_wait" /\ pc'[c] = "stop_pool") => stopped' /\ state' = "stopped"]_vars

(* Every start() and every stop() returns.                                 *)
CallsReturn == \A c \in Caller : pc[c] # "idle" ~> pc[c] = "idle"

(* The promise a start() waits for is set.                                 *)
StartPromiseIsSet == \A c \in Caller : pc[c] = "start_wait" ~> pc[c] # "start_wait"

(* A shutdown that was begun reaches the close of the socket.              *)
CloseIsReached == shut # "none" ~> ~sock

Link == CASE state = "stopped" -> "down"
          [] state = "starting" -> "trying"
          [] state = "started" -> "up"

Service == INSTANCE ClientService WITH active <- ~stopped, link <- Link

(* The client implements ClientService: only a start() activates it, no    *)
(* connection appears without an attempt, a completely stopped client does *)
(* not come back by itself, and until then every loss is retried.          *)
IsService == Service!Spec
=============================================================================
