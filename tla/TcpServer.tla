------------------------------- MODULE TcpServer -------------------------------
(***************************************************************************)
(* asio2::tcp_server as net-assistant uses it: the acceptor and the        *)
(* session manager on the first io_context of the pool, every session with *)
(* its event queue on an io_context of its own, and the threads that call  *)
(* start(), stop() and async_send().  An io_context runs its handlers in   *)
(* the order they were posted, each as one action; an accept, a read, a    *)
(* write or a timer completes whenever it likes.                           *)
(*                                                                         *)
(* The life of a session goes to and fro between the two threads: accept   *)
(* (server), connect event (session), on_connect (server), join event      *)
(* (session), emplace (server), first read (session), and back on closing. *)
(***************************************************************************)
EXTENDS Naturals, Sequences, FiniteSets, SequencesExt, Occurrences

CONSTANTS Caller,   \* the threads that call start, stop and async_send
          Session,  \* the sessions there may be at a time
          MaxSrv,   \* bound: no call is begun while more is posted to the server
          MaxSend   \* bound: send events of one session

Nobody == "nobody"

ASSUME ServerAssumption ==
    /\ IsFiniteSet(Caller) /\ IsFiniteSet(Session)
    /\ Caller \cap Session = {} /\ Nobody \notin Caller \cup Session
    /\ MaxSrv \in Nat /\ MaxSend \in Nat

VARIABLES
    pc,        \* pc[c]: where thread c is
    job,       \* job[c]: the function of NetConnItem thread c is in
    hold,      \* hold[c]: the sessions for_each has copied and not sent to yet
    pool,      \* iopool::state_
    ctx,       \* the io_contexts whose run() is being executed: Nobody is the server's
    reg,       \* the server is in io_t::objects_ (and holds a work guard)
    srv,       \* handlers posted to the server's io_context
    state,     \* state_ of the server
    counter,   \* the server holds counter_ptr_
    cnt,       \* the sessions that hold a copy of counter_ptr_
    accepting, \* an async_accept is outstanding
    acctimer,  \* acceptor_timer_ runs
    waiting,   \* counter_timer_ runs
    map,       \* sessions_ of the session manager
    ses        \* ses[s]: session s

callVars == <<pc, job, hold>>
poolVars == <<pool, ctx, reg>>
accVars  == <<accepting, acctimer, waiting>>
vars == <<pc, job, hold, pool, ctx, reg, srv, state, counter, cnt,
          accepting, acctimer, waiting, map, ses>>

H(k, x) == [k |-> k, x |-> x]

(* A session that does not exist (yet, or any more).  joined is a history  *)
(* bit: it has been in the session manager's map.                          *)
Blank == [state |-> "stopped", sock |-> FALSE, reading |-> FALSE,
          disconnecting |-> FALSE, old |-> "stopped", timer |-> FALSE,
          silence |-> FALSE, phase |-> "idle", q |-> <<>>, inbox |-> <<>>,
          told |-> "none", joined |-> FALSE]

Init ==
    /\ pc = [c \in Caller |-> "idle"] /\ job = [c \in Caller |-> "stop"]
    /\ hold = [c \in Caller |-> {}]
    /\ pool = "stopped" /\ ctx = {} /\ reg = FALSE /\ srv = <<>>
    /\ state = "stopped" /\ counter = FALSE /\ cnt = {}
    /\ accepting = FALSE /\ acctimer = FALSE /\ waiting = FALSE
    /\ map = {} /\ ses = [s \in Session |-> Blank]

-----------------------------------------------------------------------------
(* What a handler does to a session, as functions of its record.           *)

Post(r, h) == [r EXCEPT !.inbox = Append(@, h)]
(* Mutant: an event that finds the queue empty is not run.                 *)
Push_NotRun(r, e) == [r EXCEPT !.q = Append(@, e)]

Push(r, e) == [r EXCEPT !.q = Append(@, e), !.phase = IF r.q = <<>> THEN "run" ELSE @]

(* The guard is destroyed on the session's thread: the next event runs.    *)
PassOn(r) == [r EXCEPT !.q = Tail(@), !.phase = IF Len(r.q) = 1 THEN "idle" ELSE "run"]

(* Mutant: the state the session is closed in is not remembered.           *)
Close_NoOld(r) ==
    IF r.state \in {"started", "starting"}
    THEN [Post(r, "erase") EXCEPT !.state = "stopping", !.phase = "away"]
    ELSE PassOn(r)

(* _do_close, and _post_close up to the handler it posts; the guard goes   *)
(* with it.                                                                *)
Close(r) ==
    IF r.state \in {"started", "starting"}
    THEN [Post(r, "erase") EXCEPT !.state = "stopping", !.old = r.state, !.phase = "away"]
    ELSE PassOn(r)

(* The event of _do_shutdown: shutdown(send), and wait for the peer's end  *)
(* of stream if there is a read to see it and shutdown() has not failed.   *)
Shutdown(r, fails) ==
    IF r.state \notin {"started", "starting"} THEN PassOn(r)
    ELSE IF r.sock /\ r.reading /\ ~fails
         THEN [r EXCEPT !.disconnecting = TRUE, !.phase = "shutdown"]
         ELSE Close([r EXCEPT !.disconnecting = TRUE])

(* _do_disconnect without a guard, from a handler outside the queue: one   *)
(* disconnect at a time, but a second request ends the shutdown's wait.    *)
Disconnect(r) ==
    IF r.disconnecting
    THEN [r EXCEPT !.phase = IF @ = "shutdown" THEN "shut" ELSE @]
    ELSE Push(r, "disconnect")

(* ... and with the guard of the running event.                            *)
DisconnectGuarded(r, fails) == IF r.disconnecting THEN PassOn(r) ELSE Shutdown(r, fails)

(* _handle_readend and session_impl_t::stop.                               *)
ReadEnd(r) == PassOn([r EXCEPT !.disconnecting = FALSE, !.silence = FALSE, !.timer = FALSE])

(* Mutant: the sweep stops only the sessions that have begun to read.      *)
StopSession_Reading(r) == IF r.reading THEN Post(r, "stop") ELSE r

(* session::stop(), called on a thread that does not wait for it.          *)
StopSession(r) == IF r.state \in {"stopped", "stopping"} THEN r ELSE Post(r, "stop")

(* Who has a shared_ptr of session s.                                      *)
Referenced(s) ==
    \/ s \in map
    \/ \E i \in DOMAIN srv : srv[i].x = s
    \/ ses[s].inbox # <<>> \/ ses[s].q # <<>>
    \/ ses[s].timer \/ ses[s].silence \/ ses[s].reading
    \/ \E c \in Caller : s \in hold[c]

-----------------------------------------------------------------------------
(* The threads: NetConnItem::run stops the server and starts it,           *)
(* NetConnItem::stop stops it, NetConnItem::send sends to every session.   *)

Goto(c, l) == pc' = [pc EXCEPT ![c] = l]
AfterStop(j) == IF j = "run" THEN "start_pool" ELSE "idle"

Call(c, j) ==
    /\ pc[c] = "idle" /\ Len(srv) <= MaxSrv
    /\ job' = [job EXCEPT ![c] = j]
    /\ Goto(c, IF pool = "stopped" THEN AfterStop(j) ELSE "stop_post")
    /\ UNCHANGED <<hold, poolVars, srv, state, counter, cnt, accVars, map, ses>>

StopPost(c) ==
    /\ pc[c] = "stop_post"
    /\ srv' = srv \o <<H("unreg", Nobody), H("stop", Nobody)>>
    /\ Goto(c, "stop_pool")
    /\ UNCHANGED <<job, hold, poolVars, state, counter, cnt, accVars, map, ses>>

(* stop_iopool: only one thread stops the pool, the others return.         *)
StopIopool(c) ==
    /\ pc[c] = "stop_pool"
    /\ IF pool = "started"
       THEN pool' = "stopping" /\ Goto(c, "pool_wait")
       ELSE UNCHANGED pool /\ Goto(c, AfterStop(job[c]))
    /\ UNCHANGED <<job, hold, ctx, reg, srv, state, counter, cnt, accVars, map, ses>>

(* First the acceptor's io_context is waited for, with io_t::cancel posted *)
(* in every round ...                                                      *)
PoolCancel(c) ==
    /\ pc[c] = "pool_wait"
    /\ Nobody \in ctx
    /\ ~Contains(srv, H("cancel", Nobody))
    /\ srv' = Append(srv, H("cancel", Nobody))
    /\ UNCHANGED <<callVars, poolVars, state, counter, cnt, accVars, map, ses>>

(* Mutant: all the work guards are reset at once.                          *)
PoolOthers_AtOnce(c) ==
    /\ pc[c] = "pool_wait"
    /\ Goto(c, "pool_wait_others")
    /\ UNCHANGED <<job, hold, poolVars, srv, state, counter, cnt, accVars, map, ses>>

(* ... then the work guards of the others are reset.                       *)
PoolOthers(c) ==
    /\ pc[c] = "pool_wait"
    /\ Nobody \notin ctx
    /\ Goto(c, "pool_wait_others")
    /\ UNCHANGED <<job, hold, poolVars, srv, state, counter, cnt, accVars, map, ses>>

PoolStopped(c) ==
    /\ pc[c] = "pool_wait_others"
    /\ ctx = {}
    /\ pool' = "stopped"
    /\ Goto(c, AfterStop(job[c]))
    /\ UNCHANGED <<job, hold, ctx, reg, srv, state, counter, cnt, accVars, map, ses>>

(* start_iopool; start() fails when the pool is not started then.          *)
StartPool(c) ==
    /\ pc[c] = "start_pool"
    /\ IF pool = "stopped"
       THEN pool' = "started" /\ ctx' = Session \cup {Nobody} /\ Goto(c, "start_post")
       ELSE UNCHANGED <<pool, ctx>> /\ Goto(c, IF pool = "started" THEN "start_post" ELSE "idle")
    /\ UNCHANGED <<job, hold, reg, srv, state, counter, cnt, accVars, map, ses>>

(* start() waits for the promise its handler holds.                        *)
StartPost(c) ==
    /\ pc[c] = "start_post"
    /\ srv' = Append(srv, H("start", c))
    /\ Goto(c, "start_wait")
    /\ UNCHANGED <<job, hold, poolVars, state, counter, cnt, accVars, map, ses>>

(* async_send: for_each copies the map, then each session gets its event.  *)
SendAll(c) ==
    /\ pc[c] = "idle" /\ map # {} /\ MaxSend > 0
    /\ hold' = [hold EXCEPT ![c] = map]
    /\ Goto(c, "sending")
    /\ UNCHANGED <<job, poolVars, srv, state, counter, cnt, accVars, map, ses>>

SendTo(c, s) ==
    /\ pc[c] = "sending" /\ s \in hold[c]
    /\ ses' = [ses EXCEPT ![s] =
                  IF Len(SelectSeq(@.q \o @.inbox, LAMBDA e : e = "send")) < MaxSend
                  THEN Post(@, "send") ELSE @]
    /\ hold' = [hold EXCEPT ![c] = @ \ {s}]
    /\ IF hold[c] = {s} THEN Goto(c, "idle") ELSE UNCHANGED pc
    /\ UNCHANGED <<job, poolVars, srv, state, counter, cnt, accVars, map>>

GoOn(c) ==
    \/ StopPost(c) \/ StopIopool(c) \/ PoolCancel(c) \/ PoolOthers(c) \/ PoolStopped(c)
    \/ StartPool(c) \/ StartPost(c) \/ \E s \in Session : SendTo(c, s)

-----------------------------------------------------------------------------
(* The server's io_context.                                                *)

(* The handler h at the head of srv is run.                                *)
Srv(k, x) == Nobody \in ctx /\ srv # <<>> /\ Head(srv) = H(k, x)

(* Mutant: nothing holds the io_context while the sessions go.             *)
PostStop_NoTimer(rest) ==
    /\ state' = "stopping"
    /\ counter' = FALSE
    /\ ses' = [s \in DOMAIN ses |-> IF s \in map THEN StopSession(ses[s]) ELSE ses[s]]
    /\ srv' = IF cnt = {} THEN Append(rest, H("exec", Nobody)) ELSE rest
    /\ UNCHANGED waiting

(* Mutant: the server does not wait for its sessions.                      *)
PostStop_NoCounter(rest) ==
    /\ state' = "stopping"
    /\ waiting' = TRUE
    /\ counter' = FALSE
    /\ ses' = [s \in DOMAIN ses |-> IF s \in map THEN StopSession(ses[s]) ELSE ses[s]]
    /\ srv' = Append(rest, H("exec", Nobody))

(* _post_stop: hold the io_context, stop every joined session, give up the *)
(* counter.  The last copy's deleter is _exec_stop, which posts.           *)
PostStop(rest) ==
    /\ state' = "stopping"
    /\ waiting' = TRUE
    /\ counter' = FALSE
    /\ ses' = [s \in DOMAIN ses |-> IF s \in map THEN StopSession(ses[s]) ELSE ses[s]]
    /\ srv' = IF cnt = {} THEN Append(rest, H("exec", Nobody)) ELSE rest

(* The handler start() posts: listening works or does not; _handle_start   *)
(* calls on_start either way.  The promise is set as the handler dies.     *)
RunStart(c, ok) ==
    /\ Srv("start", c)
    /\ Goto(c, "idle")
    /\ IF state # "stopped"
       THEN /\ srv' = Tail(srv)
            /\ UNCHANGED <<reg, state, counter, accVars, ses>>
       ELSE /\ reg' = TRUE
            /\ IF ok
               THEN /\ state' = "started" /\ counter' = TRUE /\ accepting' = TRUE
                    /\ srv' = Tail(srv)
                    /\ UNCHANGED <<acctimer, waiting, ses>>
               ELSE PostStop(Tail(srv)) /\ UNCHANGED <<accepting, acctimer>>
    /\ UNCHANGED <<job, hold, pool, ctx, cnt, map>>

RunUnreg ==
    /\ Srv("unreg", Nobody)
    /\ reg' = FALSE
    /\ srv' = Tail(srv)
    /\ UNCHANGED <<callVars, pool, ctx, state, counter, cnt, accVars, map, ses>>

(* io_t::cancel: a registered server stops itself, here without waiting.   *)
RunCancel ==
    /\ Srv("cancel", Nobody)
    /\ reg' = FALSE
    /\ srv' = IF reg THEN Tail(srv) \o <<H("unreg", Nobody), H("stop", Nobody)>> ELSE Tail(srv)
    /\ UNCHANGED <<callVars, pool, ctx, state, counter, cnt, accVars, map, ses>>

RunStop ==
    /\ Srv("stop", Nobody)
    /\ IF state = "started" THEN PostStop(Tail(srv))
       ELSE srv' = Tail(srv) /\ UNCHANGED <<state, waiting, counter, ses>>
    /\ UNCHANGED <<callVars, poolVars, cnt, accepting, acctimer, map>>

(* _exec_stop's handler: on_stop is called, the timers are canceled, the   *)
(* acceptor is closed.                                                     *)
RunExec ==
    /\ Srv("exec", Nobody)
    /\ srv' = Tail(srv)
    /\ state' = IF state = "stopping" THEN "stopped" ELSE state
    /\ accepting' = FALSE /\ acctimer' = FALSE /\ waiting' = FALSE
    /\ UNCHANGED <<callVars, poolVars, counter, cnt, map, ses>>

(* _handle_accept: the session takes a copy of the counter and starts.     *)
(* After an error it is disconnected at once and the next accept waits.    *)
RunAccept(s, ok) ==
    /\ Srv(IF ok THEN "accepted" ELSE "accept_failed", s)
    /\ srv' = Tail(srv)
    /\ IF state # "started" THEN UNCHANGED <<cnt, accVars, ses>>
       ELSE /\ cnt' = cnt \cup {s}
            /\ accepting' = (accepting \/ ok) /\ acctimer' = (acctimer \/ ~ok)
            /\ ses' = [ses EXCEPT ![s] =
                  [Blank EXCEPT !.state = "starting", !.sock = ok,
                      !.inbox = IF ok THEN <<"timer", "connect">> ELSE <<"disconnect">>]]
            /\ UNCHANGED waiting
    /\ UNCHANGED <<callVars, poolVars, state, counter, map>>

RunAcceptAgain ==
    /\ Srv("accept_again", Nobody)
    /\ srv' = Tail(srv)
    /\ accepting' = (accepting \/ state = "started")
    /\ UNCHANGED <<callVars, poolVars, state, counter, cnt, acctimer, waiting, map, ses>>

(* Mutant: the guard dies on the server's thread and is not sent back.     *)
RunConnect_GuardDropped(s) ==
    /\ Srv("connect", s)
    /\ srv' = Tail(srv)
    /\ LET r == ses[s]
       IN ses' = [ses EXCEPT ![s] =
             [r EXCEPT !.state = "started", !.told = "connect",
                       !.inbox = r.inbox \o <<"stop_timer", "join">>]]
    /\ UNCHANGED <<callVars, poolVars, state, counter, cnt, accVars, map>>

(* _done_connect: on_connect, and _do_start's event.  The guard dies here, *)
(* on the server's thread: it goes back in a handler of its own.           *)
RunConnect(s) ==
    /\ Srv("connect", s)
    /\ srv' = Tail(srv)
    /\ LET r == ses[s]
       IN ses' = [ses EXCEPT ![s] =
             IF r.sock /\ r.state = "starting"
             THEN [r EXCEPT !.state = "started", !.told = "connect",
                            !.inbox = r.inbox \o <<"stop_timer", "join", "pass_on">>]
             ELSE [r EXCEPT !.inbox = r.inbox \o <<"stop_timer", "disconnect_guarded">>]]
    /\ UNCHANGED <<callVars, poolVars, state, counter, cnt, accVars, map>>

(* Mutant: a session may join a server that is being stopped.              *)
RunEmplace_Always(s) ==
    /\ Srv("emplace", s)
    /\ srv' = Tail(srv)
    /\ map' = map \cup {s}
    /\ ses' = [ses EXCEPT ![s] = [Post(ses[s], "recv") EXCEPT !.joined = TRUE]]
    /\ UNCHANGED <<callVars, poolVars, state, counter, cnt, accVars>>

(* Mutant: the callback does not look whether the session was inserted.    *)
RunEmplace_RecvAnyway(s) ==
    /\ Srv("emplace", s)
    /\ srv' = Tail(srv)
    /\ map' = IF state = "started" THEN map \cup {s} ELSE map
    /\ ses' = [ses EXCEPT ![s] = Post(@, "recv")]
    /\ UNCHANGED <<callVars, poolVars, state, counter, cnt, accVars>>

(* session_mgr_t::emplace and _join_session's callback.                    *)
RunEmplace(s) ==
    /\ Srv("emplace", s)
    /\ srv' = Tail(srv)
    /\ IF state = "started"
       THEN /\ map' = map \cup {s}
            /\ ses' = [ses EXCEPT ![s] = [Post(ses[s], "recv") EXCEPT !.joined = TRUE]]
       ELSE /\ UNCHANGED map
            /\ ses' = [ses EXCEPT ![s] = Post(@, "disconnect_guarded")]
    /\ UNCHANGED <<callVars, poolVars, state, counter, cnt, accVars>>

(* session_mgr_t::erase and _post_close's callback.                        *)
RunErase(s) ==
    /\ Srv("erase", s)
    /\ srv' = Tail(srv)
    /\ map' = map \ {s}
    /\ ses' = [ses EXCEPT ![s] =
          [Post(ses[s], "closed") EXCEPT
              !.state = "stopped",
              !.told = IF ses[s].old = "started" /\ s \in map THEN "disconnect" ELSE ses[s].told]]
    /\ UNCHANGED <<callVars, poolVars, state, counter, cnt, accVars>>

(* run() returns when nothing is left to do: on the server's io_context    *)
(* once its guard is reset, with no accept, timer or registered server.    *)
SrvReturns ==
    /\ Nobody \in ctx /\ pool = "stopping"
    /\ srv = <<>> /\ ~accepting /\ ~acctimer /\ ~waiting /\ ~reg
    /\ ctx' = ctx \ {Nobody}
    /\ UNCHANGED <<callVars, pool, reg, srv, state, counter, cnt, accVars, map, ses>>

(* A peer connects, or the accept fails (no descriptors).                  *)
Accept(s, ok) ==
    /\ Nobody \in ctx /\ accepting
    /\ ses[s] = Blank /\ s \notin cnt /\ ~Referenced(s)
    /\ accepting' = FALSE
    /\ srv' = Append(srv, H(IF ok THEN "accepted" ELSE "accept_failed", s))
    /\ UNCHANGED <<callVars, poolVars, state, counter, cnt, acctimer, waiting, map, ses>>

(* acceptor_timer_, one second after a failed accept.                      *)
AcceptorTimer ==
    /\ Nobody \in ctx /\ acctimer
    /\ acctimer' = FALSE
    /\ srv' = Append(srv, H("accept_again", Nobody))
    /\ UNCHANGED <<callVars, poolVars, state, counter, cnt, accepting, waiting, map, ses>>

-----------------------------------------------------------------------------
(* The io_context of session s.                                            *)

Ready(s) == s \in ctx /\ ses[s].phase # "run"
Ses(s, h) == Ready(s) /\ ses[s].inbox # <<>> /\ Head(ses[s].inbox) = h
Rest(s) == [ses[s] EXCEPT !.inbox = Tail(@)]
Becomes(s, r) ==
    /\ ses' = [ses EXCEPT ![s] = r]
    /\ UNCHANGED <<callVars, poolVars, state, counter, cnt, accVars, map>>

(* A posted event is queued, and runs if the queue was empty.              *)
QueueEvent(s) ==
    /\ \E e \in {"connect", "join", "stop", "send"} : Ses(s, e) /\ Becomes(s, Push(Rest(s), e))
    /\ UNCHANGED srv

ConnectTimer(s) ==
    /\ \/ Ses(s, "timer") /\ Becomes(s, [Rest(s) EXCEPT !.timer = TRUE])
       \/ Ses(s, "stop_timer") /\ Becomes(s, [Rest(s) EXCEPT !.timer = FALSE])
    /\ UNCHANGED srv

GuardBack(s) ==
    /\ Ses(s, "pass_on")
    /\ Becomes(s, PassOn(Rest(s)))
    /\ UNCHANGED srv

RunDisconnect(s, fails) ==
    /\ \/ Ses(s, "disconnect") /\ ~fails /\ Becomes(s, Disconnect(Rest(s)))
       \/ Ses(s, "disconnect_guarded") /\ Becomes(s, DisconnectGuarded(Rest(s), fails))
    /\ UNCHANGED srv

(* _start_recv: the silence timer and the first read; then the guard dies. *)
StartRecv(s) ==
    /\ Ses(s, "recv")
    /\ Becomes(s, PassOn([Rest(s) EXCEPT !.silence = TRUE,
                              !.reading = (ses[s].state = "started" /\ ses[s].sock)]))
    /\ UNCHANGED srv

EraseMe(s) ==
    /\ Ses(s, "erase")
    /\ Becomes(s, Rest(s))
    /\ srv' = Append(srv, H("erase", s))

(* _handle_disconnect: the socket is closed, the outstanding read awaited. *)
Closed(s) ==
    /\ Ses(s, "closed")
    /\ LET r == [Rest(s) EXCEPT !.sock = FALSE]
       IN Becomes(s, IF r.reading THEN [r EXCEPT !.phase = "readend"] ELSE ReadEnd(r))
    /\ UNCHANGED srv

(* The event at the front of the queue runs.                               *)
RunEvent(s, fails) ==
    /\ s \in ctx /\ ses[s].phase = "run"
    /\ LET r == ses[s]
           away == [r EXCEPT !.phase = "away"]
       IN CASE Head(r.q) = "connect" ->
                 ~fails /\ Becomes(s, away) /\ srv' = Append(srv, H("connect", s))
            [] Head(r.q) = "join" /\ r.state = "started" /\ r.sock ->
                 ~fails /\ Becomes(s, away) /\ srv' = Append(srv, H("emplace", s))
            [] Head(r.q) = "send" /\ r.state = "started" /\ r.sock ->
                 ~fails /\ Becomes(s, [r EXCEPT !.phase = "write"]) /\ UNCHANGED srv
            [] Head(r.q) = "send" /\ ~(r.state = "started" /\ r.sock) ->
                 ~fails /\ Becomes(s, PassOn(r)) /\ UNCHANGED srv
            [] Head(r.q) = "disconnect" ->
                 Becomes(s, Shutdown(r, fails)) /\ UNCHANGED srv
            [] OTHER ->  \* the stop event, or a join without a connection
                 Becomes(s, DisconnectGuarded(r, fails)) /\ UNCHANGED srv

(* The read ends, with an error or (in a session that is no longer         *)
(* started) with anything; data in a started one only posts the next read. *)
ReadDone(s) ==
    /\ Ready(s) /\ ses[s].reading
    /\ LET r == [ses[s] EXCEPT !.reading = FALSE]
       IN Becomes(s, IF r.state = "started" THEN Disconnect(r) ELSE r)
    /\ UNCHANGED srv

(* The shutdown timer, canceled by the read's error or expired.            *)
ShutdownTimer(s) ==
    /\ Ready(s) /\ ses[s].phase \in {"shutdown", "shut"}
    /\ Becomes(s, Close(ses[s]))
    /\ UNCHANGED srv

ReadEndTimer(s) ==
    /\ Ready(s) /\ ses[s].phase = "readend" /\ ~ses[s].reading
    /\ Becomes(s, ReadEnd(ses[s]))
    /\ UNCHANGED srv

(* The connect timeout and the silence timer ask for a disconnect.         *)
TimedOut(s) ==
    /\ Ready(s)
    /\ \/ ses[s].timer   /\ Becomes(s, Disconnect([ses[s] EXCEPT !.timer = FALSE]))
       \/ ses[s].silence /\ Becomes(s, Disconnect([ses[s] EXCEPT !.silence = FALSE]))
    /\ UNCHANGED srv

WriteDone(s, ok) ==
    /\ Ready(s) /\ ses[s].phase = "write"
    /\ Becomes(s, PassOn(IF ok \/ ses[s].state # "started" THEN ses[s] ELSE Disconnect(ses[s])))
    /\ UNCHANGED srv

(* The last shared_ptr of session s is gone: ~session_impl_t drops its     *)
(* copy of the counter, on whatever thread this is.                        *)
Die(s) ==
    /\ s \in cnt /\ ~Referenced(s)
    /\ cnt' = cnt \ {s}
    /\ ses' = [ses EXCEPT ![s] = Blank]
    /\ srv' = IF ~counter /\ cnt = {s} THEN Append(srv, H("exec", Nobody)) ELSE srv
    /\ UNCHANGED <<callVars, poolVars, state, counter, accVars, map>>

SesReturns(s) ==
    /\ s \in ctx /\ \E c \in Caller : pc[c] = "pool_wait_others"
    /\ ses[s].inbox = <<>> /\ ses[s].q = <<>>
    /\ ~ses[s].timer /\ ~ses[s].silence /\ ~ses[s].reading
    /\ ctx' = ctx \ {s}
    /\ UNCHANGED <<callVars, pool, reg, srv, state, counter, cnt, accVars, map, ses>>

-----------------------------------------------------------------------------
SrvNext ==
    \/ \E c \in Caller, ok \in BOOLEAN : RunStart(c, ok)
    \/ RunUnreg \/ RunCancel \/ RunStop \/ RunExec \/ RunAcceptAgain
    \/ \E s \in Session : RunConnect(s) \/ RunEmplace(s) \/ RunErase(s)
    \/ \E s \in Session, ok \in BOOLEAN : RunAccept(s, ok)
    \/ SrvReturns \/ AcceptorTimer

SesNext(s) ==
    \/ QueueEvent(s) \/ ConnectTimer(s) \/ GuardBack(s)
    \/ StartRecv(s) \/ EraseMe(s) \/ Closed(s) \/ ShutdownTimer(s) \/ ReadEndTimer(s)
    \/ \E b \in BOOLEAN : RunDisconnect(s, b) \/ RunEvent(s, b) \/ WriteDone(s, b)
    \/ Die(s) \/ SesReturns(s)

Next ==
    \/ \E c \in Caller : GoOn(c) \/ SendAll(c) \/ \E j \in {"run", "stop"} : Call(c, j)
    \/ SrvNext
    \/ \E s \in Session :
          \/ SesNext(s) \/ ReadDone(s) \/ TimedOut(s)
          \/ \E ok \in BOOLEAN : Accept(s, ok)

(* Threads go on, io_contexts run what is ready, timers expire, writes     *)
(* complete, the read of a closed socket ends.  No peer has to connect, to *)
(* send or to close, no timeout has to strike.  The cancel posted every    *)
(* millisecond does not for ever keep run() from finding nothing to do.    *)
Fairness ==
    /\ \A c \in Caller : WF_vars(GoOn(c))
    /\ WF_vars(SrvNext) /\ SF_vars(SrvReturns)
    /\ \A s \in Session : WF_vars(SesNext(s)) /\ WF_vars(~ses[s].sock /\ ReadDone(s))

Spec == Init /\ [][Next]_vars /\ Fairness

-----------------------------------------------------------------------------
SessionRecord ==
    [state : {"stopped", "starting", "started", "stopping"}, old : {"stopped", "starting", "started"},
     sock : BOOLEAN, reading : BOOLEAN, disconnecting : BOOLEAN, timer : BOOLEAN,
     silence : BOOLEAN, joined : BOOLEAN, told : {"none", "connect", "disconnect"},
     phase : {"idle", "run", "away", "write", "shutdown", "shut", "readend"},
     q : Seq({"connect", "join", "stop", "send", "disconnect"}),
     inbox : Seq({"timer", "connect", "disconnect", "stop_timer", "join", "stop", "send",
                  "pass_on", "disconnect_guarded", "recv", "erase", "closed"})]

TypeOK ==
    /\ pc \in [Caller -> {"idle", "stop_post", "stop_pool", "pool_wait", "pool_wait_others",
                          "start_pool", "start_post", "start_wait", "sending"}]
    /\ job \in [Caller -> {"run", "stop"}]
    /\ hold \in [Caller -> SUBSET Session]
    /\ pool \in {"stopped", "started", "stopping"}
    /\ ctx \subseteq Session \cup {Nobody}
    /\ srv \in Seq([k : {"start", "stop", "unreg", "cancel", "exec", "accepted",
                         "accept_failed", "accept_again", "connect", "emplace", "erase"},
                    x : Caller \cup Session \cup {Nobody}])
    /\ state \in {"stopped", "started", "stopping"}
    /\ {reg, counter, accepting, acctimer, waiting} \subseteq BOOLEAN
    /\ cnt \subseteq Session /\ map \subseteq Session
    /\ ses \in [Session -> SessionRecord]

(* The handlers that carry the guard of session s's queue: posted to the   *)
(* server's io_context, and to the session's.                              *)
ToServer(s) == {H(k, s) : k \in {"connect", "emplace", "erase"}}
Back == {"pass_on", "disconnect_guarded", "recv", "erase", "closed"}

(* The guard of a session's queue goes to the server's thread and back in  *)
(* posted handlers: it is never duplicated and never lost, so that no two  *)
(* events of the session run at once and none waits for ever.              *)
GuardIsUnique ==
    \A s \in Session :
       IF ses[s].phase = "away"
       THEN \/ Once(srv, ToServer(s)) /\ Never(ses[s].inbox, Back)
            \/ Never(srv, ToServer(s)) /\ Once(ses[s].inbox, Back)
       ELSE Never(srv, ToServer(s)) /\ Never(ses[s].inbox, Back)

(* The handler of _exec_stop, which the deleter of the shared counter      *)
(* posts, finds the server stopping (it asserts so), once, and with every  *)
(* session gone.                                                           *)
ExecOnce ==
    \/ Never(srv, {H("exec", Nobody)})
    \/ /\ Once(srv, {H("exec", Nobody)})
       /\ state = "stopping" /\ cnt = {} /\ map = {} /\ ~counter

(* Once on_stop has been called no session is left: none holds the counter,*)
(* none is in the manager, none will call back.                            *)
NoneOutlives == state = "stopped" => cnt = {} /\ map = {}

(* A session in the manager of a server that is no longer started is on    *)
(* its way out: it came in before the sweep and was stopped by it, or it   *)
(* was leaving already.                                                    *)
NobodyEscapes ==
    state # "started" => \A s \in map :
       \/ Contains(ses[s].inbox, "stop") \/ Contains(ses[s].q, "stop")
       \/ Contains(ses[s].q, "disconnect") \/ ses[s].disconnecting

(* on_recv is only called between on_connect and on_disconnect, for a      *)
(* session that for_each finds.                                            *)
RecvWhileJoined ==
    \A s \in Session : ses[s].reading /\ ses[s].state = "started" =>
       s \in map /\ ses[s].told = "connect"

(* A session that has joined is not destroyed before on_disconnect.        *)
LeavingIsTold ==
    \A s \in cnt : ~Referenced(s) /\ ses[s].joined => ses[s].told = "disconnect"

(* bind_disconnect's notification "is invoked before the connection is     *)
(* disconnected": also for a session announced but not joined yet.         *)
AnnouncedIsTold ==
    \A s \in cnt : ~Referenced(s) => ses[s].told # "connect"

(* No session's io_context stops while there is something to run in it.    *)
NothingLost == \A s \in Session \ ctx : ses[s] = Blank

(* A session in the manager of a server that is being stopped is on its    *)
(* way out, and one that reads is in the manager and has been announced.   *)
SessionsAreCaught == NobodyEscapes /\ RecvWhileJoined

(* The server's own stop is run once, after the last session's, and the    *)
(* sessions' io_contexts stop with nothing left to run in them.            *)
StopIsLast == ExecOnce /\ NoneOutlives /\ NothingLost

(* The assertion of _post_accept (post_recv_counter_ is zero): no accept   *)
(* is begun while another one, or its handler, is outstanding.             *)
OneAcceptLoop ==
    state = "started" /\ accepting =>
       \A i \in DOMAIN srv : srv[i].k \notin {"accepted", "accept_failed", "accept_again"}

(* Every call returns: stop() gets every session out, whatever the peers   *)
(* do, and start()'s promise is set.                                       *)
CallsReturn == \A c \in Caller : pc[c] # "idle" ~> pc[c] = "idle"

Service == INSTANCE ServerService WITH
    phase <- state,
    inside <- {s \in cnt : ses[s].told = "connect"}

(* The server implements ServerService.                                    *)
IsService == Service!Spec
=============================================================================
