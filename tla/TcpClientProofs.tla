---------------------------- MODULE TcpClientProofs ----------------------------
(***************************************************************************)
(* TcpClient, for any set of threads and any bounds: the safety the runs   *)
(* check on two threads, and that every step of the client is a step of    *)
(* ClientService.                                                          *)
(***************************************************************************)
EXTENDS TcpClient, OccurrenceProofs

(* The inductive invariant.  The queue is empty exactly when nothing is    *)
(* waited for, and the front is an event of the kind its phase belongs to. *)
Guarded == phase # "idle" <=> queue # <<>>

InAttempt == phase \in {"resolve", "connect"}

FrontOfAttempt == InAttempt => Front.k \in {"connect", "reconnect"}

StartingIsAttempt == state = "starting" <=> InAttempt

TimeoutInAttempt == timeout => InAttempt

SocketIsNotStopped == sock => state # "stopped"

ReadIsWaitedFor == reading => state = "started" \/ phase = "readend"

ReadEndIsStopped == phase = "readend" => state = "stopped"

(* A client that is not stopped has its reconnect timer, or is on the way  *)
(* to being stopped.                                                       *)
TimerIsThere ==
    recon = "none" =>
        stopped \/ (phase \in {"shutdown", "readend"} /\ Front.k = "stop")

(* The io_context does not run out under a client that is not stopped.     *)
NoContext == ~ctx => stopped /\ phase = "idle"

(* Only the io_context itself pushes reconnect events.                     *)
NoPostedReconnect == \A i \in DOMAIN inbox : inbox[i].k # "reconnect"

IInv ==
    /\ TypeOK
    /\ DisconnectOwnsGuard /\ StoppedIsComplete /\ ToldTheTruth
    /\ Guarded /\ FrontOfAttempt /\ StartingIsAttempt /\ TimeoutInAttempt
    /\ SocketIsNotStopped /\ ReadIsWaitedFor /\ ReadEndIsStopped
    /\ TimerIsThere /\ NoContext /\ NoPostedReconnect

(* The reconnect events of a queue are all canceled.                       *)
Dead(q) == \A i \in DOMAIN q : q[i].k = "reconnect" => ~q[i].live

-----------------------------------------------------------------------------
(* Lemmas on the queue operations.                                         *)

(* A function from 1..n is a sequence of length n.                         *)
LEMMA FunctionIsSeq ==
    ASSUME NEW S, NEW n \in Nat, NEW f \in [1..n -> S]
    PROVE  f \in Seq(S) /\ Len(f) = n /\ DOMAIN f = 1..n
  OBVIOUS

(* Kill changes nothing of the queue but live.                             *)
LEMMA KillFacts ==
    ASSUME NEW q \in Seq(Event), NEW kinds
    PROVE  /\ Kill(kinds, q) \in Seq(Event)
           /\ Len(Kill(kinds, q)) = Len(q)
           /\ \A i \in DOMAIN q : Kill(kinds, q)[i].k = q[i].k
           /\ Dead(q) => Dead(Kill(kinds, q))
           /\ "reconnect" \in kinds => Dead(Kill(kinds, q))
           /\ q # <<>> => Kill(kinds, q) # <<>> /\ Head(Kill(kinds, q)).k = Head(q).k
  <1> DEFINE K == Kill(kinds, q)
  <1>1. DOMAIN q = 1..Len(q) /\ Len(q) \in Nat
    OBVIOUS
  <1>2. \A x \in Event : [x EXCEPT !.live = FALSE] \in Event
    BY DEF Event
  <1>3. \A i \in 1..Len(q) : q[i] \in Event
    OBVIOUS
  <1>4. K = [i \in 1..Len(q) |-> IF q[i].k \in kinds THEN [q[i] EXCEPT !.live = FALSE] ELSE q[i]]
    BY <1>1 DEF Kill
  <1>5. K \in Seq(Event) /\ Len(K) = Len(q)
    <2>1. K \in [1..Len(q) -> Event]
      BY <1>2, <1>3, <1>4
    <2> HIDE DEF K
    <2> QED
      BY <1>1, <2>1, FunctionIsSeq
  <1>6. \A i \in 1..Len(q) : K[i].k = q[i].k /\ (q[i].k \in kinds => ~K[i].live)
                                            /\ (q[i].k \notin kinds => K[i] = q[i])
    BY <1>3, <1>4 DEF Event
  <1>7. Dead(q) => Dead(K)
    BY <1>1, <1>5, <1>6 DEF Dead
  <1>8. "reconnect" \in kinds => Dead(K)
    BY <1>1, <1>5, <1>6 DEF Dead
  <1>9. q # <<>> => K # <<>> /\ Head(K).k = Head(q).k
    BY <1>1, <1>5, <1>6
  <1> HIDE DEF K
  <1> QED
    BY <1>1, <1>5, <1>6, <1>7, <1>8, <1>9 DEF K

(* The same of the inbox, when the sends are killed.                       *)
LEMMA KillPosted ==
    ASSUME TypeOK, NoPostedReconnect
    PROVE  /\ Kill({"send"}, inbox) \in Seq(Posted)
           /\ \A i \in DOMAIN Kill({"send"}, inbox) : Kill({"send"}, inbox)[i].k # "reconnect"
  <1> DEFINE K == Kill({"send"}, inbox)
  <1>1. inbox \in Seq(Posted) /\ DOMAIN inbox = 1..Len(inbox) /\ Len(inbox) \in Nat
    BY DEF TypeOK
  <1>2. \A x \in Posted : x.k = "send" => [x EXCEPT !.live = FALSE] \in Posted
                                            /\ [x EXCEPT !.live = FALSE].k = "send"
    <2>1. \A x \in Event : [x EXCEPT !.live = FALSE] \in Event
                            /\ [x EXCEPT !.live = FALSE].k = x.k
      BY DEF Event
    <2>2. \A x \in Posted : x.k = "send" => x \in Event
      BY DEF Posted, Unreg, Cancel, Ev
    <2> QED
      BY <2>1, <2>2 DEF Posted
  <1>3. \A i \in 1..Len(inbox) : inbox[i] \in Posted
    BY <1>1
  <1>4. K = [i \in 1..Len(inbox) |->
                IF inbox[i].k \in {"send"} THEN [inbox[i] EXCEPT !.live = FALSE] ELSE inbox[i]]
    BY <1>1 DEF Kill
  <1>5. \A i \in 1..Len(inbox) : K[i] \in Posted /\ K[i].k # "reconnect"
    BY <1>1, <1>2, <1>3, <1>4 DEF NoPostedReconnect
  <1>6. K \in Seq(Posted) /\ DOMAIN K = 1..Len(inbox)
    <2>1. K \in [1..Len(inbox) -> Posted]
      BY <1>4, <1>5
    <2> HIDE DEF K
    <2> QED
      BY <1>1, <2>1, FunctionIsSeq
  <1> HIDE DEF K
  <1> QED
    BY <1>5, <1>6 DEF K

(* Passing the guard on.                                                   *)
LEMMA NextEventFacts ==
    ASSUME NEW q \in Seq(Event), q # <<>>, NextEvent(q)
    PROVE  /\ queue' \in Seq(Event)
           /\ phase' \in {"run", "idle"}
           /\ phase' # "idle" <=> queue' # <<>>
           /\ Dead(q) => Dead(queue')
  <1>1. queue' = Tail(q) /\ Tail(q) \in Seq(Event) /\ phase' = IF Tail(q) # <<>> THEN "run" ELSE "idle"
    BY DEF NextEvent
  <1>2. \A i \in DOMAIN Tail(q) : i + 1 \in DOMAIN q /\ Tail(q)[i] = q[i + 1]
    OBVIOUS
  <1>3. Dead(q) => Dead(queue')
    BY <1>1, <1>2 DEF Dead
  <1> QED
    BY <1>1, <1>3

(* Enqueuing behind a front leaves the front and its phase alone.          *)
LEMMA EnqueueFacts ==
    ASSUME TypeOK, Guarded, NEW e \in Event, Enqueue(e)
    PROVE  /\ queue' \in Seq(Event) /\ queue' # <<>>
           /\ phase' = IF phase = "idle" THEN "run" ELSE phase
           /\ phase # "idle" => Front' = Front
           /\ (Dead(queue) /\ e.k # "reconnect") => Dead(queue')
  <1>1. queue \in Seq(Event)
    BY DEF TypeOK
  <1>2. /\ queue' = Append(queue, e) /\ queue' \in Seq(Event)
        /\ Len(queue') = Len(queue) + 1
        /\ \A i \in 1..Len(queue) : queue'[i] = queue[i]
        /\ queue'[Len(queue) + 1] = e
    BY <1>1, AppendProperties DEF Enqueue
  <1>3. queue' # <<>>
    BY <1>1, <1>2
  <1>4. queue # <<>> => Head(queue') = Head(queue)
    BY <1>1, <1>2
  <1>5. (Dead(queue) /\ e.k # "reconnect") => Dead(queue')
    <2>1. DOMAIN queue' = 1..(Len(queue) + 1) /\ DOMAIN queue = 1..Len(queue) /\ Len(queue) \in Nat
      BY <1>1, <1>2
    <2> QED
      BY <1>2, <2>1 DEF Dead
  <1> QED
    BY <1>2, <1>3, <1>4, <1>5 DEF Enqueue, Guarded, Front

(* Fulfilling a promise moves the thread that waits for it, and no other.  *)
LEMMA FulfilFacts ==
    ASSUME TypeOK, NEW e \in Event, Fulfil(e)
    PROVE  /\ pc' \in [Caller -> Place]
           /\ e.k # "stop" => \A c \in Caller : pc'[c] \in {pc[c], "idle"}
  BY DEF TypeOK, Fulfil, Goto, Event, Place

(* What _do_stop leaves, whatever was in the queue.                        *)
LEMMA DoStopFacts ==
    ASSUME TypeOK, NoPostedReconnect, queue # <<>>,
           NEW q \in Seq(Event), q # <<>>, DoStop(q)
    PROVE  /\ recon' = "none" /\ timeout' = FALSE /\ stopped' = TRUE
           /\ pc' \in [Caller -> Place]
           /\ inbox' \in Seq(Posted) /\ NoPostedReconnect'
           /\ queue' \in Seq(Event) /\ phase' \in {"run", "idle"}
           /\ phase' # "idle" <=> queue' # <<>>
           /\ Dead(queue')
  <1> DEFINE p == Kill({"send", "reconnect"}, q)
  <1>1. p \in Seq(Event) /\ p # <<>> /\ Dead(p)
    BY KillFacts
  <1>2. NextEvent(p) /\ Fulfil(Front) /\ inbox' = Kill({"send"}, inbox)
    BY DEF DoStop
  <1> HIDE DEF p
  <1>3. /\ queue' \in Seq(Event) /\ phase' \in {"run", "idle"}
        /\ phase' # "idle" <=> queue' # <<>>
        /\ Dead(queue')
    BY <1>1, <1>2, NextEventFacts
  <1>4. Front \in Event
    BY DEF TypeOK, Front
  <1>5. pc' \in [Caller -> Place]
    BY <1>2, <1>4, FulfilFacts
  <1>6. inbox' \in Seq(Posted) /\ NoPostedReconnect'
    BY <1>2, KillPosted DEF NoPostedReconnect
  <1> QED
    BY <1>3, <1>5, <1>6 DEF DoStop

(* The end of a disconnect: a stop event stops the client, any other wakes *)
(* the reconnect timer.                                                    *)
LEMMA FinishFacts ==
    ASSUME TypeOK, NoPostedReconnect, queue # <<>>,
           NEW q \in Seq(Event), q # <<>>, NEW r, FinishDisconnect(q, r)
    PROVE  /\ pc' \in [Caller -> Place]
           /\ inbox' \in Seq(Posted) /\ NoPostedReconnect'
           /\ queue' \in Seq(Event) /\ phase' \in {"run", "idle"}
           /\ phase' # "idle" <=> queue' # <<>>
           /\ Front.k = "stop" =>
                  recon' = "none" /\ timeout' = FALSE /\ stopped' = TRUE /\ Dead(queue')
           /\ Front.k # "stop" =>
                  /\ recon' = IF r = "none" THEN "none" ELSE "delay"
                  /\ timeout' = timeout /\ stopped' = stopped
  <1>1. CASE Front.k = "stop"
    BY <1>1, DoStopFacts DEF FinishDisconnect
  <1>2. CASE Front.k # "stop"
    <2>1. NextEvent(q) /\ Fulfil(Front) /\ inbox' = inbox
      BY <1>2 DEF FinishDisconnect
    <2>2. Front \in Event
      BY DEF TypeOK, Front
    <2>3. /\ pc' \in [Caller -> Place]
      BY <2>1, <2>2, FulfilFacts
    <2>4. inbox' \in Seq(Posted) /\ NoPostedReconnect'
      BY <2>1 DEF TypeOK, NoPostedReconnect
    <2> QED
      BY <1>2, <2>1, <2>3, <2>4, NextEventFacts DEF FinishDisconnect
  <1> QED
    BY <1>1, <1>2

LEMMA CompleteDef ==
    StoppedIsComplete <=>
        (stopped => /\ state = "stopped" /\ ~sock /\ ~reading /\ ~timeout /\ recon = "none"
                    /\ phase \in {"idle", "run"}
                    /\ Dead(queue))
  BY DEF StoppedIsComplete, Dead

(* Closing the socket of a client that is not stopped.                     *)
LEMMA CloseStep ==
    ASSUME IInv, ctx, ~stopped, ~InAttempt, queue # <<>>,
           NEW q \in Seq(Event), q # <<>>, Head(q).k = Front.k,
           NEW r \in {"none", "idle", "delay"}, r = "none" => Front.k = "stop",
           Close(q, r)
    PROVE  IInv'
  <1> USE DEF IInv
  <1>1. /\ state' = "stopped" /\ sock' = FALSE /\ shut' = "none" /\ fresh' = FALSE
        /\ told' = IF state = "started" THEN "down" ELSE told
        /\ UNCHANGED <<job, pool, ctx, reg, reading>>
    BY DEF Close
  <1>2. timeout = FALSE
    BY DEF TimeoutInAttempt, TypeOK
  <1>3. CASE reading
    <2>1. /\ disconnecting' = TRUE /\ phase' = "readend"
          /\ queue' = q /\ recon' = r
          /\ UNCHANGED <<pc, inbox, timeout, stopped>>
      BY <1>3 DEF Close
    <2>2. TypeOK'
      BY <1>1, <2>1 DEF TypeOK
    <2>3. Front'.k = Front.k
      BY <2>1 DEF Front
    <2> QED
      BY <1>1, <1>2, <2>1, <2>2, <2>3
         DEF DisconnectOwnsGuard, StoppedIsComplete, ToldTheTruth, Guarded, InAttempt, FrontOfAttempt,
             StartingIsAttempt, TimeoutInAttempt, SocketIsNotStopped, ReadIsWaitedFor,
             ReadEndIsStopped, TimerIsThere, NoContext, NoPostedReconnect
  <1>4. CASE ~reading
    <2>1. disconnecting' = FALSE /\ FinishDisconnect(q, r)
      BY <1>4 DEF Close
    <2>2. /\ pc' \in [Caller -> Place]
          /\ inbox' \in Seq(Posted) /\ NoPostedReconnect'
          /\ queue' \in Seq(Event) /\ phase' \in {"run", "idle"}
          /\ phase' # "idle" <=> queue' # <<>>
          /\ timeout' = FALSE
          /\ \/ recon' = "none" /\ stopped' = TRUE /\ Dead(queue')
             \/ recon' = "delay" /\ stopped' = FALSE
      BY <1>2, <2>1, FinishFacts DEF TypeOK
    <2>3. TypeOK'
      BY <1>1, <2>1, <2>2 DEF TypeOK
    <2>4. StoppedIsComplete'
      BY <1>1, <1>4, <2>2 DEF StoppedIsComplete, Dead
    <2> QED
      BY <1>1, <1>4, <2>1, <2>2, <2>3, <2>4
         DEF DisconnectOwnsGuard, ToldTheTruth, Guarded, InAttempt, FrontOfAttempt,
             StartingIsAttempt, TimeoutInAttempt, SocketIsNotStopped, ReadIsWaitedFor,
             ReadEndIsStopped, TimerIsThere, NoContext
  <1> QED
    BY <1>3, <1>4

(* A disconnect of a started client, or of one being started.              *)
LEMMA PostShutdownStep ==
    ASSUME IInv, ctx, phase = "run", state # "stopped", queue # <<>>,
           NEW q \in Seq(Event), q # <<>>, Head(q).k = Front.k,
           NEW r \in {"none", "idle", "delay"}, r = "none" => Front.k = "stop",
           PostShutdown(q, r)
    PROVE  IInv'
  <1>1. CASE Close(q, r)
    <2>1. ~stopped /\ ~InAttempt
      BY DEF IInv, StoppedIsComplete, InAttempt, TypeOK
    <2> QED
      BY <1>1, <2>1, CloseStep
  <1>2. CASE ~Close(q, r)
    <2>1. /\ sock /\ reading
          /\ disconnecting' = TRUE /\ shut' = "armed" /\ fresh' = FALSE /\ phase' = "shutdown"
          /\ queue' = q /\ recon' = r
          /\ UNCHANGED <<poolVars, inbox, state, stopped, sock, reading, timeout, told>>
      BY <1>2 DEF PostShutdown
    <2>2. Front'.k = Front.k
      BY <2>1 DEF Front
    <2>3. TypeOK'
      BY <2>1 DEF IInv, TypeOK, poolVars
    <2> QED
      BY <2>1, <2>2, <2>3
         DEF IInv, poolVars, DisconnectOwnsGuard, StoppedIsComplete, ToldTheTruth, Guarded,
             InAttempt, FrontOfAttempt, StartingIsAttempt, TimeoutInAttempt, SocketIsNotStopped,
             ReadIsWaitedFor, ReadEndIsStopped, TimerIsThere, NoContext, NoPostedReconnect
  <1> QED
    BY <1>1, <1>2

(* A handler that leaves the queue to be passed on, and nothing else.      *)
LEMMA SkipStep ==
    ASSUME IInv, ctx, phase \in {"run", "write"}, queue # <<>>,
           NEW q \in Seq(Event), q # <<>>, NextEvent(q), Dead(queue) => Dead(q),
           UNCHANGED <<ctx, inbox, connVars, job, pool>>, reg' \in BOOLEAN,
           pc' \in [Caller -> Place]
    PROVE  IInv'
  <1>1. /\ queue' \in Seq(Event) /\ phase' \in {"run", "idle"}
        /\ phase' # "idle" <=> queue' # <<>>
        /\ Dead(q) => Dead(queue')
    BY NextEventFacts
  <1>2. TypeOK'
    BY <1>1 DEF IInv, TypeOK, connVars
  <1>3. StoppedIsComplete'
    BY <1>1 DEF IInv, StoppedIsComplete, connVars, Dead
  <1> QED
    BY <1>1, <1>2, <1>3
       DEF IInv, connVars, DisconnectOwnsGuard, ToldTheTruth, Guarded, InAttempt, FrontOfAttempt,
           StartingIsAttempt, TimeoutInAttempt, SocketIsNotStopped, ReadIsWaitedFor,
           ReadEndIsStopped, TimerIsThere, NoContext, NoPostedReconnect

(* Enqueuing, whatever else a handler does to fresh, shut and the inbox.   *)
LEMMA EnqueueStep ==
    ASSUME IInv, ctx, phase # "run", NEW e \in Event, e.k # "reconnect" \/ ~stopped, Enqueue(e),
           UNCHANGED <<pc, job, pool, ctx, state, stopped, sock, disconnecting, shut, timeout, told>>,
           reg' \in BOOLEAN, fresh' \in BOOLEAN,
           reading' \in BOOLEAN, reading' => reading,
           recon' \in {"none", "idle", "delay"}, recon' = "none" <=> recon = "none",
           inbox' \in Seq(Posted), NoPostedReconnect'
    PROVE  IInv'
  <1>1. /\ queue' \in Seq(Event) /\ queue' # <<>>
        /\ phase' = IF phase = "idle" THEN "run" ELSE phase
        /\ phase # "idle" => Front' = Front
        /\ (Dead(queue) /\ e.k # "reconnect") => Dead(queue')
    BY EnqueueFacts DEF IInv
  <1>2. TypeOK'
    BY <1>1 DEF IInv, TypeOK
  <1>3. StoppedIsComplete'
    BY <1>1 DEF IInv, StoppedIsComplete, Dead
  <1> QED
    BY <1>1, <1>2, <1>3
       DEF IInv, DisconnectOwnsGuard, ToldTheTruth, Guarded, InAttempt, FrontOfAttempt,
           StartingIsAttempt, TimeoutInAttempt, SocketIsNotStopped, ReadIsWaitedFor,
           ReadEndIsStopped, TimerIsThere, NoContext

(* The beginning of an attempt.                                            *)
LEMMA StartConnectStep ==
    ASSUME IInv, ctx, phase = "run", queue # <<>>, Front.k \in {"connect", "reconnect"},
           state = "stopped", StartConnect, ~stopped',
           stopped' \in BOOLEAN, reg' \in BOOLEAN,
           UNCHANGED <<pc, job, pool, ctx, inbox, sock, reading, disconnecting, shut, fresh, told>>
    PROVE  IInv'
  <1>1. queue \in Seq(Event)
    BY DEF IInv, TypeOK
  <1>2. queue' \in Seq(Event) /\ queue' # <<>> /\ Front'.k = Front.k
    <2> DEFINE q == Kill({"reconnect"}, queue)
    <2>1. q \in Seq(Event) /\ q # <<>> /\ Head(q).k = Head(queue).k
      BY <1>1, KillFacts
    <2>2. queue' = q
      BY DEF StartConnect
    <2> HIDE DEF q
    <2> QED
      BY <2>1, <2>2 DEF Front
  <1>3. TypeOK'
    BY <1>2 DEF IInv, TypeOK, StartConnect
  <1> QED
    BY <1>2, <1>3
       DEF IInv, StartConnect, DisconnectOwnsGuard, StoppedIsComplete, ToldTheTruth, Guarded,
           InAttempt, FrontOfAttempt, StartingIsAttempt, TimeoutInAttempt, SocketIsNotStopped,
           ReadIsWaitedFor, ReadEndIsStopped, TimerIsThere, NoContext, NoPostedReconnect

(* The end of an attempt, one way or the other.                            *)
LEMMA ConnectFailedStep ==
    ASSUME IInv, ctx, InAttempt, ConnectFailed
    PROVE  IInv'
  <1>1. queue \in Seq(Event) /\ queue # <<>> /\ Front \in Event
    BY DEF IInv, TypeOK, Guarded, InAttempt, Front
  <1>2. NextEvent(queue) /\ Fulfil(Front)
    BY DEF ConnectFailed
  <1>3. /\ queue' \in Seq(Event) /\ phase' \in {"run", "idle"}
        /\ phase' # "idle" <=> queue' # <<>>
    BY <1>1, <1>2, NextEventFacts
  <1>4. pc' \in [Caller -> Place]
    BY <1>1, <1>2, FulfilFacts DEF IInv
  <1>5. ~stopped /\ ~reading /\ recon # "none"
    BY DEF IInv, StoppedIsComplete, ReadIsWaitedFor, TimerIsThere, StartingIsAttempt, InAttempt
  <1>6. TypeOK'
    BY <1>3, <1>4 DEF IInv, TypeOK, ConnectFailed
  <1> QED
    BY <1>3, <1>5, <1>6
       DEF IInv, ConnectFailed, DisconnectOwnsGuard, StoppedIsComplete, ToldTheTruth, Guarded,
           InAttempt, FrontOfAttempt, StartingIsAttempt, TimeoutInAttempt, SocketIsNotStopped,
           ReadIsWaitedFor, ReadEndIsStopped, TimerIsThere, NoContext, NoPostedReconnect

LEMMA ConnectedStep ==
    ASSUME IInv, Connected
    PROVE  IInv'
  <1>1. ctx /\ phase = "connect" /\ InAttempt
    BY DEF Connected, Ready, InAttempt
  <1>2. CASE ~timeout
    BY <1>1, <1>2, ConnectFailedStep DEF Connected
  <1>3. CASE timeout
    <2> DEFINE q == Kill({"disconnect"}, queue)
    <2>1. queue \in Seq(Event) /\ queue # <<>> /\ Front \in Event
      BY <1>1 DEF IInv, TypeOK, Guarded, Front
    <2>2. NextEvent(q) /\ Fulfil(Front)
      BY <1>3 DEF Connected
    <2>3. q \in Seq(Event) /\ q # <<>>
      BY <2>1, KillFacts
    <2> HIDE DEF q
    <2>4. /\ queue' \in Seq(Event) /\ phase' \in {"run", "idle"}
          /\ phase' # "idle" <=> queue' # <<>>
      BY <2>2, <2>3, NextEventFacts
    <2>5. pc' \in [Caller -> Place]
      BY <2>1, <2>2, FulfilFacts DEF IInv
    <2>6. ~stopped /\ recon # "none"
      BY <1>1 DEF IInv, StoppedIsComplete, TimerIsThere
    <2>7. /\ state' = "started" /\ told' = "up" /\ timeout' = FALSE /\ reading' = TRUE
          /\ UNCHANGED <<job, pool, ctx, reg, inbox, stopped, sock, disconnecting, shut, fresh, recon>>
      BY <1>3 DEF Connected
    <2>8. TypeOK'
      <3>1. TypeOK
        BY DEF IInv
      <3>2. inbox' \in Seq(Posted) /\ queue' \in Seq(Event)
        BY <2>4, <2>7, <3>1 DEF TypeOK
      <3>3. /\ job' \in [Caller -> {"run", "stop"}]
            /\ pool' \in {"stopped", "started", "stopping"}
            /\ ctx' \in BOOLEAN /\ reg' \in BOOLEAN
        BY <2>7, <3>1 DEF TypeOK
      <3>4. /\ stopped' \in BOOLEAN /\ sock' \in BOOLEAN
            /\ reading' \in BOOLEAN /\ disconnecting' \in BOOLEAN
            /\ shut' \in {"none", "armed", "canceled"}
            /\ fresh' \in BOOLEAN /\ timeout' \in BOOLEAN
            /\ recon' \in {"none", "idle", "delay"}
        BY <2>7, <3>1 DEF TypeOK
      <3>5. told' \in {"none", "failed", "up", "down"} /\ state' \in {"stopped", "starting", "started"}
        BY <2>7
      <3> QED
        BY <2>4, <2>5, <3>2, <3>3, <3>4, <3>5 DEF TypeOK
    <2> QED
      BY <1>1, <2>4, <2>6, <2>7, <2>8
         DEF IInv, DisconnectOwnsGuard, StoppedIsComplete, ToldTheTruth, Guarded, InAttempt,
             FrontOfAttempt, StartingIsAttempt, TimeoutInAttempt, SocketIsNotStopped,
             ReadIsWaitedFor, ReadEndIsStopped, TimerIsThere, NoContext, NoPostedReconnect
  <1> QED
    BY <1>2, <1>3 DEF IInv, TypeOK

-----------------------------------------------------------------------------
(* The threads.                                                            *)

NoReconnect(s) == \A i \in DOMAIN s : s[i].k # "reconnect"

LEMMA ConcatFacts ==
    ASSUME NEW s \in Seq(Posted), NEW t \in Seq(Posted), NoReconnect(s), NoReconnect(t)
    PROVE  s \o t \in Seq(Posted) /\ NoReconnect(s \o t)
  <1>1. /\ s \o t \in Seq(Posted) /\ Len(s \o t) = Len(s) + Len(t)
        /\ \A i \in 1..(Len(s) + Len(t)) : (s \o t)[i] = IF i <= Len(s) THEN s[i] ELSE t[i - Len(s)]
    OBVIOUS
  <1>2. /\ Len(s) \in Nat /\ Len(t) \in Nat
        /\ DOMAIN s = 1..Len(s) /\ DOMAIN t = 1..Len(t) /\ DOMAIN (s \o t) = 1..(Len(s) + Len(t))
    BY <1>1
  <1>3. ASSUME NEW i \in DOMAIN (s \o t) PROVE (s \o t)[i].k # "reconnect"
    <2>1. CASE i <= Len(s)
      BY <1>1, <1>2, <2>1 DEF NoReconnect
    <2>2. CASE ~(i <= Len(s))
      <3>1. i - Len(s) \in DOMAIN t /\ (s \o t)[i] = t[i - Len(s)]
        BY <1>1, <1>2, <2>2
      <3> QED
        BY <3>1 DEF NoReconnect
    <2> QED
      BY <2>1, <2>2
  <1> QED
    BY <1>1, <1>3 DEF NoReconnect

LEMMA AppendPosted ==
    ASSUME NEW s \in Seq(Posted), NEW x \in Posted, NoReconnect(s), x.k # "reconnect"
    PROVE  Append(s, x) \in Seq(Posted) /\ NoReconnect(Append(s, x))
  <1>1. /\ Append(s, x) \in Seq(Posted) /\ Len(Append(s, x)) = Len(s) + 1
        /\ \A i \in 1..Len(s) : Append(s, x)[i] = s[i]
        /\ Append(s, x)[Len(s) + 1] = x
    BY AppendProperties
  <1>2. /\ Len(s) \in Nat /\ DOMAIN s = 1..Len(s) /\ DOMAIN Append(s, x) = 1..(Len(s) + 1)
    BY <1>1
  <1> QED
    BY <1>1, <1>2 DEF NoReconnect

LEMMA TailPosted ==
    ASSUME NEW s \in Seq(Posted), s # <<>>, NoReconnect(s)
    PROVE  /\ Tail(s) \in Seq(Posted) /\ NoReconnect(Tail(s))
           /\ Head(s) \in Posted /\ Head(s).k # "reconnect"
  <1>1. \A i \in DOMAIN Tail(s) : i + 1 \in DOMAIN s /\ Tail(s)[i] = s[i + 1]
    OBVIOUS
  <1>2. 1 \in DOMAIN s /\ Head(s) = s[1]
    OBVIOUS
  <1> QED
    BY <1>1, <1>2 DEF NoReconnect

(* What is posted.                                                         *)
LEMMA PostedFacts ==
    ASSUME NEW c \in Caller \cup {NoCaller}
    PROVE  /\ \A k \in {"connect", "stop", "send", "disconnect", "reconnect"} :
                 Ev(k, c) \in Event /\ Ev(k, c) \in Posted /\ Ev(k, c).k = k
           /\ Unreg \in Posted /\ Unreg.k = "unreg"
           /\ Cancel \in Posted /\ Cancel.k = "cancel"
           /\ <<Unreg, Ev("stop", c)>> \in Seq(Posted) /\ NoReconnect(<<Unreg, Ev("stop", c)>>)
  BY DEF Posted, Event, Ev, Unreg, Cancel, NoReconnect

(* A step that leaves queue and connection alone, and the io_context going.*)
LEMMA ThreadStep ==
    ASSUME IInv, UNCHANGED <<reg, queue, phase, connVars>>,
           pc' \in [Caller -> Place],
           job' \in [Caller -> {"run", "stop"}],
           pool' \in {"stopped", "started", "stopping"},
           ctx' \in BOOLEAN, ctx => ctx',
           inbox' \in Seq(Posted), NoReconnect(inbox')
    PROVE  IInv'
  <1>1. TypeOK'
    BY DEF IInv, TypeOK, connVars
  <1>2. NoPostedReconnect'
    BY DEF NoPostedReconnect, NoReconnect
  <1> QED
    BY <1>1, <1>2
       DEF IInv, connVars, DisconnectOwnsGuard, StoppedIsComplete, ToldTheTruth, Guarded,
           InAttempt, FrontOfAttempt, StartingIsAttempt, TimeoutInAttempt, SocketIsNotStopped,
           ReadIsWaitedFor, ReadEndIsStopped, TimerIsThere, NoContext, Front

(* What a thread may do, however much is posted when it begins a call.     *)
Acts(c) == (\E j \in {"run", "stop"} : Call(c, j)) \/ GoOn(c) \/ Send(c)

LEMMA CallerActs == \A c : CallerNext(c) => Acts(c)
  BY DEF CallerNext, Acts

LEMMA CallerStep ==
    ASSUME IInv, NEW c \in Caller, Acts(c)
    PROVE  IInv'
  <1>0. /\ TypeOK /\ inbox \in Seq(Posted) /\ NoReconnect(inbox)
        /\ pc \in [Caller -> Place]
        /\ job \in [Caller -> {"run", "stop"}]
        /\ pool \in {"stopped", "started", "stopping"} /\ ctx \in BOOLEAN
    BY DEF IInv, TypeOK, NoPostedReconnect, NoReconnect
  <1> USE <1>0
  <1>1. ASSUME NEW j \in {"run", "stop"}, Call(c, j) PROVE IInv'
    BY <1>1, ThreadStep DEF Call, Goto, AfterStop, Place
  <1>2. CASE StopPost(c)
    <2>1. inbox' \in Seq(Posted) /\ NoReconnect(inbox')
      BY <1>2, PostedFacts, ConcatFacts DEF StopPost
    <2> QED
      BY <1>2, <2>1, ThreadStep DEF StopPost, Goto, Place
  <1>3. CASE StopGiveUp(c)
    <2> DEFINE B == [i \in DOMAIN inbox |->
                        IF inbox[i].by = c THEN [inbox[i] EXCEPT !.by = NoCaller] ELSE inbox[i]]
    <2>1. \A x \in Posted : x.by = c => [x EXCEPT !.by = NoCaller] \in Posted
                                         /\ [x EXCEPT !.by = NoCaller].k = x.k
      <3>1. \A x \in Event : [x EXCEPT !.by = NoCaller] \in Event /\ [x EXCEPT !.by = NoCaller].k = x.k
        BY DEF Event
      <3>2. \A x \in Posted : x.by = c => x \in Event
        BY ClientAssumption DEF Posted, Unreg, Cancel, Ev
      <3> QED
        BY <3>1, <3>2 DEF Posted
    <2>2. DOMAIN inbox = 1..Len(inbox) /\ Len(inbox) \in Nat /\ \A i \in 1..Len(inbox) : inbox[i] \in Posted
      OBVIOUS
    <2>3. \A i \in 1..Len(inbox) : B[i] \in Posted /\ B[i].k # "reconnect"
      BY <2>1, <2>2 DEF NoReconnect
    <2>4. B \in [1..Len(inbox) -> Posted]
      BY <2>2, <2>3
    <2>5. inbox' = B
      BY <1>3 DEF StopGiveUp
    <2> HIDE DEF B
    <2>6. inbox' \in Seq(Posted) /\ NoReconnect(inbox')
      BY <2>2, <2>3, <2>4, <2>5, FunctionIsSeq DEF NoReconnect
    <2> QED
      BY <1>3, <2>6, ThreadStep DEF StopGiveUp, Goto, Place
  <1>4. CASE StopIopool(c)
    BY <1>4, ThreadStep DEF StopIopool, Goto, AfterStop, Place
  <1>5. CASE PoolCancel(c)
    <2>1. inbox' \in Seq(Posted) /\ NoReconnect(inbox')
      BY <1>5, PostedFacts, AppendPosted DEF PoolCancel
    <2> QED
      BY <1>5, <2>1, ThreadStep DEF PoolCancel
  <1>6. CASE PoolStopped(c)
    BY <1>6, ThreadStep DEF PoolStopped, Goto, AfterStop, Place
  <1>7. CASE StartIopool(c)
    BY <1>7, ThreadStep DEF StartIopool, Goto, Place
  <1>8. CASE StartCheck(c)
    BY <1>8, ThreadStep DEF StartCheck, Goto, Place
  <1>9. CASE StartPost(c)
    <2>1. inbox' \in Seq(Posted) /\ NoReconnect(inbox')
      BY <1>9, PostedFacts, AppendPosted DEF StartPost
    <2> QED
      BY <1>9, <2>1, ThreadStep DEF StartPost, Goto, Place
  <1>10. CASE Send(c)
    <2>1. inbox' \in Seq(Posted) /\ NoReconnect(inbox')
      BY <1>10, PostedFacts, AppendPosted DEF Send
    <2> QED
      BY <1>10, <2>1, ThreadStep DEF Send
  <1> QED
    BY <1>1, <1>2, <1>3, <1>4, <1>5, <1>6, <1>7, <1>8, <1>9, <1>10 DEF Acts, GoOn

-----------------------------------------------------------------------------
(* The io_context.                                                         *)

(* A handler that leaves queue, inbox and threads alone.                   *)
LEMMA QuietStep ==
    ASSUME IInv, UNCHANGED <<poolVars, inbox, queue, disconnecting, told, stopped, recon>>,
           ctx, ~stopped,
           phase' = phase \/ (phase = "resolve" /\ phase' = "connect")
                          \/ (phase = "run" /\ phase' = "write" /\ Front.k = "send"),
           state' = state, shut' = shut \/ (shut = "armed" /\ shut' = "canceled"),
           sock' \in BOOLEAN, sock' => (sock \/ state # "stopped"),
           reading' \in BOOLEAN, reading' => reading,
           timeout' \in BOOLEAN, timeout' => timeout,
           fresh' \in BOOLEAN
    PROVE  IInv'
  <1>1. TypeOK'
    BY DEF IInv, TypeOK, poolVars
  <1> QED
    BY <1>1
       DEF poolVars, TypeOK, IInv, DisconnectOwnsGuard, StoppedIsComplete, ToldTheTruth, Guarded,
           InAttempt, FrontOfAttempt, StartingIsAttempt, TimeoutInAttempt, SocketIsNotStopped,
           ReadIsWaitedFor, ReadEndIsStopped, TimerIsThere, NoContext, NoPostedReconnect, Front

(* The types of a step that leaves queue and connection alone.             *)
LEMMA TypeStep ==
    ASSUME TypeOK, UNCHANGED <<queue, phase, connVars>>,
           pc' \in [Caller -> Place], job' \in [Caller -> {"run", "stop"}],
           pool' \in {"stopped", "started", "stopping"}, ctx' \in BOOLEAN, reg' \in BOOLEAN,
           inbox' \in Seq(Posted)
    PROVE  TypeOK'
  <1>1. /\ queue' \in Seq(Event)
        /\ phase' \in {"idle", "run", "resolve", "connect", "shutdown", "readend", "write"}
    BY DEF TypeOK
  <1>2. /\ state' \in {"stopped", "starting", "started"}
        /\ stopped' \in BOOLEAN /\ sock' \in BOOLEAN
        /\ reading' \in BOOLEAN /\ disconnecting' \in BOOLEAN
        /\ shut' \in {"none", "armed", "canceled"}
        /\ fresh' \in BOOLEAN /\ timeout' \in BOOLEAN
        /\ recon' \in {"none", "idle", "delay"}
        /\ told' \in {"none", "failed", "up", "down"}
    BY DEF TypeOK, connVars
  <1> QED
    BY <1>1, <1>2 DEF TypeOK

(* unregobj, and cancel: the client is taken out of the io_t's objects.    *)
LEMMA UnregStep ==
    ASSUME IInv, UNCHANGED <<pc, job, pool, ctx, queue, phase, connVars>>, reg' = FALSE,
           inbox' \in Seq(Posted), NoReconnect(inbox')
    PROVE  IInv'
  <1>1. TypeOK'
    <2>1. /\ TypeOK /\ pc' \in [Caller -> Place] /\ job' \in [Caller -> {"run", "stop"}]
          /\ pool' \in {"stopped", "started", "stopping"} /\ ctx' \in BOOLEAN
      BY DEF IInv, TypeOK
    <2> QED
      BY <2>1, TypeStep
  <1>2. NoPostedReconnect'
    BY DEF NoPostedReconnect, NoReconnect
  <1> QED
    BY <1>1, <1>2
       DEF IInv, connVars, DisconnectOwnsGuard, StoppedIsComplete, ToldTheTruth, Guarded,
           InAttempt, FrontOfAttempt, StartingIsAttempt, TimeoutInAttempt, SocketIsNotStopped,
           ReadIsWaitedFor, ReadEndIsStopped, TimerIsThere, NoContext, Front

LEMMA RunPostedStep ==
    ASSUME IInv, RunPosted
    PROVE  IInv'
  <1> DEFINE h == Head(inbox)
  <1>1. /\ ctx /\ phase # "run" /\ inbox # <<>>
        /\ UNCHANGED <<pc, job, pool, ctx, connVars>>
    BY DEF RunPosted, Ready
  <1>2. /\ TypeOK /\ inbox \in Seq(Posted) /\ NoReconnect(inbox)
        /\ pc \in [Caller -> Place]
        /\ job \in [Caller -> {"run", "stop"}] /\ pool \in {"stopped", "started", "stopping"}
    BY DEF IInv, TypeOK, NoPostedReconnect, NoReconnect
  <1>3. Tail(inbox) \in Seq(Posted) /\ NoReconnect(Tail(inbox)) /\ h \in Posted /\ h.k # "reconnect"
    BY <1>1, <1>2, TailPosted
  <1>4. CASE h = Unreg
    <2>1. reg' = FALSE /\ inbox' = Tail(inbox) /\ UNCHANGED <<queue, phase>>
      <3>1. Cancel # Unreg
        BY DEF Cancel, Unreg, Ev
      <3> QED
        BY <1>4, <3>1 DEF RunPosted
    <2> QED
      BY <1>1, <1>2, <1>3, <2>1, UnregStep
  <1>5. CASE h = Cancel
    <2>1. /\ reg' = FALSE /\ UNCHANGED <<queue, phase>>
          /\ inbox' = Tail(inbox) \o IF reg THEN <<Unreg, Ev("stop", NoCaller)>> ELSE <<>>
      <3>1. Cancel # Unreg
        BY DEF Cancel, Unreg, Ev
      <3> QED
        BY <1>5, <3>1 DEF RunPosted
    <2>2. /\ <<Unreg, Ev("stop", NoCaller)>> \in Seq(Posted)
          /\ NoReconnect(<<Unreg, Ev("stop", NoCaller)>>)
      BY PostedFacts
    <2>3. <<>> \in Seq(Posted) /\ NoReconnect(<<>>)
      BY DEF NoReconnect
    <2>4. inbox' \in Seq(Posted) /\ NoReconnect(inbox')
      BY <1>3, <2>1, <2>2, <2>3, ConcatFacts
    <2> QED
      BY <1>1, <1>2, <2>1, <2>4, UnregStep
  <1>6. CASE h # Unreg /\ h # Cancel
    <2>1. h \in Event
      BY <1>3, <1>6 DEF Posted
    <2>2. Enqueue(h) /\ inbox' = Tail(inbox) /\ reg' = reg
      BY <1>6 DEF RunPosted
    <2>3. NoPostedReconnect'
      BY <1>3, <2>2 DEF NoPostedReconnect, NoReconnect
    <2>4. /\ reg' \in BOOLEAN /\ fresh' \in BOOLEAN /\ reading' \in BOOLEAN /\ reading' = reading
          /\ recon' \in {"none", "idle", "delay"} /\ recon' = recon /\ inbox' \in Seq(Posted)
      BY <1>1, <1>2, <1>3, <2>2 DEF TypeOK, connVars
    <2>5. UNCHANGED <<pc, job, pool, ctx, state, stopped, sock, disconnecting, shut, timeout, told>>
      BY <1>1 DEF connVars
    <2> HIDE DEF h
    <2> QED
      BY <1>1, <1>3, <2>1, <2>2, <2>3, <2>4, <2>5, EnqueueStep
  <1> QED
    BY <1>4, <1>5, <1>6

LEMMA RecvErrorStep ==
    ASSUME IInv, RecvError
    PROVE  IInv'
  <1>1. /\ ctx /\ phase # "run" /\ reading /\ reading' = FALSE
        /\ UNCHANGED <<poolVars, inbox, state, stopped, sock, disconnecting, fresh, timeout, recon, told>>
    BY DEF RecvError, Ready
  <1>2. ~stopped
    BY <1>1 DEF IInv, StoppedIsComplete
  <1>3. CASE state = "started" /\ ~(shut # "none" \/ disconnecting)
    <2> DEFINE e == Ev("disconnect", NoCaller)
    <2>1. Enqueue(e) /\ shut' = shut
      BY <1>3 DEF RecvError, RequestDisconnect
    <2>2. e \in Event /\ e.k # "reconnect"
      BY PostedFacts
    <2> HIDE DEF e
    <2>3. /\ UNCHANGED <<pc, job, pool, ctx, state, stopped, sock, disconnecting, shut, timeout, told>>
          /\ reg' \in BOOLEAN /\ fresh' \in BOOLEAN /\ reading' \in BOOLEAN /\ (reading' => reading)
          /\ recon' \in {"none", "idle", "delay"} /\ recon' = recon /\ inbox' \in Seq(Posted)
          /\ NoPostedReconnect'
      BY <1>1, <2>1 DEF IInv, TypeOK, poolVars, NoPostedReconnect
    <2> QED
      BY <1>1, <2>1, <2>2, <2>3, EnqueueStep
  <1>4. CASE ~(state = "started" /\ ~(shut # "none" \/ disconnecting))
    <2>1. /\ UNCHANGED <<queue, phase>>
          /\ shut' = shut \/ (shut = "armed" /\ shut' = "canceled")
      BY <1>4 DEF RecvError, RequestDisconnect
    <2>2. sock' \in BOOLEAN /\ (sock' => sock) /\ reading' \in BOOLEAN /\ timeout' \in BOOLEAN
          /\ fresh' \in BOOLEAN /\ (timeout' => timeout)
      BY <1>1 DEF IInv, TypeOK
    <2> QED
      BY <1>1, <1>2, <2>1, <2>2, QuietStep
  <1> QED
    BY <1>3, <1>4

LEMMA ReadEndStep ==
    ASSUME IInv, ReadEnd
    PROVE  IInv'
  <1>1. /\ ctx /\ phase = "readend" /\ ~reading /\ disconnecting' = FALSE
        /\ FinishDisconnect(queue, recon)
        /\ UNCHANGED <<job, pool, ctx, reg, state, sock, reading, shut, fresh, told>>
    BY DEF ReadEnd, Ready
  <1>2. /\ TypeOK /\ NoPostedReconnect /\ queue \in Seq(Event) /\ queue # <<>>
        /\ ~stopped /\ state = "stopped" /\ ~sock /\ ~timeout /\ shut = "none"
        /\ (recon = "none" => Front.k = "stop")
    BY <1>1 DEF IInv, TypeOK, Guarded, StoppedIsComplete, ReadEndIsStopped, SocketIsNotStopped,
                TimeoutInAttempt, InAttempt, DisconnectOwnsGuard, TimerIsThere
  <1>3. /\ pc' \in [Caller -> Place]
        /\ inbox' \in Seq(Posted) /\ NoPostedReconnect'
        /\ queue' \in Seq(Event) /\ phase' \in {"run", "idle"}
        /\ phase' # "idle" <=> queue' # <<>>
        /\ Front.k = "stop" =>
               recon' = "none" /\ timeout' = FALSE /\ stopped' = TRUE /\ Dead(queue')
        /\ Front.k # "stop" =>
               /\ recon' = IF recon = "none" THEN "none" ELSE "delay"
               /\ timeout' = timeout /\ stopped' = stopped
    BY <1>1, <1>2, FinishFacts
  <1>4. /\ timeout' = FALSE
        /\ \/ recon' = "none" /\ stopped' = TRUE /\ Dead(queue')
           \/ recon' = "delay" /\ stopped' = FALSE
    BY <1>2, <1>3 DEF TypeOK
  <1>5. TypeOK'
    BY <1>1, <1>2, <1>3, <1>4 DEF TypeOK
  <1>6. StoppedIsComplete'
    BY <1>1, <1>2, <1>3, <1>4 DEF StoppedIsComplete, Dead
  <1> QED
    BY <1>1, <1>2, <1>3, <1>4, <1>5, <1>6
       DEF IInv, DisconnectOwnsGuard, ToldTheTruth, Guarded, InAttempt, FrontOfAttempt,
           StartingIsAttempt, TimeoutInAttempt, SocketIsNotStopped, ReadIsWaitedFor,
           ReadEndIsStopped, TimerIsThere, NoContext

(* The stop event, in the middle of a connection or without one.           *)
LEMMA RunStopStep ==
    ASSUME IInv, RunStop
    PROVE  IInv'
  <1>1. /\ ctx /\ phase = "run" /\ Front.k = "stop" /\ queue # <<>> /\ queue \in Seq(Event)
        /\ shut = "none" /\ ~disconnecting /\ TypeOK /\ NoPostedReconnect
    BY DEF RunStop, Running, IInv, TypeOK, Guarded, DisconnectOwnsGuard
  <1>2. CASE state \in {"started", "starting"}
    <2> DEFINE q == Kill({"reconnect"}, queue)
    <2>1. PostShutdown(q, "none")
      BY <1>1, <1>2 DEF RunStop
    <2>2. q \in Seq(Event) /\ q # <<>> /\ Head(q).k = Front.k
      BY <1>1, KillFacts DEF Front
    <2> HIDE DEF q
    <2> QED
      BY <1>1, <1>2, <2>1, <2>2, PostShutdownStep
  <1>3. CASE state \notin {"started", "starting"}
    <2>1. /\ DoStop(queue) /\ shut' = "none"
          /\ UNCHANGED <<job, pool, ctx, reg, state, sock, reading, disconnecting, fresh, told>>
      BY <1>1, <1>3 DEF RunStop
    <2>2. state = "stopped" /\ ~sock /\ ~reading
      BY <1>1, <1>3 DEF IInv, TypeOK, SocketIsNotStopped, ReadIsWaitedFor
    <2>3. /\ recon' = "none" /\ timeout' = FALSE /\ stopped' = TRUE
          /\ pc' \in [Caller -> Place] /\ inbox' \in Seq(Posted) /\ NoPostedReconnect'
          /\ queue' \in Seq(Event) /\ phase' \in {"run", "idle"}
          /\ phase' # "idle" <=> queue' # <<>>
          /\ Dead(queue')
      BY <1>1, <2>1, DoStopFacts
    <2>4. TypeOK'
      BY <1>1, <2>1, <2>3 DEF TypeOK
    <2>5. StoppedIsComplete'
      BY <2>1, <2>2, <2>3 DEF StoppedIsComplete, Dead
    <2> QED
      BY <1>1, <2>1, <2>2, <2>3, <2>4, <2>5
         DEF IInv, DisconnectOwnsGuard, ToldTheTruth, Guarded, InAttempt, FrontOfAttempt,
             StartingIsAttempt, TimeoutInAttempt, SocketIsNotStopped, ReadIsWaitedFor,
             ReadEndIsStopped, TimerIsThere, NoContext
  <1> QED
    BY <1>2, <1>3

(* What the event at the front of a running queue may rely on.             *)
LEMMA RunningFacts ==
    ASSUME IInv, NEW k, Running(k)
    PROVE  /\ ctx /\ phase = "run" /\ Front.k = k /\ Front \in Event
           /\ queue \in Seq(Event) /\ queue # <<>>
           /\ ~disconnecting /\ shut = "none" /\ state # "starting"
           /\ state = "started" => ~stopped
           /\ recon = "none" => stopped
  BY DEF Running, IInv, TypeOK, Guarded, DisconnectOwnsGuard, StartingIsAttempt, InAttempt,
         StoppedIsComplete, TimerIsThere, Front

LEMMA RunConnectStep ==
    ASSUME IInv, RunConnect
    PROVE  IInv'
  <1>1. /\ ctx /\ phase = "run" /\ Front.k = "connect" /\ Front \in Event
        /\ queue \in Seq(Event) /\ queue # <<>>
    BY RunningFacts DEF RunConnect
  <1>2. CASE state = "stopped"
    <2>1. /\ StartConnect /\ stopped' = FALSE /\ reg' = TRUE
          /\ UNCHANGED <<pc, job, pool, ctx, inbox, sock, reading, disconnecting, shut, fresh, told>>
      BY <1>2 DEF RunConnect
    <2> QED
      BY <1>1, <1>2, <2>1, StartConnectStep
  <1>3. CASE state # "stopped"
    <2>1. NextEvent(queue) /\ Fulfil(Front) /\ UNCHANGED <<reg, connVars, job, pool, ctx, inbox>>
      BY <1>3 DEF RunConnect
    <2>2. pc' \in [Caller -> Place]
      BY <1>1, <2>1, FulfilFacts DEF IInv
    <2>3. reg' \in BOOLEAN
      BY <2>1 DEF IInv, TypeOK
    <2> QED
      BY <1>1, <2>1, <2>2, <2>3, SkipStep
  <1> QED
    BY <1>2, <1>3

LEMMA RunReconnectStep ==
    ASSUME IInv, RunReconnect
    PROVE  IInv'
  <1>1. /\ ctx /\ phase = "run" /\ Front.k = "reconnect" /\ Front \in Event
        /\ queue \in Seq(Event) /\ queue # <<>>
    BY RunningFacts DEF RunReconnect
  <1>2. CASE Front.live /\ state = "stopped"
    <2>1. ~stopped
      <3>1. 1 \in DOMAIN queue /\ Front = queue[1]
        BY <1>1 DEF Front
      <3> QED
        BY <1>1, <1>2, <3>1 DEF IInv, StoppedIsComplete
    <2>2. /\ StartConnect /\ stopped' = stopped /\ reg' = reg
          /\ UNCHANGED <<pc, job, pool, ctx, inbox, sock, reading, disconnecting, shut, fresh, told>>
      BY <1>2 DEF RunReconnect, poolVars
    <2>3. stopped' \in BOOLEAN /\ reg' \in BOOLEAN
      BY <2>2 DEF IInv, TypeOK
    <2> QED
      BY <1>1, <1>2, <2>1, <2>2, <2>3, StartConnectStep
  <1>3. CASE ~(Front.live /\ state = "stopped")
    <2>1. NextEvent(queue) /\ UNCHANGED <<ctx, inbox, connVars, job, pool>> /\ reg' = reg /\ pc' = pc
      BY <1>3 DEF RunReconnect, poolVars
    <2>2. pc' \in [Caller -> Place] /\ reg' \in BOOLEAN
      BY <2>1 DEF IInv, TypeOK
    <2> QED
      BY <1>1, <2>1, <2>2, SkipStep
  <1> QED
    BY <1>2, <1>3

LEMMA RunDisconnectStep ==
    ASSUME IInv, RunDisconnect
    PROVE  IInv'
  <1>1. /\ ctx /\ phase = "run" /\ Front.k = "disconnect" /\ queue \in Seq(Event) /\ queue # <<>>
        /\ state # "starting" /\ (state = "started" => ~stopped) /\ (recon = "none" => stopped)
    BY RunningFacts DEF RunDisconnect
  <1>2. CASE state = "started"
    <2>1. PostShutdown(queue, recon)
      BY <1>2 DEF RunDisconnect
    <2>2. recon \in {"none", "idle", "delay"} /\ recon # "none"
      BY <1>1, <1>2 DEF IInv, TypeOK
    <2> QED
      BY <1>1, <1>2, <2>1, <2>2, PostShutdownStep DEF Front
  <1>3. CASE state # "started"
    <2>1. NextEvent(queue) /\ UNCHANGED <<ctx, inbox, connVars, job, pool>> /\ reg' = reg /\ pc' = pc
      BY <1>1, <1>3 DEF RunDisconnect, poolVars
    <2>2. pc' \in [Caller -> Place] /\ reg' \in BOOLEAN
      BY <2>1 DEF IInv, TypeOK
    <2> QED
      BY <1>1, <2>1, <2>2, SkipStep
  <1> QED
    BY <1>2, <1>3

(* Writing: the event keeps the guard until the write's handler has run.   *)
LEMMA RunSendStep ==
    ASSUME IInv, RunSend
    PROVE  IInv'
  <1>1. /\ ctx /\ phase = "run" /\ Front.k = "send" /\ queue \in Seq(Event) /\ queue # <<>>
        /\ (state = "started" => ~stopped)
    BY RunningFacts DEF RunSend
  <1>2. /\ UNCHANGED <<ctx, inbox, connVars, job, pool>> /\ reg' = reg /\ pc' = pc
        /\ pc' \in [Caller -> Place] /\ reg' \in BOOLEAN
    BY DEF RunSend, poolVars, IInv, TypeOK
  <1>3. CASE state = "started" /\ sock /\ Front.live
    <2>1. phase' = "write" /\ queue' = queue
      BY <1>3 DEF RunSend
    <2>2. /\ sock' \in BOOLEAN /\ reading' \in BOOLEAN /\ timeout' \in BOOLEAN /\ fresh' \in BOOLEAN
          /\ UNCHANGED <<sock, reading, timeout, state, shut, disconnecting, told, stopped, recon>>
      BY <1>2 DEF connVars, IInv, TypeOK
    <2>3. UNCHANGED <<poolVars, inbox, queue, disconnecting, told, stopped, recon>>
      BY <1>2, <2>1, <2>2 DEF poolVars
    <2> QED
      BY <1>1, <1>3, <2>1, <2>2, <2>3, QuietStep
  <1>4. CASE ~(state = "started" /\ sock /\ Front.live)
    <2>1. NextEvent(queue)
      BY <1>4 DEF RunSend
    <2> QED
      BY <1>1, <1>2, <2>1, SkipStep
  <1> QED
    BY <1>3, <1>4

LEMMA WriteDoneStep ==
    ASSUME IInv, NEW ok \in BOOLEAN, WriteDone(ok)
    PROVE  IInv'
  <1>1. /\ ctx /\ phase = "write" /\ queue \in Seq(Event) /\ queue # <<>>
    BY DEF WriteDone, Ready, IInv, TypeOK, Guarded
  <1>2. /\ UNCHANGED <<ctx, inbox, connVars, job, pool>> /\ reg' = reg /\ pc' = pc
        /\ pc' \in [Caller -> Place] /\ reg' \in BOOLEAN
    BY DEF WriteDone, poolVars, IInv, TypeOK
  <1>3. CASE NextEvent(queue)
    BY <1>1, <1>2, <1>3, SkipStep
  <1>4. CASE NextEvent(Append(queue, Ev("disconnect", NoCaller)))
    <2> DEFINE e == Ev("disconnect", NoCaller)
               q == Append(queue, e)
    <2>1. e \in Event /\ e.k = "disconnect"
      BY PostedFacts
    <2>2. NextEvent(q)
      BY <1>4
    <2> HIDE DEF e
    <2>3. /\ q \in Seq(Event) /\ q # <<>> /\ Len(q) = Len(queue) + 1 /\ Len(queue) \in Nat
          /\ \A i \in 1..Len(queue) : q[i] = queue[i]
          /\ q[Len(queue) + 1] = e
      BY <1>1, <2>1, AppendProperties
    <2> HIDE DEF q
    <2>4. Dead(queue) => Dead(q)
      <3>1. DOMAIN q = 1..(Len(queue) + 1) /\ DOMAIN queue = 1..Len(queue)
        BY <1>1, <2>3
      <3> QED
        BY <2>1, <2>3, <3>1 DEF Dead
    <2> QED
      BY <1>1, <1>2, <2>2, <2>3, <2>4, SkipStep
  <1> QED
    BY <1>3, <1>4 DEF WriteDone

(* The shutdown timer finds its disconnect at the front of the queue.      *)
LEMMA ShutdownTimerStep ==
    ASSUME IInv, ShutdownTimer
    PROVE  IInv'
  <1>1. /\ ctx /\ shut # "none" /\ phase = "shutdown" /\ ~InAttempt
        /\ queue \in Seq(Event) /\ queue # <<>> /\ ~stopped
        /\ recon \in {"none", "idle", "delay"} /\ (recon = "none" => Front.k = "stop")
    BY DEF ShutdownTimer, Ready, IInv, TypeOK, DisconnectOwnsGuard, InAttempt, Guarded,
           StoppedIsComplete, TimerIsThere
  <1>2. CASE shut = "armed" /\ fresh
    <2>1. fresh' = FALSE
          /\ UNCHANGED <<poolVars, inbox, queue, phase, state, stopped, sock, reading,
                         disconnecting, shut, timeout, recon, told>>
      BY <1>2 DEF ShutdownTimer
    <2>2. sock' \in BOOLEAN /\ reading' \in BOOLEAN /\ timeout' \in BOOLEAN /\ fresh' \in BOOLEAN
      BY <2>1 DEF IInv, TypeOK
    <2> QED
      BY <1>1, <2>1, <2>2, QuietStep
  <1>3. CASE ~(shut = "armed" /\ fresh)
    <2>1. Close(queue, recon)
      BY <1>3 DEF ShutdownTimer
    <2> QED
      BY <1>1, <2>1, CloseStep DEF Front
  <1> QED
    BY <1>2, <1>3

LEMMA ReconnectTimerStep ==
    ASSUME IInv, ReconnectTimer
    PROVE  IInv'
  <1> DEFINE e == Ev("reconnect", NoCaller)
  <1>1. /\ ctx /\ phase # "run" /\ recon = "delay" /\ recon' = "idle" /\ Enqueue(e)
        /\ UNCHANGED <<poolVars, inbox, state, stopped, sock, reading, disconnecting,
                       shut, fresh, timeout, told>>
    BY DEF ReconnectTimer, Ready
  <1>2. e \in Event /\ ~stopped
    BY <1>1, PostedFacts DEF IInv, StoppedIsComplete
  <1>3. /\ UNCHANGED <<pc, job, pool, ctx>> /\ reg' \in BOOLEAN /\ fresh' \in BOOLEAN
        /\ reading' \in BOOLEAN /\ (reading' => reading) /\ inbox' \in Seq(Posted) /\ NoPostedReconnect'
    BY <1>1 DEF IInv, TypeOK, poolVars, NoPostedReconnect
  <1> HIDE DEF e
  <1> QED
    BY <1>1, <1>2, <1>3, EnqueueStep

(* The handlers that leave the queue alone.                                *)
LEMMA QuietHandlers ==
    ASSUME IInv, ConnectTimeout \/ ResolveDone \/ NextEndpoint \/ RecvData
    PROVE  IInv'
  <1> USE DEF Ready
  <1>1. /\ ctx /\ ~stopped
    BY DEF ConnectTimeout, ResolveDone, NextEndpoint, RecvData, IInv, StoppedIsComplete
  <1>2. UNCHANGED <<poolVars, inbox, queue, disconnecting, told, stopped, recon, state, shut>>
    BY DEF ConnectTimeout, ResolveDone, NextEndpoint, RecvData
  <1>3. phase' = phase \/ (phase = "resolve" /\ phase' = "connect")
    BY DEF ConnectTimeout, ResolveDone, NextEndpoint, RecvData
  <1>4. /\ sock' \in BOOLEAN /\ (sock' => (sock \/ state # "stopped"))
        /\ reading' \in BOOLEAN /\ (reading' => reading)
        /\ timeout' \in BOOLEAN /\ (timeout' => timeout) /\ fresh' \in BOOLEAN
    <2>1. /\ sock \in BOOLEAN /\ reading \in BOOLEAN /\ timeout \in BOOLEAN /\ fresh \in BOOLEAN
          /\ phase \in {"resolve", "connect"} => state = "starting"
      BY DEF IInv, TypeOK, StartingIsAttempt, InAttempt
    <2>2. CASE ConnectTimeout
      BY <2>1, <2>2 DEF ConnectTimeout
    <2>3. CASE ResolveDone
      BY <2>1, <2>3 DEF ResolveDone
    <2>4. CASE NextEndpoint
      BY <2>1, <2>4 DEF NextEndpoint
    <2>5. CASE RecvData
      BY <2>1, <2>5 DEF RecvData
    <2> QED
      BY <2>2, <2>3, <2>4, <2>5
  <1> QED
    BY <1>1, <1>2, <1>3, <1>4, QuietStep

(* The io_context only runs out under a client that is completely stopped. *)
LEMMA RunReturnsStep ==
    ASSUME IInv, RunReturns
    PROVE  IInv'
  <1>1. /\ phase = "idle" /\ recon = "none" /\ ctx' = FALSE
        /\ UNCHANGED <<pc, job, pool, reg, inbox, queue, phase, connVars>>
    BY DEF RunReturns
  <1>2. stopped
    BY <1>1 DEF IInv, TimerIsThere
  <1>3. TypeOK'
    <2>1. /\ TypeOK /\ pc' \in [Caller -> Place] /\ job' \in [Caller -> {"run", "stop"}]
          /\ pool' \in {"stopped", "started", "stopping"} /\ ctx' \in BOOLEAN
          /\ reg' \in BOOLEAN /\ inbox' \in Seq(Posted)
      BY <1>1 DEF IInv, TypeOK
    <2> QED
      BY <1>1, <2>1, TypeStep
  <1> QED
    BY <1>1, <1>2, <1>3
       DEF IInv, connVars, DisconnectOwnsGuard, StoppedIsComplete, ToldTheTruth, Guarded,
           InAttempt, FrontOfAttempt, StartingIsAttempt, TimeoutInAttempt, SocketIsNotStopped,
           ReadIsWaitedFor, ReadEndIsStopped, TimerIsThere, NoContext, NoPostedReconnect, Front

-----------------------------------------------------------------------------
LEMMA InitIInv == Init => IInv
  <1> SUFFICES ASSUME Init PROVE IInv
    OBVIOUS
  <1>1. TypeOK
    <2>1. pc \in [Caller -> Place] /\ job \in [Caller -> {"run", "stop"}]
      BY DEF Init, Place
    <2>2. inbox \in Seq(Posted) /\ queue \in Seq(Event)
      BY DEF Init
    <2> QED
      BY <2>1, <2>2 DEF Init, TypeOK
  <1> QED
    BY <1>1
       DEF Init, IInv, DisconnectOwnsGuard, StoppedIsComplete, ToldTheTruth, Guarded, InAttempt,
           FrontOfAttempt, StartingIsAttempt, TimeoutInAttempt, SocketIsNotStopped,
           ReadIsWaitedFor, ReadEndIsStopped, TimerIsThere, NoContext, NoPostedReconnect

LEMMA StepIInv == IInv /\ [Next]_vars => IInv'
  <1> SUFFICES ASSUME IInv, [Next]_vars PROVE IInv'
    OBVIOUS
  <1>1. CASE RunReturns
    BY <1>1, RunReturnsStep
  <1>2. CASE RunPosted
    BY <1>2, RunPostedStep
  <1>3. CASE RunConnect
    BY <1>3, RunConnectStep
  <1>4. CASE RunReconnect
    BY <1>4, RunReconnectStep
  <1>5. CASE RunStop
    BY <1>5, RunStopStep
  <1>6. CASE RunDisconnect
    BY <1>6, RunDisconnectStep
  <1>7. CASE RunSend
    BY <1>7, RunSendStep
  <1>8. CASE ShutdownTimer
    BY <1>8, ShutdownTimerStep
  <1>9. CASE ReadEnd
    BY <1>9, ReadEndStep
  <1>10. CASE ReconnectTimer
    BY <1>10, ReconnectTimerStep
  <1>11. CASE ConnectTimeout \/ ResolveDone \/ NextEndpoint \/ RecvData
    BY <1>11, QuietHandlers
  <1>12. CASE ResolveFailed \/ NoEndpoint
    BY <1>12, ConnectFailedStep DEF ResolveFailed, NoEndpoint, Ready, InAttempt
  <1>13. CASE Connected
    BY <1>13, ConnectedStep
  <1>14. CASE RecvError
    BY <1>14, RecvErrorStep
  <1>15. ASSUME NEW ok \in BOOLEAN, WriteDone(ok) PROVE IInv'
    BY <1>15, WriteDoneStep
  <1>16. ASSUME NEW c \in Caller, CallerNext(c) PROVE IInv'
    BY <1>16, CallerActs, CallerStep
  <1>17. CASE UNCHANGED vars
    <2>1. TypeOK'
      BY <1>17 DEF vars, IInv, TypeOK
    <2> QED
      BY <1>17, <2>1
         DEF vars, IInv, DisconnectOwnsGuard, StoppedIsComplete, ToldTheTruth, Guarded, InAttempt,
             FrontOfAttempt, StartingIsAttempt, TimeoutInAttempt, SocketIsNotStopped,
             ReadIsWaitedFor, ReadEndIsStopped, TimerIsThere, NoContext, NoPostedReconnect, Front
  <1> QED
    BY <1>1, <1>2, <1>3, <1>4, <1>5, <1>6, <1>7, <1>8, <1>9, <1>10, <1>11, <1>12, <1>13, <1>14,
       <1>15, <1>16, <1>17 DEF Next, IoNext

-----------------------------------------------------------------------------
(* What a step may do to state_, stopped_ and the user: nothing, start an  *)
(* attempt, end it well, lose the connection, or stop completely.          *)
Move ==
    \/ state' = state /\ stopped' = stopped /\ told' = told
    \/ state = "stopped" /\ state' = "starting" /\ ~stopped' /\ told' = told
    \/ state = "starting" /\ state' = "started" /\ ~stopped /\ ~stopped'
    \/ state # "stopped" /\ state' = "stopped" /\ ~stopped /\ ~stopped'
    \/ ~stopped /\ state' = "stopped" /\ stopped'

(* What it may do to the threads that wait in stop().                      *)
Wakes ==
    \A c \in Caller :
        (pc[c] = "stop_wait" /\ pc'[c] = "stop_pool") => stopped' /\ state' = "stopped"

(* A promise that is not a stop's moves nobody out of stop().              *)
LEMMA NoStopWakes ==
    ASSUME TypeOK, queue # <<>>, Front.k # "stop", Fulfil(Front)
    PROVE  Wakes
  <1>1. Front \in Event
    BY DEF TypeOK, Front
  <1>2. \A c \in Caller : pc'[c] \in {pc[c], "idle"}
    BY <1>1, FulfilFacts
  <1> QED
    BY <1>2 DEF Wakes

LEMMA CloseMove ==
    ASSUME IInv, ~stopped, queue # <<>>, NEW q, NEW r, Close(q, r)
    PROVE  Move /\ Wakes
  <1>1. state' = "stopped" /\ told' = IF state = "started" THEN "down" ELSE told
    BY DEF Close
  <1>2. CASE reading
    <2>1. pc' = pc /\ stopped' = stopped
      BY <1>2 DEF Close
    <2> QED
      BY <1>1, <2>1 DEF Move, Wakes
  <1>3. CASE ~reading /\ Front.k = "stop"
    <2>1. stopped' = TRUE
      BY <1>3 DEF Close, FinishDisconnect, DoStop
    <2> QED
      BY <1>1, <2>1 DEF Move, Wakes
  <1>4. CASE ~reading /\ Front.k # "stop"
    <2>1. Fulfil(Front) /\ stopped' = stopped
      BY <1>4 DEF Close, FinishDisconnect
    <2>2. Wakes
      BY <1>4, <2>1, NoStopWakes DEF IInv
    <2> QED
      BY <1>1, <2>1, <2>2 DEF Move
  <1> QED
    BY <1>2, <1>3, <1>4

LEMMA PostShutdownMove ==
    ASSUME IInv, state # "stopped", queue # <<>>, NEW q, NEW r, PostShutdown(q, r)
    PROVE  Move /\ Wakes
  <1>1. CASE Close(q, r)
    <2>1. ~stopped
      BY DEF IInv, StoppedIsComplete
    <2> QED
      BY <1>1, <2>1, CloseMove
  <1>2. CASE ~Close(q, r)
    BY <1>2 DEF PostShutdown, Move, Wakes, poolVars
  <1> QED
    BY <1>1, <1>2

LEMMA ConnectFailedMove ==
    ASSUME IInv, InAttempt, ConnectFailed
    PROVE  Move /\ Wakes
  <1>1. state = "starting" /\ ~stopped /\ queue # <<>> /\ Front.k # "stop" /\ TypeOK
    BY DEF IInv, StartingIsAttempt, StoppedIsComplete, Guarded, FrontOfAttempt, InAttempt
  <1> QED
    BY <1>1, NoStopWakes DEF ConnectFailed, Move

(* The handlers that move the client, and those that do not.               *)
LEMMA IoMove ==
    ASSUME IInv, IoNext
    PROVE  Move /\ Wakes
  <1>1. CASE RunReturns \/ RunPosted \/ RunSend \/ ReconnectTimer \/ ConnectTimeout \/ ResolveDone
             \/ NextEndpoint \/ RecvData \/ RecvError \/ \E ok \in BOOLEAN : WriteDone(ok)
    <2>1. pc' = pc /\ state' = state /\ stopped' = stopped /\ told' = told
      BY <1>1 DEF RunReturns, RunPosted, RunSend, ReconnectTimer, ConnectTimeout, ResolveDone,
                  NextEndpoint, RecvData, RecvError, WriteDone, connVars, poolVars
    <2> QED
      BY <2>1 DEF Move, Wakes
  <1>2. CASE RunConnect
    <2>1. Front.k = "connect" /\ queue # <<>> /\ TypeOK
      BY <1>2, RunningFacts DEF RunConnect, IInv
    <2>2. CASE state = "stopped"
      BY <1>2, <2>2 DEF RunConnect, StartConnect, Move, Wakes
    <2>3. CASE state # "stopped"
      BY <1>2, <2>1, <2>3, NoStopWakes DEF RunConnect, connVars, Move
    <2> QED
      BY <2>2, <2>3
  <1>3. CASE RunReconnect
    <2>1. CASE Front.live /\ state = "stopped"
      <3>1. ~stopped
        <4>1. queue \in Seq(Event) /\ queue # <<>> /\ Front.k = "reconnect"
          BY <1>3, RunningFacts DEF RunReconnect
        <4>2. 1 \in DOMAIN queue /\ Front = queue[1]
          BY <4>1 DEF Front
        <4> QED
          BY <2>1, <4>1, <4>2 DEF IInv, StoppedIsComplete
      <3> QED
        BY <1>3, <2>1, <3>1 DEF RunReconnect, StartConnect, poolVars, Move, Wakes
    <2>2. CASE ~(Front.live /\ state = "stopped")
      BY <1>3, <2>2 DEF RunReconnect, poolVars, connVars, Move, Wakes
    <2> QED
      BY <2>1, <2>2
  <1>4. CASE RunStop
    <2>1. queue # <<>> /\ shut = "none" /\ ~disconnecting
      BY <1>4, RunningFacts DEF RunStop
    <2>2. CASE state \in {"started", "starting"}
      BY <1>4, <2>1, <2>2, PostShutdownMove DEF RunStop
    <2>3. CASE state \notin {"started", "starting"}
      <3>1. state = "stopped" /\ stopped \in BOOLEAN
        BY <2>3 DEF IInv, TypeOK
      <3>2. stopped' = TRUE /\ state' = state /\ told' = told
        BY <1>4, <2>3 DEF RunStop, DoStop
      <3> QED
        BY <3>1, <3>2 DEF Move, Wakes
    <2> QED
      BY <2>2, <2>3
  <1>5. CASE RunDisconnect
    <2>1. queue # <<>>
      BY <1>5, RunningFacts DEF RunDisconnect
    <2>2. CASE state \in {"started", "starting"}
      BY <1>5, <2>1, <2>2, PostShutdownMove DEF RunDisconnect
    <2>3. CASE state \notin {"started", "starting"}
      BY <1>5, <2>3 DEF RunDisconnect, poolVars, connVars, Move, Wakes
    <2> QED
      BY <2>2, <2>3
  <1>6. CASE ShutdownTimer
    <2>1. ~stopped /\ queue # <<>>
      BY <1>6 DEF ShutdownTimer, IInv, TypeOK, DisconnectOwnsGuard, StoppedIsComplete, Guarded
    <2>2. CASE shut = "armed" /\ fresh
      BY <1>6, <2>2 DEF ShutdownTimer, poolVars, Move, Wakes
    <2>3. CASE ~(shut = "armed" /\ fresh)
      BY <1>6, <2>1, <2>3, CloseMove DEF ShutdownTimer
    <2> QED
      BY <2>2, <2>3
  <1>7. CASE ReadEnd
    <2>1. /\ ~stopped /\ queue # <<>> /\ state = "stopped" /\ TypeOK
          /\ FinishDisconnect(queue, recon) /\ state' = state /\ told' = told
      BY <1>7 DEF ReadEnd, IInv, Guarded, StoppedIsComplete, ReadEndIsStopped
    <2>2. CASE Front.k = "stop"
      BY <2>1, <2>2 DEF FinishDisconnect, DoStop, Move, Wakes
    <2>3. CASE Front.k # "stop"
      BY <2>1, <2>3, NoStopWakes DEF FinishDisconnect, Move
    <2> QED
      BY <2>2, <2>3
  <1>8. CASE ResolveFailed \/ NoEndpoint
    BY <1>8, ConnectFailedMove DEF ResolveFailed, NoEndpoint, InAttempt
  <1>9. CASE Connected
    <2>1. InAttempt
      BY <1>9 DEF Connected, InAttempt
    <2>2. CASE timeout
      <3>1. state = "starting" /\ ~stopped /\ queue # <<>> /\ Front.k # "stop" /\ TypeOK
        BY <2>1 DEF IInv, StartingIsAttempt, StoppedIsComplete, Guarded, FrontOfAttempt, InAttempt
      <3> QED
        BY <1>9, <2>2, <3>1, NoStopWakes DEF Connected, Move
    <2>3. CASE ~timeout
      BY <1>9, <2>1, <2>3, ConnectFailedMove DEF Connected
    <2> QED
      BY <2>2, <2>3 DEF IInv, TypeOK
  <1> QED
    BY <1>1, <1>2, <1>3, <1>4, <1>5, <1>6, <1>7, <1>8, <1>9 DEF IoNext

(* A thread leaves the wait of its stop() by itself only when the          *)
(* io_context is stopped.                                                  *)
LEMMA CallerMove ==
    ASSUME IInv, NEW d \in Caller, Acts(d)
    PROVE  Move /\ Wakes
  <1>1. Move
    BY DEF Acts, GoOn, Call, StopPost, StopGiveUp, StopIopool, PoolCancel, PoolStopped,
           StartIopool, StartCheck, StartPost, Send, connVars, Move
  <1>2. CASE StopGiveUp(d)
    <2>1. stopped /\ state = "stopped"
      BY <1>2 DEF StopGiveUp, IInv, NoContext, StoppedIsComplete
    <2> QED
      BY <1>1, <1>2, <2>1 DEF StopGiveUp, connVars, Wakes
  <1>3. CASE ~StopGiveUp(d)
    <2>1. pc \in [Caller -> Place]
      BY DEF IInv, TypeOK
    <2>2. ASSUME NEW c \in Caller, pc[c] = "stop_wait" PROVE pc'[c] # "stop_pool"
      <3>1. CASE \E j \in {"run", "stop"} : Call(d, j)
        BY <2>1, <2>2, <3>1 DEF Call, Goto, AfterStop
      <3>2. CASE StopPost(d) \/ StopIopool(d) \/ PoolCancel(d) \/ PoolStopped(d)
        BY <2>1, <2>2, <3>2 DEF StopPost, StopIopool, PoolCancel, PoolStopped, Goto, AfterStop
      <3>3. CASE StartIopool(d) \/ StartCheck(d) \/ StartPost(d) \/ Send(d)
        BY <2>1, <2>2, <3>3 DEF StartIopool, StartCheck, StartPost, Send, Goto
      <3> QED
        BY <1>3, <3>1, <3>2, <3>3 DEF Acts, GoOn
    <2> QED
      BY <1>1, <2>2 DEF Wakes
  <1> QED
    BY <1>2, <1>3

LEMMA StepMove == IInv /\ [Next]_vars => Move /\ Wakes
  <1>1. CASE UNCHANGED vars
    BY <1>1 DEF vars, Move, Wakes
  <1> QED
    BY <1>1, IoMove, CallerActs, CallerMove DEF Next

LEMMA MoveIsService == TypeOK /\ Move => [Service!Next]_Service!vars
  <1> SUFFICES ASSUME TypeOK, Move PROVE [Service!Next]_Service!vars
    OBVIOUS
  <1>1. /\ stopped \in BOOLEAN
        /\ state = "stopped" => Link = "down"
        /\ state = "starting" => Link = "trying"
        /\ state = "started" => Link = "up"
        /\ state \in {"stopped", "starting", "started"}
    BY DEF TypeOK, Link
  <1>2. /\ state' = "stopped" => Link' = "down"
        /\ state' = "starting" => Link' = "trying"
        /\ state' = "started" => Link' = "up"
    BY DEF Link
  <1>3. CASE state' = state /\ stopped' = stopped
    BY <1>1, <1>2, <1>3 DEF Service!vars
  <1>4. CASE state = "stopped" /\ state' = "starting" /\ ~stopped'
    BY <1>1, <1>2, <1>4 DEF Service!Next, Service!Activate, Service!Retry
  <1>5. CASE state = "starting" /\ state' = "started" /\ ~stopped /\ ~stopped'
    BY <1>1, <1>2, <1>5 DEF Service!Next, Service!Establish
  <1>6. CASE state # "stopped" /\ state' = "stopped" /\ ~stopped /\ ~stopped'
    BY <1>1, <1>2, <1>6 DEF Service!Next, Service!Lose
  <1>7. CASE ~stopped /\ state' = "stopped" /\ stopped'
    BY <1>1, <1>2, <1>7 DEF Service!Next, Service!Deactivate
  <1> QED
    BY <1>3, <1>4, <1>5, <1>6, <1>7 DEF Move

-----------------------------------------------------------------------------
LEMMA Inductive == Spec => []IInv
  BY InitIInv, StepIInv, PTL DEF Spec

(* The client's variables keep their types: in particular what is queued   *)
(* are events, and the handlers of io_t never get into the event queue.    *)
THEOREM TypeCorrect == Spec => []TypeOK
  <1>1. IInv => TypeOK
    BY DEF IInv
  <1> QED
    BY <1>1, Inductive, PTL

(* A disconnect in progress owns the guard of the event queue, so that no  *)
(* stop event ever finds one (_do_shutdown's second test).                 *)
THEOREM GuardOwned == Spec => []DisconnectOwnsGuard
  <1>1. IInv => DisconnectOwnsGuard
    BY DEF IInv
  <1> QED
    BY <1>1, Inductive, PTL

(* A client that says it is stopped has no connection, no read, no timer   *)
(* and no reconnect event that could bring it back.                        *)
THEOREM Complete == Spec => []StoppedIsComplete
  <1>1. IInv => StoppedIsComplete
    BY DEF IInv
  <1> QED
    BY <1>1, Inductive, PTL

(* The last callback was a successful on_connect exactly while the client  *)
(* is started.                                                             *)
THEOREM Truth == Spec => []ToldTheTruth
  <1>1. IInv => ToldTheTruth
    BY DEF IInv
  <1> QED
    BY <1>1, Inductive, PTL

(* A completely stopped client calls neither on_connect nor on_disconnect. *)
THEOREM Silent == Spec => QuietWhenStopped
  <1>1. IInv /\ [Next]_vars => [told' # told => ~stopped]_vars
    <2>1. IInv /\ Move => (told' # told => ~stopped)
      BY DEF Move, IInv, StoppedIsComplete
    <2> QED
      BY <2>1, StepMove
  <1> QED
    BY <1>1, Inductive, PTL DEF Spec, QuietWhenStopped

(* However many threads start and stop, whoever's wait in stop() ends      *)
(* finds the client completely stopped at that moment.                     *)
THEOREM StopReturnsStopped == Spec => StopStops
  <1>1. IInv /\ [Next]_vars =>
            [\A c \in Caller :
                (pc[c] = "stop_wait" /\ pc'[c] = "stop_pool") => stopped' /\ state' = "stopped"]_vars
    BY StepMove DEF Wakes
  <1> QED
    BY <1>1, Inductive, PTL DEF Spec, StopStops

(* Every step of the client is a step of ClientService, or none: only a    *)
(* start activates it, nothing is connected without an attempt, and a      *)
(* stopped client does not come back by itself.                            *)
THEOREM Implements == Spec => Service!SafeSpec
  <1>1. Init => Service!Init
    BY DEF Init, Service!Init, Link
  <1>2. IInv /\ [Next]_vars => [Service!Next]_Service!vars
    BY StepMove, MoveIsService DEF IInv
  <1> QED
    BY <1>1, <1>2, Inductive, PTL DEF Spec, Service!SafeSpec

-----------------------------------------------------------------------------
(* The promises.  Only the events of start() and stop() carry one, a       *)
(* start's always; a write is waited for by a send, the end of a           *)
(* disconnect by a disconnect or a stop.                                   *)
Kinds == {"connect", "stop"}
Forged == {e \in Posted : (e.k \notin Kinds /\ e.by # NoCaller)
                              \/ (e.k = "connect" /\ e.by = NoCaller)}
Anonymous == Never(Line, Forged)
FrontOfPhase ==
    /\ phase = "write" => Front.k = "send"
    /\ phase \in {"shutdown", "readend"} => Front.k \in {"stop", "disconnect"}

PInv == PromiseIsKept /\ Anonymous /\ FrontOfPhase

(* The sets whose occurrences PInv speaks of.                              *)
Watched == {Asked(k, c) : k \in Kinds, c \in Caller} \cup {Forged}

Same(p, q, S) == (Never(p, S) <=> Never(q, S)) /\ (Once(p, S) <=> Once(q, S))

LEMMA EventIsPosted == \A q : q \in Seq(Event) => q \in Seq(Posted)
  BY DEF Posted

(* What is in the line, from what is in its two parts.                     *)
LEMMA LineFacts ==
    ASSUME TypeOK
    PROVE  /\ \A S : Never(Line, S) <=> Never(queue, S) /\ Never(inbox, S)
           /\ \A S : Once(Line, S) <=> \/ Once(queue, S) /\ Never(inbox, S)
                                       \/ Never(queue, S) /\ Once(inbox, S)
  <1>1. queue \in Seq(Posted) /\ inbox \in Seq(Posted)
    BY EventIsPosted DEF TypeOK
  <1> QED
    BY <1>1, ConcatOccurs DEF Line

(* The same, of the state a step leads to.                                 *)
LEMMA NextLineFacts ==
    ASSUME TypeOK'
    PROVE  /\ \A S : Never(Line', S) <=> Never(queue', S) /\ Never(inbox', S)
           /\ \A S : Once(Line', S) <=> \/ Once(queue', S) /\ Never(inbox', S)
                                        \/ Never(queue', S) /\ Once(inbox', S)
  <1>1. queue' \in Seq(Posted) /\ inbox' \in Seq(Posted)
    BY EventIsPosted DEF TypeOK
  <1> QED
    BY <1>1, ConcatOccurs DEF Line

(* Who is watched does not depend on live.                                 *)
LEMMA LiveIsNotWatched ==
    ASSUME NEW e \in Posted, NEW f \in Posted, e.k = f.k, e.by = f.by, NEW S \in Watched
    PROVE  e \in S <=> f \in S
  <1>1. ASSUME NEW x \in Posted, NEW k, NEW c PROVE x \in Asked(k, c) <=> x.k = k /\ x.by = c
    <2>1. x.live \in BOOLEAN /\ x = [k |-> x.k, by |-> x.by, live |-> x.live]
      <3>1. CASE x \in Event
        BY <3>1 DEF Event
      <3>2. CASE x = Unreg \/ x = Cancel
        <4> DEFINE T == [k : {"unreg", "cancel"}, by : {NoCaller}, live : BOOLEAN]
        <4>1. Unreg \in T /\ Cancel \in T
          BY DEF Unreg, Cancel, Ev
        <4>2. x \in T
          BY <3>2, <4>1
        <4> QED
          BY <4>2
      <3> QED
        BY <3>1, <3>2 DEF Posted
    <2>2. x \in Asked(k, c) => x.k = k /\ x.by = c
      BY DEF Asked
    <2>3. x.k = k /\ x.by = c => [k |-> x.k, by |-> x.by, live |-> x.live] \in Asked(k, c)
      BY <2>1 DEF Asked
    <2> QED
      BY <2>1, <2>2, <2>3
  <1>2. CASE S = Forged
    BY <1>2 DEF Forged
  <1>3. CASE \E k \in Kinds, c \in Caller : S = Asked(k, c)
    BY <1>1, <1>3
  <1> QED
    BY <1>2, <1>3 DEF Watched

LEMMA KillSame ==
    ASSUME NEW q \in Seq(Event), NEW kinds, NEW S \in Watched
    PROVE  Same(Kill(kinds, q), q, S)
  <1> DEFINE K == Kill(kinds, q)
  <1>1. /\ DOMAIN q = 1..Len(q)
        /\ K = [i \in DOMAIN q |-> IF q[i].k \in kinds THEN [q[i] EXCEPT !.live = FALSE] ELSE q[i]]
    BY DEF Kill
  <1>2. \A x \in Event : /\ x \in Posted
                         /\ [x EXCEPT !.live = FALSE] \in Posted
                         /\ [x EXCEPT !.live = FALSE].k = x.k
                         /\ [x EXCEPT !.live = FALSE].by = x.by
    BY DEF Event, Posted
  <1>3. ASSUME NEW i \in DOMAIN q PROVE K[i] \in S <=> q[i] \in S
    <2>1. q[i] \in Event
      BY <1>1
    <2>2. q[i] \in Posted /\ K[i] \in Posted /\ K[i].k = q[i].k /\ K[i].by = q[i].by
      BY <1>1, <1>2, <2>1
    <2> HIDE DEF K
    <2> QED
      BY <2>2, LiveIsNotWatched
  <1>4. DOMAIN K = DOMAIN q
    BY <1>1
  <1> HIDE DEF K
  <1>5. Same(K, q, S)
    BY <1>3, <1>4, SameOccurs DEF Same
  <1> QED
    BY <1>5 DEF K

(* The same of the inbox, when the sends are killed.                       *)
LEMMA KillPostedSame ==
    ASSUME TypeOK, NEW S \in Watched
    PROVE  Same(Kill({"send"}, inbox), inbox, S)
  <1> DEFINE K == Kill({"send"}, inbox)
  <1>1. /\ inbox \in Seq(Posted) /\ DOMAIN inbox = 1..Len(inbox)
        /\ K = [i \in DOMAIN inbox |-> IF inbox[i].k \in {"send"} THEN [inbox[i] EXCEPT !.live = FALSE]
                                                                ELSE inbox[i]]
    BY DEF TypeOK, Kill
  <1>2. \A x \in Posted : x.k = "send" => /\ [x EXCEPT !.live = FALSE] \in Posted
                                          /\ [x EXCEPT !.live = FALSE].k = x.k
                                          /\ [x EXCEPT !.live = FALSE].by = x.by
    <2>1. \A x \in Event : /\ [x EXCEPT !.live = FALSE] \in Event
                           /\ [x EXCEPT !.live = FALSE].k = x.k
                           /\ [x EXCEPT !.live = FALSE].by = x.by
      BY DEF Event
    <2>2. \A x \in Posted : x.k = "send" => x \in Event
      BY DEF Posted, Unreg, Cancel, Ev
    <2> QED
      BY <2>1, <2>2 DEF Posted
  <1>3. ASSUME NEW i \in DOMAIN inbox PROVE K[i] \in S <=> inbox[i] \in S
    <2>1. inbox[i] \in Posted
      BY <1>1
    <2>2. K[i] \in Posted /\ K[i].k = inbox[i].k /\ K[i].by = inbox[i].by
      BY <1>1, <1>2, <2>1
    <2> HIDE DEF K
    <2> QED
      BY <2>1, <2>2, LiveIsNotWatched
  <1>4. DOMAIN K = DOMAIN inbox
    BY <1>1
  <1> HIDE DEF K
  <1>5. Same(K, inbox, S)
    BY <1>3, <1>4, SameOccurs DEF Same
  <1> QED
    BY <1>5 DEF K

-----------------------------------------------------------------------------
(* A step that moves no thread to or from a wait, and leaves in the line   *)
(* what is watched, keeps the promises.                                    *)
LEMMA KeepPromises ==
    ASSUME PromiseIsKept, Anonymous,
           \A S \in Watched : Same(Line', Line, S),
           \A c \in Caller, k \in Kinds : pc'[c] = WaitFor[k] <=> pc[c] = WaitFor[k]
    PROVE  PromiseIsKept' /\ Anonymous'
  <1>1. Anonymous'
    BY DEF Anonymous, Watched, Same
  <1>2. ASSUME NEW c \in Caller, NEW k \in Kinds
        PROVE  IF pc'[c] = WaitFor[k] THEN Once(Line', Asked(k, c)) ELSE Never(Line', Asked(k, c))
    <2>1. Same(Line', Line, Asked(k, c))
      BY DEF Watched
    <2>2. IF pc[c] = WaitFor[k] THEN Once(Line, Asked(k, c)) ELSE Never(Line, Asked(k, c))
      BY DEF PromiseIsKept, Kinds
    <2> QED
      BY <2>1, <2>2 DEF Same
  <1> QED
    BY <1>1, <1>2 DEF PromiseIsKept, Kinds

(* The running event has been taken from the queue, and whoever waits for  *)
(* it goes on: everybody else keeps waiting.                               *)
LEMMA PopKeeps ==
    ASSUME IInv, PInv, TypeOK', Fulfil(Front), queue # <<>>,
           NEW q \in Seq(Event), q # <<>>, Head(q).k = Front.k, Head(q).by = Front.by,
           \A S \in Watched : Same(q, queue, S), queue' = Tail(q),
           \A S \in Watched : Same(inbox', inbox, S)
    PROVE  PromiseIsKept' /\ Anonymous'
  <1> DEFINE h == Head(q)
  <1>1. /\ Front \in Event /\ h \in Event /\ Front \in Posted /\ h \in Posted /\ TypeOK
        /\ queue \in Seq(Posted) /\ q \in Seq(Posted)
        /\ Head(queue) = Front
    BY EventIsPosted DEF IInv, TypeOK, Front, Posted
  <1> HIDE DEF h
  <1>2. \A S \in Watched : h \in S <=> Front \in S
    BY <1>1, LiveIsNotWatched DEF h
  <1>3. ASSUME NEW S \in Watched, Front \notin S PROVE Same(Line', Line, S)
    <2>1. Same(Tail(q), q, S)
      BY <1>1, <1>2, <1>3, TailOccurs DEF Same, h
    <2> QED
      BY <1>1, <2>1, LineFacts, NextLineFacts DEF Same
  <1>4. Front \notin Forged
    <2>1. Never(queue, Forged)
      BY <1>1, LineFacts DEF PInv, Anonymous
    <2> QED
      BY <1>1, <2>1, TailOccurs
  <1>5. Anonymous'
    <2>1. Same(Line', Line, Forged)
      BY <1>3, <1>4 DEF Watched
    <2> QED
      BY <2>1 DEF PInv, Anonymous, Same
  <1>6. ASSUME NEW c \in Caller, NEW k \in Kinds PROVE Front \in Asked(k, c) <=> Front.k = k /\ Front.by = c
    BY <1>1 DEF Asked, Event
  <1>7. ASSUME NEW c \in Caller, NEW k \in Kinds
        PROVE  IF pc'[c] = WaitFor[k] THEN Once(Line', Asked(k, c)) ELSE Never(Line', Asked(k, c))
    <2> DEFINE S == Asked(k, c)
    <2>1. S \in Watched
      BY DEF Watched
    <2>2. IF pc[c] = WaitFor[k] THEN Once(Line, S) ELSE Never(Line, S)
      BY DEF PInv, PromiseIsKept, Kinds
    <2> HIDE DEF S
    <2>3. CASE Front \in S
      <3>1. Front.k = k /\ Front.by = c
        BY <1>6, <2>3 DEF S
      <3>2. ~Never(queue, S)
        BY <1>1, <2>3, TailOccurs
      <3>3. Once(queue, S) /\ Never(inbox, S)
        BY <1>1, <2>2, <3>2, LineFacts
      <3>4. Never(Tail(q), S)
        BY <1>1, <1>2, <2>1, <2>3, <3>3, TailOccurs DEF Same, h
      <3>5. Never(Line', S)
        BY <2>1, <3>3, <3>4, NextLineFacts DEF Same
      <3>6. pc'[c] # WaitFor[k]
        <4>1. pc' = [pc EXCEPT ![c] = IF k = "stop" THEN "stop_pool" ELSE "idle"] /\ pc \in [Caller -> Place]
          BY <1>1, <3>1, ClientAssumption DEF Fulfil, Goto, TypeOK
        <4> QED
          BY <4>1 DEF WaitFor, Kinds
      <3> QED
        BY <3>5, <3>6 DEF S
    <2>4. CASE Front \notin S
      <3>1. Same(Line', Line, S)
        BY <1>3, <2>1, <2>4
      <3>2. pc'[c] = WaitFor[k] <=> pc[c] = WaitFor[k]
        <4>1. CASE Front.by # c
          BY <1>1, <4>1 DEF Fulfil, Goto, TypeOK
        <4>2. CASE Front.by = c
          <5>1. Front.k # k /\ Front.k \in Kinds
            <6>1. Front.k \in Kinds
              BY <1>1, <1>4, <4>2, ClientAssumption DEF Forged
            <6> QED
              BY <1>6, <2>4, <4>2, <6>1 DEF S
          <5>2. ~Never(queue, Asked(Front.k, c))
            <6>1. Front \in Asked(Front.k, c)
              BY <1>6, <4>2, <5>1
            <6> QED
              BY <1>1, <6>1, TailOccurs
          <5>3. pc[c] = WaitFor[Front.k]
            BY <1>1, <5>1, <5>2, LineFacts DEF PInv, PromiseIsKept, Kinds
          <5>4. pc' = [pc EXCEPT ![c] = IF Front.k = "stop" THEN "stop_pool" ELSE "idle"] /\ pc \in [Caller -> Place]
            BY <1>1, <4>2, ClientAssumption DEF Fulfil, Goto, TypeOK
          <5> QED
            BY <5>1, <5>3, <5>4 DEF WaitFor, Kinds
        <4> QED
          BY <4>1, <4>2
      <3> QED
        BY <2>2, <3>1, <3>2 DEF Same, S
    <2> QED
      BY <2>3, <2>4
  <1> QED
    BY <1>5, <1>7 DEF PromiseIsKept, Kinds

(* The queue as a handler has left it before the guard is passed on.       *)
Killed(q) == q = queue \/ \E kinds : q = Kill(kinds, queue)

LEMMA KilledFacts ==
    ASSUME TypeOK, queue # <<>>, NEW q, Killed(q)
    PROVE  /\ q \in Seq(Event) /\ q # <<>> /\ Head(q).k = Front.k /\ Head(q).by = Front.by
           /\ \A S \in Watched : Same(q, queue, S)
           /\ \A kinds : Killed(queue) /\ Kill(kinds, q) \in Seq(Event) /\ Kill(kinds, q) # <<>>
                            /\ Head(Kill(kinds, q)).k = Front.k /\ Head(Kill(kinds, q)).by = Front.by
                            /\ \A S \in Watched : Same(Kill(kinds, q), queue, S)
  <1>1. ASSUME NEW p \in Seq(Event), p # <<>>, NEW kinds
        PROVE  /\ Kill(kinds, p) \in Seq(Event) /\ Kill(kinds, p) # <<>>
               /\ Head(Kill(kinds, p)).k = Head(p).k /\ Head(Kill(kinds, p)).by = Head(p).by
               /\ \A S \in Watched : Same(Kill(kinds, p), p, S)
    <2>1. Head(Kill(kinds, p)).by = Head(p).by
      <3>1. /\ 1 \in DOMAIN p /\ Head(p) = p[1] /\ p[1] \in Event
            /\ Kill(kinds, p) \in Seq(Event) /\ Kill(kinds, p) # <<>>
        BY <1>1, KillFacts
      <3>2. Head(Kill(kinds, p)) = Kill(kinds, p)[1]
        BY <3>1
      <3>3. Kill(kinds, p)[1] = IF p[1].k \in kinds THEN [p[1] EXCEPT !.live = FALSE] ELSE p[1]
        BY <3>1 DEF Kill
      <3>4. [p[1] EXCEPT !.live = FALSE].by = p[1].by
        BY <3>1 DEF Event
      <3> QED
        BY <3>1, <3>2, <3>3, <3>4
    <2> QED
      BY <1>1, <2>1, KillFacts, KillSame
  <1>2. queue \in Seq(Event) /\ Front = Head(queue) /\ Killed(queue)
    BY DEF TypeOK, Front, Killed
  <1>3. \A S \in Watched : Same(queue, queue, S)
    BY DEF Same
  <1>4. /\ q \in Seq(Event) /\ q # <<>> /\ Head(q).k = Front.k /\ Head(q).by = Front.by
        /\ \A S \in Watched : Same(q, queue, S)
    <2>1. CASE q = queue
      BY <1>2, <1>3, <2>1
    <2>2. CASE q # queue
      BY <1>1, <1>2, <2>2 DEF Killed
    <2> QED
      BY <2>1, <2>2
  <1>5. ASSUME NEW kinds
        PROVE  /\ Kill(kinds, q) \in Seq(Event) /\ Kill(kinds, q) # <<>>
               /\ Head(Kill(kinds, q)).k = Front.k /\ Head(Kill(kinds, q)).by = Front.by
               /\ \A S \in Watched : Same(Kill(kinds, q), queue, S)
    <2>1. \A S \in Watched : Same(Kill(kinds, q), q, S)
      BY <1>1, <1>4
    <2> QED
      BY <1>1, <1>4, <2>1 DEF Same
  <1> QED
    BY <1>2, <1>4, <1>5

(* An event nobody waits for.                                              *)
LEMMA NobodysEvent ==
    ASSUME NEW e, e.by = NoCaller, e.k # "connect", NEW S \in Watched
    PROVE  e \notin S
  <1>1. ASSUME NEW k \in Kinds, NEW c \in Caller PROVE e \notin Asked(k, c)
    BY ClientAssumption DEF Asked
  <1>2. e \notin Forged
    BY DEF Forged
  <1> QED
    BY <1>1, <1>2 DEF Watched

LEMMA NobodyInFront ==
    ASSUME IInv, PInv, queue # <<>>, Front.k \notin Kinds, pc' = pc
    PROVE  Fulfil(Front)
  <1>1. /\ queue \in Seq(Posted) /\ Front = Head(queue) /\ Front \in Posted /\ TypeOK
    BY EventIsPosted DEF IInv, TypeOK, Front, Posted
  <1>2. Front \notin Forged
    BY <1>1, TailOccurs, LineFacts DEF PInv, Anonymous
  <1> QED
    BY <1>1, <1>2 DEF Forged, Fulfil

(* The guard is passed on, the inbox being left as it is.                  *)
LEMMA PassKeeps ==
    ASSUME IInv, PInv, TypeOK', queue # <<>>, NEW q, Killed(q),
           NextEvent(q), Fulfil(Front), inbox' = inbox
    PROVE  PInv'
  <1>1. /\ q \in Seq(Event) /\ q # <<>> /\ Head(q).k = Front.k /\ Head(q).by = Front.by
        /\ \A S \in Watched : Same(q, queue, S)
    BY KilledFacts DEF IInv
  <1>2. queue' = Tail(q) /\ phase' \in {"run", "idle"}
    BY DEF NextEvent
  <1>3. \A S \in Watched : Same(inbox', inbox, S)
    BY DEF Same
  <1>4. PromiseIsKept' /\ Anonymous'
    BY <1>1, <1>2, <1>3, PopKeeps
  <1> QED
    BY <1>2, <1>4 DEF PInv, FrontOfPhase

LEMMA DoStopKeeps ==
    ASSUME IInv, PInv, TypeOK', queue # <<>>, NEW q, Killed(q), DoStop(q)
    PROVE  PInv'
  <1> DEFINE p == Kill({"send", "reconnect"}, q)
  <1>1. /\ p \in Seq(Event) /\ p # <<>> /\ Head(p).k = Front.k /\ Head(p).by = Front.by
        /\ \A S \in Watched : Same(p, queue, S)
    BY KilledFacts DEF IInv
  <1>2. Fulfil(Front) /\ NextEvent(p) /\ inbox' = Kill({"send"}, inbox)
    BY DEF DoStop
  <1> HIDE DEF p
  <1>3. queue' = Tail(p) /\ phase' \in {"run", "idle"}
    BY <1>2 DEF NextEvent
  <1>4. \A S \in Watched : Same(inbox', inbox, S)
    BY <1>2, KillPostedSame DEF IInv
  <1>5. PromiseIsKept' /\ Anonymous'
    BY <1>1, <1>2, <1>3, <1>4, PopKeeps
  <1> QED
    BY <1>3, <1>5 DEF PInv, FrontOfPhase

LEMMA FinishKeeps ==
    ASSUME IInv, PInv, TypeOK', queue # <<>>, NEW q, Killed(q), NEW r, FinishDisconnect(q, r)
    PROVE  PInv'
  BY DoStopKeeps, PassKeeps DEF FinishDisconnect

(* The guard stays where it is: what is queued is what was.                *)
LEMMA StayKeeps ==
    ASSUME IInv, PInv, TypeOK', queue # <<>>, NEW q, Killed(q), queue' = q,
           pc' = pc, inbox' = inbox,
           phase' = "write" => Front.k = "send",
           phase' \in {"shutdown", "readend"} => Front.k \in {"stop", "disconnect"}
    PROVE  PInv'
  <1>1. /\ q \in Seq(Event) /\ q # <<>> /\ Head(q).k = Front.k /\ TypeOK
        /\ \A S \in Watched : Same(q, queue, S)
    BY KilledFacts DEF IInv
  <1>2. \A S \in Watched : Same(Line', Line, S)
    BY <1>1, LineFacts, NextLineFacts DEF Same
  <1>3. PromiseIsKept' /\ Anonymous'
    BY <1>2, KeepPromises DEF PInv
  <1> QED
    BY <1>1, <1>3 DEF PInv, FrontOfPhase, Front

LEMMA CloseKeeps ==
    ASSUME IInv, PInv, TypeOK', queue # <<>>, NEW q, Killed(q), NEW r, Close(q, r),
           Front.k \in {"stop", "disconnect"}
    PROVE  PInv'
  <1>1. CASE reading
    <2>1. phase' = "readend" /\ queue' = q /\ pc' = pc /\ inbox' = inbox
      BY <1>1 DEF Close
    <2> QED
      BY <2>1, StayKeeps
  <1>2. CASE ~reading
    BY <1>2, FinishKeeps DEF Close
  <1> QED
    BY <1>1, <1>2

LEMMA PostShutdownKeeps ==
    ASSUME IInv, PInv, TypeOK', queue # <<>>, NEW q, Killed(q), NEW r, PostShutdown(q, r),
           Front.k \in {"stop", "disconnect"}
    PROVE  PInv'
  <1>1. CASE Close(q, r)
    BY <1>1, CloseKeeps
  <1>2. CASE ~Close(q, r)
    <2>1. phase' = "shutdown" /\ queue' = q /\ pc' = pc /\ inbox' = inbox
      BY <1>2 DEF PostShutdown, poolVars
    <2> QED
      BY <2>1, StayKeeps
  <1> QED
    BY <1>1, <1>2

-----------------------------------------------------------------------------
(* The io_context's handlers keep the promises.                            *)

LEMMA EnqueueKeeps ==
    ASSUME IInv, PInv, TypeOK', NEW e \in Event, e.by = NoCaller, e.k # "connect", Enqueue(e),
           pc' = pc, inbox' = inbox
    PROVE  PInv'
  <1>1. queue \in Seq(Event) /\ TypeOK /\ queue' = Append(queue, e)
    BY DEF IInv, TypeOK, Enqueue
  <1>2. ASSUME NEW S \in Watched PROVE Same(Line', Line, S)
    <2>1. Same(queue', queue, S)
      BY <1>1, NobodysEvent, AppendOccurs DEF Same
    <2> QED
      BY <1>1, <2>1, LineFacts, NextLineFacts DEF Same
  <1>3. PromiseIsKept' /\ Anonymous'
    BY <1>2, KeepPromises DEF PInv
  <1>4. FrontOfPhase'
    BY EnqueueFacts DEF PInv, IInv, FrontOfPhase
  <1> QED
    BY <1>3, <1>4 DEF PInv

(* The event loop takes the first of what was posted.                      *)
LEMMA RunPostedKeeps ==
    ASSUME IInv, PInv, IInv', RunPosted
    PROVE  PInv'
  <1> DEFINE h == Head(inbox)
  <1>1. /\ inbox # <<>> /\ pc' = pc /\ TypeOK /\ TypeOK'
        /\ queue \in Seq(Event) /\ queue \in Seq(Posted) /\ inbox \in Seq(Posted)
    BY EventIsPosted DEF RunPosted, IInv, TypeOK
  <1>2. h \in Posted /\ Tail(inbox) \in Seq(Posted)
    BY <1>1, TailOccurs
  <1>3. /\ Cancel # Unreg /\ Unreg.by = NoCaller /\ Cancel.by = NoCaller
        /\ Ev("stop", NoCaller).by = NoCaller /\ Ev("stop", NoCaller).k # "connect"
        /\ Unreg.k # "connect" /\ Cancel.k # "connect"
    BY DEF Cancel, Unreg, Ev
  <1>4. CASE h = Unreg \/ h = Cancel
    <2>1. /\ UNCHANGED <<queue, phase>>
          /\ \/ inbox' = Tail(inbox)
             \/ inbox' = Tail(inbox) \o <<>>
             \/ inbox' = Tail(inbox) \o <<Unreg, Ev("stop", NoCaller)>>
      BY <1>3, <1>4 DEF RunPosted
    <2>2. ASSUME NEW S \in Watched PROVE Same(inbox', inbox, S)
      <3>1. Same(Tail(inbox), inbox, S)
        BY <1>1, <1>3, <1>4, NobodysEvent, TailOccurs DEF Same
      <3>2. CASE inbox' = Tail(inbox) \o <<>>
        BY <1>2, <3>1, <3>2
      <3>3. CASE inbox' = Tail(inbox) \o <<Unreg, Ev("stop", NoCaller)>>
        <4> DEFINE t == Tail(inbox)
                   u == Append(t, Unreg)
                   e == Ev("stop", NoCaller)
        <4>1. Unreg \in Posted /\ e \in Posted
          BY PostedFacts
        <4>2. t \in Seq(Posted) /\ inbox' = Append(u, e)
          BY <1>2, <3>3, <4>1, PostTwo
        <4>3. Unreg \notin S /\ e \notin S
          BY <1>3, NobodysEvent
        <4> HIDE DEF t, e
        <4>4. u \in Seq(Posted) /\ Same(u, t, S)
          BY <4>1, <4>2, <4>3, AppendOccurs DEF Same
        <4> HIDE DEF u
        <4>5. Same(inbox', u, S)
          BY <4>1, <4>2, <4>3, <4>4, AppendOccurs DEF Same
        <4> QED
          BY <3>1, <4>4, <4>5 DEF Same, t
      <3> QED
        BY <2>1, <3>1, <3>2, <3>3
    <2>3. \A S \in Watched : Same(Line', Line, S)
      BY <1>1, <2>1, <2>2, LineFacts, NextLineFacts DEF Same
    <2>4. PromiseIsKept' /\ Anonymous'
      BY <1>1, <2>3, KeepPromises DEF PInv
    <2> QED
      BY <2>1, <2>4 DEF PInv, FrontOfPhase, Front
  <1>5. CASE ~(h = Unreg \/ h = Cancel)
    <2>1. h \in Event /\ Enqueue(h) /\ queue' = Append(queue, h) /\ inbox' = Tail(inbox)
      BY <1>2, <1>5 DEF RunPosted, Posted, Enqueue
    <2> HIDE DEF h
    <2>2. ASSUME NEW S \in Watched PROVE Same(Line', Line, S)
      <3>1. CASE h \in S
        <4>1. /\ Never(queue', S) <=> FALSE
              /\ Once(queue', S) <=> Never(queue, S)
          BY <1>1, <2>1, <3>1, AppendOccurs
        <4>2. /\ Never(inbox, S) <=> FALSE
              /\ Once(inbox, S) <=> Never(inbox', S)
          BY <1>1, <2>1, <3>1, TailOccurs DEF h
        <4> QED
          BY <1>1, <4>1, <4>2, LineFacts, NextLineFacts DEF Same
      <3>2. CASE h \notin S
        <4>1. Same(queue', queue, S)
          BY <1>1, <2>1, <3>2, AppendOccurs DEF Same
        <4>2. Same(inbox', inbox, S)
          BY <1>1, <2>1, <3>2, TailOccurs DEF Same, h
        <4> QED
          BY <1>1, <4>1, <4>2, LineFacts, NextLineFacts DEF Same
      <3> QED
        BY <3>1, <3>2
    <2>3. PromiseIsKept' /\ Anonymous'
      BY <1>1, <2>2, KeepPromises DEF PInv
    <2>4. FrontOfPhase'
      BY <2>1, EnqueueFacts DEF PInv, IInv, FrontOfPhase
    <2> QED
      BY <2>3, <2>4 DEF PInv
  <1> QED
    BY <1>4, <1>5

(* A write completes, and perhaps asks for a disconnect behind it.         *)
LEMMA WriteDoneKeeps ==
    ASSUME IInv, PInv, IInv', NEW ok \in BOOLEAN, WriteDone(ok)
    PROVE  PInv'
  <1> DEFINE e == Ev("disconnect", NoCaller)
  <1>1. /\ phase = "write" /\ queue # <<>> /\ queue \in Seq(Event) /\ TypeOK'
        /\ Front.k = "send" /\ Front = Head(queue) /\ pc' = pc /\ inbox' = inbox
    BY DEF WriteDone, IInv, TypeOK, Guarded, PInv, FrontOfPhase, Front, poolVars
  <1>2. Fulfil(Front)
    BY <1>1, NobodyInFront DEF Kinds
  <1>3. CASE NextEvent(queue)
    <2>1. Killed(queue)
      BY DEF Killed
    <2> QED
      BY <1>1, <1>2, <1>3, <2>1, PassKeeps
  <1>4. CASE NextEvent(Append(queue, e))
    <2> DEFINE q == Append(queue, e)
    <2>1. e \in Event /\ e.by = NoCaller /\ e.k # "connect"
      BY DEF Event, Ev
    <2>2. queue' = Tail(q) /\ phase' \in {"run", "idle"}
      BY <1>4 DEF NextEvent
    <2> HIDE DEF e
    <2>3. q \in Seq(Event) /\ q # <<>> /\ Head(q) = Front
      BY <1>1, <2>1, AppendOccurs
    <2>4. \A S \in Watched : Same(q, queue, S)
      BY <1>1, <2>1, NobodysEvent, AppendOccurs DEF Same
    <2>5. \A S \in Watched : Same(inbox', inbox, S)
      BY <1>1 DEF Same
    <2> HIDE DEF q
    <2>6. PromiseIsKept' /\ Anonymous'
      BY <1>1, <1>2, <2>2, <2>3, <2>4, <2>5, PopKeeps
    <2> QED
      BY <2>2, <2>6 DEF PInv, FrontOfPhase
  <1> QED
    BY <1>3, <1>4 DEF WriteDone

LEMMA IoKeeps ==
    ASSUME IInv, PInv, IInv', IoNext
    PROVE  PInv'
  <1>1. Killed(queue) /\ TypeOK' /\ \A kinds : Killed(Kill(kinds, queue))
    BY DEF Killed, IInv
  <1>2. CASE RunReturns \/ ConnectTimeout \/ ResolveDone \/ NextEndpoint \/ RecvData
             \/ (RecvError /\ UNCHANGED <<queue, phase>>)
    <2>1. /\ UNCHANGED <<pc, inbox, queue>>
          /\ phase' = phase \/ phase' = "connect"
      BY <1>2 DEF RunReturns, ConnectTimeout, ResolveDone, NextEndpoint, RecvData, RecvError, poolVars
    <2>2. \A S \in Watched : Same(Line', Line, S)
      BY <2>1 DEF Line, Same
    <2>3. PromiseIsKept' /\ Anonymous'
      BY <2>1, <2>2, KeepPromises DEF PInv
    <2> QED
      BY <2>1, <2>3 DEF PInv, FrontOfPhase, Front
  <1>3. CASE RunPosted
    BY <1>3, RunPostedKeeps
  <1>4. CASE RunConnect
    <2>1. queue # <<>>
      BY <1>4, RunningFacts DEF RunConnect
    <2>2. CASE state = "stopped"
      <3>1. pc' = pc /\ inbox' = inbox /\ queue' = Kill({"reconnect"}, queue) /\ phase' = "resolve"
        BY <1>4, <2>2 DEF RunConnect, StartConnect
      <3> QED
        BY <1>1, <2>1, <3>1, StayKeeps
    <2>3. CASE state # "stopped"
      <3>1. NextEvent(queue) /\ Fulfil(Front) /\ inbox' = inbox
        BY <1>4, <2>3 DEF RunConnect
      <3> QED
        BY <1>1, <2>1, <3>1, PassKeeps
    <2> QED
      BY <2>2, <2>3
  <1>5. CASE RunReconnect
    <2>1. queue # <<>> /\ Front.k = "reconnect" /\ pc' = pc /\ inbox' = inbox
      BY <1>5, RunningFacts DEF RunReconnect, poolVars
    <2>2. CASE Front.live /\ state = "stopped"
      <3>1. queue' = Kill({"reconnect"}, queue) /\ phase' = "resolve"
        BY <1>5, <2>2 DEF RunReconnect, StartConnect
      <3> QED
        BY <1>1, <2>1, <3>1, StayKeeps
    <2>3. CASE ~(Front.live /\ state = "stopped")
      <3>1. NextEvent(queue) /\ Fulfil(Front)
        BY <1>5, <2>1, <2>3, NobodyInFront DEF RunReconnect, Kinds
      <3> QED
        BY <1>1, <2>1, <3>1, PassKeeps
    <2> QED
      BY <2>2, <2>3
  <1>6. CASE RunStop
    <2>1. queue # <<>> /\ Front.k = "stop"
      BY <1>6, RunningFacts DEF RunStop
    <2> DEFINE q == Kill({"reconnect"}, queue)
    <2>2. DoStop(queue) \/ PostShutdown(q, "none")
      BY <1>6 DEF RunStop
    <2>3. Killed(q)
      BY <1>1
    <2> HIDE DEF q
    <2> QED
      BY <1>1, <2>1, <2>2, <2>3, DoStopKeeps, PostShutdownKeeps
  <1>7. CASE RunDisconnect
    <2>1. queue # <<>> /\ Front.k = "disconnect"
      BY <1>7, RunningFacts DEF RunDisconnect
    <2>2. CASE state \in {"started", "starting"}
      BY <1>1, <1>7, <2>1, <2>2, PostShutdownKeeps DEF RunDisconnect
    <2>3. CASE state \notin {"started", "starting"}
      <3>1. NextEvent(queue) /\ pc' = pc /\ inbox' = inbox
        BY <1>7, <2>3 DEF RunDisconnect, poolVars
      <3>2. Fulfil(Front)
        BY <2>1, <3>1, NobodyInFront DEF Kinds
      <3> QED
        BY <1>1, <2>1, <3>1, <3>2, PassKeeps
    <2> QED
      BY <2>2, <2>3
  <1>8. CASE RunSend
    <2>1. queue # <<>> /\ Front.k = "send" /\ pc' = pc /\ inbox' = inbox
      BY <1>8, RunningFacts DEF RunSend, poolVars
    <2>2. Fulfil(Front)
      BY <2>1, NobodyInFront DEF Kinds
    <2>3. NextEvent(queue) \/ (queue' = queue /\ phase' = "write")
      BY <1>8 DEF RunSend
    <2> QED
      BY <1>1, <2>1, <2>2, <2>3, PassKeeps, StayKeeps
  <1>9. CASE ShutdownTimer
    <2>1. queue # <<>> /\ Front.k \in {"stop", "disconnect"}
      BY <1>9 DEF ShutdownTimer, IInv, TypeOK, DisconnectOwnsGuard, Guarded, PInv, FrontOfPhase
    <2>2. CASE shut = "armed" /\ fresh
      <3>1. UNCHANGED <<pc, inbox, queue, phase>>
        BY <1>9, <2>2 DEF ShutdownTimer, poolVars
      <3> QED
        BY <1>1, <2>1, <3>1, StayKeeps DEF PInv, FrontOfPhase
    <2>3. CASE ~(shut = "armed" /\ fresh)
      BY <1>1, <1>9, <2>1, <2>3, CloseKeeps DEF ShutdownTimer
    <2> QED
      BY <2>2, <2>3
  <1>10. CASE ReadEnd
    <2>1. queue # <<>>
      BY <1>10 DEF ReadEnd, IInv, Guarded
    <2> QED
      BY <1>1, <1>10, <2>1, FinishKeeps DEF ReadEnd
  <1>11. CASE ReconnectTimer \/ (RecvError /\ ~UNCHANGED <<queue, phase>>)
    <2>1. /\ pc' = pc /\ inbox' = inbox
          /\ Enqueue(Ev("reconnect", NoCaller)) \/ Enqueue(Ev("disconnect", NoCaller))
      BY <1>11 DEF ReconnectTimer, RecvError, RequestDisconnect, poolVars
    <2>2. \A k \in {"reconnect", "disconnect"} :
              Ev(k, NoCaller) \in Event /\ Ev(k, NoCaller).by = NoCaller /\ Ev(k, NoCaller).k # "connect"
      BY DEF Event, Ev
    <2> QED
      BY <1>1, <2>1, <2>2, EnqueueKeeps
  <1>12. CASE ResolveFailed \/ NoEndpoint \/ Connected
    <2>1. queue # <<>>
      BY <1>12 DEF ResolveFailed, NoEndpoint, Connected, IInv, Guarded
    <2> DEFINE q == Kill({"disconnect"}, queue)
    <2>2. (NextEvent(queue) \/ NextEvent(q)) /\ Fulfil(Front) /\ inbox' = inbox
      BY <1>12 DEF ResolveFailed, NoEndpoint, Connected, ConnectFailed
    <2>3. Killed(q)
      BY <1>1
    <2> HIDE DEF q
    <2> QED
      BY <1>1, <2>1, <2>2, <2>3, PassKeeps
  <1>13. CASE \E ok \in BOOLEAN : WriteDone(ok)
    BY <1>13, WriteDoneKeeps
  <1> QED
    BY <1>2, <1>3, <1>4, <1>5, <1>6, <1>7, <1>8, <1>9, <1>10, <1>11, <1>12, <1>13 DEF IoNext

-----------------------------------------------------------------------------
(* The threads keep the promises.                                          *)

(* A thread that posts asks for one thing, and waits for it.               *)
LEMMA AskKeeps ==
    ASSUME IInv, PInv, IInv', NEW c \in Caller, NEW k \in Kinds,
           NEW v \in Seq(Posted), inbox' = Append(v, Ev(k, c)), UNCHANGED <<queue, phase>>,
           \A S \in Watched : Same(v, inbox, S),
           pc[c] \notin {"start_wait", "stop_wait"}, Goto(c, WaitFor[k])
    PROVE  PInv'
  <1> DEFINE e == Ev(k, c)
  <1>1. TypeOK /\ TypeOK' /\ pc' = [pc EXCEPT ![c] = WaitFor[k]] /\ pc \in [Caller -> Place]
    BY DEF IInv, TypeOK, Goto
  <1>2. e \in Posted /\ e.k = k /\ e.by = c
    BY DEF Ev, Posted, Event, Kinds
  <1>3. /\ e \in Asked(k, c) /\ e \notin Forged
        /\ \A l, d : l # k \/ d # c => e \notin Asked(l, d)
    BY ClientAssumption DEF Ev, Asked, Forged
  <1> HIDE DEF e
  <1>4. ASSUME NEW S \in Watched, e \notin S PROVE Same(Line', Line, S)
    <2>1. Same(inbox', v, S)
      BY <1>2, <1>4, AppendOccurs DEF Same, e
    <2> QED
      BY <1>1, <2>1, LineFacts, NextLineFacts DEF Same
  <1>5. Anonymous'
    <2>1. Same(Line', Line, Forged)
      BY <1>3, <1>4 DEF Watched
    <2> QED
      BY <2>1 DEF PInv, Anonymous, Same
  <1>6. ASSUME NEW d \in Caller, NEW l \in Kinds
        PROVE  IF pc'[d] = WaitFor[l] THEN Once(Line', Asked(l, d)) ELSE Never(Line', Asked(l, d))
    <2> DEFINE S == Asked(l, d)
    <2>1. S \in Watched
      BY DEF Watched
    <2>2. IF pc[d] = WaitFor[l] THEN Once(Line, S) ELSE Never(Line, S)
      BY DEF PInv, PromiseIsKept, Kinds
    <2> HIDE DEF S
    <2>3. CASE d = c /\ l = k
      <3>1. pc[d] # WaitFor[l]
        BY <2>3 DEF WaitFor, Kinds
      <3>2. Never(queue, S) /\ Never(inbox, S)
        BY <1>1, <2>2, <3>1, LineFacts
      <3>3. Never(v, S) /\ e \in S
        BY <1>3, <2>1, <2>3, <3>2 DEF Same, S
      <3>4. Once(inbox', S)
        BY <1>2, <3>3, AppendOccurs DEF e
      <3>5. Once(Line', S)
        BY <1>1, <3>2, <3>4, NextLineFacts
      <3> QED
        BY <1>1, <2>3, <3>5 DEF S
    <2>4. CASE ~(d = c /\ l = k)
      <3>1. Same(Line', Line, S)
        BY <1>3, <1>4, <2>1, <2>4 DEF S
      <3>2. pc'[d] = WaitFor[l] <=> pc[d] = WaitFor[l]
        BY <1>1, <2>4 DEF WaitFor, Kinds
      <3> QED
        BY <2>2, <3>1, <3>2 DEF Same, S
    <2> QED
      BY <2>3, <2>4
  <1>7. PromiseIsKept'
    BY <1>6 DEF PromiseIsKept, Kinds
  <1> QED
    BY <1>5, <1>7 DEF PInv, FrontOfPhase, Front

(* A thread that posts nothing anybody waits for, and does not wait.       *)
LEMMA ThreadKeeps ==
    ASSUME IInv, PInv, IInv', UNCHANGED <<queue, phase>>,
           \A S \in Watched : Same(inbox', inbox, S),
           \A c \in Caller, k \in Kinds : pc'[c] = WaitFor[k] <=> pc[c] = WaitFor[k]
    PROVE  PInv'
  <1>1. \A S \in Watched : Same(Line', Line, S)
    BY LineFacts, NextLineFacts DEF IInv, Same
  <1>2. PromiseIsKept' /\ Anonymous'
    BY <1>1, KeepPromises DEF PInv
  <1> QED
    BY <1>2 DEF PInv, FrontOfPhase, Front

(* A stop() that gives up takes back what it has asked for.                *)
LEMMA StopGiveUpKeeps ==
    ASSUME IInv, PInv, IInv', NEW c \in Caller, StopGiveUp(c)
    PROVE  PInv'
  <1>1. /\ TypeOK /\ TypeOK' /\ queue = <<>> /\ queue' = queue /\ phase' = phase
        /\ pc[c] = "stop_wait" /\ pc' = [pc EXCEPT ![c] = "stop_pool"] /\ pc \in [Caller -> Place]
        /\ inbox \in Seq(Posted) /\ DOMAIN inbox = 1..Len(inbox)
        /\ inbox' = [i \in DOMAIN inbox |->
                        IF inbox[i].by = c THEN [inbox[i] EXCEPT !.by = NoCaller] ELSE inbox[i]]
    BY DEF StopGiveUp, IInv, TypeOK, NoContext, Guarded, Goto
  <1>2. \A i \in DOMAIN inbox : inbox[i] \in Posted
    BY <1>1
  <1>3. ASSUME NEW x \in Posted, x.by = c
        PROVE  /\ [x EXCEPT !.by = NoCaller] \in Posted /\ [x EXCEPT !.by = NoCaller].by = NoCaller
               /\ [x EXCEPT !.by = NoCaller].k = x.k
    <2>1. x \in Event
      BY <1>3, ClientAssumption DEF Posted, Unreg, Cancel, Ev
    <2> QED
      BY <2>1 DEF Event, Posted
  <1>4. DOMAIN inbox' = DOMAIN inbox
    BY <1>1
  <1>5. ASSUME NEW i \in DOMAIN inbox
        PROVE  /\ inbox[i].by = c => inbox'[i].by = NoCaller /\ inbox'[i].k # "connect"
               /\ inbox[i].by # c => inbox'[i] = inbox[i]
    <2>1. inbox[i] \in Posted
      BY <1>2
    <2>2. inbox[i].by = c => inbox[i].k # "connect"
      <3>1. Never(inbox, Asked("connect", c))
        BY <1>1, LineFacts DEF PInv, PromiseIsKept, WaitFor
      <3>2. inbox[i] \notin Asked("connect", c)
        BY <3>1 DEF Never
      <3>3. \A x \in Event : x.k = "connect" /\ x.by = c => x \in Asked("connect", c)
        BY DEF Event, Asked
      <3>4. inbox[i].by = c => inbox[i] \in Event
        BY <2>1, ClientAssumption DEF Posted, Unreg, Cancel, Ev
      <3> QED
        BY <3>2, <3>3, <3>4
    <2> QED
      BY <1>1, <1>3, <2>1, <2>2
  <1>6. ASSUME NEW k, NEW d \in Caller, NEW x \in Posted, x \in Asked(k, d) PROVE x.by = d
    BY <1>6 DEF Asked
  <1>7. ASSUME NEW S \in Watched, S = Forged \/ \E k \in Kinds, d \in Caller \ {c} : S = Asked(k, d)
        PROVE  \A i \in DOMAIN inbox : inbox'[i] \in S => inbox[i] \in S
    <2> SUFFICES ASSUME NEW i \in DOMAIN inbox, inbox'[i] \in S PROVE inbox[i] \in S
      OBVIOUS
    <2>1. inbox[i].by # c
      BY <1>5, NobodysEvent
    <2> QED
      BY <1>5, <2>1
  <1>8. Anonymous'
    <2>1. Never(inbox, Forged)
      BY <1>1, LineFacts DEF PInv, Anonymous
    <2>2. Never(inbox', Forged)
      BY <1>4, <1>7, <2>1 DEF Never, Watched
    <2> QED
      BY <1>1, <2>2, NextLineFacts, EmptyOccurs DEF Anonymous
  <1>9. ASSUME NEW d \in Caller, NEW k \in Kinds
        PROVE  IF pc'[d] = WaitFor[k] THEN Once(Line', Asked(k, d)) ELSE Never(Line', Asked(k, d))
    <2> DEFINE S == Asked(k, d)
    <2>1. S \in Watched
      BY DEF Watched
    <2>2. IF pc[d] = WaitFor[k] THEN Once(Line, S) ELSE Never(Line, S)
      BY DEF PInv, PromiseIsKept, Kinds
    <2>3. CASE d = c
      <3>1. \A i \in DOMAIN inbox : inbox'[i].by # c
        BY <1>5, ClientAssumption
      <3>2. \A i \in DOMAIN inbox : inbox'[i] \notin S
        BY <2>3, <3>1 DEF Asked
      <3>3. Never(inbox', S)
        BY <1>4, <3>2 DEF Never
      <3>4. Never(Line', S)
        BY <1>1, <3>3, NextLineFacts, EmptyOccurs
      <3>5. pc'[d] # WaitFor[k]
        BY <1>1, <2>3 DEF WaitFor, Kinds
      <3> QED
        BY <3>4, <3>5
    <2>4. CASE d # c
      <3>1. \A i \in DOMAIN inbox : inbox'[i] \in S => inbox[i] \in S
        BY <1>7, <2>1, <2>4
      <3>2. \A i \in DOMAIN inbox : inbox[i] \in S => inbox'[i] \in S
        BY <1>5, <2>4 DEF Asked
      <3> HIDE DEF S
      <3>3. Same(inbox', inbox, S)
        BY <1>4, <3>1, <3>2, SameOccurs DEF Same
      <3>4. Same(Line', Line, S)
        BY <1>1, <3>3, LineFacts, NextLineFacts DEF Same
      <3>5. pc'[d] = pc[d]
        BY <1>1, <2>4
      <3> QED
        BY <2>2, <3>4, <3>5 DEF Same, S
    <2> QED
      BY <2>3, <2>4
  <1>10. PromiseIsKept'
    BY <1>9 DEF PromiseIsKept, Kinds
  <1> QED
    BY <1>1, <1>8, <1>10 DEF PInv, FrontOfPhase, Front

LEMMA CallerKeeps ==
    ASSUME IInv, PInv, IInv', NEW c \in Caller, Acts(c)
    PROVE  PInv'
  <1>1. TypeOK /\ pc \in [Caller -> Place] /\ inbox \in Seq(Posted)
    BY DEF IInv, TypeOK
  <1>2. \A S \in Watched : Same(inbox, inbox, S)
    BY DEF Same
  <1>3. CASE \/ \E j \in {"run", "stop"} : Call(c, j)
             \/ StopIopool(c) \/ PoolStopped(c) \/ StartIopool(c) \/ StartCheck(c)
    <2>1. UNCHANGED <<queue, phase, inbox>>
      BY <1>3 DEF Call, StopIopool, PoolStopped, StartIopool, StartCheck
    <2>2. \A d \in Caller, k \in Kinds : pc'[d] = WaitFor[k] <=> pc[d] = WaitFor[k]
      <3>1. \E l \in Place \ {"start_wait", "stop_wait"} : pc' = [pc EXCEPT ![c] = l]
        BY <1>3 DEF Call, StopIopool, PoolStopped, StartIopool, StartCheck, Goto, AfterStop, Place
      <3>2. pc[c] \notin {"start_wait", "stop_wait"}
        BY <1>3 DEF Call, StopIopool, PoolStopped, StartIopool, StartCheck
      <3> QED
        BY <1>1, <3>1, <3>2 DEF WaitFor, Kinds
    <2> QED
      BY <1>2, <2>1, <2>2, ThreadKeeps
  <1>4. CASE PoolCancel(c) \/ Send(c)
    <2>1. \E e \in {Cancel, Ev("send", NoCaller)} : inbox' = Append(inbox, e)
      BY <1>4 DEF PoolCancel, Send
    <2>2. \A e \in {Cancel, Ev("send", NoCaller)} :
              e \in Posted /\ e.by = NoCaller /\ e.k # "connect"
      <3>1. Cancel \in Posted /\ Ev("send", NoCaller) \in Posted
        BY PostedFacts
      <3>2. /\ Cancel.by = NoCaller /\ Ev("send", NoCaller).by = NoCaller
            /\ Cancel.k # "connect" /\ Ev("send", NoCaller).k # "connect"
        BY DEF Cancel, Ev
      <3> QED
        BY <3>1, <3>2
    <2>3. \A S \in Watched : Same(inbox', inbox, S)
      BY <1>1, <2>1, <2>2, NobodysEvent, AppendOccurs DEF Same
    <2>4. UNCHANGED <<queue, phase, pc>>
      BY <1>4 DEF PoolCancel, Send
    <2> QED
      BY <2>3, <2>4, ThreadKeeps
  <1>5. CASE StartPost(c)
    <2>1. /\ inbox' = Append(inbox, Ev("connect", c)) /\ UNCHANGED <<queue, phase>>
          /\ pc[c] = "start_post" /\ Goto(c, WaitFor["connect"])
      BY <1>5 DEF StartPost, WaitFor
    <2> QED
      BY <1>1, <1>2, <2>1, AskKeeps DEF Kinds
  <1>6. CASE StopPost(c)
    <2> DEFINE v == Append(inbox, Unreg)
    <2>1. /\ inbox' = inbox \o <<Unreg, Ev("stop", c)>> /\ UNCHANGED <<queue, phase>>
          /\ pc[c] = "stop_post" /\ Goto(c, WaitFor["stop"])
      BY <1>6 DEF StopPost, WaitFor
    <2>2. Unreg \in Posted /\ Ev("stop", c) \in Posted /\ Unreg.by = NoCaller /\ Unreg.k # "connect"
      BY PostedFacts DEF Unreg, Ev
    <2>3. inbox' = Append(v, Ev("stop", c))
      BY <1>1, <2>1, <2>2, PostTwo
    <2>4. v \in Seq(Posted) /\ \A S \in Watched : Same(v, inbox, S)
      BY <1>1, <2>2, NobodysEvent, AppendOccurs DEF Same
    <2> HIDE DEF v
    <2> QED
      BY <2>1, <2>3, <2>4, AskKeeps DEF Kinds
  <1>7. CASE StopGiveUp(c)
    BY <1>7, StopGiveUpKeeps
  <1> QED
    BY <1>3, <1>4, <1>5, <1>6, <1>7 DEF Acts, GoOn

LEMMA StepPInv == IInv /\ PInv /\ [Next]_vars => PInv'
  <1> SUFFICES ASSUME IInv, PInv, [Next]_vars PROVE PInv'
    OBVIOUS
  <1>1. IInv'
    BY StepIInv
  <1>2. CASE IoNext
    BY <1>1, <1>2, IoKeeps
  <1>3. ASSUME NEW c \in Caller, CallerNext(c) PROVE PInv'
    BY <1>1, <1>3, CallerActs, CallerKeeps
  <1>4. CASE UNCHANGED vars
    <2>1. Line' = Line /\ pc' = pc /\ phase' = phase /\ queue' = queue
      BY <1>4 DEF vars, Line
    <2> QED
      BY <2>1 DEF PInv, PromiseIsKept, Anonymous, FrontOfPhase, Front
  <1> QED
    BY <1>2, <1>3, <1>4 DEF Next

LEMMA InitPInv == Init => PInv
  <1> SUFFICES ASSUME Init PROVE PInv
    OBVIOUS
  <1>1. Line = <<>> /\ phase = "idle" /\ \A c \in Caller : pc[c] = "idle"
    BY DEF Init, Line
  <1> QED
    BY <1>1, EmptyOccurs DEF PInv, PromiseIsKept, Anonymous, FrontOfPhase, WaitFor

-----------------------------------------------------------------------------
(* What a handler of the io_context does to the threads, for the modules   *)
(* that compose the client with its callers.                               *)

(* Whose promise the front's is, if fulfilling it moves anybody.           *)
LEMMA WhoIsTold ==
    ASSUME IInv, PInv, queue # <<>>, Fulfil(Front), NEW c \in Caller, pc'[c] # pc[c]
    PROVE  /\ Front.k \in Kinds /\ pc[c] = WaitFor[Front.k]
           /\ pc'[c] = IF Front.k = "stop" THEN "stop_pool" ELSE "idle"
  <1>1. /\ queue \in Seq(Posted) /\ Front = Head(queue) /\ Front \in Posted /\ Front \in Event
        /\ TypeOK /\ pc \in [Caller -> Place]
    BY EventIsPosted DEF IInv, TypeOK, Front, Posted
  <1>2. Front.by = c /\ pc'[c] = IF Front.k = "stop" THEN "stop_pool" ELSE "idle"
    BY <1>1 DEF Fulfil, Goto
  <1>3. Front.k \in Kinds
    <2>1. Front \notin Forged
      BY <1>1, TailOccurs, LineFacts DEF PInv, Anonymous
    <2> QED
      BY <1>1, <1>2, <2>1, ClientAssumption DEF Forged
  <1>4. ~Never(Line, Asked(Front.k, c))
    <2>1. Front \in Asked(Front.k, c)
      BY <1>1, <1>2 DEF Asked, Event
    <2>2. ~Never(queue, Asked(Front.k, c))
      BY <1>1, <2>1, TailOccurs
    <2> QED
      BY <1>1, <2>2, LineFacts
  <1> QED
    BY <1>2, <1>3, <1>4 DEF PInv, PromiseIsKept, Kinds

(* A thread leaves its wait in stop() with the client stopped; it leaves   *)
(* its wait in start() with the attempt decided, or refused because there  *)
(* is a connection.                                                        *)
LEMMA Released ==
    ASSUME IInv, PInv, IoNext, NEW c \in Caller, pc'[c] # pc[c]
    PROVE  \/ pc[c] = "stop_wait" /\ pc'[c] = "stop_pool" /\ state' = "stopped"
           \/ /\ pc[c] = "start_wait" /\ pc'[c] = "idle"
              /\ \/ state = "starting" /\ state' \in {"started", "stopped"}
                 \/ state = "started" /\ state' = "started"
  <1> DEFINE Decided == \/ state = "starting" /\ state' \in {"started", "stopped"}
                        \/ state = "started" /\ state' = "started"
  <1>1. SUFFICES /\ queue # <<>> /\ Fulfil(Front)
                 /\ Front.k = "connect" => Decided
    <2>1. /\ Front.k \in Kinds /\ pc[c] = WaitFor[Front.k]
          /\ pc'[c] = IF Front.k = "stop" THEN "stop_pool" ELSE "idle"
      BY <1>1, WhoIsTold
    <2>2. Wakes
      BY IoMove
    <2> QED
      BY <1>1, <2>1, <2>2 DEF Wakes, Kinds, WaitFor
  <1>2. ASSUME NEW q, NEW r, FinishDisconnect(q, r) PROVE Fulfil(Front)
    BY <1>2 DEF FinishDisconnect, DoStop
  <1>3. ASSUME NEW q, NEW r, Close(q, r) PROVE Fulfil(Front)
    BY <1>2, <1>3 DEF Close
  <1>4. ASSUME NEW q, NEW r, PostShutdown(q, r) PROVE Fulfil(Front)
    BY <1>3, <1>4 DEF PostShutdown, poolVars
  <1>5. CASE RunReturns \/ RunPosted \/ RunSend \/ RunReconnect \/ ReconnectTimer \/ ConnectTimeout
             \/ ResolveDone \/ NextEndpoint \/ RecvData \/ RecvError \/ (\E ok \in BOOLEAN : WriteDone(ok))
    BY <1>5 DEF RunReturns, RunPosted, RunSend, RunReconnect, ReconnectTimer, ConnectTimeout, ResolveDone,
                NextEndpoint, RecvData, RecvError, WriteDone, poolVars
  <1>6. CASE RunConnect
    <2>1. queue # <<>> /\ phase = "run"
      BY <1>6, RunningFacts DEF RunConnect, Running
    <2>2. state # "stopped" /\ Fulfil(Front) /\ state' = state
      BY <1>6 DEF RunConnect, connVars
    <2>3. state = "started"
      BY <2>1, <2>2 DEF IInv, TypeOK, StartingIsAttempt, InAttempt
    <2> QED
      BY <2>1, <2>2, <2>3
  <1>7. CASE RunStop
    <2>1. queue # <<>> /\ Front.k = "stop"
      BY <1>7, RunningFacts DEF RunStop
    <2> QED
      BY <1>4, <1>7, <2>1 DEF RunStop, DoStop
  <1>8. CASE RunDisconnect
    <2>1. queue # <<>> /\ Front.k = "disconnect"
      BY <1>8, RunningFacts DEF RunDisconnect
    <2> QED
      BY <1>4, <1>8, <2>1 DEF RunDisconnect, poolVars
  <1>9. CASE ShutdownTimer
    <2>1. queue # <<>> /\ Front.k \in {"stop", "disconnect"}
      BY <1>9 DEF ShutdownTimer, IInv, TypeOK, DisconnectOwnsGuard, Guarded, PInv, FrontOfPhase
    <2> QED
      BY <1>3, <1>9, <2>1 DEF ShutdownTimer, poolVars
  <1>10. CASE ReadEnd
    <2>1. queue # <<>> /\ Front.k \in {"stop", "disconnect"}
      BY <1>10 DEF ReadEnd, IInv, Guarded, PInv, FrontOfPhase
    <2> QED
      BY <1>2, <1>10, <2>1 DEF ReadEnd
  <1>11. CASE ResolveFailed \/ NoEndpoint \/ Connected
    <2>1. queue # <<>> /\ state = "starting"
      BY <1>11 DEF ResolveFailed, NoEndpoint, Connected, IInv, Guarded, StartingIsAttempt, InAttempt
    <2>2. Fulfil(Front) /\ state' \in {"started", "stopped"}
      BY <1>11 DEF ResolveFailed, NoEndpoint, Connected, ConnectFailed
    <2> QED
      BY <2>1, <2>2
  <1> QED
    BY <1>5, <1>6, <1>7, <1>8, <1>9, <1>10, <1>11 DEF IoNext

(* Only a start() brings a completely stopped client back.                 *)
LEMMA Revived ==
    ASSUME IInv, PInv, IoNext, stopped, ~stopped'
    PROVE  \E c \in Caller : pc[c] = "start_wait"
  <1>1. state = "stopped" /\ state' = "starting"
    BY IoMove DEF Move, IInv, StoppedIsComplete
  <1>2. ASSUME NEW q, NEW r, Close(q, r) PROVE state' # "starting"
    BY <1>2 DEF Close
  <1>3. CASE RunReturns \/ RunPosted \/ RunSend \/ ReconnectTimer \/ ConnectTimeout \/ ResolveDone
             \/ NextEndpoint \/ RecvData \/ RecvError \/ \E ok \in BOOLEAN : WriteDone(ok)
    BY <1>1, <1>3 DEF RunReturns, RunPosted, RunSend, ReconnectTimer, ConnectTimeout, ResolveDone,
                      NextEndpoint, RecvData, RecvError, WriteDone, connVars
  <1>4. CASE RunReconnect
    <2>1. queue \in Seq(Event) /\ queue # <<>> /\ Front.k = "reconnect"
      BY <1>4, RunningFacts DEF RunReconnect
    <2>2. 1 \in DOMAIN queue /\ Front = queue[1]
      BY <2>1 DEF Front
    <2>3. ~Front.live
      BY <2>1, <2>2 DEF IInv, StoppedIsComplete
    <2> QED
      BY <1>1, <1>4, <2>3 DEF RunReconnect, connVars
  <1>5. CASE RunStop \/ RunDisconnect \/ ShutdownTimer \/ ReadEnd
    BY <1>1, <1>2, <1>5 DEF RunStop, RunDisconnect, ShutdownTimer, ReadEnd, connVars
  <1>6. CASE ResolveFailed \/ NoEndpoint \/ Connected
    BY <1>1, <1>6 DEF ResolveFailed, NoEndpoint, Connected, ConnectFailed
  <1>7. CASE RunConnect
    <2>1. /\ queue \in Seq(Posted) /\ queue # <<>> /\ Front = Head(queue) /\ Front \in Event
          /\ Front \in Posted /\ Front.k = "connect" /\ TypeOK
      BY <1>7, RunningFacts, EventIsPosted DEF RunConnect, IInv, TypeOK, Front, Posted
    <2>2. Front \notin Forged
      BY <2>1, TailOccurs, LineFacts DEF PInv, Anonymous
    <2>3. PICK c \in Caller : Front.by = c
      BY <2>1, <2>2 DEF Forged, Event
    <2>4. Front \in Asked("connect", c)
      BY <2>1, <2>3 DEF Asked, Event
    <2>5. ~Never(Line, Asked("connect", c))
      BY <2>1, <2>4, TailOccurs, LineFacts
    <2> QED
      BY <2>5 DEF PInv, PromiseIsKept, WaitFor
  <1> QED
    BY <1>3, <1>4, <1>5, <1>6, <1>7 DEF IoNext

(* However many threads start and stop at once: whoever waits, waits for   *)
(* exactly one event that is still to run, and nobody else's event is left *)
(* behind; no path through connect and disconnect drops a promise or       *)
(* fulfils one twice.                                                      *)
THEOREM PromisesKept == Spec => []PromiseIsKept
  <1>1. IInv /\ PInv => PromiseIsKept
    BY DEF PInv
  <1> QED
    BY <1>1, InitIInv, StepIInv, InitPInv, StepPInv, PTL DEF Spec
=============================================================================
