-------------------------------- MODULE SendPath --------------------------------
(***************************************************************************)
(* async_send and send of a client (send_cp), down to the write: what a    *)
(* thread submits, which connection it is written to, and what the caller  *)
(* is told.  The client's life cycle is reduced to what a send can see of  *)
(* it (TcpClient has the rest): a connection comes up, is lost and comes   *)
(* up again by itself; a stop, called in a callback or by a thread, ends   *)
(* a life; only the latter's waits for the pool.                           *)
(***************************************************************************)
EXTENDS Naturals, Sequences, FiniteSets, SequencesExt

CONSTANTS Thread,   \* the threads that send
          MaxLife,  \* bound: lives of the client
          Addr,     \* the addresses *life_id_ may be allocated at
          Reuse     \* the allocator may return an address a send under way still holds

Kind == {"plain", "future", "callback", "send"}

VARIABLES op,      \* op[t]: the send of thread t
          inbox,   \* handlers posted to the io_context
          queue,   \* events_; the front runs, or has its guard in the write's handler
          writing, \* an async_write is outstanding: it is the front's
          up,      \* is_started()
          down,    \* stopped_
          life,    \* the number of the life, a history variable
          life_id, \* the address of *life_id_
          pool     \* "on", "drain" (stop() waits for the io_context), "off"

vars == <<op, inbox, queue, writing, up, down, life, life_id, pool>>

(* at: "none", "begun" (the thread is between life_id() and push_event),   *)
(* "pushed", "done".  id: the life_id captured.  born: the life in which   *)
(* it was read.  wrote: the life whose connection it was written to, 0 for *)
(* none.  told: what the future or the callback was given, in order.       *)
NoSend == [at |-> "none", kind |-> "plain", id |-> CHOOSE a \in Addr : TRUE,
           born |-> 0, wrote |-> 0, told |-> <<>>]

Threads(at) == {t \in Thread : op[t].at = at}

E(e, t) == [e |-> e, t |-> t]
Client == "client"     \* the t of what is not a thread's send

Init ==
    /\ op = [t \in Thread |-> NoSend]
    /\ inbox = <<>> /\ queue = <<>> /\ writing = FALSE
    /\ up = FALSE /\ down = TRUE /\ life = 1
    /\ life_id \in Addr /\ pool = "off"

-----------------------------------------------------------------------------
(* The threads.                                                            *)

(* async_send up to push_event: pending() is one more until it returns.    *)
Begin(t, kind) ==
    /\ op[t].at = "none"
    /\ op' = [op EXCEPT ![t] = [NoSend EXCEPT !.at = "begun", !.kind = kind,
                                              !.id = life_id, !.born = life]]
    /\ UNCHANGED <<inbox, queue, writing, up, down, life, life_id, pool>>

Push(t) ==
    /\ op[t].at = "begun"
    /\ op' = [op EXCEPT ![t].at = "pushed"]
    /\ inbox' = Append(inbox, E("send", t))
    /\ UNCHANGED <<queue, writing, up, down, life, life_id, pool>>

(* A thread may send again once its send is over.                          *)
Over(t) == op[t].at = "pushed" /\ (op[t].told # <<>> \/ op[t].kind = "plain")
                               /\ ~Contains(inbox, E("send", t)) /\ ~Contains(queue, E("send", t))
                               /\ ~Contains(inbox, E("call", t))

Return(t) ==
    /\ Over(t)
    /\ op' = [op EXCEPT ![t] = NoSend]
    /\ UNCHANGED <<inbox, queue, writing, up, down, life, life_id, pool>>

(* The environment: start() on a stopped pool ...                          *)
Start ==
    /\ pool = "off" /\ pool' = "on"
    /\ inbox' = Append(inbox, E("connect", Client))
    /\ UNCHANGED <<op, queue, writing, up, down, life, life_id>>

(* ... or on a client that was stopped in a callback; and stop(), which    *)
(* posts its event.                                                        *)
Again ==
    /\ pool = "on" /\ down /\ inbox = <<>> /\ queue = <<>>
    /\ inbox' = Append(inbox, E("connect", Client))
    /\ UNCHANGED <<op, queue, writing, up, down, life, life_id, pool>>

Stop ==
    /\ pool = "on" /\ ~down /\ life < MaxLife
    /\ \A q \in {inbox, queue} : ~Contains(q, E("stop", Client))
    /\ inbox' = Append(inbox, E("stop", Client))
    /\ UNCHANGED <<op, queue, writing, up, down, life, life_id, pool>>

(* Mutant: the calls under way are not waited for.                         *)
StopPool_NoPending ==
    /\ pool = "on" /\ down
    /\ pool' = "drain"
    /\ UNCHANGED <<op, inbox, queue, writing, up, down, life, life_id>>

(* wait_for_io_context_stopped: first "all pending events completed".      *)
StopPool ==
    /\ pool = "on" /\ down
    /\ Threads("begun") = {}
    /\ pool' = "drain"
    /\ UNCHANGED <<op, inbox, queue, writing, up, down, life, life_id>>

RunReturns ==
    /\ pool = "drain" /\ inbox = <<>> /\ queue = <<>>
    /\ pool' = "off"
    /\ UNCHANGED <<op, inbox, queue, writing, up, down, life, life_id>>

-----------------------------------------------------------------------------
(* The io_context's thread.                                                *)
Running(e) == pool # "off" /\ queue # <<>> /\ ~writing /\ Head(queue).e = e
Told(t, r) == [op EXCEPT ![t].told = Append(@, r)]

(* push_event's handler: the event runs at once if it is the only one.     *)
RunPosted ==
    /\ pool # "off" /\ inbox # <<>> /\ Head(inbox).e # "call"
    /\ inbox' = Tail(inbox) /\ queue' = Append(queue, Head(inbox))
    /\ UNCHANGED <<op, writing, up, down, life, life_id, pool>>

(* _send_cp_invoke_callback's handler.                                     *)
RunCallback ==
    /\ pool # "off" /\ inbox # <<>> /\ Head(inbox).e = "call"
    /\ inbox' = Tail(inbox)
    /\ op' = Told(Head(inbox).t, "failed")
    /\ UNCHANGED <<queue, writing, up, down, life, life_id, pool>>

Wanted(t) == op[t].id = life_id

(* Mutant: the life in which the data was submitted is not compared.       *)
RunSend_AnyLife ==
    /\ Running("send")
    /\ up
    /\ writing' = TRUE
    /\ op' = [op EXCEPT ![Head(queue).t].wrote = life]
    /\ UNCHANGED <<inbox, queue, up, down, life, life_id, pool>>

RunSend ==
    /\ Running("send")
    /\ up /\ Wanted(Head(queue).t)
    /\ writing' = TRUE
    /\ op' = [op EXCEPT ![Head(queue).t].wrote = life]
    /\ UNCHANGED <<inbox, queue, up, down, life, life_id, pool>>

(* Mutant: the promise is left alone.                                      *)
Refused_NoPromise(t) ==
    IF op[t].kind = "callback" THEN op' = op /\ inbox' = Append(inbox, E("call", t))
    ELSE op' = op /\ inbox' = inbox

(* not_connected, or operation_aborted.                                    *)
Refused(t) ==
    CASE op[t].kind = "callback" -> op' = op /\ inbox' = Append(inbox, E("call", t))
      [] op[t].kind \in {"future", "send"} -> op' = Told(t, "failed") /\ inbox' = inbox
      [] op[t].kind = "plain" -> op' = op /\ inbox' = inbox

RunRefuse ==
    /\ Running("send")
    /\ ~(up /\ Wanted(Head(queue).t))
    /\ Refused(Head(queue).t)
    /\ queue' = Tail(queue)
    /\ UNCHANGED <<writing, up, down, life, life_id, pool>>

(* Mutant: the callback is called after the event's guard is gone.         *)
WriteDone_Twice(ok) ==
    /\ writing
    /\ writing' = FALSE
    /\ op' = IF op[Head(queue).t].kind = "plain" THEN op
             ELSE IF ok THEN Told(Head(queue).t, "sent") ELSE Told(Head(queue).t, "failed")
    /\ up' = (up /\ ok)
    /\ queue' = IF ok THEN Tail(queue) ELSE queue
    /\ UNCHANGED <<inbox, down, life, life_id, pool>>

(* The write completes: the callback, then, after an error, the disconnect *)
(* (here at once), then the guard with the handler.                        *)
WriteDone(ok) ==
    /\ writing
    /\ writing' = FALSE
    /\ op' = IF op[Head(queue).t].kind = "plain" THEN op
             ELSE IF ok THEN Told(Head(queue).t, "sent") ELSE Told(Head(queue).t, "failed")
    /\ up' = (up /\ ok)
    /\ queue' = Tail(queue)
    /\ UNCHANGED <<inbox, down, life, life_id, pool>>

RunConnect ==
    /\ Running("connect")
    /\ up' \in BOOLEAN /\ down' = FALSE
    /\ queue' = Tail(queue)
    /\ UNCHANGED <<op, inbox, writing, life, life_id, pool>>

(* The connection is lost, and the reconnect timer brings it back.         *)
Lost == up /\ ~writing /\ up' = FALSE /\ UNCHANGED <<op, inbox, queue, writing, down, life, life_id, pool>>
Reconnect ==
    /\ ~up /\ ~down /\ queue = <<>> /\ pool = "on"
    /\ up' = TRUE
    /\ UNCHANGED <<op, inbox, queue, writing, down, life, life_id, pool>>

(* Mutant: the life goes on after a stop.                                  *)
RunStop_SameLife ==
    /\ Running("stop")
    /\ queue' = Tail(queue)
    /\ up' = FALSE /\ down' = TRUE
    /\ life' = life + 1
    /\ UNCHANGED <<op, inbox, writing, life_id, pool>>

(* client_impl_t::stop: the new id is allocated before the old one is freed.*)
RunStop ==
    /\ Running("stop")
    /\ queue' = Tail(queue)
    /\ up' = FALSE /\ down' = TRUE
    /\ life' = life + 1
    /\ life_id' \in Addr \ {life_id}
    /\ Reuse \/ \A t \in Thread : op[t].at # "none" => op[t].id # life_id'
    /\ UNCHANGED <<op, inbox, writing, pool>>

IoNext ==
    \/ RunPosted \/ RunCallback \/ RunSend \/ RunRefuse \/ RunConnect \/ RunStop
    \/ \E ok \in BOOLEAN : WriteDone(ok)

Next ==
    \/ \E t \in Thread : Push(t) \/ Return(t) \/ \E kind \in Kind : Begin(t, kind)
    \/ Start \/ Again \/ Stop \/ StopPool \/ RunReturns
    \/ IoNext \/ Lost \/ Reconnect

Spec == Init /\ [][Next]_vars

-----------------------------------------------------------------------------
TypeOK ==
    /\ op \in [Thread -> [at : {"none", "begun", "pushed"}, kind : Kind, id : Addr,
                          born : 0..MaxLife, wrote : 0..MaxLife, told : Seq({"sent", "failed"})]]
    /\ inbox \in Seq([e : {"send", "connect", "stop", "call"}, t : Thread \cup {Client}])
    /\ queue \in Seq([e : {"send", "connect", "stop"}, t : Thread \cup {Client}])
    /\ writing \in BOOLEAN /\ up \in BOOLEAN /\ down \in BOOLEAN
    /\ life \in 1..MaxLife /\ life_id \in Addr /\ pool \in {"on", "drain", "off"}

(* Nothing submitted in one life of the client is written to a connection  *)
(* of a later one.                                                         *)
SentInItsLife == \A t \in Thread : op[t].wrote \in {0, op[t].born}

(* The future is set once, the callback is called once.                    *)
ToldOnce == \A t \in Thread : Len(op[t].told) <= 1

(* Who waits for an answer has not been forgotten: the send is in the      *)
(* inbox or in the queue, or its callback is posted.                       *)
NotForgotten ==
    \A t \in Thread : op[t].at = "pushed" /\ op[t].kind # "plain" /\ op[t].told = <<>> =>
       Contains(inbox, E("send", t)) \/ Contains(queue, E("send", t)) \/ Contains(inbox, E("call", t))

(* A send that was begun in a running client is answered: "use this guard  *)
(* to fix" the event that would be pushed into a stopped io_context.       *)
NotStranded ==
    \A t \in Thread : pool = "off" /\ Contains(inbox, E("send", t)) => op[t].born = life
=============================================================================
