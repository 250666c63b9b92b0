------------------------------ MODULE EventQueue ------------------------------
(***************************************************************************)
(* asio2's event_queue_cp: the queue of callbacks every client, session    *)
(* and server of the program runs its life cycle through.  An event is     *)
(* executed with an event_queue_guard; whoever destroys the valid guard    *)
(* pops the front of the queue and passes the guard on to the new front.   *)
(*                                                                         *)
(* One io_context thread runs the handlers; the threads of User are the    *)
(* others.  An event that completes inside its callback is a start step    *)
(* followed at once by a Destroy step; one that hands its guard to an      *)
(* asynchronous operation has other steps in between.                      *)
(*                                                                         *)
(* disp_event adds no step of its own: with a valid guard f runs inside    *)
(* the event that owns the guard, with an invalid one it is push_event.    *)
(***************************************************************************)
EXTENDS Naturals, Sequences, FiniteSets

CONSTANTS Event,    \* the events ever submitted, each one once
          User      \* the threads other than the io_context's

ASSUME EventAssumption == IsFiniteSet(Event)

Io == "io"
Thread == User \cup {Io}

VARIABLES
    inbox,      \* handlers posted to the io_context and not run yet, in order
    events,     \* events_: the std::queue of callbacks
    running,    \* events whose callback owns a valid event_queue_guard
    order,      \* history: <<thread, call, event>> in the order of the calls
    started     \* history: the events in the order their callbacks began

vars == <<inbox, events, running, order, started>>

PostedEvent(e) == [kind |-> "enqueue", ev |-> e]
PostedNext(e) == [kind |-> "next", ev |-> e]
Handler    == [kind : {"enqueue", "next"}, ev : Event]

Submitted == {order[i][3] : i \in DOMAIN order}

Init ==
    /\ inbox = <<>>
    /\ events = <<>>
    /\ running = {}
    /\ order = <<>>
    /\ started = <<>>

(* The callback f begins, with a new guard or with the one passed on. *)
Begin(e) ==
    /\ running' = running \cup {e}
    /\ started' = Append(started, e)

(* Mutant: the callback is run without looking whether the queue was empty.*)
Emplace_NoEmptyTest(e) ==
    /\ events' = Append(events, e)
    /\ Begin(e)

(* The body both ways of enqueuing share: append, and run at once the      *)
(* front with a new guard if the queue was empty.                          *)
Emplace(e) ==
    /\ events' = Append(events, e)
    /\ IF events = <<>> THEN Begin(e) ELSE UNCHANGED <<running, started>>

(* Mutant: the front is popped and the guard dropped with it.              *)
PopAndPassOn_GuardDropped(e) ==
    /\ events # <<>>
    /\ events' = Tail(events)
    /\ running' = running \ {e}
    /\ UNCHANGED started

(* events_.pop(), then the new front runs with the guard that is passed on;*)
(* when there is none the guard is made invalid.                           *)
PopAndPassOn(e) ==
    /\ events # <<>>
    /\ events' = Tail(events)
    /\ IF Tail(events) # <<>>
       THEN /\ running' = (running \ {e}) \cup {Head(Tail(events))}
            /\ started' = Append(started, Head(Tail(events)))
       ELSE /\ running' = running \ {e}
            /\ UNCHANGED started

(* push_event on the io_context's thread: no post.                         *)
PushHere(e) ==
    /\ e \notin Submitted
    /\ order' = Append(order, <<Io, "push", e>>)
    /\ Emplace(e)
    /\ UNCHANGED inbox

(* Mutant: post_event takes push_event's short cut on an idle queue.       *)
PostFrom_ShortCut(t, call, e) ==
    /\ e \notin Submitted
    /\ t = Io => call = "post"
    /\ order' = Append(order, <<t, call, e>>)
    /\ IF t = Io /\ events = <<>>
       THEN Emplace(e) /\ UNCHANGED inbox
       ELSE inbox' = Append(inbox, PostedEvent(e)) /\ UNCHANGED <<events, running, started>>

(* Mutant: the callback itself is posted, not the handler enqueuing it.    *)
PostFrom_BareCallback(t, call, e) ==
    /\ e \notin Submitted
    /\ t = Io => call = "post"
    /\ order' = Append(order, <<t, call, e>>)
    /\ inbox' = Append(inbox, e)
    /\ UNCHANGED <<events, running, started>>

(* push_event on another thread, and post_event on any thread.             *)
PostFrom(t, call, e) ==
    /\ e \notin Submitted
    /\ t = Io => call = "post"
    /\ order' = Append(order, <<t, call, e>>)
    /\ inbox' = Append(inbox, PostedEvent(e))
    /\ UNCHANGED <<events, running, started>>

(* The io_context runs the next posted handler.                            *)
RunEnqueue ==
    /\ inbox # <<>>
    /\ Head(inbox).kind = "enqueue"
    /\ inbox' = Tail(inbox)
    /\ Emplace(Head(inbox).ev)
    /\ UNCHANGED order

RunNext ==
    /\ inbox # <<>>
    /\ Head(inbox).kind = "next"
    /\ inbox' = Tail(inbox)
    /\ PopAndPassOn(Head(inbox).ev)
    /\ UNCHANGED order

(* ~event_queue_guard of a valid guard, on the io_context's thread.        *)
DestroyHere(e) ==
    /\ e \in running
    /\ PopAndPassOn(e)
    /\ UNCHANGED <<inbox, order>>

(* Mutant: off the io thread the guard just dies.                          *)
DestroyElsewhere_NoPost(e) ==
    /\ e \in running
    /\ running' = running \ {e}
    /\ UNCHANGED <<inbox, events, order, started>>

(* ~event_queue_guard on another thread: next_event posts itself, and the  *)
(* guard travels with the posted handler.                                  *)
DestroyElsewhere(e) ==
    /\ e \in running
    /\ inbox' = Append(inbox, PostedNext(e))
    /\ running' = running \ {e}
    /\ UNCHANGED <<events, order, started>>

Next ==
    \/ \E e \in Event : PushHere(e)
    \/ \E t \in Thread, call \in {"push", "post"}, e \in Event : PostFrom(t, call, e)
    \/ RunEnqueue
    \/ RunNext
    \/ \E e \in Event : DestroyHere(e)
    \/ \E e \in Event : DestroyElsewhere(e)

(* The io_context runs what is posted to it, and every guard is destroyed  *)
(* in the end.                                                             *)
Fairness ==
    /\ WF_vars(RunEnqueue)
    /\ WF_vars(RunNext)
    /\ \A e \in Event : WF_vars(DestroyHere(e) \/ DestroyElsewhere(e))

Spec == Init /\ [][Next]_vars /\ Fairness

-----------------------------------------------------------------------------
TypeOK ==
    /\ inbox \in Seq(Handler)
    /\ events \in Seq(Event)
    /\ running \subseteq Event
    /\ order \in Seq(Thread \X {"push", "post"} \X Event)
    /\ started \in Seq(Event)

(* Events are executed one after the other: only the front of the queue    *)
(* ever owns a guard, so no event starts while another one, or a step it   *)
(* left to an asynchronous operation, is unfinished.                       *)
OneAtATime ==
    \A e \in running : events # <<>> /\ e = Head(events)

(* No lost wake-up: while the queue is not empty a guard is alive, held by *)
(* a callback or on its way in a posted next_event (otherwise nobody would *)
(* ever run the rest of the queue).                                        *)
QueueIsDriven ==
    events # <<>> =>
        \/ running # {}
        \/ \E i \in DOMAIN inbox : inbox[i].kind = "next"

Position(s, e) == CHOOSE i \in DOMAIN s : s[i] = e
Began(e) == \E i \in DOMAIN started : started[i] = e

(* What one thread submits with one of the two calls is executed in the    *)
(* order of its calls.  (Across the calls, and across threads, it is not:  *)
(* a push on the io thread overtakes what was posted before it.)           *)
CallOrder ==
    \A i, j \in DOMAIN order :
        (/\ i < j
         /\ order[i][1] = order[j][1]
         /\ order[i][2] = order[j][2]
         /\ Began(order[j][3]))
            => /\ Began(order[i][3])
               /\ Position(started, order[i][3]) < Position(started, order[j][3])

(* Every submitted event is executed in the end.                           *)
EveryEventRuns == \A e \in Event : e \in Submitted ~> Began(e)
=============================================================================
