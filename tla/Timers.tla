--------------------------------- MODULE Timers ---------------------------------
(***************************************************************************)
(* asio2::timer: user timers (user_timer_cp), delayed tasks (post_cp) and  *)
(* condition events (condition_event_cp) on one io_context, and stop(),    *)
(* which has to see all of them end.  Everything is posted to the          *)
(* io_context, whose handlers run in order; a wait that ends, because its  *)
(* time has come or because it is cancelled, queues its handler there too. *)
(* A wait that has ended cannot be cancelled any more.                     *)
(***************************************************************************)
EXTENDS Naturals, Sequences, FiniteSets, SequencesExt

CONSTANTS Id,         \* the ids of user timers
          MaxObj,     \* bound: timers, tasks and events at a time
          LateCalls   \* bound: calls by the program while the timer is being stopped

Obj == 1..MaxObj
None == 0
Forever == 2          \* repeat: once, or -1 for ever

VARIABLES inbox,        \* the handlers that are ready to run
          obj,          \* the asio timers, see Dead
          user_timers,  \* user_timers[i]: the timer with id i
          timers,       \* io_t::timers_
          registered,   \* io_t::objects_ holds the timer, and a work guard
          guard,        \* the pool's work guard
          pc,           \* the thread in stop(): "idle", "wait", "done"
          late          \* the calls the program may still make once stop() is called

vars == <<inbox, obj, user_timers, timers, registered, guard, pc, late>>
timerVars == <<user_timers, timers, registered>>

(* kind: what the asio timer is for.  at: "new" (a condition event whose   *)
(* wait has not begun), "armed", "queued" (the wait has ended) or "dead".  *)
(* notified: notify() has been called for it.                              *)
Dead == [kind |-> "none", id |-> None, repeat |-> 0, exited |-> FALSE, at |-> "dead",
         notified |-> FALSE]

H(h, x, n) == [h |-> h, x |-> x, n |-> n]
Fired(o) == H("fired", o, 0)     \* with no error
Aborted(o) == H("aborted", o, 0) \* operation_aborted

Init ==
    /\ inbox = <<>> /\ obj = [o \in Obj |-> Dead]
    /\ user_timers = [i \in Id |-> None] /\ timers = {}
    /\ registered = TRUE /\ guard = TRUE /\ pc = "idle" /\ late = LateCalls

-----------------------------------------------------------------------------
(* The calls, by any thread or callback: each posts a handler.             *)

(* The io_context has run out of work, and so is stopped.                  *)
Stopped ==
    /\ inbox = <<>> /\ ~guard /\ ~registered
    /\ \A o \in Obj : obj[o].at # "armed"

MayCall ==
    \/ pc = "idle" /\ UNCHANGED late
    \/ pc = "wait" /\ ~Stopped /\ late > 0 /\ late' = late - 1

Free == {o \in Obj : obj[o] = Dead /\ \A k \in DOMAIN inbox : inbox[k] # H("notify", o, 0)}
Coming == Cardinality({k \in DOMAIN inbox : inbox[k].h \in {"start", "task"}})

Post(h) ==
    /\ MayCall
    /\ inbox' = Append(inbox, h)
    /\ UNCHANGED <<obj, timerVars, guard, pc>>

start_timer(i, repeat) == Cardinality(Free) > Coming /\ Post(H("start", i, repeat))
stop_timer(i) == ~Contains(inbox, H("stop", i, 0)) /\ Post(H("stop", i, 0))
post_delayed == Cardinality(Free) > Coming /\ Post(H("task", None, 0))

post_condition_event ==
    /\ MayCall /\ Cardinality(Free) > Coming
    /\ LET o == CHOOSE o \in Free : TRUE IN
       /\ obj' = [obj EXCEPT ![o] = [Dead EXCEPT !.kind = "event", !.at = "new"]]
       /\ inbox' = Append(inbox, H("event", o, 0))
    /\ UNCHANGED <<timerVars, guard, pc>>

(* event_life_flag_ is set while the wait goes on and its handler has not  *)
(* begun.                                                                  *)
notify(o) ==
    /\ MayCall
    /\ obj[o].kind = "event" /\ ~obj[o].notified
    /\ obj' = [obj EXCEPT ![o].notified = TRUE]
    /\ inbox' = IF obj[o].at \in {"armed", "queued"} THEN Append(inbox, H("notify", o, 0)) ELSE inbox
    /\ UNCHANGED <<timerVars, guard, pc>>

(* Mutant: the timers are not stopped.                                     *)
StopHandlers_NoTimers ==
    <<H("unreg", None, 0), H("stop_tasks", None, 0), H("notify_all", None, 0)>>

(* timer_impl_t::stop, up to the wait for the io_context.                  *)
StopHandlers == <<H("unreg", None, 0), H("stop_all", None, 0),
                  H("stop_tasks", None, 0), H("notify_all", None, 0)>>

Stop ==
    /\ pc = "idle"
    /\ pc' = "wait"
    /\ guard' = FALSE
    /\ inbox' = inbox \o StopHandlers
    /\ UNCHANGED <<obj, timerVars, late>>

(* wait_for_io_context_stopped posts io_t::cancel again and again.         *)
CancelAll ==
    /\ pc = "wait" /\ ~Stopped
    /\ ~Contains(inbox, H("cancel", None, 0))
    /\ inbox' = Append(inbox, H("cancel", None, 0))
    /\ UNCHANGED <<obj, timerVars, guard, pc, late>>

StopReturns ==
    /\ pc = "wait" /\ Stopped
    /\ pc' = "done"
    /\ UNCHANGED <<inbox, obj, timerVars, guard, late>>

-----------------------------------------------------------------------------
(* The io_context's thread.                                                *)

(* Cancelling the waits of os.                                             *)
Armed(os) == {o \in os : obj[o].at = "armed"}
Ended(os) == [o \in Obj |-> IF o \in Armed(os) THEN [obj[o] EXCEPT !.at = "queued"] ELSE obj[o]]
AbortedHandlers(os) == SetToSeq({Aborted(o) : o \in Armed(os)})

Runs(h, x) == inbox # <<>> /\ Head(inbox).h = h /\ Head(inbox).x = x

(* Mutant: the timer that had the id is cancelled, but not marked.         *)
RunStart_NotMarked(i) ==
    /\ Runs("start", i)
    /\ LET old == {user_timers[i]} \ {None}
           o == CHOOSE o \in Free : TRUE IN
       /\ obj' = [p \in Obj |->
                    IF p = o THEN [Dead EXCEPT !.kind = "timer", !.id = i, !.at = "armed",
                                               !.repeat = Head(inbox).n]
                    ELSE Ended(old)[p]]
       /\ inbox' = Tail(inbox) \o AbortedHandlers(old)
       /\ user_timers' = [user_timers EXCEPT ![i] = o]
       /\ timers' = timers \cup {o}
    /\ UNCHANGED <<registered, guard, pc, late>>

(* start_timer: "that timer will be forced to canceled".                   *)
RunStart(i) ==
    /\ Runs("start", i)
    /\ LET old == {user_timers[i]} \ {None}
           o == CHOOSE o \in Free : TRUE IN
       /\ obj' = [p \in Obj |->
                    IF p = o THEN [Dead EXCEPT !.kind = "timer", !.id = i, !.at = "armed",
                                               !.repeat = Head(inbox).n]
                    ELSE IF p \in old THEN [Ended(old)[p] EXCEPT !.exited = TRUE]
                    ELSE obj[p]]
       /\ inbox' = Tail(inbox) \o AbortedHandlers(old)
       /\ user_timers' = [user_timers EXCEPT ![i] = o]
       /\ timers' = timers \cup {o}
    /\ UNCHANGED <<registered, guard, pc, late>>

StopTimers(is) ==
    LET os == {user_timers[i] : i \in is} \ {None} IN
    /\ obj' = [p \in Obj |-> IF p \in os THEN [Ended(os)[p] EXCEPT !.exited = TRUE] ELSE obj[p]]
    /\ inbox' = Tail(inbox) \o AbortedHandlers(os)
    /\ user_timers' = [i \in Id |-> IF i \in is THEN None ELSE user_timers[i]]
    /\ UNCHANGED <<timers, registered, guard, pc, late>>

RunStop(i) == Runs("stop", i) /\ StopTimers({i})
RunStopAll == Runs("stop_all", None) /\ StopTimers(Id)

(* post with a delay.                                                      *)
RunTask ==
    /\ Runs("task", None)
    /\ LET o == CHOOSE o \in Free : TRUE IN
       /\ obj' = [obj EXCEPT ![o] = [Dead EXCEPT !.kind = "task", !.at = "armed", !.repeat = 1]]
       /\ timers' = timers \cup {o}
    /\ inbox' = Tail(inbox)
    /\ UNCHANGED <<user_timers, registered, guard, pc, late>>

RunEvent(o) ==
    /\ Runs("event", o)
    /\ obj' = [obj EXCEPT ![o].at = "armed"]
    /\ timers' = timers \cup {o}
    /\ inbox' = Tail(inbox)
    /\ UNCHANGED <<user_timers, registered, guard, pc, late>>

(* Waits are cancelled: all tasks, or events, or one event.                *)
Cancel(os) ==
    /\ obj' = Ended(os)
    /\ inbox' = Tail(inbox) \o AbortedHandlers(os)
    /\ UNCHANGED <<timerVars, guard, pc, late>>

RunStopTasks == Runs("stop_tasks", None) /\ Cancel({o \in Obj : obj[o].kind = "task"})
RunNotify(o) == Runs("notify", o) /\ Cancel({o})

(* notify() on the io_context's own thread is carried out at once.         *)
RunNotifyAll == Runs("notify_all", None) /\ Cancel({o \in Obj : obj[o].kind = "event"})

RunUnreg ==
    /\ Runs("unreg", None)
    /\ inbox' = Tail(inbox)
    /\ registered' = FALSE
    /\ UNCHANGED <<obj, user_timers, timers, guard, pc, late>>

(* io_t::cancel.                                                           *)
RunCancel ==
    /\ Runs("cancel", None)
    /\ obj' = Ended(timers)
    /\ inbox' = Tail(inbox) \o AbortedHandlers(timers)
    /\ timers' = {}
    /\ registered' = FALSE
    /\ UNCHANGED <<user_timers, guard, pc, late>>

-----------------------------------------------------------------------------
(* The time of a timer or a task has come.                                 *)
Expire(o) ==
    /\ obj[o].at = "armed" /\ obj[o].kind \in {"timer", "task"}
    /\ obj' = [obj EXCEPT ![o].at = "queued"]
    /\ inbox' = Append(inbox, Fired(o))
    /\ UNCHANGED <<timerVars, guard, pc, late>>

HandlerOf(o) == Runs("fired", o) \/ Runs("aborted", o)
Left(o) == IF obj[o].repeat = Forever THEN Forever ELSE obj[o].repeat - 1

(* Mutant: whether the timer has been stopped meanwhile is not asked.      *)
Again_NotAsked(o) == Runs("fired", o) /\ obj[o].kind = "timer" /\ Left(o) # 0

(* Does the timer go on after its handler?                                 *)
Again(o) == Runs("fired", o) /\ obj[o].kind = "timer" /\ Left(o) # 0 /\ ~obj[o].exited

(* _handle_user_timers, after its callback: the timer goes on ...          *)
TimerAgain(o) ==
    /\ HandlerOf(o) /\ Again(o)
    /\ inbox' = Tail(inbox)
    /\ obj' = [obj EXCEPT ![o].at = "armed", ![o].repeat = Left(o)]
    /\ UNCHANGED <<timerVars, guard, pc, late>>

(* ... or is done with, as a task or an event is after its one handler.    *)
WaitDone(o) ==
    /\ HandlerOf(o) /\ ~Again(o)
    /\ inbox' = Tail(inbox)
    /\ obj' = [p \in Obj |->
                 IF p = o THEN Dead
                 ELSE IF obj[o].kind = "timer" /\ ~obj[o].exited /\ p = user_timers[obj[o].id]
                      THEN [obj[p] EXCEPT !.exited = TRUE]
                      ELSE obj[p]]
    /\ timers' = timers \ {o}
    /\ user_timers' = IF obj[o].kind = "timer" /\ ~obj[o].exited
                      THEN [user_timers EXCEPT ![obj[o].id] = None] ELSE user_timers
    /\ UNCHANGED <<registered, guard, pc, late>>

IoNext ==
    \/ \E i \in Id : RunStart(i) \/ RunStop(i)
    \/ \E o \in Obj : RunEvent(o) \/ RunNotify(o) \/ TimerAgain(o) \/ WaitDone(o)
    \/ RunStopAll \/ RunTask \/ RunStopTasks \/ RunNotifyAll \/ RunUnreg \/ RunCancel

Next ==
    \/ \E i \in Id : stop_timer(i) \/ \E n \in {1, Forever} : start_timer(i, n)
    \/ post_delayed \/ post_condition_event \/ \E o \in Obj : notify(o)
    \/ Stop \/ CancelAll \/ StopReturns
    \/ IoNext
    \/ \E o \in Obj : Expire(o)

(* The io_context runs its handlers, stop() goes on.  Nothing is assumed   *)
(* of when a timer expires.                                                *)
Fairness == WF_vars(IoNext) /\ WF_vars(CancelAll) /\ WF_vars(StopReturns)

Spec == Init /\ [][Next]_vars /\ Fairness

-----------------------------------------------------------------------------
TypeOK ==
    /\ inbox \in Seq([h : {"start", "stop", "stop_all", "task", "stop_tasks", "event", "notify",
                           "notify_all", "unreg", "cancel", "fired", "aborted"},
                      x : Id \cup Obj \cup {None}, n : 0..Forever])
    /\ obj \in [Obj -> [kind : {"none", "timer", "task", "event"}, id : Id \cup {None},
                        repeat : 0..Forever, exited : BOOLEAN, notified : BOOLEAN,
                        at : {"new", "armed", "queued", "dead"}]]
    /\ user_timers \in [Id -> Obj \cup {None}] /\ timers \subseteq Obj
    /\ {registered, guard} \subseteq BOOLEAN /\ pc \in {"idle", "wait", "done"} /\ late \in 0..LateCalls

(* A timer that still goes on is the one user_timers_ has under its id,    *)
(* and the map has no other: it can be stopped.                            *)
CanBeStopped ==
    /\ \A o \in Obj : obj[o].kind = "timer" /\ ~obj[o].exited => user_timers[obj[o].id] = o
    /\ \A i \in Id : user_timers[i] # None => obj[user_timers[i]].kind = "timer"

(* A timer that has been stopped or replaced is not set again.             *)
StoppedIsNotSet == \A o \in Obj : obj[o].exited => obj[o].at # "armed"

(* stop() returns, so that every wait, also one for an event that nobody   *)
(* notifies, comes to an end: "nobody has a chance to cancel it, and this  *)
(* will cause ... blocked forever" is what timers_ is there to prevent.    *)
StopEnds == pc = "wait" ~> pc = "done"

(* "must use dispatch, otherwise if use called post_condition_event, and   *)
(* then called notify() immediately, the event will can't be notifyed": an *)
(* event that has been notified does not go on waiting.                    *)
NotifyIsKept ==
    \A o \in Obj : obj[o].notified /\ obj[o].at = "armed" => Contains(inbox, H("notify", o, 0))
=============================================================================
