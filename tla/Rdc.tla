--------------------------------- MODULE Rdc ---------------------------------
(***************************************************************************)
(* The remote data call of asio2 (rdc_call_cp.hpp, rdc_option.hpp,         *)
(* rdc_invoker.hpp) on one tcp_client: a call is posted to the io thread,  *)
(* entered in the multimap of requests under the id that the user's parser *)
(* finds in it, given a timer, and sent through the event queue.  It ends  *)
(* by a received message with its id, its timer, a failed send, or         *)
(* _rdc_stop, which every disconnect runs.                                 *)
(*                                                                         *)
(* The timer, the failed send and the stale send end a call by way of its  *)
(* id: execute_and_erase takes the first request with that id.             *)
(***************************************************************************)
EXTENDS Integers, Sequences, SequencesExt

CONSTANTS
    Call_,          \* the calls the application makes, each at most once
    SameId,         \* calls in whose data the send parser finds one and the same id
    SyncCall,       \* those made by call(): their thread waits
    MaxLife,        \* bound: starts of the client
    KeyMoved,       \* the id is of a type whose moved-from value is another (std::string)
    Careful         \* the application has at most one call with an id under way

VARIABLES
    life,           \* counts the starts: stands for ecs_ and for life_id_
    started,        \* is_started()
    hasEcs,         \* ecs_ is set
    stage,          \* how far each call has come
    reqs,           \* rdc_reqs_: the requests in the order of their emplacement
    timer,          \* the timer of each call
    queue,          \* the event queue: sends, "stop" and "lost"; its head is executing
    born,           \* the life in which a call was entered
    answers,        \* the errors each call's callback was called with
    waiter,         \* the thread of a synchronous call
    written,        \* sends: the call and the life they were written in
    dangling        \* a destroyed option was used

vars == <<life, started, hasEcs, stage, reqs, timer, queue, born, answers, waiter,
          written, dangling>>

None == "none"
IdOf(c) == IF c \in SameId THEN "shared" ELSE c
Stages == {"idle", "posted", "refused", "entered", "writing", "over"}
Errors == {"ok", "timed_out", "aborted", "not_connected"}

Init ==
    /\ life = 1 /\ started = TRUE /\ hasEcs = TRUE
    /\ stage = [c \in Call_ |-> "idle"]
    /\ reqs = <<>>
    /\ timer = [c \in Call_ |-> None]
    /\ queue = <<>>
    /\ born = [c \in Call_ |-> 0]
    /\ answers = [c \in Call_ |-> <<>>]
    /\ waiter = [c \in Call_ |-> None]
    /\ written = {} /\ dangling = FALSE

(* find: the first of the requests with this id. *)
Found(c) == { i \in DOMAIN reqs : IdOf(reqs[i]) = IdOf(c)
                                  /\ \A j \in 1 .. i - 1 : IdOf(reqs[j]) # IdOf(c) }
Cancelled(t) == IF t = "armed" THEN None ELSE t

(* Mutant: the callback is invoked, the request stays in the multimap. *)
Answer_NoErase(i, ec) ==
    /\ answers' = [answers EXCEPT ![reqs[i]] = Append(@, ec)]
    /\ timer' = [timer EXCEPT ![reqs[i]] = Cancelled(@)]
    /\ reqs' = reqs
(* cancel_timer, the callback, erase.  A timer that has already expired    *)
(* still runs its handler, and not with operation_aborted.                 *)
Answer(i, ec) ==
    /\ answers' = [answers EXCEPT ![reqs[i]] = Append(@, ec)]
    /\ timer' = [timer EXCEPT ![reqs[i]] = Cancelled(@)]
    /\ reqs' = RemoveAt(reqs, i)

(* `ex`: end by id, in the option that was current when c was entered.     *)
(* `id` was moved into the multimap before it was captured.                *)
Ex(c) ==
    \/ /\ ~hasEcs \/ born[c] # life
       /\ dangling' = TRUE /\ UNCHANGED <<answers, reqs>>
    \/ /\ hasEcs /\ born[c] = life /\ UNCHANGED dangling
       /\ IF KeyMoved \/ Found(c) = {} THEN UNCHANGED <<answers, reqs>>
          ELSE \E i \in Found(c) : /\ answers' = [answers EXCEPT ![reqs[i]] = Append(@, "timed_out")]
                                   /\ reqs' = RemoveAt(reqs, i)
(* The timers that are left when `ex` of c has run, c's own being t. *)
TimersAfterEx(c, t) ==
    [d \in Call_ |->
        IF hasEcs /\ born[c] = life /\ ~KeyMoved /\ \E i \in Found(c) : reqs[i] = d
        THEN Cancelled(IF d = c THEN t ELSE timer[d])
        ELSE IF d = c THEN t ELSE timer[d]]

-----------------------------------------------------------------------------
(* The calling threads *)

Outstanding(c) == stage[c] \in {"posted", "entered", "writing"} \/ (stage[c] # "idle" /\ answers[c] = <<>>)

(* call and async_call: refused by posting the callback when not started. *)
Call(c) ==
    /\ stage[c] = "idle"
    /\ Careful => \A d \in Call_ : IdOf(d) = IdOf(c) => ~Outstanding(d)
    /\ stage' = [stage EXCEPT ![c] = IF started THEN "posted"
                                     ELSE IF c \in SyncCall THEN "over" ELSE "refused"]
    /\ waiter' = [waiter EXCEPT ![c] = IF c \notin SyncCall THEN None
                                       ELSE IF started THEN "waiting" ELSE "returned"]
    /\ answers' = [answers EXCEPT ![c] = IF ~started /\ c \in SyncCall THEN <<"not_connected">> ELSE @]
    /\ UNCHANGED <<life, started, hasEcs, reqs, timer, queue, born, written, dangling>>

(* wait_for returns: the promise was set, or the same timeout has passed   *)
(* on this thread, which began to count before the request's timer did.    *)
Return(c) ==
    /\ waiter[c] = "waiting"
    /\ waiter' = [waiter EXCEPT ![c] = "returned"]
    /\ UNCHANGED <<life, started, hasEcs, stage, reqs, timer, queue, born, answers, written, dangling>>

(* stop(): its event is pushed once; start() after it begins a new life.   *)
Stop ==
    /\ hasEcs /\ "stop" \notin ToSet(queue)
    /\ queue' = Append(queue, "stop")
    /\ UNCHANGED <<life, started, hasEcs, stage, reqs, timer, born, answers, waiter, written, dangling>>

Start ==
    /\ ~hasEcs /\ life < MaxLife
    /\ life' = life + 1 /\ hasEcs' = TRUE /\ started' = TRUE
    /\ UNCHANGED <<stage, reqs, timer, queue, born, answers, waiter, written, dangling>>

(* The connection fails, and is there again after _do_start. *)
Lose ==
    /\ started /\ queue = <<>>
    /\ queue' = <<"lost">>
    /\ UNCHANGED <<life, started, hasEcs, stage, reqs, timer, born, answers, waiter, written, dangling>>

Reconnect ==
    /\ hasEcs /\ ~started /\ "stop" \notin ToSet(queue)
    /\ started' = TRUE
    /\ UNCHANGED <<life, hasEcs, stage, reqs, timer, queue, born, answers, waiter, written, dangling>>

-----------------------------------------------------------------------------
(* The io thread *)

RunRefused(c) ==
    /\ stage[c] = "refused"
    /\ stage' = [stage EXCEPT ![c] = "over"]
    /\ answers' = [answers EXCEPT ![c] = Append(@, "not_connected")]
    /\ UNCHANGED <<life, started, hasEcs, reqs, timer, queue, born, waiter, written, dangling>>

(* Mutant: a call that comes when the client is stopped is dropped. *)
RdcSend_Dropped(c) ==
    /\ stage[c] = "posted"
    /\ stage' = [stage EXCEPT ![c] = IF hasEcs THEN "entered" ELSE "over"]
    /\ reqs' = (IF hasEcs THEN Append(reqs, c) ELSE reqs)
    /\ timer' = [timer EXCEPT ![c] = IF hasEcs THEN "armed" ELSE None]
    /\ queue' = (IF hasEcs THEN Append(queue, c) ELSE queue)
    /\ born' = [born EXCEPT ![c] = life]
    /\ UNCHANGED <<life, started, hasEcs, answers, waiter, written, dangling>>
(* _rdc_send *)
RdcSend(c) ==
    /\ stage[c] = "posted"
    /\ \/ /\ ~hasEcs
          /\ answers' = [answers EXCEPT ![c] = Append(@, "aborted")]
          /\ stage' = [stage EXCEPT ![c] = "over"]
          /\ UNCHANGED <<reqs, timer, queue, born>>
       \/ /\ hasEcs
          /\ stage' = [stage EXCEPT ![c] = "entered"]
          /\ reqs' = Append(reqs, c)
          /\ timer' = [timer EXCEPT ![c] = "armed"]
          /\ queue' = Append(queue, c)
          /\ born' = [born EXCEPT ![c] = life]
          /\ UNCHANGED answers
    /\ UNCHANGED <<life, started, hasEcs, waiter, written, dangling>>

(* Mutant: the life is not looked at. *)
RunSend_AnyLife ==
    /\ queue # <<>> /\ Head(queue) \in Call_ /\ stage[Head(queue)] = "entered" /\ hasEcs
    /\ LET c == Head(queue) IN
         /\ stage' = [stage EXCEPT ![c] = "writing"]
         /\ written' = written \cup { <<c, life>> }
    /\ UNCHANGED <<life, started, hasEcs, reqs, timer, queue, born, answers, waiter, dangling>>
(* The event of a send: stale, or the write begins. *)
RunSend ==
    /\ queue # <<>> /\ Head(queue) \in Call_
    /\ LET c == Head(queue) IN
         /\ stage[c] = "entered"
         /\ \/ /\ born[c] # life \/ ~hasEcs
               /\ Ex(c) /\ timer' = TimersAfterEx(c, timer[c])
               /\ stage' = [stage EXCEPT ![c] = "over"] /\ queue' = Tail(queue)
               /\ UNCHANGED written
            \/ /\ born[c] = life /\ hasEcs
               /\ stage' = [stage EXCEPT ![c] = "writing"]
               /\ written' = (IF started THEN written \cup { <<c, life>> } ELSE written)
               /\ UNCHANGED <<timer, queue, answers, reqs, dangling>>
    /\ UNCHANGED <<life, started, hasEcs, born, waiter>>

WriteDone ==
    /\ queue # <<>> /\ Head(queue) \in Call_ /\ stage[Head(queue)] = "writing"
    /\ LET c == Head(queue) IN
         /\ stage' = [stage EXCEPT ![c] = "over"]
         /\ queue' = Tail(queue)
         /\ \/ started /\ UNCHANGED <<timer, answers, reqs, dangling>>
            \/ Ex(c) /\ timer' = TimersAfterEx(c, timer[c])
    /\ UNCHANGED <<life, started, hasEcs, born, waiter, written>>

Expire(c) ==
    /\ timer[c] = "armed"
    /\ timer' = [timer EXCEPT ![c] = "fired"]
    /\ UNCHANGED <<life, started, hasEcs, stage, reqs, queue, born, answers, waiter, written, dangling>>

RunTimer(c) ==
    /\ timer[c] = "fired"
    /\ Ex(c) /\ timer' = TimersAfterEx(c, None)
    /\ UNCHANGED <<life, started, hasEcs, stage, queue, born, waiter, written>>

(* _do_rdc_handle_recv: a message with the id of some call that was sent.  *)
Receive ==
    /\ started
    /\ \E w \in written :
         /\ w[2] = life
         /\ \E i \in Found(w[1]) : Answer(i, "ok")
    /\ UNCHANGED <<life, started, hasEcs, stage, queue, born, waiter, written, dangling>>

(* Mutant: the callbacks are called, the multimap is not cleared. *)
RdcStop_NotCleared ==
    /\ answers' = [c \in Call_ |-> IF c \in ToSet(reqs) THEN Append(answers[c], "aborted") ELSE answers[c]]
    /\ timer' = [c \in Call_ |-> IF c \in ToSet(reqs) THEN Cancelled(timer[c]) ELSE timer[c]]
    /\ UNCHANGED reqs
(* _rdc_stop: foreach_and_clear. *)
RdcStop ==
    /\ answers' = [c \in Call_ |-> IF c \in ToSet(reqs) THEN Append(answers[c], "aborted") ELSE answers[c]]
    /\ timer' = [c \in Call_ |-> IF c \in ToSet(reqs) THEN Cancelled(timer[c]) ELSE timer[c]]
    /\ reqs' = <<>>

(* _handle_disconnect, and for a stop also client_impl_t::stop. *)
Disconnect ==
    /\ queue # <<>> /\ Head(queue) \in {"stop", "lost"}
    /\ RdcStop
    /\ queue' = Tail(queue)
    /\ started' = FALSE
    /\ hasEcs' = (Head(queue) = "lost")
    /\ UNCHANGED <<life, stage, born, waiter, written, dangling>>

Next ==
    \/ \E c \in Call_ : Call(c) \/ Return(c) \/ RunRefused(c) \/ RdcSend(c) \/ Expire(c) \/ RunTimer(c)
    \/ Stop \/ Start \/ Lose \/ Reconnect
    \/ RunSend \/ WriteDone \/ Receive \/ Disconnect

Spec == Init /\ [][Next]_vars

-----------------------------------------------------------------------------
TypeOK ==
    /\ life \in 1 .. MaxLife /\ started \in BOOLEAN /\ hasEcs \in BOOLEAN
    /\ stage \in [Call_ -> Stages]
    /\ ToSet(reqs) \subseteq Call_
    /\ timer \in [Call_ -> {None, "armed", "fired"}]
    /\ ToSet(queue) \subseteq Call_ \cup {"stop", "lost"}
    /\ waiter \in [Call_ -> {None, "waiting", "returned"}]
    /\ \A c \in Call_ : ToSet(answers[c]) \subseteq Errors

(* A call ends once: by its reply, its timer, its send or the stop,        *)
(* whichever comes first, and never by two of them.                        *)
AnsweredOnce == \A c \in Call_ : Len(answers[c]) =< 1

(* When the io thread has nothing left to do, no timer is set and no write *)
(* is under way, every call has been answered.                             *)
NeverForgotten ==
    \A c \in Call_ :
       (/\ stage[c] = "over"
        /\ \A d \in Call_ : timer[d] = None
        /\ queue = <<>>) => answers[c] # <<>>

(* A request goes out in the life of the client it was entered in, never   *)
(* on the connection of a later start.                                     *)
SentInItsLife == \A w \in written : born[w[1]] = w[2]

(* What _rdc_start asserts when a connection is there: no request is left  *)
(* from before.                                                            *)
NoneLeftAtStart == [][(~started /\ started') => reqs = <<>>]_vars

(* What the comment in _rdc_stop asks for: the options are only used while *)
(* they exist.                                                             *)
OptionExists == ~dangling
=============================================================================
