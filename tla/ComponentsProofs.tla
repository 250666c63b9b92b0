--------------------------- MODULE ComponentsProofs ---------------------------
(***************************************************************************)
(* The parts of Components, for any sets of events, threads, calls and     *)
(* octets and any bounds: the event queue, the sends that go through it,   *)
(* remote calls, and the negotiation with a SOCKS5 proxy.                  *)
(***************************************************************************)
EXTENDS Components, OccurrenceProofs, FiniteSetTheorems, TLAPS

-----------------------------------------------------------------------------
(***************************************************************************)
(* EventQueue: one event runs at a time, a queue that is not empty always  *)
(* has a live guard, and events begin in the order of the calls that       *)
(* submitted them.                                                         *)
(***************************************************************************)

IsNext(i) == i \in DOMAIN inbox /\ inbox[i].kind = "next"

(* A guard on its way in a posted next_event is the only guard there is,   *)
(* and it belongs to the front.                                            *)
TravellingGuard ==
    \A i \in DOMAIN inbox : inbox[i].kind = "next" =>
        /\ running = {}
        /\ events # <<>>
        /\ \A j \in DOMAIN inbox : inbox[j].kind = "next" => i = j

IInv == TypeOK /\ OneAtATime /\ QueueIsDriven /\ TravellingGuard

(* What Tail and Append do to a sequence, element by element.              *)
LEMMA SeqFacts ==
    ASSUME NEW S, NEW s \in Seq(S), NEW x \in S
    PROVE  /\ Append(s, x) \in Seq(S)
           /\ Len(Append(s, x)) = Len(s) + 1
           /\ \A i \in 1..Len(s) : Append(s, x)[i] = s[i]
           /\ Append(s, x)[Len(s) + 1] = x
           /\ s # <<>> => /\ Tail(s) \in Seq(S)
                          /\ Head(s) \in S
                          /\ Len(Tail(s)) = Len(s) - 1
                          /\ \A i \in 1..Len(Tail(s)) : Tail(s)[i] = s[i + 1]
  OBVIOUS

LEMMA InitIInv == Init => IInv
  BY DEF Init, IInv, TypeOK, OneAtATime, QueueIsDriven, TravellingGuard

(* Appending to an empty queue starts the event, because no guard is alive *)
(* then; otherwise the front and its guard stay what they were.            *)
LEMMA EmplaceIInv ==
    ASSUME IInv, NEW e \in Event, Emplace(e)
    PROVE  /\ events' \in Seq(Event) /\ events' # <<>>
           /\ running' \subseteq Event
           /\ started' \in Seq(Event)
           /\ \A d \in running' : d = Head(events')
           /\ events = <<>> => running = {} /\ running' = {e}
           /\ events # <<>> => running' = running /\ Head(events') = Head(events)
  <1> USE DEF IInv, TypeOK
  <1>1. CASE events = <<>>
    <2>1. running = {}
      BY <1>1 DEF OneAtATime
    <2>2. /\ events' = Append(events, e)
          /\ running' = {e}
          /\ started' = Append(started, e)
      BY <1>1, <2>1 DEF Emplace, Begin
    <2>3. events' \in Seq(Event) /\ events' # <<>> /\ Head(events') = e
      BY <1>1, <2>2, HeadTailAppend, AppendProperties
    <2> QED
      BY <1>1, <2>1, <2>2, <2>3
  <1>2. CASE events # <<>>
    BY <1>2 DEF Emplace, OneAtATime
  <1> QED
    BY <1>1, <1>2

(* Destroying the front's guard leaves a guard with the new front only.    *)
LEMMA PopIInv ==
    ASSUME IInv, NEW e \in Event, PopAndPassOn(e), running \subseteq {e}
    PROVE  /\ events' \in Seq(Event)
           /\ running' \subseteq Event
           /\ started' \in Seq(Event)
           /\ \A d \in running' : events' # <<>> /\ d = Head(events')
           /\ events' # <<>> => running' # {}
  <1> USE DEF IInv, TypeOK, PopAndPassOn
  <1>1. Tail(events) \in Seq(Event) /\ events' = Tail(events)
    OBVIOUS
  <1>2. CASE Tail(events) = <<>>
    BY <1>1, <1>2
  <1>3. CASE Tail(events) # <<>>
    <2>1. Head(Tail(events)) \in Event
      BY <1>1, <1>3
    <2>2. running' = {Head(Tail(events))}
      BY <1>3
    <2>3. started' \in Seq(Event)
      <3>1. started' = Append(started, Head(Tail(events)))
        BY <1>3
      <3> QED
        BY <2>1, <3>1, AppendProperties
    <2> QED
      BY <1>1, <1>3, <2>1, <2>2, <2>3
  <1> QED
    BY <1>2, <1>3

(* Every step of the queue preserves the inductive invariant.              *)
THEOREM StepIInv == IInv /\ [Next]_vars => IInv'
  <1> SUFFICES ASSUME IInv, [Next]_vars PROVE IInv'
    OBVIOUS
  <1> USE DEF IInv
  <1>1. ASSUME NEW e \in Event, PushHere(e) PROVE IInv'
    <2>1. inbox' = inbox /\ Emplace(e)
      BY <1>1 DEF PushHere
    <2>2. order' \in Seq(Thread \X {"push", "post"} \X Event)
      BY <1>1 DEF PushHere, TypeOK, Thread
    <2>3. TypeOK'
      BY <2>1, <2>2, EmplaceIInv DEF TypeOK
    <2>4. OneAtATime'
      BY <2>1, EmplaceIInv DEF OneAtATime
    <2>5. QueueIsDriven'
      BY <2>1, EmplaceIInv DEF QueueIsDriven
    <2>6. TravellingGuard'
      BY <2>1, EmplaceIInv DEF TravellingGuard
    <2> QED
      BY <2>3, <2>4, <2>5, <2>6
  <1>2. ASSUME NEW t \in Thread, NEW how \in {"push", "post"}, NEW e \in Event, PostFrom(t, how, e)
        PROVE  IInv'
    <2>1. /\ inbox' = Append(inbox, PostedEvent(e))
          /\ UNCHANGED <<events, running, started>>
      BY <1>2 DEF PostFrom
    <2>2. PostedEvent(e) \in Handler /\ PostedEvent(e).kind # "next"
      BY DEF PostedEvent, Handler
    <2>3. TypeOK'
      BY <1>2, <2>1, <2>2 DEF TypeOK, PostFrom
    <2>4. \A i \in DOMAIN inbox : inbox'[i] = inbox[i] /\ i \in DOMAIN inbox'
      BY <2>1, <2>2, SeqFacts DEF TypeOK
    <2>5. \A i \in DOMAIN inbox' : inbox'[i].kind = "next" => i \in DOMAIN inbox
      BY <2>1, <2>2, SeqFacts DEF TypeOK
    <2>6. OneAtATime' /\ QueueIsDriven' /\ TravellingGuard'
      BY <2>1, <2>4, <2>5 DEF OneAtATime, QueueIsDriven, TravellingGuard
    <2> QED
      BY <2>3, <2>6
  <1>3. CASE RunEnqueue
    <2> DEFINE e == Head(inbox).ev
    <2>1. inbox # <<>> /\ Head(inbox).kind = "enqueue" /\ inbox' = Tail(inbox) /\ Emplace(e) /\ order' = order
      BY <1>3 DEF RunEnqueue
    <2>2. e \in Event
      <3>1. Head(inbox) \in Handler
        BY <2>1, HeadTailProperties DEF TypeOK
      <3> QED
        BY <3>1 DEF Handler
    <2>3. TypeOK'
      BY <2>1, <2>2, EmplaceIInv DEF TypeOK
    <2>4. \A i \in DOMAIN inbox' : inbox'[i] = inbox[i + 1] /\ i + 1 \in DOMAIN inbox
      BY <2>1 DEF TypeOK
    <2>5. \A i \in DOMAIN inbox : inbox[i].kind = "next" => i - 1 \in DOMAIN inbox' /\ inbox'[i - 1] = inbox[i]
      BY <2>1 DEF TypeOK
    <2>6. OneAtATime'
      BY <2>1, <2>2, EmplaceIInv DEF OneAtATime
    <2>7. QueueIsDriven'
      BY <2>1, <2>2, <2>5, EmplaceIInv DEF QueueIsDriven
    <2>8. TravellingGuard'
      <3> SUFFICES ASSUME NEW i \in DOMAIN inbox', inbox'[i].kind = "next"
                   PROVE  /\ running' = {}
                          /\ events' # <<>>
                          /\ \A j \in DOMAIN inbox' : inbox'[j].kind = "next" => i = j
        BY DEF TravellingGuard
      <3>1. i + 1 \in DOMAIN inbox /\ inbox[i + 1].kind = "next"
        BY <2>4
      <3>2. running = {} /\ events # <<>>
        BY <3>1 DEF TravellingGuard
      <3>3. running' = {} /\ events' # <<>>
        BY <2>1, <2>2, <3>2, EmplaceIInv
      <3>4. ASSUME NEW j \in DOMAIN inbox', inbox'[j].kind = "next" PROVE i = j
        <4>1. j + 1 \in DOMAIN inbox /\ inbox[j + 1].kind = "next"
          BY <2>4, <3>4
        <4>2. i + 1 = j + 1
          BY <3>1, <4>1 DEF TravellingGuard
        <4> QED
          BY <4>2, <2>1 DEF TypeOK
      <3> QED
        BY <3>3, <3>4
    <2> QED
      BY <2>3, <2>6, <2>7, <2>8
  <1>4. CASE RunNext
    <2> DEFINE e == Head(inbox).ev
    <2>1. inbox # <<>> /\ Head(inbox).kind = "next" /\ inbox' = Tail(inbox) /\ PopAndPassOn(e) /\ order' = order
      BY <1>4 DEF RunNext
    <2>2. e \in Event
      <3>1. Head(inbox) \in Handler
        BY <2>1, HeadTailProperties DEF TypeOK
      <3> QED
        BY <3>1 DEF Handler
    <2>3. 1 \in DOMAIN inbox /\ inbox[1].kind = "next"
      BY <2>1 DEF TypeOK
    <2>4. running = {}
      BY <2>3 DEF TravellingGuard
    <2>5. \A i \in DOMAIN inbox' : inbox'[i].kind # "next"
      <3>1. \A i \in DOMAIN inbox' : inbox'[i] = inbox[i + 1] /\ i + 1 \in DOMAIN inbox /\ i + 1 # 1
        BY <2>1 DEF TypeOK
      <3> QED
        BY <2>3, <3>1 DEF TravellingGuard
    <2>6. TypeOK'
      BY <2>1, <2>2, <2>4, PopIInv DEF TypeOK
    <2>7. OneAtATime' /\ QueueIsDriven'
      BY <2>1, <2>2, <2>4, PopIInv DEF OneAtATime, QueueIsDriven
    <2>8. TravellingGuard'
      BY <2>5 DEF TravellingGuard
    <2> QED
      BY <2>6, <2>7, <2>8
  <1>5. ASSUME NEW e \in Event, DestroyHere(e) PROVE IInv'
    <2>1. e \in running /\ PopAndPassOn(e) /\ inbox' = inbox /\ order' = order
      BY <1>5 DEF DestroyHere
    <2>2. running = {e}
      BY <2>1 DEF OneAtATime
    <2>3. \A i \in DOMAIN inbox : inbox[i].kind # "next"
      BY <2>2 DEF TravellingGuard
    <2>4. TypeOK'
      BY <2>1, <2>2, PopIInv DEF TypeOK
    <2>5. OneAtATime' /\ QueueIsDriven'
      BY <2>1, <2>2, PopIInv DEF OneAtATime, QueueIsDriven
    <2>6. TravellingGuard'
      BY <2>1, <2>3 DEF TravellingGuard
    <2> QED
      BY <2>4, <2>5, <2>6
  <1>6. ASSUME NEW e \in Event, DestroyElsewhere(e) PROVE IInv'
    <2>1. /\ e \in running
          /\ inbox' = Append(inbox, PostedNext(e))
          /\ running' = running \ {e}
          /\ UNCHANGED <<events, order, started>>
      BY <1>6 DEF DestroyElsewhere
    <2>2. running = {e} /\ running' = {} /\ events # <<>>
      BY <2>1 DEF OneAtATime
    <2>3. \A i \in DOMAIN inbox : inbox[i].kind # "next"
      BY <2>2 DEF TravellingGuard
    <2>4. PostedNext(e) \in Handler /\ PostedNext(e).kind = "next"
      BY DEF PostedNext, Handler
    <2>5. /\ Len(inbox') = Len(inbox) + 1
          /\ inbox'[Len(inbox) + 1].kind = "next"
          /\ \A i \in 1..Len(inbox) : inbox'[i].kind # "next"
      BY <2>1, <2>3, <2>4, SeqFacts DEF TypeOK
    <2>6. TypeOK'
      BY <2>1, <2>4 DEF TypeOK
    <2>7. OneAtATime'
      BY <2>2 DEF OneAtATime
    <2>8. DOMAIN inbox' = 1..Len(inbox) + 1 /\ Len(inbox) + 1 \in DOMAIN inbox'
      BY <2>5, <2>6, LenProperties DEF TypeOK
    <2>9. QueueIsDriven'
      BY <2>5, <2>8 DEF QueueIsDriven
    <2>10. TravellingGuard'
      <3>1. \A i \in DOMAIN inbox' : inbox'[i].kind = "next" => i = Len(inbox) + 1
        BY <2>5, <2>8 DEF TypeOK
      <3> QED
        BY <2>1, <2>2, <3>1 DEF TravellingGuard
    <2> QED
      BY <2>6, <2>7, <2>9, <2>10
  <1>7. CASE UNCHANGED vars
    BY <1>7 DEF vars, TypeOK, OneAtATime, QueueIsDriven, TravellingGuard
  <1> QED
    BY <1>1, <1>2, <1>3, <1>4, <1>5, <1>6, <1>7 DEF Next

(* The queue's variables keep their types.                                 *)
THEOREM TypeCorrect == Spec => []TypeOK
  <1>1. IInv => TypeOK
    BY DEF IInv
  <1> QED
    BY InitIInv, StepIInv, <1>1, PTL DEF Spec

(* Only the front of the queue ever owns a guard: whatever is submitted,   *)
(* by whichever threads, event_queue_cp executes one event at a time.      *)
THEOREM Serial == Spec => []OneAtATime
  <1>1. IInv => OneAtATime
    BY DEF IInv
  <1> QED
    BY InitIInv, StepIInv, <1>1, PTL DEF Spec

(* A queue that is not empty always has a live guard to drive it on.       *)
THEOREM Driven == Spec => []QueueIsDriven
  <1>1. IInv => QueueIsDriven
    BY DEF IInv
  <1> QED
    BY InitIInv, StepIInv, <1>1, PTL DEF Spec

-----------------------------------------------------------------------------
(* The order of the calls.  Lined are the events in the order in which     *)
(* they have begun or will: emplacing adds to its end, popping the front   *)
(* changes nothing of it.                                                  *)
Lined == IF events = <<>> THEN started ELSE started \o Tail(events)

InLine(e) == \E p \in DOMAIN Lined : Lined[p] = e
Waiting(e) == \E p \in DOMAIN inbox : inbox[p] = PostedEvent(e)

(* What was submitted is in line or in the inbox, once; nothing else is.   *)
Placed(e) ==
    IF e \in Submitted
    THEN \/ Once(Lined, {e}) /\ Never(inbox, {PostedEvent(e)})
         \/ Never(Lined, {e}) /\ Once(inbox, {PostedEvent(e)})
    ELSE Never(Lined, {e}) /\ Never(inbox, {PostedEvent(e)})

(* The event a runs before b does.                                         *)
Ahead(a, b) ==
    /\ \A p \in DOMAIN Lined : Lined[p] = b => \E q \in DOMAIN Lined : q < p /\ Lined[q] = a
    /\ \A p \in DOMAIN inbox : inbox[p] = PostedEvent(b) =>
            InLine(a) \/ \E q \in DOMAIN inbox : q < p /\ inbox[q] = PostedEvent(a)

(* One thread has submitted a, and then b with the same call.              *)
Called(i, j, a, b) ==
    /\ i < j
    /\ order[i][1] = order[j][1] /\ order[i][2] = order[j][2]
    /\ order[i][3] = a /\ order[j][3] = b

(* What the io_context pushes itself is never posted.                      *)
PushedIsInLine ==
    \A e \in Event : \A i \in DOMAIN order :
        order[i][1] = Io /\ order[i][2] = "push" /\ order[i][3] = e => ~Waiting(e)

LanesAreKept ==
    \A a, b \in Event : \A i, j \in DOMAIN order : Called(i, j, a, b) => Ahead(a, b)

OInv ==
    /\ \A e \in Event : Placed(e)
    /\ PushedIsInLine
    /\ LanesAreKept

LEMMA LinedType ==
    ASSUME TypeOK
    PROVE  Lined \in Seq(Event) /\ DOMAIN Lined = 1..Len(Lined) /\ Len(Lined) \in Nat
  <1>1. Lined \in Seq(Event)
    <2>1. events # <<>> => Tail(events) \in Seq(Event)
      BY DEF TypeOK
    <2> QED
      BY <2>1, ConcatProperties DEF TypeOK, Lined
  <1> QED
    BY <1>1, LenProperties

LEMMA EmplaceLined ==
    ASSUME TypeOK, NEW e \in Event, Emplace(e)
    PROVE  Lined' = Append(Lined, e)
  <1>1. /\ events \in Seq(Event) /\ started \in Seq(Event) /\ events' = Append(events, e)
        /\ events' # <<>>
    BY AppendProperties DEF TypeOK, Emplace
  <1>2. CASE events = <<>>
    <2>1. started' = Append(started, e) /\ Tail(events') = <<>>
      BY <1>1, <1>2, HeadTailAppend DEF Emplace, Begin
    <2> QED
      BY <1>1, <1>2, <2>1 DEF Lined
  <1>3. CASE events # <<>>
    <2> DEFINE t == Tail(events)
    <2>1. started' = started /\ Tail(events') = Append(t, e) /\ t \in Seq(Event)
      BY <1>1, <1>3, HeadTailAppend DEF Emplace
    <2> HIDE DEF t
    <2>2. Append(t, e) = t \o <<e>> /\ <<e>> \in Seq(Event)
      BY <2>1, AppendIsConcat
    <2>3. started \o (t \o <<e>>) = (started \o t) \o <<e>>
      BY <1>1, <2>1, <2>2, ConcatAssociative
    <2>4. Append(started \o t, e) = (started \o t) \o <<e>>
      <3>1. started \o t \in Seq(Event)
        BY <1>1, <2>1, ConcatProperties
      <3> QED
        BY <3>1, AppendIsConcat
    <2> QED
      BY <1>1, <1>3, <2>1, <2>2, <2>3, <2>4 DEF Lined, t
  <1> QED
    BY <1>2, <1>3

LEMMA PopLined ==
    ASSUME TypeOK, NEW e, PopAndPassOn(e)
    PROVE  Lined' = Lined
  <1> DEFINE t == Tail(events)
  <1>1. /\ events # <<>> /\ events' = t /\ t \in Seq(Event) /\ started \in Seq(Event)
    BY DEF PopAndPassOn, TypeOK
  <1>2. CASE t = <<>>
    <2>1. started' = started /\ Lined' = started /\ Lined = started \o <<>>
      BY <1>1, <1>2 DEF PopAndPassOn, Lined
    <2> QED
      BY <1>1, <2>1, ConcatEmptySeq
  <1>3. CASE t # <<>>
    <2> HIDE DEF t
    <2>1. started' = Append(started, Head(t))
      BY <1>1, <1>3 DEF PopAndPassOn, t
    <2>2. /\ Head(t) \in Event /\ Tail(t) \in Seq(Event) /\ t = <<Head(t)>> \o Tail(t)
          /\ <<Head(t)>> \in Seq(Event)
      BY <1>1, <1>3, HeadTailProperties
    <2>3. started' = started \o <<Head(t)>>
      BY <1>1, <2>1, <2>2, AppendIsConcat
    <2>4. (started \o <<Head(t)>>) \o Tail(t) = started \o (<<Head(t)>> \o Tail(t))
      BY <1>1, <2>2, ConcatAssociative
    <2> QED
      BY <1>1, <1>3, <2>2, <2>3, <2>4 DEF Lined, t
  <1> QED
    BY <1>2, <1>3

(* What has begun is the beginning of the line.                            *)
LEMMA StartedIsFirst ==
    ASSUME TypeOK
    PROVE  \A i \in DOMAIN started : i \in DOMAIN Lined /\ Lined[i] = started[i]
  <1>1. events # <<>> => Tail(events) \in Seq(Event)
    BY DEF TypeOK
  <1> QED
    BY <1>1, ConcatProperties, LenProperties DEF Lined, TypeOK

(* The four ways in which a step changes the line, the inbox and the order.*)
Pushes(e) ==
    /\ e \notin Submitted
    /\ order' = Append(order, <<Io, "push", e>>)
    /\ Lined' = Append(Lined, e)
    /\ inbox' = inbox

Posts(t, how, e) ==
    /\ e \notin Submitted
    /\ t = Io => how = "post"
    /\ order' = Append(order, <<t, how, e>>)
    /\ Lined' = Lined
    /\ inbox' = Append(inbox, PostedEvent(e))

Enqueues(e) ==
    /\ inbox # <<>> /\ Head(inbox) = PostedEvent(e)
    /\ inbox' = Tail(inbox)
    /\ Lined' = Append(Lined, e)
    /\ order' = order

Passes ==
    /\ Lined' = Lined
    /\ order' = order
    /\ \/ inbox' = inbox
       \/ \E e \in Event : inbox' = Append(inbox, PostedNext(e))
       \/ \E e \in Event : inbox # <<>> /\ Head(inbox) = PostedNext(e) /\ inbox' = Tail(inbox)

LEMMA StepKind ==
    ASSUME TypeOK, [Next]_vars
    PROVE  \/ \E e \in Event : Pushes(e) \/ Enqueues(e)
           \/ \E t \in Thread, how \in {"push", "post"}, e \in Event : Posts(t, how, e)
           \/ Passes
  <1>1. ASSUME NEW e \in Event, PushHere(e) PROVE Pushes(e)
    BY <1>1, EmplaceLined DEF PushHere, Pushes
  <1>2. ASSUME NEW t \in Thread, NEW how \in {"push", "post"}, NEW e \in Event, PostFrom(t, how, e)
        PROVE  Posts(t, how, e)
    BY <1>2 DEF PostFrom, Posts, Lined
  <1>3. ASSUME inbox # <<>>
        PROVE  /\ Head(inbox).ev \in Event
               /\ Head(inbox).kind = "enqueue" => Head(inbox) = PostedEvent(Head(inbox).ev)
               /\ Head(inbox).kind = "next" => Head(inbox) = PostedNext(Head(inbox).ev)
    <2> DEFINE h == Head(inbox)
    <2>1. h \in Handler
      BY <1>3 DEF TypeOK
    <2> HIDE DEF h
    <2>2. h.ev \in Event /\ h = [kind |-> h.kind, ev |-> h.ev]
      BY <2>1 DEF Handler
    <2> QED
      BY <2>2 DEF PostedEvent, PostedNext, h
  <1>4. CASE RunEnqueue
    <2>1. Enqueues(Head(inbox).ev) /\ Head(inbox).ev \in Event
      BY <1>3, <1>4, EmplaceLined DEF RunEnqueue, Enqueues
    <2> QED
      BY <2>1
  <1>5. CASE RunNext
    BY <1>3, <1>5, PopLined DEF RunNext, Passes
  <1>6. ASSUME NEW e \in Event, DestroyHere(e) PROVE Passes
    BY <1>6, PopLined DEF DestroyHere, Passes
  <1>7. ASSUME NEW e \in Event, DestroyElsewhere(e) PROVE Passes
    BY <1>7 DEF DestroyElsewhere, Passes, Lined
  <1>8. CASE UNCHANGED vars
    BY <1>8 DEF vars, Passes, Lined
  <1> QED
    BY <1>1, <1>2, <1>4, <1>5, <1>6, <1>7, <1>8 DEF Next

LEMMA HandlerFacts ==
    ASSUME NEW e \in Event
    PROVE  /\ PostedEvent(e) \in Handler /\ PostedNext(e) \in Handler
           /\ \A d : PostedEvent(e) = PostedEvent(d) <=> d = e
           /\ \A d : PostedEvent(d) # PostedNext(e)
  <1>1. PostedEvent(e) \in Handler /\ PostedNext(e) \in Handler
    BY DEF Handler, PostedEvent, PostedNext
  <1>2. ASSUME NEW d, PostedEvent(e) = PostedEvent(d) PROVE d = e
    <2>1. PostedEvent(e).ev = PostedEvent(d).ev
      BY <1>2
    <2> QED
      BY <2>1 DEF PostedEvent
  <1>3. ASSUME NEW d PROVE PostedEvent(d) # PostedNext(e)
    <2>1. PostedEvent(d).kind = "enqueue" /\ PostedNext(e).kind = "next"
      BY DEF PostedEvent, PostedNext
    <2> QED
      BY <2>1
  <1> QED
    BY <1>1, <1>2, <1>3

(* In line or waiting is what was submitted.                               *)
LEMMA PlacedFacts ==
    ASSUME TypeOK, NEW e \in Event, Placed(e)
    PROVE  e \in Submitted <=> InLine(e) \/ Waiting(e)
  BY DEF Placed, InLine, Waiting, Once, Never

(* The calls: one more at the end.                                         *)
LEMMA OrderFacts ==
    ASSUME TypeOK, NEW t \in Thread, NEW how \in {"push", "post"}, NEW e \in Event,
           order' = Append(order, <<t, how, e>>)
    PROVE  /\ Submitted' = Submitted \cup {e}
           /\ DOMAIN order = 1..Len(order) /\ Len(order) \in Nat
           /\ DOMAIN order' = 1..(Len(order) + 1)
           /\ \A i \in DOMAIN order : i \in DOMAIN order' /\ order'[i] = order[i] /\ i < Len(order) + 1
           /\ order'[Len(order) + 1] = <<t, how, e>>
  <1> DEFINE T == Thread \X {"push", "post"} \X Event
             x == <<t, how, e>>
  <1>1. order \in Seq(T) /\ x \in T /\ x[3] = e
    BY DEF TypeOK
  <1> HIDE DEF T, x
  <1>2. /\ DOMAIN order = 1..Len(order) /\ Len(order) \in Nat
        /\ DOMAIN order' = 1..(Len(order) + 1)
        /\ \A i \in 1..Len(order) : order'[i] = order[i]
        /\ order'[Len(order) + 1] = x
    BY <1>1, AppendProperties, LenProperties DEF x
  <1>3. \A i \in DOMAIN order : i \in DOMAIN order' /\ order'[i] = order[i] /\ i < Len(order) + 1
    BY <1>2
  <1>4. \A i \in DOMAIN order' : i \in DOMAIN order \/ i = Len(order) + 1
    BY <1>2
  <1>5. Submitted' = Submitted \cup {e}
    <2>1. Submitted' = {order'[i][3] : i \in DOMAIN order'}
      BY DEF Submitted
    <2>2. Len(order) + 1 \in DOMAIN order'
      BY <1>2
    <2> QED
      BY <1>1, <1>2, <1>3, <1>4, <2>1, <2>2 DEF Submitted
  <1> QED
    BY <1>2, <1>3, <1>5 DEF x

(* What one more at the end of the line changes.                           *)
LEMMA LineGrows ==
    ASSUME TypeOK, NEW e \in Event, Lined' = Append(Lined, e)
    PROVE  /\ DOMAIN Lined' = 1..(Len(Lined) + 1)
           /\ \A p \in DOMAIN Lined : p \in DOMAIN Lined' /\ Lined'[p] = Lined[p] /\ p < Len(Lined) + 1
           /\ Len(Lined) + 1 \in DOMAIN Lined' /\ Lined'[Len(Lined) + 1] = e
           /\ \A p \in DOMAIN Lined' : p \in DOMAIN Lined \/ p = Len(Lined) + 1
           /\ \A d : InLine(d)' <=> InLine(d) \/ d = e
  <1>1. Lined \in Seq(Event) /\ DOMAIN Lined = 1..Len(Lined) /\ Len(Lined) \in Nat
    BY LinedType
  <1>2. /\ DOMAIN Lined' = 1..(Len(Lined) + 1)
        /\ \A p \in 1..Len(Lined) : Lined'[p] = Lined[p]
        /\ Lined'[Len(Lined) + 1] = e
    BY <1>1, AppendProperties, LenProperties
  <1>3. /\ \A p \in DOMAIN Lined : p \in DOMAIN Lined' /\ Lined'[p] = Lined[p] /\ p < Len(Lined) + 1
        /\ Len(Lined) + 1 \in DOMAIN Lined'
        /\ \A p \in DOMAIN Lined' : p \in DOMAIN Lined \/ p = Len(Lined) + 1
    BY <1>1, <1>2
  <1>4. \A d : InLine(d)' <=> InLine(d) \/ d = e
    BY <1>2, <1>3 DEF InLine
  <1> QED
    BY <1>2, <1>3, <1>4

(* What one more at the end of the inbox changes, and the first one taken. *)
LEMMA InboxGrows ==
    ASSUME TypeOK, NEW h \in Handler, inbox' = Append(inbox, h)
    PROVE  /\ \A p \in DOMAIN inbox : p \in DOMAIN inbox' /\ inbox'[p] = inbox[p] /\ p < Len(inbox) + 1
           /\ Len(inbox) + 1 \in DOMAIN inbox' /\ inbox'[Len(inbox) + 1] = h
           /\ \A p \in DOMAIN inbox' : p \in DOMAIN inbox \/ p = Len(inbox) + 1
  <1>1. inbox \in Seq(Handler) /\ DOMAIN inbox = 1..Len(inbox) /\ Len(inbox) \in Nat
    BY LenProperties DEF TypeOK
  <1>2. /\ DOMAIN inbox' = 1..(Len(inbox) + 1)
        /\ \A p \in 1..Len(inbox) : inbox'[p] = inbox[p]
        /\ inbox'[Len(inbox) + 1] = h
    BY <1>1, AppendProperties, LenProperties
  <1> QED
    BY <1>1, <1>2

LEMMA InboxShrinks ==
    ASSUME TypeOK, inbox # <<>>, inbox' = Tail(inbox)
    PROVE  /\ 1 \in DOMAIN inbox /\ inbox[1] = Head(inbox)
           /\ \A p \in DOMAIN inbox : p \in Nat /\ p >= 1
           /\ \A p \in DOMAIN inbox' : p + 1 \in DOMAIN inbox /\ inbox[p + 1] = inbox'[p] /\ p \in Nat
           /\ \A p \in DOMAIN inbox : p # 1 => p - 1 \in DOMAIN inbox' /\ inbox'[p - 1] = inbox[p]
  <1>1. inbox \in Seq(Handler) /\ DOMAIN inbox = 1..Len(inbox) /\ Len(inbox) \in Nat /\ Len(inbox) # 0
    BY LenProperties, EmptySeq DEF TypeOK
  <1>2. /\ DOMAIN inbox' = 1..(Len(inbox) - 1)
        /\ \A p \in 1..(Len(inbox) - 1) : inbox'[p] = inbox[p + 1]
        /\ Head(inbox) = inbox[1]
    BY <1>1, HeadTailProperties, LenProperties
  <1> QED
    BY <1>1, <1>2

-----------------------------------------------------------------------------
LEMMA PushesOInv ==
    ASSUME TypeOK, OInv, NEW e \in Event, Pushes(e)
    PROVE  OInv'
  <1>1. /\ e \notin Submitted /\ Lined' = Append(Lined, e) /\ inbox' = inbox
        /\ order' = Append(order, <<Io, "push", e>>) /\ Io \in Thread
    BY DEF Pushes, Thread
  <1>2. ASSUME NEW d \in Event PROVE Placed(d)'
    <2>1. d \in Submitted' <=> d \in Submitted \/ d = e
      BY <1>1, OrderFacts
    <2>2. Placed(d) /\ Placed(e)
      BY DEF OInv
    <2>3. CASE d = e
      <3>1. Never(Lined, {e}) /\ Never(inbox, {PostedEvent(e)})
        BY <1>1, <2>2 DEF Placed
      <3>2. Once(Lined', {e})
        BY <1>1, <3>1, LinedType, AppendOccurs
      <3> QED
        BY <1>1, <2>1, <2>3, <3>1, <3>2 DEF Placed, PostedEvent
    <2>4. CASE d # e
      <3>1. (Once(Lined', {d}) <=> Once(Lined, {d})) /\ (Never(Lined', {d}) <=> Never(Lined, {d}))
        BY <1>1, <2>4, LinedType, AppendOccurs
      <3> QED
        BY <1>1, <2>1, <2>2, <2>4, <3>1 DEF Placed, PostedEvent
    <2> QED
      BY <2>3, <2>4
  <1>3. ~Waiting(e) /\ ~InLine(e)
    BY <1>1, PlacedFacts DEF OInv
  <1>4. \A d : Waiting(d)' <=> Waiting(d)
    BY <1>1 DEF Waiting, PostedEvent
  <1>5. /\ DOMAIN order = 1..Len(order) /\ Len(order) \in Nat
        /\ DOMAIN order' = 1..(Len(order) + 1)
        /\ \A i \in DOMAIN order : order'[i] = order[i]
        /\ order'[Len(order) + 1] = <<Io, "push", e>>
    BY <1>1, OrderFacts
  <1>6. \A i \in DOMAIN order' : i \in DOMAIN order \/ i = Len(order) + 1
    BY <1>5
  <1>7. PushedIsInLine'
    BY <1>3, <1>4, <1>5, <1>6 DEF OInv, PushedIsInLine
  <1>8. ASSUME NEW a, NEW b, b # e, Ahead(a, b) PROVE Ahead(a, b)'
    BY <1>1, <1>8, LineGrows DEF Ahead, PostedEvent
  <1>9. ASSUME NEW a, InLine(a) PROVE Ahead(a, e)'
    <2>1. ASSUME NEW p \in DOMAIN Lined', Lined'[p] = e
          PROVE  \E q \in DOMAIN Lined' : q < p /\ Lined'[q] = a
      <3>1. p = Len(Lined) + 1
        BY <1>1, <1>3, <2>1, LineGrows DEF InLine
      <3> QED
        BY <1>1, <1>9, <3>1, LineGrows DEF InLine
    <2>2. \A p \in DOMAIN inbox' : inbox'[p] # PostedEvent(e)
      BY <1>1, <1>3 DEF Waiting
    <2> QED
      BY <2>1, <2>2 DEF Ahead, PostedEvent
  <1>10. ASSUME NEW a \in Event, NEW b \in Event, NEW i \in DOMAIN order', NEW j \in DOMAIN order',
                Called(i, j, a, b)'
         PROVE  Ahead(a, b)'
    <2>1. i \in DOMAIN order /\ order'[i] = order[i]
      BY <1>5, <1>6, <1>10 DEF Called
    <2>2. CASE j \in DOMAIN order
      <3>1. b # e
        BY <1>1, <1>5, <1>10, <2>2 DEF Submitted, Called
      <3>2. Ahead(a, b)
        BY <1>5, <1>10, <2>1, <2>2 DEF OInv, LanesAreKept, Called
      <3> QED
        BY <1>8, <3>1, <3>2
    <2>3. CASE j = Len(order) + 1
      <3>1. order[i][3] = a /\ b = e
        BY <1>5, <1>10, <2>1, <2>3 DEF Called
      <3>2. a \in Submitted
        BY <2>1, <3>1 DEF Submitted
      <3>3. order[i][1] = Io /\ order[i][2] = "push"
        BY <1>5, <1>10, <2>1, <2>3 DEF Called
      <3>4. InLine(a)
        BY <2>1, <3>1, <3>2, <3>3, PlacedFacts DEF OInv, PushedIsInLine
      <3> QED
        BY <1>9, <3>1, <3>4
    <2> QED
      BY <1>6, <2>2, <2>3
  <1> QED
    BY <1>2, <1>7, <1>10 DEF OInv, LanesAreKept

LEMMA PostsOInv ==
    ASSUME TypeOK, OInv, NEW t \in Thread, NEW how \in {"push", "post"}, NEW e \in Event,
           Posts(t, how, e)
    PROVE  OInv'
  <1> DEFINE h == PostedEvent(e)
  <1>1. /\ e \notin Submitted /\ Lined' = Lined /\ inbox' = Append(inbox, h)
        /\ order' = Append(order, <<t, how, e>>) /\ h \in Handler /\ inbox \in Seq(Handler)
        /\ t = Io => how = "post"
    BY HandlerFacts DEF Posts, TypeOK
  <1>2. ASSUME NEW d \in Event PROVE Placed(d)'
    <2>1. d \in Submitted' <=> d \in Submitted \/ d = e
      BY <1>1, OrderFacts
    <2>2. Placed(d) /\ Placed(e)
      BY DEF OInv
    <2>3. PostedEvent(d)' = PostedEvent(d)
      BY DEF PostedEvent
    <2>4. CASE d = e
      <3>1. Never(Lined, {e}) /\ Never(inbox, {h})
        BY <1>1, <2>2 DEF Placed
      <3>2. Once(inbox', {h})
        BY <1>1, <3>1, AppendOccurs
      <3> QED
        BY <1>1, <2>1, <2>3, <2>4, <3>1, <3>2 DEF Placed
    <2>5. CASE d # e
      <3>1. h \notin {PostedEvent(d)}
        BY <2>5, HandlerFacts
      <3>2. /\ Once(inbox', {PostedEvent(d)}) <=> Once(inbox, {PostedEvent(d)})
            /\ Never(inbox', {PostedEvent(d)}) <=> Never(inbox, {PostedEvent(d)})
        BY <1>1, <3>1, AppendOccurs
      <3> QED
        BY <1>1, <2>1, <2>2, <2>3, <2>5, <3>2 DEF Placed
    <2> QED
      BY <2>4, <2>5
  <1>3. ~Waiting(e) /\ ~InLine(e)
    BY <1>1, PlacedFacts DEF OInv
  <1>4. ASSUME NEW d, Waiting(d)' PROVE Waiting(d) \/ d = e
    <2>1. PICK p \in DOMAIN inbox' : inbox'[p] = PostedEvent(d)
      BY <1>4 DEF Waiting, PostedEvent
    <2> QED
      BY <1>1, <2>1, InboxGrows, HandlerFacts DEF Waiting
  <1>5. /\ DOMAIN order = 1..Len(order) /\ Len(order) \in Nat
        /\ DOMAIN order' = 1..(Len(order) + 1)
        /\ \A i \in DOMAIN order : order'[i] = order[i]
        /\ order'[Len(order) + 1] = <<t, how, e>>
    BY <1>1, OrderFacts
  <1>6. \A i \in DOMAIN order' : i \in DOMAIN order \/ i = Len(order) + 1
    BY <1>5
  <1>7. PushedIsInLine'
    <2> SUFFICES ASSUME NEW d \in Event, NEW i \in DOMAIN order', order'[i][1] = Io,
                        order'[i][2] = "push", order'[i][3] = d, Waiting(d)'
                 PROVE  FALSE
      BY DEF PushedIsInLine
    <2>1. i \in DOMAIN order /\ order'[i] = order[i]
      BY <1>1, <1>5, <1>6
    <2>2. d # e
      BY <1>1, <2>1 DEF Submitted
    <2> QED
      BY <1>4, <2>1, <2>2 DEF OInv, PushedIsInLine
  <1>8. ASSUME NEW a, NEW b, b # e, Ahead(a, b) PROVE Ahead(a, b)'
    <2>1. ASSUME NEW p \in DOMAIN inbox', inbox'[p] = PostedEvent(b)
          PROVE  InLine(a) \/ \E q \in DOMAIN inbox' : q < p /\ inbox'[q] = PostedEvent(a)
      <3>1. p \in DOMAIN inbox /\ inbox[p] = PostedEvent(b)
        BY <1>1, <1>8, <2>1, InboxGrows, HandlerFacts
      <3> QED
        BY <1>1, <1>8, <3>1, InboxGrows DEF Ahead
    <2> QED
      BY <1>1, <1>8, <2>1 DEF Ahead, InLine, PostedEvent
  <1>9. ASSUME NEW a, InLine(a) \/ Waiting(a) PROVE Ahead(a, e)'
    <2>1. \A p \in DOMAIN Lined' : Lined'[p] # e
      BY <1>1, <1>3 DEF InLine
    <2>2. ASSUME NEW p \in DOMAIN inbox', inbox'[p] = PostedEvent(e), ~InLine(a)
          PROVE  \E q \in DOMAIN inbox' : q < p /\ inbox'[q] = PostedEvent(a)
      <3>1. p = Len(inbox) + 1
        BY <1>1, <1>3, <2>2, InboxGrows DEF Waiting
      <3> QED
        BY <1>1, <1>9, <2>2, <3>1, InboxGrows DEF Waiting
    <2> QED
      BY <1>1, <2>1, <2>2 DEF Ahead, InLine, PostedEvent
  <1>10. ASSUME NEW a \in Event, NEW b \in Event, NEW i \in DOMAIN order', NEW j \in DOMAIN order',
                Called(i, j, a, b)'
         PROVE  Ahead(a, b)'
    <2>1. i \in DOMAIN order /\ order'[i] = order[i]
      BY <1>5, <1>6, <1>10 DEF Called
    <2>2. CASE j \in DOMAIN order
      <3>1. b # e
        BY <1>1, <1>5, <1>10, <2>2 DEF Submitted, Called
      <3>2. Ahead(a, b)
        BY <1>5, <1>10, <2>1, <2>2 DEF OInv, LanesAreKept, Called
      <3> QED
        BY <1>8, <3>1, <3>2
    <2>3. CASE j = Len(order) + 1
      <3>1. order[i][3] = a /\ b = e
        BY <1>5, <1>10, <2>1, <2>3 DEF Called
      <3>2. a \in Submitted
        BY <2>1, <3>1 DEF Submitted
      <3>3. InLine(a) \/ Waiting(a)
        BY <3>2, PlacedFacts DEF OInv
      <3> QED
        BY <1>9, <3>1, <3>3
    <2> QED
      BY <1>6, <2>2, <2>3
  <1> QED
    BY <1>2, <1>7, <1>10 DEF OInv, LanesAreKept


LEMMA EnqueuesOInv ==
    ASSUME TypeOK, OInv, NEW e \in Event, Enqueues(e)
    PROVE  OInv'
  <1> DEFINE h == PostedEvent(e)
  <1>1. /\ inbox # <<>> /\ Head(inbox) = h /\ inbox' = Tail(inbox) /\ inbox \in Seq(Handler)
        /\ Lined' = Append(Lined, e) /\ order' = order /\ Submitted' = Submitted
    BY DEF Enqueues, TypeOK, Submitted
  <1>2. ASSUME NEW d \in Event PROVE Placed(d)'
    <2>1. Placed(d) /\ PostedEvent(d)' = PostedEvent(d)
      BY DEF OInv, PostedEvent
    <2>2. CASE d = e
      <3>1. ~Never(inbox, {h})
        BY <1>1, TailOccurs
      <3>2. Never(Lined, {e}) /\ Once(inbox, {h}) /\ e \in Submitted
        BY <2>1, <2>2, <3>1 DEF Placed
      <3>3. Never(inbox', {h})
        BY <1>1, <3>2, TailOccurs
      <3>4. Once(Lined', {e})
        BY <1>1, <3>2, LinedType, AppendOccurs
      <3> QED
        BY <1>1, <2>1, <2>2, <3>2, <3>3, <3>4 DEF Placed
    <2>3. CASE d # e
      <3>1. h \notin {PostedEvent(d)} /\ e \notin {d}
        BY <2>3, HandlerFacts
      <3>2. /\ Once(inbox', {PostedEvent(d)}) <=> Once(inbox, {PostedEvent(d)})
            /\ Never(inbox', {PostedEvent(d)}) <=> Never(inbox, {PostedEvent(d)})
        BY <1>1, <3>1, TailOccurs
      <3>3. (Once(Lined', {d}) <=> Once(Lined, {d})) /\ (Never(Lined', {d}) <=> Never(Lined, {d}))
        BY <1>1, <3>1, LinedType, AppendOccurs
      <3> QED
        BY <1>1, <2>1, <3>2, <3>3 DEF Placed
    <2> QED
      BY <2>2, <2>3
  <1>3. ASSUME NEW d, Waiting(d)' PROVE Waiting(d)
    BY <1>1, <1>3, InboxShrinks DEF Waiting, PostedEvent
  <1>4. PushedIsInLine'
    BY <1>1, <1>3 DEF OInv, PushedIsInLine
  <1>5. ~InLine(e)
    <2>1. ~Never(inbox, {h})
      BY <1>1, TailOccurs
    <2>2. Never(Lined, {e})
      BY <2>1 DEF OInv, Placed
    <2> QED
      BY <2>2 DEF Never, InLine
  <1>6. ASSUME NEW a \in Event, NEW b \in Event, Ahead(a, b) PROVE Ahead(a, b)'
    <2>1. ASSUME NEW p \in DOMAIN Lined', Lined'[p] = b
          PROVE  \E q \in DOMAIN Lined' : q < p /\ Lined'[q] = a
      <3>1. CASE p \in DOMAIN Lined
        <4>1. \E q \in DOMAIN Lined : q < p /\ Lined[q] = a
          BY <1>1, <1>6, <2>1, <3>1, LineGrows DEF Ahead
        <4> QED
          BY <1>1, <4>1, LineGrows
      <3>2. CASE p = Len(Lined) + 1
        <4>1. b = e
          BY <1>1, <2>1, <3>2, LineGrows
        <4>2. 1 \in DOMAIN inbox /\ inbox[1] = PostedEvent(b) /\ \A q \in DOMAIN inbox : q \in Nat /\ q >= 1
          BY <1>1, <4>1, InboxShrinks
        <4>3. InLine(a) \/ \E q \in DOMAIN inbox : q < 1
          BY <1>6, <4>2 DEF Ahead
        <4>4. InLine(a)
          BY <4>2, <4>3
        <4> QED
          BY <1>1, <3>2, <4>4, LineGrows DEF InLine
      <3> QED
        BY <1>1, <2>1, <3>1, <3>2, LineGrows
    <2>2. ASSUME NEW p \in DOMAIN inbox', inbox'[p] = PostedEvent(b), ~InLine(a)'
          PROVE  \E q \in DOMAIN inbox' : q < p /\ inbox'[q] = PostedEvent(a)
      <3>1. p + 1 \in DOMAIN inbox /\ inbox[p + 1] = PostedEvent(b) /\ p \in Nat
        BY <1>1, <2>2, InboxShrinks
      <3>2. ~InLine(a) /\ a # e
        BY <1>1, <2>2, LineGrows
      <3>3. PICK q \in DOMAIN inbox : q < p + 1 /\ inbox[q] = PostedEvent(a)
        BY <1>6, <3>1, <3>2 DEF Ahead
      <3>4. q # 1
        BY <1>1, <3>2, <3>3, InboxShrinks, HandlerFacts
      <3>5. q - 1 \in DOMAIN inbox' /\ inbox'[q - 1] = PostedEvent(a) /\ q \in Nat
        BY <1>1, <3>3, <3>4, InboxShrinks
      <3>6. q - 1 < p
        BY <3>1, <3>3, <3>5
      <3> QED
        BY <3>5, <3>6
    <2> QED
      BY <2>1, <2>2 DEF Ahead, PostedEvent
  <1>7. LanesAreKept'
    BY <1>1, <1>6 DEF OInv, LanesAreKept, Called
  <1> QED
    BY <1>2, <1>4, <1>7 DEF OInv

LEMMA PassesOInv ==
    ASSUME TypeOK, OInv, Passes
    PROVE  OInv'
  <1>1. Lined' = Lined /\ order' = order /\ Submitted' = Submitted /\ inbox \in Seq(Handler)
    BY DEF Passes, Submitted, TypeOK
  <1>2. ASSUME NEW d \in Event
        PROVE  /\ Once(inbox', {PostedEvent(d)}) <=> Once(inbox, {PostedEvent(d)})
               /\ Never(inbox', {PostedEvent(d)}) <=> Never(inbox, {PostedEvent(d)})
    <2>1. \A e \in Event : PostedNext(e) \in Handler /\ PostedNext(e) \notin {PostedEvent(d)}
      BY HandlerFacts
    <2>2. CASE inbox' = inbox
      BY <2>2
    <2>3. ASSUME NEW e \in Event, inbox' = Append(inbox, PostedNext(e))
          PROVE  /\ Once(inbox', {PostedEvent(d)}) <=> Once(inbox, {PostedEvent(d)})
                 /\ Never(inbox', {PostedEvent(d)}) <=> Never(inbox, {PostedEvent(d)})
      BY <1>1, <2>1, <2>3, AppendOccurs
    <2>4. ASSUME NEW e \in Event, inbox # <<>>, Head(inbox) = PostedNext(e), inbox' = Tail(inbox)
          PROVE  /\ Once(inbox', {PostedEvent(d)}) <=> Once(inbox, {PostedEvent(d)})
                 /\ Never(inbox', {PostedEvent(d)}) <=> Never(inbox, {PostedEvent(d)})
      BY <1>1, <2>1, <2>4, TailOccurs
    <2> QED
      BY <2>2, <2>3, <2>4 DEF Passes
  <1>3. ASSUME NEW d \in Event PROVE Placed(d)'
    <2>1. Placed(d) /\ PostedEvent(d)' = PostedEvent(d)
      BY DEF OInv, PostedEvent
    <2> QED
      BY <1>1, <1>2, <2>1 DEF Placed
  <1>4. ASSUME NEW d \in Event, Waiting(d)' PROVE Waiting(d)
    <2>1. ~Never(inbox', {PostedEvent(d)})
      BY <1>4 DEF Waiting, Never, PostedEvent
    <2>2. ~Never(inbox, {PostedEvent(d)})
      BY <1>2, <2>1
    <2> QED
      BY <2>2 DEF Waiting, Never
  <1>5. PushedIsInLine'
    BY <1>1, <1>4 DEF OInv, PushedIsInLine
  <1>6. ASSUME NEW a \in Event, NEW b \in Event, Ahead(a, b) PROVE Ahead(a, b)'
    <2>1. ASSUME NEW p \in DOMAIN inbox', inbox'[p] = PostedEvent(b), ~InLine(a)
          PROVE  \E q \in DOMAIN inbox' : q < p /\ inbox'[q] = PostedEvent(a)
      <3>1. CASE inbox' = inbox
        BY <1>6, <2>1, <3>1 DEF Ahead
      <3>2. ASSUME NEW e \in Event, inbox' = Append(inbox, PostedNext(e))
            PROVE  \E q \in DOMAIN inbox' : q < p /\ inbox'[q] = PostedEvent(a)
        <4>1. PostedNext(e) \in Handler /\ PostedEvent(b) # PostedNext(e)
          BY HandlerFacts
        <4>2. p \in DOMAIN inbox /\ inbox[p] = PostedEvent(b)
          BY <2>1, <3>2, <4>1, InboxGrows
        <4>3. PICK q \in DOMAIN inbox : q < p /\ inbox[q] = PostedEvent(a)
          BY <1>6, <2>1, <4>2 DEF Ahead
        <4> QED
          BY <3>2, <4>1, <4>3, InboxGrows
      <3>3. ASSUME NEW e \in Event, inbox # <<>>, Head(inbox) = PostedNext(e), inbox' = Tail(inbox)
            PROVE  \E q \in DOMAIN inbox' : q < p /\ inbox'[q] = PostedEvent(a)
        <4>1. p + 1 \in DOMAIN inbox /\ inbox[p + 1] = PostedEvent(b) /\ p \in Nat
          BY <2>1, <3>3, InboxShrinks
        <4>2. PICK q \in DOMAIN inbox : q < p + 1 /\ inbox[q] = PostedEvent(a)
          BY <1>6, <2>1, <4>1 DEF Ahead
        <4>3. q # 1
          BY <3>3, <4>2, InboxShrinks, HandlerFacts
        <4>4. q - 1 \in DOMAIN inbox' /\ inbox'[q - 1] = PostedEvent(a) /\ q \in Nat
          BY <3>3, <4>2, <4>3, InboxShrinks
        <4>5. q - 1 < p
          BY <4>1, <4>2, <4>4
        <4> QED
          BY <4>4, <4>5
      <3> QED
        BY <3>1, <3>2, <3>3 DEF Passes
    <2> QED
      BY <1>1, <1>6, <2>1 DEF Ahead, InLine, PostedEvent
  <1>7. LanesAreKept'
    BY <1>1, <1>6 DEF OInv, LanesAreKept, Called
  <1> QED
    BY <1>3, <1>5, <1>7 DEF OInv

LEMMA StepOInv == TypeOK /\ OInv /\ [Next]_vars => OInv'
  BY StepKind, PushesOInv, PostsOInv, EnqueuesOInv, PassesOInv

LEMMA InitOInv == Init => OInv
  <1> SUFFICES ASSUME Init PROVE OInv
    OBVIOUS
  <1>1. Lined = <<>> /\ inbox = <<>> /\ order = <<>> /\ Submitted = {}
    BY DEF Init, Lined, Submitted
  <1> QED
    BY <1>1, EmptyOccurs DEF OInv, Placed, PushedIsInLine, LanesAreKept

(* An event has one place in line.                                         *)
LEMMA LinedOnce ==
    ASSUME TypeOK, OInv, NEW p \in DOMAIN Lined, NEW q \in DOMAIN Lined, Lined[p] = Lined[q]
    PROVE  p = q
  <1>1. Lined[p] \in Event
    BY LinedType
  <1>2. ~Never(Lined, {Lined[p]})
    BY DEF Never
  <1>3. Once(Lined, {Lined[p]})
    BY <1>1, <1>2 DEF OInv, Placed
  <1> QED
    BY <1>3 DEF Once

LEMMA CallOrderHolds == TypeOK /\ OInv => CallOrder
  <1> SUFFICES ASSUME TypeOK, OInv,
                      NEW i \in DOMAIN order, NEW j \in DOMAIN order, i < j,
                      order[i][1] = order[j][1], order[i][2] = order[j][2],
                      Began(order[j][3])
               PROVE  /\ Began(order[i][3])
                      /\ Position(started, order[i][3]) < Position(started, order[j][3])
    BY DEF CallOrder
  <1> DEFINE a == order[i][3]  b == order[j][3]
  <1>1. a \in Event /\ b \in Event
    BY DEF TypeOK
  <1>2. Ahead(a, b)
    BY <1>1 DEF OInv, LanesAreKept, Called
  <1>3. Began(b)
    OBVIOUS
  <1> HIDE DEF a, b
  <1>4. /\ DOMAIN started = 1..Len(started) /\ Len(started) \in Nat
        /\ DOMAIN Lined = 1..Len(Lined) /\ Len(Lined) \in Nat
    BY LinedType, LenProperties DEF TypeOK
  <1>5. PICK p \in DOMAIN started : started[p] = b
    BY <1>3 DEF Began
  <1>6. PICK q \in DOMAIN Lined : q < p /\ Lined[q] = a
    BY <1>2, <1>5, StartedIsFirst DEF Ahead
  <1>7. q \in DOMAIN started /\ started[q] = a
    BY <1>4, <1>5, <1>6, StartedIsFirst
  <1>8. ASSUME NEW r \in DOMAIN started, NEW t \in DOMAIN started, started[r] = started[t] PROVE r = t
    BY <1>8, StartedIsFirst, LinedOnce
  <1>9. Position(started, a) = q
    BY <1>7, <1>8 DEF Position
  <1>10. Position(started, b) = p
    BY <1>5, <1>8 DEF Position
  <1>11. Began(a)
    BY <1>7 DEF Began
  <1> QED
    BY <1>6, <1>9, <1>10, <1>11 DEF a, b

(* What a thread submits with one of the two calls begins in the order of  *)
(* its calls, whatever the other threads submit and wherever the guards    *)
(* are destroyed.                                                          *)
THEOREM InOrder == Spec => []CallOrder
  <1>1. IInv => TypeOK
    BY DEF IInv
  <1> QED
    BY <1>1, InitIInv, StepIInv, InitOInv, StepOInv, CallOrderHolds, PTL DEF Spec

-----------------------------------------------------------------------------
(***************************************************************************)
(* What a send comes to, for any number of threads, sends and lives.       *)
(*                                                                         *)
(* SendsAreTold is not inductive.  That nobody is told twice and nobody is *)
(* forgotten needs that a send is in one place at a time (Places).  That a *)
(* send is written in its own life needs that the life's id tells the life *)
(* (IdsTell), across a stop that is still in line (StopInLine).  That none *)
(* is left in a stopped pool from an earlier life needs that the pool      *)
(* stops with no call under way (Drained).                                 *)
(***************************************************************************)
Post(e, t) == {Send!E(e, t)}
StopEvent == Post("stop", Send!Client)

Queued == [e : {"send"}, t : Sender] \cup Post("connect", Send!Client) \cup StopEvent
Posted == Queued \cup [e : {"call"}, t : Sender]

Answers == Seq({"sent", "failed"})
Op == [at : {"none", "begun", "pushed"}, kind : Send!Kind, id : Addr,
       born : Nat, wrote : Nat, told : Answers]

SendTypeOK ==
    /\ op \in [Sender -> Op]
    /\ s_inbox \in Seq(Posted) /\ s_queue \in Seq(Queued)
    /\ writing \in BOOLEAN /\ up \in BOOLEAN /\ down \in BOOLEAN
    /\ s_life \in Nat \ {0} /\ life_id \in Addr /\ pool \in {"on", "drain", "off"}

(* A send is in the inbox, in the queue, or its callback is posted; and    *)
(* as long as it is, its caller has been told nothing.                     *)
Nowhere(t) ==
    Never(s_inbox, Post("send", t)) /\ Never(s_queue, Post("send", t)) /\ Never(s_inbox, Post("call", t))
Arriving(t) ==
    Once(s_inbox, Post("send", t)) /\ Never(s_queue, Post("send", t)) /\ Never(s_inbox, Post("call", t))
InTurn(t) ==
    Never(s_inbox, Post("send", t)) /\ Once(s_queue, Post("send", t)) /\ Never(s_inbox, Post("call", t))
CalledBack(t) ==
    Never(s_inbox, Post("send", t)) /\ Never(s_queue, Post("send", t)) /\ Once(s_inbox, Post("call", t))

InPlace(t) ==
    \/ /\ Nowhere(t) /\ Len(op[t].told) <= 1
       /\ op[t].at # "pushed" => op[t].told = <<>>
       /\ op[t].at = "pushed" /\ op[t].kind # "plain" => op[t].told # <<>>
    \/ /\ op[t].at = "pushed" /\ op[t].told = <<>>
       /\ Arriving(t) \/ InTurn(t) \/ (CalledBack(t) /\ op[t].kind = "callback")

Places == \A t \in Sender : InPlace(t)

(* The write under way is the front's.                                     *)
WriteIsFront == writing => s_queue # <<>> /\ Head(s_queue).e = "send"

(* A stop is in line once, in a client that runs and has a life left.      *)
StopInLine ==
    \/ Never(s_inbox, StopEvent) /\ Never(s_queue, StopEvent)
    \/ /\ pool = "on" /\ ~down /\ s_life < MaxLife
       /\ \/ Once(s_inbox, StopEvent) /\ Never(s_queue, StopEvent)
          \/ Never(s_inbox, StopEvent) /\ Once(s_queue, StopEvent)

(* A send that is under way has the life's id just when it is of this life.*)
IdsTell ==
    \A t \in Sender :
       /\ op[t].wrote \in {0, op[t].born}
       /\ op[t].at = "none" => op[t].wrote = 0
       /\ op[t].at # "none" => /\ op[t].born \in 1..s_life
                               /\ op[t].id = life_id <=> op[t].born = s_life

(* Once the pool drains, no call under way is of an earlier life, and what *)
(* is posted into a stopped pool neither.                                  *)
Drained ==
    \A t \in Sender : op[t].born # s_life =>
       /\ pool # "on" => op[t].at # "begun"
       /\ pool = "off" => Never(s_inbox, Post("send", t))

SendInv == SendTypeOK /\ Places /\ WriteIsFront /\ StopInLine /\ IdsTell /\ Drained

-----------------------------------------------------------------------------
LEMMA ContainsOccurs ==
    ASSUME NEW T, NEW q \in Seq(T), NEW e, NEW t
    PROVE  Send!Contains(q, Send!E(e, t)) <=> ~Never(q, Post(e, t))
  BY LenProperties DEF Send!Contains, Never, Post

LEMMA PostIsEvent ==
    \A e, d, t, u : Send!E(e, t) \in Post(d, u) <=> e = d /\ t = u
  BY DEF Send!E, Post

(* What is posted is one of these.                                         *)
LEMMA PostedIs ==
    /\ \A t \in Sender : Send!E("send", t) \in Queued /\ Send!E("call", t) \in Posted
    /\ Send!E("connect", Send!Client) \in Queued /\ Send!E("stop", Send!Client) \in Queued
    /\ Queued \subseteq Posted
    /\ \A m \in Posted : m = Send!E(m.e, m.t)
    /\ \A m \in Posted : m.e \in {"send", "call", "connect", "stop"}
    /\ \A m \in Posted : m.e \in {"send", "call"} => m.t \in Sender
    /\ \A m \in Posted : m.e \in {"connect", "stop"} => m.t = Send!Client
    /\ \A m \in Posted : m.e # "call" => m \in Queued
    /\ \A m \in Queued : m.e # "call"
  BY DEF Posted, Queued, Post, StopEvent, Send!E

(* A send of which some fields change.                                     *)
Changed(o, at, wrote, told) ==
    [at |-> at, kind |-> o.kind, id |-> o.id, born |-> o.born, wrote |-> wrote, told |-> told]

LEMMA OpChanges ==
    ASSUME NEW o \in Op
    PROVE  /\ [o EXCEPT !.at = "pushed"] = Changed(o, "pushed", o.wrote, o.told)
           /\ \A n : [o EXCEPT !.wrote = n] = Changed(o, o.at, n, o.told)
           /\ \A a : [o EXCEPT !.told = a] = Changed(o, o.at, o.wrote, a)
           /\ Changed(o, "pushed", o.wrote, o.told) \in Op
           /\ \A n \in Nat : Changed(o, o.at, n, o.told) \in Op
           /\ \A a \in Answers : Changed(o, o.at, o.wrote, a) \in Op
  BY DEF Op, Changed

LEMMA NoSendIs ==
    ASSUME NEW x \in Addr
    PROVE  /\ Send!NoSend \in Op /\ Send!NoSend.at = "none"
           /\ Send!NoSend.born = 0 /\ Send!NoSend.wrote = 0 /\ Send!NoSend.told = <<>>
<1> DEFINE a == CHOOSE b \in Addr : TRUE
<1>1. a \in Addr
  OBVIOUS
<1>2. Send!NoSend = [at |-> "none", kind |-> "plain", id |-> a,
                     born |-> 0, wrote |-> 0, told |-> <<>>]
  BY DEF Send!NoSend
<1> HIDE DEF a
<1> QED BY <1>1, <1>2, EmptySeq DEF Op, Answers, Send!Kind

LEMMA SendInitInv == Send!Init => SendInv
<1> SUFFICES ASSUME Send!Init PROVE SendInv
  OBVIOUS
<1>1. /\ \A t \in Sender : op[t] = Send!NoSend
      /\ life_id \in Addr
  BY DEF Send!Init
<1>2. /\ Send!NoSend \in Op /\ Send!NoSend.at = "none"
      /\ Send!NoSend.born = 0 /\ Send!NoSend.wrote = 0 /\ Send!NoSend.told = <<>>
  BY <1>1, NoSendIs
<1>3. SendTypeOK
  <2>1. op \in [Sender -> Op]
    BY <1>2 DEF Send!Init
  <2>2. <<>> \in Seq(Posted) /\ <<>> \in Seq(Queued)
    BY EmptySeq
  <2>3. s_inbox \in Seq(Posted) /\ s_queue \in Seq(Queued)
    BY <2>2 DEF Send!Init
  <2>4. writing \in BOOLEAN /\ up \in BOOLEAN /\ down \in BOOLEAN
    BY DEF Send!Init
  <2>5. s_life \in Nat \ {0} /\ life_id \in Addr /\ pool \in {"on", "drain", "off"}
    BY DEF Send!Init
  <2> QED BY <2>1, <2>3, <2>4, <2>5 DEF SendTypeOK
<1>4. Places
  BY <1>1, <1>2, EmptyOccurs DEF Send!Init, Places, InPlace, Nowhere
<1>5. WriteIsFront /\ StopInLine
  BY EmptyOccurs DEF Send!Init, WriteIsFront, StopInLine
<1>6. IdsTell /\ Drained
  BY <1>1, <1>2, EmptyOccurs DEF Send!Init, IdsTell, Drained
<1> QED BY <1>3, <1>4, <1>5, <1>6 DEF SendInv

-----------------------------------------------------------------------------
(* The threads.                                                            *)

LEMMA BegunIs ==
    ASSUME NEW kind
    PROVE  [Send!NoSend EXCEPT !.at = "begun", !.kind = kind, !.id = life_id, !.born = s_life]
              = [at |-> "begun", kind |-> kind, id |-> life_id, born |-> s_life,
                 wrote |-> 0, told |-> <<>>]
<1> DEFINE a == CHOOSE b \in Addr : TRUE
           R(at, k, id, b) == [at |-> at, kind |-> k, id |-> id, born |-> b,
                               wrote |-> 0, told |-> <<>>]
           n == Send!NoSend
<1>1. n = R("none", "plain", a, 0)
  BY DEF Send!NoSend
<1> HIDE DEF a, n
<1>2. [R("none", "plain", a, 0) EXCEPT !.at = "begun"] = R("begun", "plain", a, 0)
  OBVIOUS
<1>3. [R("begun", "plain", a, 0) EXCEPT !.kind = kind] = R("begun", kind, a, 0)
  OBVIOUS
<1>4. [R("begun", kind, a, 0) EXCEPT !.id = life_id] = R("begun", kind, life_id, 0)
  OBVIOUS
<1>5. [R("begun", kind, life_id, 0) EXCEPT !.born = s_life] = R("begun", kind, life_id, s_life)
  OBVIOUS
<1>6. [n EXCEPT !.at = "begun", !.kind = kind, !.id = life_id, !.born = s_life]
         = [[[[n EXCEPT !.at = "begun"] EXCEPT !.kind = kind]
                 EXCEPT !.id = life_id] EXCEPT !.born = s_life]
  OBVIOUS
<1> HIDE DEF R
<1>7. [n EXCEPT !.at = "begun", !.kind = kind, !.id = life_id, !.born = s_life]
         = R("begun", kind, life_id, s_life)
  BY <1>1, <1>2, <1>3, <1>4, <1>5, <1>6
<1> QED BY <1>7 DEF R, n

LEMMA BeginKeeps ==
    ASSUME SendInv, NEW t \in Sender, NEW kind \in Send!Kind, Send!Begin(t, kind)
    PROVE  SendInv'
<1> DEFINE r == [at |-> "begun", kind |-> kind, id |-> life_id, born |-> s_life,
                 wrote |-> 0, told |-> <<>>]
<1>1. /\ op[t].at = "none"
      /\ op' = [op EXCEPT ![t] = r]
      /\ UNCHANGED <<s_inbox, s_queue, writing, up, down, s_life, life_id, pool>>
  BY BegunIs DEF Send!Begin
<1>2. r \in Op /\ SendTypeOK /\ Places /\ WriteIsFront /\ StopInLine /\ IdsTell /\ Drained
  BY EmptySeq DEF Op, Answers, SendInv, SendTypeOK
<1>3. SendTypeOK'
  BY <1>1, <1>2 DEF SendTypeOK
<1>4. \A u \in Sender : op'[u] = IF u = t THEN r ELSE op[u]
  BY <1>1, <1>2 DEF SendTypeOK
<1>5. Places'
  <2> SUFFICES ASSUME NEW u \in Sender PROVE InPlace(u)'
    BY DEF Places
  <2>1. InPlace(u)
    BY <1>2 DEF Places
  <2> QED BY <1>1, <1>4, <2>1 DEF InPlace, Nowhere, Arriving, InTurn, CalledBack
<1>6. WriteIsFront' /\ StopInLine'
  BY <1>1, <1>2 DEF WriteIsFront, StopInLine
<1>7. IdsTell' /\ Drained'
  BY <1>1, <1>2, <1>4 DEF IdsTell, Drained, SendTypeOK
<1> QED BY <1>3, <1>5, <1>6, <1>7 DEF SendInv

LEMMA PushKeeps ==
    ASSUME SendInv, NEW t \in Sender, Send!Push(t)
    PROVE  SendInv'
<1> DEFINE e == Send!E("send", t)
<1>1. /\ op[t].at = "begun"
      /\ op' = [op EXCEPT ![t].at = "pushed"] /\ s_inbox' = Append(s_inbox, e)
      /\ UNCHANGED <<s_queue, writing, up, down, s_life, life_id, pool>>
  BY DEF Send!Push
<1>2. SendTypeOK /\ Places /\ WriteIsFront /\ StopInLine /\ IdsTell /\ Drained
  BY DEF SendInv
<1>3. e \in Posted /\ s_inbox \in Seq(Posted)
  BY <1>2, PostedIs DEF SendTypeOK
<1>4. op[t] \in Op /\ op' = [op EXCEPT ![t] = [op[t] EXCEPT !.at = "pushed"]]
  BY <1>1, <1>2 DEF SendTypeOK
<1> DEFINE r == Changed(op[t], "pushed", op[t].wrote, op[t].told)
<1>5. r \in Op /\ \A u \in Sender : op'[u] = IF u = t THEN r ELSE op[u]
  BY <1>2, <1>4, OpChanges DEF SendTypeOK
<1>11. SendTypeOK'
  BY <1>1, <1>2, <1>3, <1>4, <1>5, AppendOccurs DEF SendTypeOK
<1>6. /\ \A S : Never(s_inbox', S) <=> Never(s_inbox, S) /\ e \notin S
      /\ \A S : e \notin S => (Once(s_inbox', S) <=> Once(s_inbox, S))
      /\ \A S : e \in S => (Once(s_inbox', S) <=> Never(s_inbox, S))
  BY <1>1, <1>3, AppendOccurs
<1>7. Places'
  <2> SUFFICES ASSUME NEW u \in Sender PROVE InPlace(u)'
    BY DEF Places
  <2>1. InPlace(u)
    BY <1>2 DEF Places
  <2>2. /\ e \in Post("send", u) <=> u = t
        /\ e \notin Post("call", u)
    BY PostIsEvent
  <2>3. /\ Never(s_inbox', Post("send", u)) <=> Never(s_inbox, Post("send", u)) /\ u # t
        /\ u # t => (Once(s_inbox', Post("send", u)) <=> Once(s_inbox, Post("send", u)))
        /\ u = t => (Once(s_inbox', Post("send", u)) <=> Never(s_inbox, Post("send", u)))
        /\ Never(s_inbox', Post("call", u)) <=> Never(s_inbox, Post("call", u))
        /\ Once(s_inbox', Post("call", u)) <=> Once(s_inbox, Post("call", u))
    BY <1>6, <2>2
  <2>4. op[u] \in Op
    BY <1>2 DEF SendTypeOK
  <2> QED BY <1>1, <1>5, <2>1, <2>3, <2>4 DEF InPlace, Nowhere, Arriving, InTurn, CalledBack, Changed
<1>8. WriteIsFront' /\ StopInLine'
  <2>1. e \notin StopEvent
    BY PostIsEvent DEF StopEvent
  <2>2. /\ Never(s_inbox', StopEvent) <=> Never(s_inbox, StopEvent)
        /\ Once(s_inbox', StopEvent) <=> Once(s_inbox, StopEvent)
    BY <1>6, <2>1
  <2> QED BY <1>1, <1>2, <2>2 DEF WriteIsFront, StopInLine
<1>9. IdsTell'
  BY <1>1, <1>2, <1>5 DEF IdsTell, SendTypeOK, Op
<1>10. Drained'
  <2> SUFFICES ASSUME NEW u \in Sender, op'[u].born # s_life'
               PROVE  /\ pool' # "on" => op'[u].at # "begun"
                      /\ pool' = "off" => Never(s_inbox', Post("send", u))
    BY DEF Drained
  <2>1. op'[u].born = op[u].born
    BY <1>5 DEF Changed
  <2>2. Never(s_inbox', Post("send", u)) <=> Never(s_inbox, Post("send", u)) /\ u # t
    BY <1>6, PostIsEvent
  <2> QED BY <1>1, <1>2, <1>5, <2>1, <2>2 DEF Drained
<1> QED BY <1>11, <1>7, <1>8, <1>9, <1>10 DEF SendInv

LEMMA ReturnKeeps ==
    ASSUME SendInv, NEW t \in Sender, Send!Return(t)
    PROVE  SendInv'
<1>1. /\ op' = [op EXCEPT ![t] = Send!NoSend] /\ Send!Over(t)
      /\ UNCHANGED <<s_inbox, s_queue, writing, up, down, s_life, life_id, pool>>
  BY DEF Send!Return
<1>2. SendTypeOK /\ Places /\ WriteIsFront /\ StopInLine /\ IdsTell /\ Drained
  BY DEF SendInv
<1>3. /\ Send!NoSend \in Op /\ Send!NoSend.at = "none"
      /\ Send!NoSend.born = 0 /\ Send!NoSend.wrote = 0 /\ Send!NoSend.told = <<>>
  BY <1>2, NoSendIs DEF SendTypeOK
<1>4. Nowhere(t)
  BY <1>1, <1>2, ContainsOccurs DEF SendTypeOK, Send!Over, Nowhere
<1>5. \A u \in Sender : op'[u] = IF u = t THEN Send!NoSend ELSE op[u]
  BY <1>1, <1>2 DEF SendTypeOK
<1>6. SendTypeOK'
  BY <1>1, <1>2, <1>3 DEF SendTypeOK
<1>7. Places'
  <2> SUFFICES ASSUME NEW u \in Sender PROVE InPlace(u)'
    BY DEF Places
  <2>1. InPlace(u)
    BY <1>2 DEF Places
  <2> QED BY <1>1, <1>3, <1>4, <1>5, <2>1 DEF InPlace, Nowhere, Arriving, InTurn, CalledBack
<1>8. WriteIsFront' /\ StopInLine'
  BY <1>1, <1>2 DEF WriteIsFront, StopInLine
<1>9. IdsTell' /\ Drained'
  BY <1>1, <1>2, <1>3, <1>4, <1>5 DEF IdsTell, Drained, Nowhere
<1> QED BY <1>6, <1>7, <1>8, <1>9 DEF SendInv

(* What the client posts is no send.                                       *)
LEMMA ClientPosts ==
    ASSUME SendTypeOK, NEW k \in {"connect", "stop"},
           s_inbox' = Append(s_inbox, Send!E(k, Send!Client)), UNCHANGED s_queue
    PROVE  /\ s_inbox' \in Seq(Posted)
           /\ \A t : /\ Never(s_inbox', Post("send", t)) <=> Never(s_inbox, Post("send", t))
                     /\ Once(s_inbox', Post("send", t)) <=> Once(s_inbox, Post("send", t))
                     /\ Never(s_inbox', Post("call", t)) <=> Never(s_inbox, Post("call", t))
                     /\ Once(s_inbox', Post("call", t)) <=> Once(s_inbox, Post("call", t))
           /\ k = "connect" => /\ Never(s_inbox', StopEvent) <=> Never(s_inbox, StopEvent)
                               /\ Once(s_inbox', StopEvent) <=> Once(s_inbox, StopEvent)
           /\ k = "stop" => (Once(s_inbox', StopEvent) <=> Never(s_inbox, StopEvent))
<1> DEFINE e == Send!E(k, Send!Client)
<1>1. e \in Posted /\ s_inbox \in Seq(Posted)
  BY PostedIs DEF SendTypeOK
<1>2. /\ \A t : e \notin Post("send", t) /\ e \notin Post("call", t)
      /\ e \in StopEvent <=> k = "stop"
  BY PostIsEvent DEF StopEvent
<1>3. /\ s_inbox' \in Seq(Posted)
      /\ \A S : Never(s_inbox', S) <=> Never(s_inbox, S) /\ e \notin S
      /\ \A S : e \notin S => (Once(s_inbox', S) <=> Once(s_inbox, S))
      /\ \A S : e \in S => (Once(s_inbox', S) <=> Never(s_inbox, S))
  BY <1>1, AppendOccurs
<1> QED BY <1>2, <1>3

(* A step that no send sees: only the inbox, by what the client posts, and *)
(* the state of the client change.                                         *)
LEMMA PlacesAsBefore ==
    ASSUME SendInv, UNCHANGED <<op, s_queue>>,
           \A t : /\ Never(s_inbox', Post("send", t)) <=> Never(s_inbox, Post("send", t))
                  /\ Once(s_inbox', Post("send", t)) <=> Once(s_inbox, Post("send", t))
                  /\ Never(s_inbox', Post("call", t)) <=> Never(s_inbox, Post("call", t))
                  /\ Once(s_inbox', Post("call", t)) <=> Once(s_inbox, Post("call", t))
    PROVE  Places'
  BY DEF SendInv, Places, InPlace, Nowhere, Arriving, InTurn, CalledBack

LEMMA ClientKeeps ==
    ASSUME SendInv,
           \/ Send!Start \/ Send!Again \/ Send!Stop \/ Send!StopPool \/ Send!RunReturns
           \/ Send!Lost \/ Send!Reconnect
    PROVE  SendInv'
<1> SendTypeOK /\ Places /\ WriteIsFront /\ StopInLine /\ IdsTell /\ Drained
  BY DEF SendInv
<1>1. CASE Send!Start
  <2>1. /\ pool = "off" /\ pool' = "on" /\ s_inbox' = Append(s_inbox, Send!E("connect", Send!Client))
        /\ UNCHANGED <<op, s_queue, writing, up, down, s_life, life_id>>
    BY <1>1 DEF Send!Start
  <2>2. SendTypeOK'
    BY <2>1, ClientPosts DEF SendTypeOK
  <2>3. Places'
    BY <2>1, ClientPosts, PlacesAsBefore
  <2>4. WriteIsFront' /\ StopInLine'
    BY <2>1, ClientPosts DEF WriteIsFront, StopInLine
  <2>5. IdsTell' /\ Drained'
    BY <2>1 DEF IdsTell, Drained
  <2> QED BY <2>2, <2>3, <2>4, <2>5 DEF SendInv
<1>2. CASE Send!Again
  <2>1. /\ pool = "on" /\ s_inbox' = Append(s_inbox, Send!E("connect", Send!Client))
        /\ UNCHANGED <<op, s_queue, writing, up, down, s_life, life_id, pool>>
    BY <1>2 DEF Send!Again
  <2>2. SendTypeOK'
    BY <2>1, ClientPosts DEF SendTypeOK
  <2>3. Places'
    BY <2>1, ClientPosts, PlacesAsBefore
  <2>4. WriteIsFront' /\ StopInLine'
    BY <2>1, ClientPosts DEF WriteIsFront, StopInLine
  <2>5. IdsTell' /\ Drained'
    BY <2>1 DEF IdsTell, Drained
  <2> QED BY <2>2, <2>3, <2>4, <2>5 DEF SendInv
<1>3. CASE Send!Stop
  <2>1. /\ pool = "on" /\ ~down /\ s_life < MaxLife
        /\ ~Send!Contains(s_inbox, Send!E("stop", Send!Client))
        /\ ~Send!Contains(s_queue, Send!E("stop", Send!Client))
        /\ s_inbox' = Append(s_inbox, Send!E("stop", Send!Client))
        /\ UNCHANGED <<op, s_queue, writing, up, down, s_life, life_id, pool>>
    BY <1>3 DEF Send!Stop
  <2>2. Never(s_inbox, StopEvent) /\ Never(s_queue, StopEvent)
    BY <2>1, ContainsOccurs DEF SendTypeOK, StopEvent
  <2>3. SendTypeOK'
    BY <2>1, ClientPosts DEF SendTypeOK
  <2>4. Places'
    BY <2>1, ClientPosts, PlacesAsBefore
  <2>5. WriteIsFront' /\ StopInLine'
    BY <2>1, <2>2, ClientPosts DEF WriteIsFront, StopInLine
  <2>6. IdsTell' /\ Drained'
    BY <2>1 DEF IdsTell, Drained
  <2> QED BY <2>3, <2>4, <2>5, <2>6 DEF SendInv
<1>4. CASE Send!StopPool
  <2>1. /\ pool = "on" /\ down /\ pool' = "drain" /\ \A t \in Sender : op[t].at # "begun"
        /\ UNCHANGED <<op, s_inbox, s_queue, writing, up, down, s_life, life_id>>
    BY <1>4 DEF Send!StopPool, Send!Threads
  <2>2. SendTypeOK' /\ Places'
    BY <2>1, PlacesAsBefore DEF SendTypeOK
  <2>3. WriteIsFront' /\ StopInLine'
    BY <2>1 DEF WriteIsFront, StopInLine
  <2>4. IdsTell' /\ Drained'
    BY <2>1 DEF IdsTell, Drained
  <2> QED BY <2>2, <2>3, <2>4 DEF SendInv
<1>5. CASE Send!RunReturns
  <2>1. /\ pool = "drain" /\ pool' = "off" /\ s_inbox = <<>>
        /\ UNCHANGED <<op, s_inbox, s_queue, writing, up, down, s_life, life_id>>
    BY <1>5 DEF Send!RunReturns
  <2>2. SendTypeOK' /\ Places'
    BY <2>1, PlacesAsBefore DEF SendTypeOK
  <2>3. WriteIsFront' /\ StopInLine'
    BY <2>1 DEF WriteIsFront, StopInLine
  <2>4. IdsTell' /\ Drained'
    BY <2>1, EmptyOccurs DEF IdsTell, Drained
  <2> QED BY <2>2, <2>3, <2>4 DEF SendInv
<1>6. CASE Send!Lost \/ Send!Reconnect
  <2>1. up' \in BOOLEAN /\ UNCHANGED <<op, s_inbox, s_queue, writing, down, s_life, life_id, pool>>
    BY <1>6 DEF Send!Lost, Send!Reconnect
  <2>2. SendTypeOK' /\ Places'
    BY <2>1, PlacesAsBefore DEF SendTypeOK
  <2>3. WriteIsFront' /\ StopInLine' /\ IdsTell' /\ Drained'
    BY <2>1 DEF WriteIsFront, StopInLine, IdsTell, Drained
  <2> QED BY <2>2, <2>3 DEF SendInv
<1> QED BY <1>1, <1>2, <1>3, <1>4, <1>5, <1>6

-----------------------------------------------------------------------------
(* The io_context's thread.                                                *)

(* The inbox's next handler but a callback goes to the queue.              *)
LEMMA RunPostedKeeps ==
    ASSUME SendInv, Send!RunPosted
    PROVE  SendInv'
<1> DEFINE h == Head(s_inbox)
<1>1. /\ pool # "off" /\ s_inbox # <<>> /\ h.e # "call"
      /\ s_inbox' = Tail(s_inbox) /\ s_queue' = Append(s_queue, h)
      /\ UNCHANGED <<op, writing, up, down, s_life, life_id, pool>>
  BY DEF Send!RunPosted
<1>2. SendTypeOK /\ Places /\ WriteIsFront /\ StopInLine /\ IdsTell /\ Drained
  BY DEF SendInv
<1>3. s_inbox \in Seq(Posted) /\ s_queue \in Seq(Queued)
  BY <1>2 DEF SendTypeOK
<1>4. /\ h \in Posted /\ s_inbox' \in Seq(Posted)
      /\ \A S : Never(s_inbox, S) <=> h \notin S /\ Never(s_inbox', S)
      /\ \A S : h \notin S => (Once(s_inbox, S) <=> Once(s_inbox', S))
      /\ \A S : h \in S => (Once(s_inbox, S) <=> Never(s_inbox', S))
  BY <1>1, <1>3, TailOccurs
<1>5. h \in Queued
  BY <1>1, <1>4, PostedIs
<1>6. /\ s_queue' \in Seq(Queued) /\ s_queue' # <<>>
      /\ Head(s_queue') = IF s_queue = <<>> THEN h ELSE Head(s_queue)
      /\ \A S : Never(s_queue', S) <=> Never(s_queue, S) /\ h \notin S
      /\ \A S : h \notin S => (Once(s_queue', S) <=> Once(s_queue, S))
      /\ \A S : h \in S => (Once(s_queue', S) <=> Never(s_queue, S))
  BY <1>1, <1>3, <1>5, AppendOccurs
<1>7. \A S : Once(s_inbox, S) => ~Never(s_inbox, S)
  BY OnceIsNotNever
<1>8. SendTypeOK'
  BY <1>1, <1>2, <1>4, <1>6 DEF SendTypeOK
<1>9. Places'
  <2> SUFFICES ASSUME NEW u \in Sender PROVE InPlace(u)'
    BY DEF Places
  <2>1. InPlace(u)
    BY <1>2 DEF Places
  <2>2. h \notin Post("call", u)
    BY <1>1 DEF Post, Send!E
  <2> HIDE DEF h
  <2>3. CASE h \in Post("send", u)
    <3>1. Arriving(u)
      BY <1>4, <2>1, <2>3 DEF InPlace, Nowhere, Arriving, InTurn, CalledBack
    <3>2. InTurn(u)'
      BY <1>4, <1>6, <2>2, <2>3, <3>1 DEF Arriving, InTurn
    <3>3. op[u].at = "pushed" /\ op[u].told = <<>>
      BY <1>7, <2>1, <3>1 DEF InPlace, Nowhere, Arriving
    <3> QED BY <1>1, <3>2, <3>3 DEF InPlace
  <2>4. CASE h \notin Post("send", u)
    <3>1. /\ Nowhere(u)' <=> Nowhere(u)
          /\ Arriving(u)' <=> Arriving(u)
          /\ InTurn(u)' <=> InTurn(u)
          /\ CalledBack(u)' <=> CalledBack(u)
      BY <1>4, <1>6, <2>2, <2>4 DEF Nowhere, Arriving, InTurn, CalledBack
    <3> QED BY <1>1, <2>1, <3>1 DEF InPlace
  <2> QED BY <2>3, <2>4
<1>10. WriteIsFront'
  BY <1>1, <1>2, <1>6 DEF WriteIsFront
<1>11. StopInLine'
  BY <1>1, <1>2, <1>4, <1>6 DEF StopInLine
<1>12. IdsTell' /\ Drained'
  BY <1>1, <1>2, <1>4 DEF IdsTell, Drained
<1> QED BY <1>8, <1>9, <1>10, <1>11, <1>12 DEF SendInv

(* Who has been told nothing is told the result.                           *)
LEMMA IsTold ==
    ASSUME SendTypeOK, NEW t \in Sender, op[t].told = <<>>,
           NEW x \in {"sent", "failed"}, op' = Send!Told(t, x)
    PROVE  /\ op' \in [Sender -> Op] /\ \A u \in Sender : u # t => op'[u] = op[u]
           /\ op'[t].at = op[t].at /\ op'[t].kind = op[t].kind /\ op'[t].id = op[t].id
           /\ op'[t].born = op[t].born /\ op'[t].wrote = op[t].wrote
           /\ op'[t].told # <<>> /\ Len(op'[t].told) = 1
<1> DEFINE a == Append(op[t].told, x)
           r == Changed(op[t], op[t].at, op[t].wrote, a)
<1>1. a \in Answers /\ Len(a) = 1 /\ a # <<>>
  BY DEF Answers
<1>2. op[t] \in Op /\ op \in [Sender -> Op]
  BY DEF SendTypeOK
<1>3. op' = [op EXCEPT ![t] = [op[t] EXCEPT !.told = a]]
  BY <1>2 DEF Send!Told
<1> HIDE DEF a
<1>4. r \in Op /\ [op[t] EXCEPT !.told = a] = r
  BY <1>1, <1>2, OpChanges
<1> HIDE DEF r
<1>5. op' \in [Sender -> Op] /\ op'[t] = r /\ \A u \in Sender : u # t => op'[u] = op[u]
  BY <1>2, <1>3, <1>4
<1> QED BY <1>1, <1>5 DEF r, Changed

(* The callback that is run is its send's only one.                        *)
LEMMA RunCallbackKeeps ==
    ASSUME SendInv, Send!RunCallback
    PROVE  SendInv'
<1> DEFINE h == Head(s_inbox)
<1>1. /\ s_inbox # <<>> /\ h.e = "call" /\ s_inbox' = Tail(s_inbox)
      /\ op' = Send!Told(h.t, "failed")
      /\ UNCHANGED <<s_queue, writing, up, down, s_life, life_id, pool>>
  BY DEF Send!RunCallback
<1>2. SendTypeOK /\ Places /\ WriteIsFront /\ StopInLine /\ IdsTell /\ Drained
  BY DEF SendInv
<1>3. s_inbox \in Seq(Posted)
  BY <1>2 DEF SendTypeOK
<1>4. /\ h \in Posted /\ s_inbox' \in Seq(Posted)
      /\ \A S : Never(s_inbox, S) <=> h \notin S /\ Never(s_inbox', S)
      /\ \A S : h \notin S => (Once(s_inbox, S) <=> Once(s_inbox', S))
      /\ \A S : h \in S => (Once(s_inbox, S) <=> Never(s_inbox', S))
  BY <1>1, <1>3, TailOccurs
<1>5. PICK t \in Sender : h = Send!E("call", t) /\ h.t = t
  BY <1>1, <1>4, PostedIs
<1> HIDE DEF h
<1>6. /\ h \in Post("call", t) /\ h \notin StopEvent
      /\ \A u : u # t => h \notin Post("call", u)
      /\ \A u : h \notin Post("send", u)
  BY <1>5, PostIsEvent DEF StopEvent
<1>7. op[t].at = "pushed" /\ op[t].told = <<>> /\ CalledBack(t)
  <2>1. InPlace(t) /\ ~Never(s_inbox, Post("call", t))
    BY <1>2, <1>4, <1>5, <1>6 DEF Places
  <2> QED BY <2>1 DEF InPlace, Nowhere, Arriving, InTurn
<1>8. /\ op' \in [Sender -> Op] /\ \A u \in Sender : u # t => op'[u] = op[u]
      /\ op'[t].at = op[t].at /\ op'[t].kind = op[t].kind /\ op'[t].id = op[t].id
      /\ op'[t].born = op[t].born /\ op'[t].wrote = op[t].wrote
      /\ op'[t].told # <<>> /\ Len(op'[t].told) = 1
  BY <1>1, <1>2, <1>5, <1>7, IsTold
<1>9. op'[t].told # <<>> /\ Len(op'[t].told) <= 1 /\ op'[t].at = "pushed"
  BY <1>7, <1>8
<1>10. SendTypeOK'
  BY <1>1, <1>2, <1>4, <1>8 DEF SendTypeOK
<1>11. Places'
  <2> SUFFICES ASSUME NEW u \in Sender PROVE InPlace(u)'
    BY DEF Places
  <2>1. InPlace(u)
    BY <1>2 DEF Places
  <2>2. CASE u = t
    <3>1. Nowhere(u)'
      BY <1>1, <1>4, <1>6, <1>7, <2>2 DEF Nowhere, CalledBack
    <3> QED BY <1>9, <2>2, <3>1 DEF InPlace
  <2>3. CASE u # t
    <3>1. /\ Nowhere(u)' <=> Nowhere(u)
          /\ Arriving(u)' <=> Arriving(u)
          /\ InTurn(u)' <=> InTurn(u)
          /\ CalledBack(u)' <=> CalledBack(u)
      BY <1>1, <1>4, <1>6, <2>3 DEF Nowhere, Arriving, InTurn, CalledBack
    <3> QED BY <1>8, <2>1, <2>3, <3>1 DEF InPlace
  <2> QED BY <2>2, <2>3
<1>12. WriteIsFront' /\ StopInLine'
  BY <1>1, <1>2, <1>4, <1>6 DEF WriteIsFront, StopInLine
<1>13. IdsTell'
  BY <1>1, <1>2, <1>5, <1>8 DEF IdsTell
<1>14. Drained'
  BY <1>1, <1>2, <1>4, <1>5, <1>6, <1>8 DEF Drained
<1> QED BY <1>10, <1>11, <1>12, <1>13, <1>14 DEF SendInv

(* The front of the queue leaves it.                                       *)
LEMMA FrontLeaves ==
    ASSUME SendTypeOK, s_queue # <<>>, s_queue' = Tail(s_queue)
    PROVE  /\ Head(s_queue) \in Queued /\ s_queue' \in Seq(Queued)
           /\ \A S : Never(s_queue, S) <=> Head(s_queue) \notin S /\ Never(s_queue', S)
           /\ \A S : Head(s_queue) \notin S => (Once(s_queue, S) <=> Once(s_queue', S))
           /\ \A S : Head(s_queue) \in S => (Once(s_queue, S) <=> Never(s_queue', S))
  BY TailOccurs DEF SendTypeOK

(* A send at the front is in its turn.                                     *)
LEMMA FrontInTurn ==
    ASSUME SendInv, s_queue # <<>>, Head(s_queue).e = "send"
    PROVE  \E t \in Sender : /\ Head(s_queue) = Send!E("send", t) /\ Head(s_queue).t = t
                             /\ op[t].at = "pushed" /\ op[t].told = <<>> /\ InTurn(t)
<1>1. SendTypeOK /\ Places
  BY DEF SendInv
<1>2. /\ Head(s_queue) \in Posted
      /\ \A S : Never(s_queue, S) => Head(s_queue) \notin S
  BY <1>1, TailOccurs, PostedIs DEF SendTypeOK
<1>3. PICK t \in Sender : Head(s_queue) = Send!E("send", t) /\ Head(s_queue).t = t
  BY <1>2, PostedIs
<1>4. ~Never(s_queue, Post("send", t)) /\ InPlace(t)
  BY <1>1, <1>2, <1>3, PostIsEvent DEF Places
<1> QED BY <1>3, <1>4 DEF InPlace, Nowhere, Arriving, CalledBack

(* A write begins on the connection of the life the send was begun in.     *)
LEMMA RunSendKeeps ==
    ASSUME SendInv, Send!RunSend
    PROVE  SendInv'
<1>1. /\ s_queue # <<>> /\ Head(s_queue).e = "send" /\ Send!Wanted(Head(s_queue).t)
      /\ writing' = TRUE /\ op' = [op EXCEPT ![Head(s_queue).t].wrote = s_life]
      /\ UNCHANGED <<s_inbox, s_queue, up, down, s_life, life_id, pool>>
  BY DEF Send!RunSend, Send!Running
<1>2. SendTypeOK /\ Places /\ WriteIsFront /\ StopInLine /\ IdsTell /\ Drained
  BY DEF SendInv
<1>3. PICK t \in Sender : Head(s_queue).t = t /\ op[t].at = "pushed"
  BY <1>1, FrontInTurn
<1>4. op[t].id = life_id /\ op[t].born = s_life
  BY <1>1, <1>2, <1>3 DEF Send!Wanted, IdsTell
<1> DEFINE r == Changed(op[t], op[t].at, s_life, op[t].told)
<1>5. r \in Op /\ op' \in [Sender -> Op] /\ \A u \in Sender : op'[u] = IF u = t THEN r ELSE op[u]
  <2>1. op[t] \in Op /\ op \in [Sender -> Op] /\ s_life \in Nat
    BY <1>2 DEF SendTypeOK
  <2>2. op' = [op EXCEPT ![t] = [op[t] EXCEPT !.wrote = s_life]]
    BY <1>1, <1>3, <2>1
  <2>3. r \in Op /\ [op[t] EXCEPT !.wrote = s_life] = r
    BY <2>1, OpChanges
  <2> HIDE DEF r
  <2> QED BY <2>1, <2>2, <2>3
<1>6. /\ r.at = op[t].at /\ r.kind = op[t].kind /\ r.id = op[t].id
      /\ r.born = op[t].born /\ r.wrote = s_life /\ r.told = op[t].told
  BY DEF Changed
<1> HIDE DEF r
<1>7. SendTypeOK'
  <2>1. writing' \in BOOLEAN
    BY <1>1
  <2> QED BY <1>1, <1>2, <1>5, <2>1 DEF SendTypeOK
<1>8. Places'
  <2> SUFFICES ASSUME NEW u \in Sender PROVE InPlace(u)'
    BY DEF Places
  <2>1. InPlace(u)
    BY <1>2 DEF Places
  <2>2. op'[u].at = op[u].at /\ op'[u].kind = op[u].kind /\ op'[u].told = op[u].told
    BY <1>5, <1>6
  <2> QED BY <1>1, <2>1, <2>2 DEF InPlace, Nowhere, Arriving, InTurn, CalledBack
<1>9. WriteIsFront' /\ StopInLine'
  BY <1>1, <1>2 DEF WriteIsFront, StopInLine
<1>10. IdsTell'
  BY <1>1, <1>2, <1>3, <1>4, <1>5, <1>6 DEF IdsTell
<1>11. Drained'
  BY <1>1, <1>2, <1>3, <1>4, <1>5, <1>6 DEF Drained
<1> QED BY <1>7, <1>8, <1>9, <1>10, <1>11 DEF SendInv

(* The front's send leaves the queue, told the result if it waits for one. *)
LEMMA ToldLeaves ==
    ASSUME SendInv, NEW t \in Sender, InTurn(t), op[t].at = "pushed", op[t].told = <<>>,
           op' \in [Sender -> Op], \A u \in Sender : u # t => op'[u] = op[u],
           op'[t].at = op[t].at, op'[t].kind = op[t].kind, op'[t].id = op[t].id,
           op'[t].born = op[t].born, op'[t].wrote = op[t].wrote, Len(op'[t].told) <= 1,
           op[t].kind = "plain" \/ op'[t].told # <<>>,
           s_queue' \in Seq(Queued), Never(s_queue', Post("send", t)),
           \A u \in Sender : u # t =>
               /\ Never(s_queue', Post("send", u)) <=> Never(s_queue, Post("send", u))
               /\ Once(s_queue', Post("send", u)) <=> Once(s_queue, Post("send", u)),
           Never(s_queue', StopEvent) <=> Never(s_queue, StopEvent),
           Once(s_queue', StopEvent) <=> Once(s_queue, StopEvent),
           writing' = FALSE, up' \in BOOLEAN,
           UNCHANGED <<s_inbox, down, s_life, life_id, pool>>
    PROVE  SendInv'
<1>1. SendTypeOK /\ Places /\ WriteIsFront /\ StopInLine /\ IdsTell /\ Drained
  BY DEF SendInv
<1>2. SendTypeOK'
  <2>1. writing' \in BOOLEAN
    OBVIOUS
  <2> QED BY <1>1, <2>1 DEF SendTypeOK
<1>3. Places'
  <2> SUFFICES ASSUME NEW u \in Sender PROVE InPlace(u)'
    BY DEF Places
  <2>1. InPlace(u)
    BY <1>1 DEF Places
  <2>2. CASE u = t
    <3>1. Nowhere(u)'
      BY <2>2 DEF InTurn, Nowhere
    <3> QED BY <2>2, <3>1 DEF InPlace
  <2>3. CASE u # t
    <3>1. /\ Nowhere(u)' <=> Nowhere(u)
          /\ Arriving(u)' <=> Arriving(u)
          /\ InTurn(u)' <=> InTurn(u)
          /\ CalledBack(u)' <=> CalledBack(u)
      BY <2>3 DEF Nowhere, Arriving, InTurn, CalledBack
    <3> QED BY <2>1, <2>3, <3>1 DEF InPlace
  <2> QED BY <2>2, <2>3
<1>4. WriteIsFront' /\ StopInLine'
  BY <1>1 DEF WriteIsFront, StopInLine
<1>5. IdsTell' /\ Drained'
  <2>1. \A u \in Sender : /\ op'[u].at = op[u].at /\ op'[u].id = op[u].id
                          /\ op'[u].born = op[u].born /\ op'[u].wrote = op[u].wrote
    OBVIOUS
  <2> QED BY <1>1, <2>1 DEF IdsTell, Drained
<1> QED BY <1>2, <1>3, <1>4, <1>5 DEF SendInv

(* A send that is refused is told so, or has its callback posted.          *)
LEMMA RunRefuseKeeps ==
    ASSUME SendInv, Send!RunRefuse
    PROVE  SendInv'
<1>1. /\ s_queue # <<>> /\ Head(s_queue).e = "send" /\ Send!Refused(Head(s_queue).t)
      /\ s_queue' = Tail(s_queue) /\ ~writing
      /\ UNCHANGED <<writing, up, down, s_life, life_id, pool>>
  BY DEF Send!RunRefuse, Send!Running
<1>2. SendTypeOK /\ Places /\ WriteIsFront /\ StopInLine /\ IdsTell /\ Drained
  BY DEF SendInv
<1>3. PICK t \in Sender : /\ Head(s_queue) = Send!E("send", t) /\ Head(s_queue).t = t
                          /\ op[t].at = "pushed" /\ op[t].told = <<>> /\ InTurn(t)
  BY <1>1, FrontInTurn
<1> DEFINE h == Send!E("send", t)
<1>4. /\ s_queue' \in Seq(Queued)
      /\ \A S : Never(s_queue, S) <=> h \notin S /\ Never(s_queue', S)
      /\ \A S : h \notin S => (Once(s_queue, S) <=> Once(s_queue', S))
      /\ \A S : h \in S => (Once(s_queue, S) <=> Never(s_queue', S))
  BY <1>1, <1>2, <1>3, FrontLeaves
<1>5. /\ \A u : h \in Post("send", u) <=> u = t
      /\ h \notin StopEvent
  BY PostIsEvent DEF StopEvent
<1>6. op[t] \in Op /\ op \in [Sender -> Op] /\ s_inbox \in Seq(Posted)
  BY <1>2 DEF SendTypeOK
<1>7. /\ \A u \in Sender : u # t =>
            /\ Never(s_queue', Post("send", u)) <=> Never(s_queue, Post("send", u))
            /\ Once(s_queue', Post("send", u)) <=> Once(s_queue, Post("send", u))
      /\ Never(s_queue', Post("send", t))
      /\ Never(s_queue', StopEvent) <=> Never(s_queue, StopEvent)
      /\ Once(s_queue', StopEvent) <=> Once(s_queue, StopEvent)
  BY <1>3, <1>4, <1>5 DEF InTurn
<1>11. writing' = FALSE /\ up' \in BOOLEAN
  BY <1>1, <1>2 DEF SendTypeOK
<1>8. CASE op[t].kind = "callback"
  <2> DEFINE c == Send!E("call", t)
  <2>1. op' = op /\ s_inbox' = Append(s_inbox, c)
    BY <1>1, <1>3, <1>8 DEF Send!Refused
  <2>2. c \in Posted
    BY PostedIs
  <2>3. /\ s_inbox' \in Seq(Posted)
        /\ \A S : Never(s_inbox', S) <=> Never(s_inbox, S) /\ c \notin S
        /\ \A S : c \notin S => (Once(s_inbox', S) <=> Once(s_inbox, S))
        /\ \A S : c \in S => (Once(s_inbox', S) <=> Never(s_inbox, S))
    BY <1>6, <2>1, <2>2, AppendOccurs
  <2>4. /\ \A u : c \in Post("call", u) <=> u = t
        /\ \A u : c \notin Post("send", u)
        /\ c \notin StopEvent
    BY PostIsEvent DEF StopEvent
  <2>5. SendTypeOK'
    BY <1>1, <1>2, <1>4, <2>1, <2>3 DEF SendTypeOK
  <2>6. Places'
    <3> SUFFICES ASSUME NEW u \in Sender PROVE InPlace(u)'
      BY DEF Places
    <3>1. InPlace(u)
      BY <1>2 DEF Places
    <3>2. CASE u = t
      <4>1. CalledBack(u)'
        BY <1>3, <1>7, <2>3, <2>4, <3>2 DEF InTurn, CalledBack
      <4> QED BY <1>3, <1>8, <2>1, <3>2, <4>1 DEF InPlace
    <3>3. CASE u # t
      <4>1. /\ Never(s_inbox', Post("send", u)) <=> Never(s_inbox, Post("send", u))
            /\ Once(s_inbox', Post("send", u)) <=> Once(s_inbox, Post("send", u))
            /\ Never(s_inbox', Post("call", u)) <=> Never(s_inbox, Post("call", u))
            /\ Once(s_inbox', Post("call", u)) <=> Once(s_inbox, Post("call", u))
        BY <2>3, <2>4, <3>3
      <4>2. /\ Never(s_queue', Post("send", u)) <=> Never(s_queue, Post("send", u))
            /\ Once(s_queue', Post("send", u)) <=> Once(s_queue, Post("send", u))
        BY <1>7, <3>3
      <4>3. /\ Nowhere(u)' <=> Nowhere(u)
            /\ Arriving(u)' <=> Arriving(u)
            /\ InTurn(u)' <=> InTurn(u)
            /\ CalledBack(u)' <=> CalledBack(u)
        BY <4>1, <4>2 DEF Nowhere, Arriving, InTurn, CalledBack
      <4> QED BY <2>1, <3>1, <4>3 DEF InPlace
    <3> QED BY <3>2, <3>3
  <2>7. WriteIsFront' /\ StopInLine'
    BY <1>1, <1>2, <1>7, <2>3, <2>4 DEF WriteIsFront, StopInLine
  <2>8. IdsTell' /\ Drained'
    BY <1>1, <1>2, <2>1, <2>3, <2>4 DEF IdsTell, Drained
  <2> QED BY <2>5, <2>6, <2>7, <2>8 DEF SendInv
<1>9. CASE op[t].kind \in {"future", "send"}
  <2>1. op' = Send!Told(t, "failed") /\ s_inbox' = s_inbox
    BY <1>1, <1>3, <1>9 DEF Send!Refused
  <2>2. /\ op' \in [Sender -> Op] /\ \A u \in Sender : u # t => op'[u] = op[u]
        /\ op'[t].at = op[t].at /\ op'[t].kind = op[t].kind /\ op'[t].id = op[t].id
        /\ op'[t].born = op[t].born /\ op'[t].wrote = op[t].wrote
        /\ op'[t].told # <<>> /\ Len(op'[t].told) = 1
    BY <1>2, <1>3, <2>1, IsTold
  <2>3. writing' = FALSE /\ up' \in BOOLEAN
    BY <1>11
  <2>4. Len(op'[t].told) <= 1
    BY <2>2
  <2> QED BY <1>1, <1>3, <1>4, <1>7, <2>1, <2>2, <2>3, <2>4, ToldLeaves
<1>10. CASE op[t].kind = "plain"
  <2>1. op' = op /\ s_inbox' = s_inbox
    BY <1>1, <1>3, <1>10 DEF Send!Refused
  <2>2. writing' = FALSE /\ up' \in BOOLEAN
    BY <1>11
  <2>3. Len(op'[t].told) <= 1
    BY <1>3, <2>1
  <2> QED BY <1>1, <1>3, <1>4, <1>6, <1>7, <1>10, <2>1, <2>2, <2>3, ToldLeaves
<1> QED BY <1>6, <1>8, <1>9, <1>10 DEF Op, Send!Kind

(* A write completes: its send is over.                                    *)
LEMMA WriteDoneKeeps ==
    ASSUME SendInv, NEW ok \in BOOLEAN, Send!WriteDone(ok)
    PROVE  SendInv'
<1>1. /\ writing /\ writing' = FALSE /\ up' = (up /\ ok) /\ s_queue' = Tail(s_queue)
      /\ op' = IF op[Head(s_queue).t].kind = "plain" THEN op
               ELSE IF ok THEN Send!Told(Head(s_queue).t, "sent")
                          ELSE Send!Told(Head(s_queue).t, "failed")
      /\ UNCHANGED <<s_inbox, down, s_life, life_id, pool>>
  BY DEF Send!WriteDone
<1>2. SendTypeOK /\ WriteIsFront
  BY DEF SendInv
<1>3. s_queue # <<>> /\ Head(s_queue).e = "send"
  BY <1>1, <1>2 DEF WriteIsFront
<1>4. PICK t \in Sender : /\ Head(s_queue) = Send!E("send", t) /\ Head(s_queue).t = t
                          /\ op[t].at = "pushed" /\ op[t].told = <<>> /\ InTurn(t)
  BY <1>3, FrontInTurn
<1> DEFINE h == Send!E("send", t)
<1>5. /\ s_queue' \in Seq(Queued)
      /\ \A S : Never(s_queue, S) <=> h \notin S /\ Never(s_queue', S)
      /\ \A S : h \notin S => (Once(s_queue, S) <=> Once(s_queue', S))
      /\ \A S : h \in S => (Once(s_queue, S) <=> Never(s_queue', S))
  BY <1>1, <1>2, <1>3, <1>4, FrontLeaves
<1>6. /\ \A u : h \in Post("send", u) <=> u = t
      /\ h \notin StopEvent
  BY PostIsEvent DEF StopEvent
<1>7. /\ \A u \in Sender : u # t =>
            /\ Never(s_queue', Post("send", u)) <=> Never(s_queue, Post("send", u))
            /\ Once(s_queue', Post("send", u)) <=> Once(s_queue, Post("send", u))
      /\ Never(s_queue', Post("send", t))
      /\ Never(s_queue', StopEvent) <=> Never(s_queue, StopEvent)
      /\ Once(s_queue', StopEvent) <=> Once(s_queue, StopEvent)
  BY <1>4, <1>5, <1>6 DEF InTurn
<1>8. writing' = FALSE /\ up' \in BOOLEAN
  BY <1>1
<1>9. CASE op[t].kind = "plain"
  <2>1. op' = op
    BY <1>1, <1>4, <1>9
  <2>2. op' \in [Sender -> Op] /\ Len(op'[t].told) <= 1
    BY <1>2, <1>4, <2>1 DEF SendTypeOK
  <2> QED BY <1>1, <1>4, <1>5, <1>7, <1>8, <1>9, <2>1, <2>2, ToldLeaves
<1>10. CASE op[t].kind # "plain"
  <2>1. PICK x \in {"sent", "failed"} : op' = Send!Told(t, x)
    BY <1>1, <1>4, <1>10
  <2>2. /\ op' \in [Sender -> Op] /\ \A u \in Sender : u # t => op'[u] = op[u]
        /\ op'[t].at = op[t].at /\ op'[t].kind = op[t].kind /\ op'[t].id = op[t].id
        /\ op'[t].born = op[t].born /\ op'[t].wrote = op[t].wrote
        /\ op'[t].told # <<>> /\ Len(op'[t].told) = 1
    BY <1>2, <1>4, <2>1, IsTold
  <2>3. Len(op'[t].told) <= 1
    BY <2>2
  <2> QED BY <1>1, <1>4, <1>5, <1>7, <1>8, <2>2, <2>3, ToldLeaves
<1> QED BY <1>9, <1>10

(* The client's own events leave the queue.                                *)
LEMMA ClientEventLeaves ==
    ASSUME SendTypeOK, s_queue # <<>>, s_queue' = Tail(s_queue),
           Head(s_queue).e \in {"connect", "stop"}
    PROVE  /\ s_queue' \in Seq(Queued)
           /\ \A t : /\ Never(s_queue', Post("send", t)) <=> Never(s_queue, Post("send", t))
                     /\ Once(s_queue', Post("send", t)) <=> Once(s_queue, Post("send", t))
           /\ Head(s_queue).e = "connect" =>
                 /\ Never(s_queue', StopEvent) <=> Never(s_queue, StopEvent)
                 /\ Once(s_queue', StopEvent) <=> Once(s_queue, StopEvent)
           /\ Head(s_queue).e = "stop" =>
                 /\ ~Never(s_queue, StopEvent)
                 /\ Once(s_queue, StopEvent) <=> Never(s_queue', StopEvent)
<1> DEFINE h == Head(s_queue)
<1>1. /\ h \in Queued /\ s_queue' \in Seq(Queued)
      /\ \A S : Never(s_queue, S) <=> h \notin S /\ Never(s_queue', S)
      /\ \A S : h \notin S => (Once(s_queue, S) <=> Once(s_queue', S))
      /\ \A S : h \in S => (Once(s_queue, S) <=> Never(s_queue', S))
  BY FrontLeaves
<1>2. h = Send!E(h.e, Send!Client)
  BY <1>1, PostedIs
<1>3. /\ \A t : h \notin Post("send", t)
      /\ h \in StopEvent <=> h.e = "stop"
  BY <1>2, PostIsEvent DEF StopEvent
<1> HIDE DEF h
<1>4. /\ s_queue' \in Seq(Queued)
      /\ \A t : /\ Never(s_queue', Post("send", t)) <=> Never(s_queue, Post("send", t))
                /\ Once(s_queue', Post("send", t)) <=> Once(s_queue, Post("send", t))
  BY <1>1, <1>3
<1>5. h.e = "connect" => /\ Never(s_queue', StopEvent) <=> Never(s_queue, StopEvent)
                         /\ Once(s_queue', StopEvent) <=> Once(s_queue, StopEvent)
  BY <1>1, <1>3
<1>6. h.e = "stop" => /\ ~Never(s_queue, StopEvent)
                      /\ Once(s_queue, StopEvent) <=> Never(s_queue', StopEvent)
  BY <1>1, <1>3
<1> QED BY <1>4, <1>5, <1>6 DEF h

LEMMA PlacesStay ==
    ASSUME SendInv, UNCHANGED <<op, s_inbox>>,
           \A t : /\ Never(s_queue', Post("send", t)) <=> Never(s_queue, Post("send", t))
                  /\ Once(s_queue', Post("send", t)) <=> Once(s_queue, Post("send", t))
    PROVE  Places'
  BY DEF SendInv, Places, InPlace, Nowhere, Arriving, InTurn, CalledBack

LEMMA RunConnectKeeps ==
    ASSUME SendInv, Send!RunConnect
    PROVE  SendInv'
<1>1. /\ s_queue # <<>> /\ Head(s_queue).e = "connect" /\ s_queue' = Tail(s_queue) /\ ~writing
      /\ up' \in BOOLEAN /\ down' = FALSE
      /\ UNCHANGED <<op, s_inbox, writing, s_life, life_id, pool>>
  BY DEF Send!RunConnect, Send!Running
<1>2. SendTypeOK /\ Places /\ WriteIsFront /\ StopInLine /\ IdsTell /\ Drained
  BY DEF SendInv
<1>3. SendTypeOK'
  <2>1. down' \in BOOLEAN
    BY <1>1
  <2> QED BY <1>1, <1>2, <2>1, ClientEventLeaves DEF SendTypeOK
<1>4. Places'
  BY <1>1, <1>2, ClientEventLeaves, PlacesStay
<1>5. WriteIsFront' /\ StopInLine'
  BY <1>1, <1>2, ClientEventLeaves DEF WriteIsFront, StopInLine
<1>6. IdsTell' /\ Drained'
  BY <1>1, <1>2 DEF IdsTell, Drained
<1> QED BY <1>3, <1>4, <1>5, <1>6 DEF SendInv

(* A new life begins: its id is nobody's.  That is so because no send that *)
(* is under way has it, or because there is no third life.                 *)
LEMMA RunStopKeeps ==
    ASSUME SendInv, Send!RunStop, MaxLife \in Nat, MaxLife <= 2 \/ ~Reuse
    PROVE  SendInv'
<1>1. /\ s_queue # <<>> /\ Head(s_queue).e = "stop" /\ s_queue' = Tail(s_queue) /\ ~writing
      /\ up' = FALSE /\ down' = TRUE /\ s_life' = s_life + 1
      /\ life_id' \in Addr \ {life_id}
      /\ Reuse \/ \A t \in Sender : op[t].at # "none" => op[t].id # life_id'
      /\ UNCHANGED <<op, s_inbox, writing, pool>>
  BY DEF Send!RunStop, Send!Running
<1>2. SendTypeOK /\ Places /\ WriteIsFront /\ StopInLine /\ IdsTell /\ Drained
  BY DEF SendInv
<1>3. /\ ~Never(s_queue, StopEvent)
      /\ Once(s_queue, StopEvent) <=> Never(s_queue', StopEvent)
  BY <1>1, <1>2, ClientEventLeaves
<1>4. pool = "on" /\ s_life < MaxLife /\ Never(s_inbox, StopEvent) /\ Never(s_queue', StopEvent)
  BY <1>2, <1>3 DEF StopInLine
<1>5. SendTypeOK'
  <2>1. up' \in BOOLEAN /\ down' \in BOOLEAN
    BY <1>1
  <2>2. s_life' \in Nat \ {0}
    BY <1>1, <1>2 DEF SendTypeOK
  <2> QED BY <1>1, <1>2, <2>1, <2>2, ClientEventLeaves DEF SendTypeOK
<1>6. Places'
  BY <1>1, <1>2, ClientEventLeaves, PlacesStay
<1>7. WriteIsFront' /\ StopInLine'
  BY <1>1, <1>4 DEF WriteIsFront, StopInLine
<1>8. IdsTell'
  <2> SUFFICES ASSUME NEW t \in Sender
               PROVE  /\ op[t].wrote \in {0, op[t].born}
                      /\ op[t].at = "none" => op[t].wrote = 0
                      /\ op[t].at # "none" => /\ op[t].born \in 1..s_life'
                                              /\ op[t].id = life_id' <=> op[t].born = s_life'
    BY <1>1 DEF IdsTell
  <2>1. /\ op[t].wrote \in {0, op[t].born}
        /\ op[t].at = "none" => op[t].wrote = 0
        /\ op[t].at # "none" => /\ op[t].born \in 1..s_life
                                /\ op[t].id = life_id <=> op[t].born = s_life
    BY <1>2 DEF IdsTell
  <2>2. s_life \in Nat \ {0}
    BY <1>2 DEF SendTypeOK
  <2>3. ASSUME op[t].at # "none"
        PROVE  /\ op[t].born \in 1..s_life' /\ op[t].born # s_life'
               /\ op[t].id # life_id'
    <3>1. op[t].born \in 1..s_life' /\ op[t].born # s_life'
      BY <1>1, <2>1, <2>2, <2>3
    <3>2. CASE ~Reuse
      BY <1>1, <2>3, <3>1, <3>2
    <3>3. CASE MaxLife <= 2
      <4>1. s_life = 1
        BY <1>4, <2>2, <3>3
      <4>2. op[t].born = 1
        BY <2>1, <2>3, <4>1
      <4> QED BY <1>1, <2>1, <2>3, <3>1, <4>1, <4>2
    <3> QED BY <3>1, <3>2, <3>3
  <2> QED BY <2>1, <2>3
<1>9. Drained'
  BY <1>1, <1>4 DEF Drained
<1> QED BY <1>5, <1>6, <1>7, <1>8, <1>9 DEF SendInv

LEMMA SendNextInv ==
    ASSUME SendInv, [Send!Next]_(Send!vars), MaxLife \in Nat, MaxLife <= 2 \/ ~Reuse
    PROVE  SendInv'
<1>1. CASE \E t \in Sender : Send!Push(t) \/ Send!Return(t) \/ \E kind \in Send!Kind : Send!Begin(t, kind)
  BY <1>1, PushKeeps, ReturnKeeps, BeginKeeps
<1>2. CASE \/ Send!Start \/ Send!Again \/ Send!Stop \/ Send!StopPool \/ Send!RunReturns
           \/ Send!Lost \/ Send!Reconnect
  BY <1>2, ClientKeeps
<1>3. CASE Send!IoNext
  BY <1>3, RunPostedKeeps, RunCallbackKeeps, RunSendKeeps, RunRefuseKeeps, RunConnectKeeps,
     RunStopKeeps, WriteDoneKeeps DEF Send!IoNext
<1>4. CASE UNCHANGED Send!vars
  <2>1. UNCHANGED <<op, s_inbox, s_queue, writing, up, down, s_life, life_id, pool>>
    BY <1>4 DEF Send!vars
  <2> QED BY <2>1 DEF SendInv, SendTypeOK, Places, InPlace, Nowhere, Arriving, InTurn, CalledBack,
                      WriteIsFront, StopInLine, IdsTell, Drained
<1> QED BY <1>1, <1>2, <1>3, <1>4 DEF Send!Next

LEMMA SendInvTells == SendInv => SendsAreTold
<1> SUFFICES ASSUME SendInv PROVE SendsAreTold
  OBVIOUS
<1>1. SendTypeOK /\ Places /\ IdsTell /\ Drained
  BY DEF SendInv
<1>2. \A t \in Sender : /\ Send!Contains(s_inbox, Send!E("send", t)) <=> ~Never(s_inbox, Post("send", t))
                        /\ Send!Contains(s_queue, Send!E("send", t)) <=> ~Never(s_queue, Post("send", t))
                        /\ Send!Contains(s_inbox, Send!E("call", t)) <=> ~Never(s_inbox, Post("call", t))
  BY <1>1, ContainsOccurs DEF SendTypeOK
<1>3. \A q, S : Once(q, S) => ~Never(q, S)
  BY OnceIsNotNever
<1>4. Send!SentInItsLife
  BY <1>1 DEF IdsTell, Send!SentInItsLife
<1>5. Send!ToldOnce
  <2> SUFFICES ASSUME NEW t \in Sender PROVE Len(op[t].told) <= 1
    BY DEF Send!ToldOnce
  <2>1. InPlace(t)
    BY <1>1 DEF Places
  <2>2. CASE op[t].told = <<>>
    BY <2>2
  <2> QED BY <2>1, <2>2 DEF InPlace
<1>6. Send!NotForgotten
  <2> SUFFICES ASSUME NEW t \in Sender,
                      op[t].at = "pushed", op[t].kind # "plain", op[t].told = <<>>
               PROVE  \/ Send!Contains(s_inbox, Send!E("send", t))
                      \/ Send!Contains(s_queue, Send!E("send", t))
                      \/ Send!Contains(s_inbox, Send!E("call", t))
    BY DEF Send!NotForgotten
  <2>1. InPlace(t)
    BY <1>1 DEF Places
  <2> QED BY <1>2, <1>3, <2>1 DEF InPlace, Arriving, InTurn, CalledBack
<1>7. Send!NotStranded
  BY <1>1, <1>2 DEF Drained, Send!NotStranded
<1> QED BY <1>4, <1>5, <1>6, <1>7 DEF SendsAreTold

(* However threads send while the client is started and stopped, a send is *)
(* written in its own life or not at all, who waits for its result is told *)
(* it, once, and none is left over in a stopped pool from a life before    *)
(* (provided the allocator does not give an address back while a send      *)
(* still holds it as its life's id, or there are not three lives).         *)
THEOREM SendsSettle ==
    ASSUME MaxLife \in Nat, MaxLife <= 2 \/ ~Reuse
    PROVE  ComponentsSpec => []SendsAreTold
<1>1. ComponentsInit => SendInv
  BY SendInitInv DEF ComponentsInit
<1>2. ComponentsNext => [Send!Next]_(Send!vars)
  BY DEF ComponentsNext, Send!vars, sendVars
<1>3. UNCHANGED <<queueVars, listVars, dispVars, sendVars, socksVars, remoteVars, part>>
         => UNCHANGED Send!vars
  BY DEF sendVars, Send!vars
<1>4. SendInv /\ [ComponentsNext]_<<queueVars, listVars, dispVars, sendVars, socksVars, remoteVars, part>>
         => SendInv'
  BY <1>2, <1>3, SendNextInv
<1> QED BY <1>1, <1>4, SendInvTells, PTL DEF ComponentsSpec

-----------------------------------------------------------------------------
(***************************************************************************)
(* Every remote call is answered once, for any number of calls, ids and    *)
(* lives of the client.                                                    *)
(*                                                                         *)
(* CallsAreAnswered is not inductive.  A call may be answered from four    *)
(* sides, three of which look it up by its id: that each of them finds the *)
(* call it is meant for, or one that has still to be answered, needs that  *)
(* the multimap holds just the calls without an answer, once each, all of  *)
(* this life (Waits), and that two of one id are not under way (OnePerId). *)
(* That none is forgotten needs that what waits has a timer.               *)
(***************************************************************************)
Entered == {reqs[i] : i \in DOMAIN reqs}

RdcTypeOK ==
    /\ life \in Nat /\ r_started \in BOOLEAN /\ hasEcs \in BOOLEAN
    /\ stage \in [Call_ -> Remote!Stages]
    /\ reqs \in Seq(Call_)
    /\ timer \in [Call_ -> {"none", "armed", "fired"}]
    /\ r_born \in [Call_ -> Nat]
    /\ answers \in [Call_ -> Seq(Remote!Errors)]
    /\ written \subseteq Call_ \X Nat

(* Who is in the multimap is there once, of this life, has its timer and   *)
(* no answer.                                                              *)
Waits ==
    /\ \A i, j \in DOMAIN reqs : reqs[i] = reqs[j] => i = j
    /\ \A c \in Entered : /\ hasEcs /\ r_born[c] = life
                          /\ stage[c] \in {"entered", "writing", "over"}
                          /\ answers[c] = <<>> /\ timer[c] # "none"

(* A call has no answer before it is entered, and then one or its place.   *)
Answering ==
    \A c \in Call_ :
       /\ Len(answers[c]) <= 1
       /\ stage[c] \in {"idle", "posted", "refused"} => answers[c] = <<>>
       /\ stage[c] \in {"entered", "writing", "over"} => answers[c] # <<>> \/ c \in Entered

OnePerId ==
    \A c, d \in Call_ :
       c # d /\ Remote!IdOf(c) = Remote!IdOf(d) => ~(Remote!Outstanding(c) /\ Remote!Outstanding(d))

Written ==
    \A w \in written : stage[w[1]] \in {"writing", "over"} /\ r_born[w[1]] = w[2]

(* How far a call may come while others go on.                             *)
GoesOn(c) ==
    \/ stage'[c] = stage[c]
    \/ stage[c] \in {"entered", "writing"} /\ stage'[c] \in {"writing", "over"}

(* What is written anew is the send that is executing, in its own life.    *)
SentNow ==
    \A w \in written' :
       \/ w \in written
       \/ /\ w \in Call_ \X Nat
          /\ stage'[w[1]] = "writing"
          /\ r_born[w[1]] = w[2]

RdcInv == RdcTypeOK /\ Waits /\ Answering /\ OnePerId /\ Written

-----------------------------------------------------------------------------
LEMMA RdcInitInv == Remote!Init => RdcInv
  BY EmptySeq DEF Remote!Init, RdcInv, RdcTypeOK, Waits, Answering, OnePerId, Written, Entered,
     Remote!Outstanding, Remote!Stages, Remote!None

(* What is left when one of a sequence without repetitions is removed.     *)
LEMMA OneRemoved ==
    ASSUME NEW T, NEW s \in Seq(T), NEW i \in DOMAIN s,
           \A j, k \in DOMAIN s : s[j] = s[k] => j = k
    PROVE  LET r == Remote!RemoveAt(s, i)
           IN  /\ r \in Seq(T)
               /\ \A x : (\E j \in DOMAIN r : r[j] = x)
                             <=> (\E j \in DOMAIN s : s[j] = x) /\ x # s[i]
               /\ \A j, k \in DOMAIN r : r[j] = r[k] => j = k
<1> DEFINE n == Len(s)  p == SubSeq(s, 1, i - 1)  q == SubSeq(s, i + 1, n)
           r == Remote!RemoveAt(s, i)
<1>1. n \in Nat /\ DOMAIN s = 1..n /\ i \in 1..n /\ \A j \in 1..n : s[j] \in T
  BY LenProperties
<1>2. /\ p \in Seq(T) /\ Len(p) = i - 1
      /\ \A j \in 1..(i - 1) : p[j] = s[j]
  BY <1>1, SubSeqProperties
<1>3. /\ q \in Seq(T) /\ Len(q) = n - i
      /\ \A j \in 1..(n - i) : q[j] = s[i + j]
  BY <1>1, SubSeqProperties
<1>4. r = p \o q
  BY DEF Remote!RemoveAt
<1> HIDE DEF p, q, n, r
<1>5. /\ r \in Seq(T) /\ Len(r) = n - 1 /\ DOMAIN r = 1..(n - 1)
      /\ \A j \in 1..(n - 1) : r[j] = IF j < i THEN s[j] ELSE s[j + 1]
  <2>1. /\ r \in Seq(T) /\ Len(r) = Len(p) + Len(q)
        /\ \A j \in 1..(Len(p) + Len(q)) : r[j] = IF j <= Len(p) THEN p[j] ELSE q[j - Len(p)]
    BY <1>2, <1>3, <1>4, ConcatProperties
  <2>2. Len(r) = n - 1 /\ DOMAIN r = 1..(n - 1)
    BY <1>1, <1>2, <1>3, <2>1, LenProperties
  <2>3. ASSUME NEW j \in 1..(n - 1) PROVE r[j] = IF j < i THEN s[j] ELSE s[j + 1]
    <3>1. CASE j < i
      BY <1>1, <1>2, <1>3, <2>1, <3>1
    <3>2. CASE j >= i
      <4>1. r[j] = q[j - (i - 1)] /\ j - (i - 1) \in 1..(n - i)
        BY <1>1, <1>2, <1>3, <2>1, <3>2
      <4>2. q[j - (i - 1)] = s[i + (j - (i - 1))] /\ i + (j - (i - 1)) = j + 1
        BY <1>1, <1>3, <4>1
      <4> QED BY <1>1, <3>2, <4>1, <4>2
    <3> QED BY <1>1, <3>1, <3>2
  <2> QED BY <2>1, <2>2, <2>3
<1> DEFINE Was(j) == IF j < i THEN j ELSE j + 1
<1>6. /\ \A j \in DOMAIN r : Was(j) \in DOMAIN s /\ Was(j) # i /\ r[j] = s[Was(j)]
      /\ \A j, k \in DOMAIN r : Was(j) = Was(k) => j = k
      /\ \A k \in DOMAIN s : k # i => \E j \in DOMAIN r : Was(j) = k
  <2>1. ASSUME NEW j \in DOMAIN r PROVE Was(j) \in DOMAIN s /\ Was(j) # i /\ r[j] = s[Was(j)]
    <3>1. j \in 1..(n - 1) /\ r[j] = IF j < i THEN s[j] ELSE s[j + 1]
      BY <1>5
    <3>2. CASE j < i
      BY <1>1, <3>1, <3>2
    <3>3. CASE ~(j < i)
      BY <1>1, <3>1, <3>3
    <3> QED BY <3>2, <3>3
  <2>2. ASSUME NEW j \in DOMAIN r, NEW k \in DOMAIN r, Was(j) = Was(k) PROVE j = k
    <3>1. j \in Int /\ k \in Int /\ i \in Int
      BY <1>1, <1>5
    <3> QED BY <2>2, <3>1
  <2>3. ASSUME NEW k \in DOMAIN s, k # i PROVE \E j \in DOMAIN r : Was(j) = k
    <3>1. CASE k < i
      <4>1. k \in DOMAIN r /\ Was(k) = k
        BY <1>1, <1>5, <3>1
      <4> QED BY <4>1
    <3>2. CASE k > i
      <4>1. k - 1 \in DOMAIN r /\ Was(k - 1) = k
        BY <1>1, <1>5, <3>2
      <4> QED BY <4>1
    <3> QED BY <1>1, <2>3, <3>1, <3>2
  <2> QED BY <2>1, <2>2, <2>3
<1> HIDE DEF Was
<1>7. ASSUME NEW x
      PROVE  (\E j \in DOMAIN r : r[j] = x) <=> (\E j \in DOMAIN s : s[j] = x) /\ x # s[i]
  BY <1>6
<1>8. ASSUME NEW j \in DOMAIN r, NEW k \in DOMAIN r, r[j] = r[k] PROVE j = k
  BY <1>6, <1>8
<1> QED BY <1>5, <1>7, <1>8 DEF r

-----------------------------------------------------------------------------
(* A step that answers nobody.                                             *)
LEMMA NobodyEnds ==
    ASSUME RdcInv, UNCHANGED <<answers, reqs, life, hasEcs, r_born>>,
           r_started' \in BOOLEAN,
           SentNow,
           timer' \in [Call_ -> {"none", "armed", "fired"}],
           \A c \in Entered : timer'[c] # "none",
           stage' \in [Call_ -> Remote!Stages], \A c \in Call_ : GoesOn(c)
    PROVE  RdcInv'
<1>1. RdcTypeOK /\ Waits /\ Answering /\ OnePerId /\ Written
  BY DEF RdcInv
<1>2. RdcTypeOK'
  BY <1>1 DEF RdcTypeOK, SentNow
<1>3. Entered' = Entered /\ Entered \subseteq Call_
  BY <1>1 DEF Entered, RdcTypeOK
<1>4. Waits'
  <2>1. ASSUME NEW c \in Entered PROVE stage'[c] \in {"entered", "writing", "over"}
    BY <1>1, <1>3, <2>1 DEF Waits, GoesOn
  <2> QED BY <1>1, <1>3, <2>1 DEF Waits
<1>5. Answering'
  BY <1>1, <1>3 DEF Answering, GoesOn
<1>6. OnePerId'
  <2>1. ASSUME NEW c \in Call_, Remote!Outstanding(c)' PROVE Remote!Outstanding(c)
    BY <2>1 DEF Remote!Outstanding, GoesOn
  <2> QED BY <1>1, <2>1 DEF OnePerId, Remote!IdOf
<1>7. Written'
  BY <1>1 DEF Written, SentNow, GoesOn, RdcTypeOK
<1> QED BY <1>2, <1>4, <1>5, <1>6, <1>7 DEF RdcInv

(* The erased request is the only one that goes.                           *)
LEMMA RequestErased ==
    ASSUME reqs \in Seq(Call_), NEW i \in DOMAIN reqs, reqs' = Remote!RemoveAt(reqs, i),
           \A j, k \in DOMAIN reqs : reqs[j] = reqs[k] => j = k
    PROVE  /\ reqs' \in Seq(Call_) /\ Entered' = Entered \ {reqs[i]}
           /\ \A j, k \in DOMAIN reqs' : reqs'[j] = reqs'[k] => j = k
<1> DEFINE r == Remote!RemoveAt(reqs, i)
<1>0. /\ r \in Seq(Call_)
      /\ \A x : (\E j \in DOMAIN r : r[j] = x) <=> (\E j \in DOMAIN reqs : reqs[j] = x) /\ x # reqs[i]
      /\ \A j, k \in DOMAIN r : r[j] = r[k] => j = k
  BY OneRemoved
<1> HIDE DEF r
<1>1. /\ reqs' \in Seq(Call_)
      /\ \A x : (\E j \in DOMAIN reqs' : reqs'[j] = x)
                     <=> (\E j \in DOMAIN reqs : reqs[j] = x) /\ x # reqs[i]
      /\ \A j, k \in DOMAIN reqs' : reqs'[j] = reqs'[k] => j = k
  <2>1. reqs' = r
    BY DEF r
  <2> QED BY <1>0, <2>1
<1>2. ASSUME NEW x PROVE x \in Entered' <=> x \in Entered /\ x # reqs[i]
  <2>1. x \in Entered' <=> \E j \in DOMAIN reqs' : reqs'[j] = x
    BY DEF Entered
  <2>2. x \in Entered <=> \E j \in DOMAIN reqs : reqs[j] = x
    BY DEF Entered
  <2> QED BY <1>1, <2>1, <2>2
<1> QED BY <1>1, <1>2

(* A step that answers one of those who wait.                              *)
LEMMA OneEnds ==
    ASSUME RdcInv, NEW i \in DOMAIN reqs, NEW ec \in Remote!Errors,
           answers' = [answers EXCEPT ![reqs[i]] = Append(@, ec)],
           reqs' = Remote!RemoveAt(reqs, i),
           UNCHANGED <<life, r_started, hasEcs, r_born, written>>,
           timer' \in [Call_ -> {"none", "armed", "fired"}],
           \A c \in Entered : c # reqs[i] => timer'[c] # "none",
           stage' \in [Call_ -> Remote!Stages], \A c \in Call_ : GoesOn(c)
    PROVE  RdcInv'
<1> DEFINE d == reqs[i]
<1>1. RdcTypeOK /\ Waits /\ Answering /\ OnePerId /\ Written
  BY DEF RdcInv
<1>2. /\ d \in Call_ /\ d \in Entered /\ reqs \in Seq(Call_) /\ Entered \subseteq Call_
      /\ \A j, k \in DOMAIN reqs : reqs[j] = reqs[k] => j = k
  BY <1>1 DEF RdcTypeOK, Waits, Entered
<1>3. /\ reqs' \in Seq(Call_) /\ Entered' = Entered \ {d}
      /\ \A j, k \in DOMAIN reqs' : reqs'[j] = reqs'[k] => j = k
  BY <1>2, RequestErased
<1>4. answers[d] = <<>> /\ stage[d] \in {"entered", "writing", "over"}
  BY <1>1, <1>2 DEF Waits
<1>5. PICK e \in Call_ : e = d
  BY <1>2
<1> HIDE DEF d
<1>6. /\ \A c \in Call_ : c # e => answers'[c] = answers[c]
      /\ answers'[e] # <<>> /\ Len(answers'[e]) = 1
      /\ answers' \in [Call_ -> Seq(Remote!Errors)]
  <2>1. answers \in [Call_ -> Seq(Remote!Errors)] /\ answers[e] = <<>>
    BY <1>1, <1>4, <1>5 DEF RdcTypeOK
  <2>2. answers' = [answers EXCEPT ![e] = <<ec>>]
    BY <1>5, <2>1 DEF d
  <2>3. <<ec>> \in Seq(Remote!Errors) /\ <<ec>> # <<>> /\ Len(<<ec>>) = 1
    OBVIOUS
  <2> QED BY <2>1, <2>2, <2>3
<1>7. RdcTypeOK'
  BY <1>1, <1>3, <1>6 DEF RdcTypeOK
<1>8. Waits'
  <2>1. ASSUME NEW c \in Entered, c # e
        PROVE  /\ stage'[c] \in {"entered", "writing", "over"} /\ timer'[c] # "none"
               /\ answers'[c] = <<>>
    BY <1>1, <1>2, <1>5, <1>6, <2>1 DEF Waits, GoesOn, d
  <2> QED BY <1>1, <1>3, <1>5, <2>1 DEF Waits
<1>9. Answering'
  <2> SUFFICES ASSUME NEW c \in Call_
               PROVE  /\ Len(answers'[c]) <= 1
                      /\ stage'[c] \in {"idle", "posted", "refused"} => answers'[c] = <<>>
                      /\ stage'[c] \in {"entered", "writing", "over"}
                            => answers'[c] # <<>> \/ c \in Entered'
    BY DEF Answering
  <2>1. CASE c = e
    <3>1. stage'[e] \in {"entered", "writing", "over"}
      BY <1>4, <1>5 DEF GoesOn
    <3> QED BY <1>6, <2>1, <3>1
  <2>2. CASE c # e
    BY <1>1, <1>3, <1>5, <1>6, <2>2 DEF Answering, GoesOn
  <2> QED BY <2>1, <2>2
<1>10. OnePerId'
  <2>1. ASSUME NEW c \in Call_, Remote!Outstanding(c)' PROVE Remote!Outstanding(c)
    <3>1. CASE c = e
      BY <1>4, <1>5, <1>6, <2>1, <3>1 DEF Remote!Outstanding, GoesOn
    <3>2. CASE c # e
      BY <1>6, <2>1, <3>2 DEF Remote!Outstanding, GoesOn
    <3> QED BY <3>1, <3>2
  <2> QED BY <1>1, <2>1 DEF OnePerId, Remote!IdOf
<1>11. Written'
  BY <1>1 DEF Written, GoesOn, RdcTypeOK
<1> QED BY <1>7, <1>8, <1>9, <1>10, <1>11 DEF RdcInv

(* Who waits is what is found under his id.                                *)
LEMMA FoundIs ==
    ASSUME RdcInv, NEW c \in Call_
    PROVE  /\ Remote!Found(c) \subseteq DOMAIN reqs
           /\ \A i, j \in Remote!Found(c) : i = j
           /\ c \in Entered => \E i \in Remote!Found(c) : reqs[i] = c
<1>1. RdcTypeOK /\ Waits /\ OnePerId
  BY DEF RdcInv
<1>2. DOMAIN reqs = 1..Len(reqs) /\ Len(reqs) \in Nat
  BY <1>1, LenProperties DEF RdcTypeOK
<1>3. Remote!Found(c) \subseteq DOMAIN reqs
  BY DEF Remote!Found
<1>4. ASSUME NEW i \in Remote!Found(c), NEW j \in Remote!Found(c) PROVE i = j
  <2>1. /\ i \in 1..Len(reqs) /\ j \in 1..Len(reqs)
        /\ Remote!IdOf(reqs[i]) = Remote!IdOf(c) /\ Remote!IdOf(reqs[j]) = Remote!IdOf(c)
        /\ \A k \in 1 .. i - 1 : Remote!IdOf(reqs[k]) # Remote!IdOf(c)
        /\ \A k \in 1 .. j - 1 : Remote!IdOf(reqs[k]) # Remote!IdOf(c)
    BY <1>2 DEF Remote!Found
  <2>2. ~(i < j) /\ ~(j < i)
    BY <1>2, <2>1
  <2> QED BY <1>2, <2>1, <2>2
<1>5. ASSUME c \in Entered PROVE \E i \in Remote!Found(c) : reqs[i] = c
  <2>1. PICK i \in DOMAIN reqs : reqs[i] = c
    BY <1>5 DEF Entered
  <2>2. ASSUME NEW j \in 1 .. i - 1 PROVE Remote!IdOf(reqs[j]) # Remote!IdOf(c)
    <3>1. j \in DOMAIN reqs /\ j # i
      BY <1>2, <2>1
    <3>2. reqs[j] # c /\ reqs[j] \in Call_ /\ reqs[j] \in Entered
      BY <1>1, <2>1, <3>1 DEF Waits, RdcTypeOK, Entered
    <3>3. Remote!Outstanding(c) /\ Remote!Outstanding(reqs[j])
      BY <1>1, <1>5, <3>2 DEF Waits, Remote!Outstanding
    <3> QED BY <1>1, <3>2, <3>3 DEF OnePerId
  <2> QED BY <2>1, <2>2 DEF Remote!Found
<1> QED BY <1>3, <1>4, <1>5

(* `ex` ends the call it is meant for, or one that waits under its id, or  *)
(* nobody, when its call has been answered.                                *)
LEMMA ExEnds ==
    ASSUME RdcInv, ~KeyMoved, NEW c \in Call_, NEW t \in {timer[c], "none"},
           Remote!Ex(c), timer' = Remote!TimersAfterEx(c, t),
           UNCHANGED <<life, r_started, hasEcs, r_born, written>>,
           stage' \in [Call_ -> Remote!Stages], \A d \in Call_ : GoesOn(d)
    PROVE  RdcInv'
<1>1. RdcTypeOK /\ Waits
  BY DEF RdcInv
<1>2. Entered \subseteq Call_ /\ \A i \in DOMAIN reqs : reqs[i] \in Call_
  BY <1>1 DEF Entered, RdcTypeOK
<1>3. /\ Remote!Found(c) \subseteq DOMAIN reqs
      /\ \A i, j \in Remote!Found(c) : i = j
      /\ c \in Entered => \E i \in Remote!Found(c) : reqs[i] = c
  BY FoundIs
<1>4. t \in {"none", "armed", "fired"} /\ \A d \in Call_ : timer[d] \in {"none", "armed", "fired"}
  BY <1>1 DEF RdcTypeOK
<1>5. timer' \in [Call_ -> {"none", "armed", "fired"}]
  BY <1>4 DEF Remote!TimersAfterEx, Remote!Cancelled, Remote!None
<1>6. ASSUME NEW d \in Call_, ~(hasEcs /\ r_born[c] = life /\ \E i \in Remote!Found(c) : reqs[i] = d)
      PROVE  timer'[d] = IF d = c THEN t ELSE timer[d]
  BY <1>6 DEF Remote!TimersAfterEx
<1>7. CASE ~hasEcs \/ r_born[c] # life
  <2>1. c \notin Entered
    BY <1>1, <1>7 DEF Waits
  <2>2. \A d \in Entered : timer'[d] # "none"
    BY <1>1, <1>2, <1>6, <1>7, <2>1 DEF Waits
  <2>3. UNCHANGED <<answers, reqs>> /\ r_started' \in BOOLEAN
    BY <1>1, <1>7 DEF Remote!Ex, RdcTypeOK
  <2>4. SentNow
    BY DEF SentNow
  <2> QED BY <1>5, <2>2, <2>3, <2>4, NobodyEnds
<1>8. CASE hasEcs /\ r_born[c] = life /\ Remote!Found(c) = {}
  <2>1. c \notin Entered
    BY <1>3, <1>8
  <2>2. \A d \in Entered : timer'[d] # "none"
    BY <1>1, <1>2, <1>6, <1>8, <2>1 DEF Waits
  <2>3. UNCHANGED <<answers, reqs>> /\ r_started' \in BOOLEAN
    BY <1>1, <1>8 DEF Remote!Ex, RdcTypeOK
  <2>4. SentNow
    BY DEF SentNow
  <2> QED BY <1>5, <2>2, <2>3, <2>4, NobodyEnds
<1>9. CASE hasEcs /\ r_born[c] = life /\ Remote!Found(c) # {}
  <2>1. PICK i \in Remote!Found(c) : /\ answers' = [answers EXCEPT ![reqs[i]] = Append(@, "timed_out")]
                                     /\ reqs' = Remote!RemoveAt(reqs, i)
    BY <1>9 DEF Remote!Ex
  <2>2. i \in DOMAIN reqs /\ (c \in Entered => reqs[i] = c)
    BY <1>3, <2>1
  <2>3. ASSUME NEW d \in Entered, d # reqs[i] PROVE timer'[d] # "none"
    <3>1. ~ \E j \in Remote!Found(c) : reqs[j] = d
      BY <1>3, <2>1, <2>3
    <3>2. timer'[d] = IF d = c THEN t ELSE timer[d]
      BY <1>2, <1>6, <3>1
    <3> QED BY <1>1, <2>2, <2>3, <3>2 DEF Waits
  <2>4. "timed_out" \in Remote!Errors
    BY DEF Remote!Errors
  <2> QED BY <1>5, <2>1, <2>2, <2>3, <2>4, OneEnds
<1> QED BY <1>7, <1>8, <1>9

(* A call that is not in the multimap is posted, or is refused.            *)
LEMMA NotYetEntered ==
    ASSUME RdcInv, UNCHANGED <<life, r_started, hasEcs, reqs, timer, r_born, written>>,
           NEW c \in Call_, stage[c] \in {"idle", "posted", "refused"}, NEW s, NEW a,
           stage' = [stage EXCEPT ![c] = s], answers' = [answers EXCEPT ![c] = a],
           \/ s = "over" /\ a \in Seq(Remote!Errors) /\ Len(a) = 1
           \/ /\ s \in {"posted", "refused"} /\ a = <<>>
              /\ \A d \in Call_ : Remote!IdOf(d) = Remote!IdOf(c) => ~Remote!Outstanding(d)
    PROVE  RdcInv'
<1>1. RdcTypeOK /\ Waits /\ Answering /\ OnePerId /\ Written
  BY DEF RdcInv
<1>2. s \in Remote!Stages /\ a \in Seq(Remote!Errors) /\ (s = "over" => a # <<>>) /\ Len(a) <= 1
  <2>1. <<>> \in Seq(Remote!Errors) /\ Len(<<>>) = 0
    OBVIOUS
  <2>2. CASE s = "over" /\ a \in Seq(Remote!Errors) /\ Len(a) = 1
    BY <2>1, <2>2 DEF Remote!Stages
  <2>3. CASE s \in {"posted", "refused"} /\ a = <<>>
    BY <2>1, <2>3 DEF Remote!Stages
  <2> QED BY <2>2, <2>3
<1>3. /\ stage'[c] = s /\ answers'[c] = a
      /\ \A d \in Call_ : d # c => stage'[d] = stage[d] /\ answers'[d] = answers[d]
  BY <1>1 DEF RdcTypeOK
<1>4. RdcTypeOK'
  BY <1>1, <1>2 DEF RdcTypeOK
<1>5. Entered' = Entered /\ Entered \subseteq Call_ /\ c \notin Entered
  <2>1. c \notin Entered
    BY <1>1 DEF Waits
  <2> QED BY <1>1, <2>1 DEF Entered, RdcTypeOK
<1>6. Waits'
  <2>1. \A d \in Entered : stage'[d] = stage[d] /\ answers'[d] = answers[d]
    BY <1>3, <1>5
  <2> QED BY <1>1, <1>5, <2>1 DEF Waits
<1>7. Answering'
  <2>1. ASSUME NEW d \in Call_, d # c
        PROVE  /\ Len(answers'[d]) <= 1
               /\ stage'[d] \in {"idle", "posted", "refused"} => answers'[d] = <<>>
               /\ stage'[d] \in {"entered", "writing", "over"} => answers'[d] # <<>> \/ d \in Entered'
    BY <1>1, <1>3, <1>5, <2>1 DEF Answering
  <2>2. /\ Len(answers'[c]) <= 1
        /\ stage'[c] \in {"idle", "posted", "refused"} => answers'[c] = <<>>
        /\ stage'[c] \in {"entered", "writing", "over"} => answers'[c] # <<>> \/ c \in Entered'
    BY <1>2, <1>3
  <2> QED BY <2>1, <2>2 DEF Answering
<1>8. OnePerId'
  <2>1. \A d \in Call_ : d # c => (Remote!Outstanding(d)' <=> Remote!Outstanding(d))
    BY <1>3 DEF Remote!Outstanding
  <2>2. CASE s = "over"
    <3>1. ~Remote!Outstanding(c)'
      BY <1>2, <1>3, <2>2 DEF Remote!Outstanding
    <3> QED BY <1>1, <2>1, <3>1 DEF OnePerId, Remote!IdOf
  <2>3. CASE \A d \in Call_ : Remote!IdOf(d) = Remote!IdOf(c) => ~Remote!Outstanding(d)
    BY <1>1, <2>1, <2>3 DEF OnePerId, Remote!IdOf
  <2> QED BY <2>2, <2>3
<1>9. Written'
  <2>1. \A w \in written : w[1] # c /\ w[1] \in Call_
    BY <1>1 DEF Written, RdcTypeOK
  <2> QED BY <1>1, <1>3, <2>1 DEF Written
<1> QED BY <1>4, <1>6, <1>7, <1>8, <1>9 DEF RdcInv

(* A posted call is entered.                                               *)
LEMMA EntersWaiting ==
    ASSUME RdcInv, hasEcs, NEW c \in Call_, stage[c] = "posted",
           UNCHANGED <<life, r_started, hasEcs, answers, written>>,
           stage' = [stage EXCEPT ![c] = "entered"], reqs' = Append(reqs, c),
           timer' = [timer EXCEPT ![c] = "armed"], r_born' = [r_born EXCEPT ![c] = life]
    PROVE  RdcInv'
<1>1. RdcTypeOK /\ Waits /\ Answering /\ OnePerId /\ Written
  BY DEF RdcInv
<1>2. /\ stage'[c] = "entered" /\ timer'[c] = "armed" /\ r_born'[c] = life
      /\ \A d \in Call_ : d # c => stage'[d] = stage[d] /\ timer'[d] = timer[d] /\ r_born'[d] = r_born[d]
  BY <1>1 DEF RdcTypeOK
<1>3. Entered \subseteq Call_ /\ c \notin Entered
  <2>1. c \notin Entered
    BY <1>1 DEF Waits
  <2> QED BY <1>1, <2>1 DEF Entered, RdcTypeOK
<1>4. PICK n \in Nat : n = Len(reqs) /\ DOMAIN reqs = 1..n
  BY <1>1, LenProperties DEF RdcTypeOK
<1>5. /\ reqs' \in Seq(Call_) /\ DOMAIN reqs' = 1..(n + 1)
      /\ reqs'[n + 1] = c /\ \A i \in 1..n : reqs'[i] = reqs[i]
  BY <1>1, <1>4, AppendProperties, LenProperties DEF RdcTypeOK
<1>6. Entered' = Entered \cup {c}
  <2>1. Entered = {reqs[i] : i \in 1..n} /\ Entered' = {reqs'[i] : i \in 1..(n + 1)}
    BY <1>4, <1>5 DEF Entered
  <2>2. \A i \in 1..(n + 1) : i \in 1..n \/ i = n + 1
    BY <1>4
  <2>3. 1..n \subseteq 1..(n + 1) /\ n + 1 \in 1..(n + 1)
    BY <1>4
  <2> QED BY <1>5, <2>1, <2>2, <2>3
<1>7. RdcTypeOK'
  BY <1>1, <1>5 DEF RdcTypeOK, Remote!Stages
<1>8. Waits'
  <2>1. ASSUME NEW i \in DOMAIN reqs', NEW j \in DOMAIN reqs', reqs'[i] = reqs'[j] PROVE i = j
    <3>1. \A k \in 1..n : reqs'[k] = reqs[k] /\ reqs[k] # c /\ k \in DOMAIN reqs
      BY <1>3, <1>4, <1>5 DEF Entered
    <3>2. (i \in 1..n \/ i = n + 1) /\ (j \in 1..n \/ j = n + 1)
      BY <1>4, <1>5
    <3> QED BY <1>1, <1>5, <2>1, <3>1, <3>2 DEF Waits
  <2>2. ASSUME NEW d \in Entered
        PROVE  /\ hasEcs /\ r_born'[d] = life
               /\ stage'[d] \in {"entered", "writing", "over"}
               /\ answers'[d] = <<>> /\ timer'[d] # "none"
    BY <1>1, <1>2, <1>3 DEF Waits
  <2>3. answers'[c] = <<>>
    BY <1>1 DEF Answering
  <2> QED BY <1>2, <1>6, <2>1, <2>2, <2>3 DEF Waits
<1>9. Answering'
  BY <1>1, <1>2, <1>6 DEF Answering
<1>10. OnePerId'
  <2>1. ASSUME NEW d \in Call_, Remote!Outstanding(d)' PROVE Remote!Outstanding(d)
    BY <1>2, <2>1 DEF Remote!Outstanding
  <2> QED BY <1>1, <2>1 DEF OnePerId, Remote!IdOf
<1>11. Written'
  <2>1. \A w \in written : w[1] # c /\ w[1] \in Call_
    BY <1>1 DEF Written, RdcTypeOK
  <2> QED BY <1>1, <1>2, <2>1 DEF Written
<1> QED BY <1>7, <1>8, <1>9, <1>10, <1>11 DEF RdcInv

(* A disconnect answers all who wait.                                      *)
LEMMA AllEnd ==
    ASSUME RdcInv, Remote!Disconnect
    PROVE  RdcInv'
<1>1. RdcTypeOK /\ Waits /\ Answering /\ OnePerId /\ Written
  BY DEF RdcInv
<1>2. /\ reqs' = <<>> /\ r_started' = FALSE /\ hasEcs' \in BOOLEAN
      /\ UNCHANGED <<life, stage, r_born, written>>
  BY DEF Remote!Disconnect, Remote!RdcStop
<1>3. Remote!ToSet(reqs) = Entered /\ Entered \subseteq Call_ /\ Entered' = {}
  BY <1>1, <1>2 DEF Remote!ToSet, Entered, RdcTypeOK
<1>4. /\ answers' = [c \in Call_ |-> IF c \in Entered THEN Append(answers[c], "aborted") ELSE answers[c]]
      /\ timer' = [c \in Call_ |-> IF c \in Entered THEN Remote!Cancelled(timer[c]) ELSE timer[c]]
  BY <1>3 DEF Remote!Disconnect, Remote!RdcStop
<1>5. \A c \in Call_ : answers'[c] = IF c \in Entered THEN <<"aborted">> ELSE answers[c]
  <2>1. Append(<<>>, "aborted") = <<"aborted">>
    OBVIOUS
  <2>2. \A c \in Entered : answers[c] = <<>>
    BY <1>1 DEF Waits
  <2> QED BY <1>4, <2>1, <2>2
<1>6. /\ \A c \in Call_ : answers'[c] \in Seq(Remote!Errors)
      /\ <<"aborted">> # <<>> /\ Len(<<"aborted">>) = 1
  <2>1. <<"aborted">> \in Seq(Remote!Errors)
    BY DEF Remote!Errors
  <2> QED BY <1>1, <1>5, <2>1 DEF RdcTypeOK
<1>7. RdcTypeOK'
  <2>1. answers' \in [Call_ -> Seq(Remote!Errors)]
    BY <1>4, <1>6
  <2>2. timer' \in [Call_ -> {"none", "armed", "fired"}]
    BY <1>1, <1>4 DEF RdcTypeOK, Remote!Cancelled, Remote!None
  <2> QED BY <1>1, <1>2, <2>1, <2>2, EmptySeq DEF RdcTypeOK
<1>8. Waits'
  BY <1>2, <1>3 DEF Waits
<1>9. Answering'
  <2> SUFFICES ASSUME NEW c \in Call_
               PROVE  /\ Len(answers'[c]) <= 1
                      /\ stage[c] \in {"idle", "posted", "refused"} => answers'[c] = <<>>
                      /\ stage[c] \in {"entered", "writing", "over"} => answers'[c] # <<>>
    BY <1>2 DEF Answering
  <2>1. CASE c \in Entered
    <3>1. stage[c] \notin {"idle", "posted", "refused"}
      BY <1>1, <2>1 DEF Waits
    <3>2. answers'[c] = <<"aborted">>
      BY <1>5, <2>1
    <3> QED BY <1>6, <3>1, <3>2
  <2>2. CASE c \notin Entered
    BY <1>1, <1>5, <2>2 DEF Answering
  <2> QED BY <2>1, <2>2
<1>10. OnePerId'
  <2>1. ASSUME NEW c \in Call_, Remote!Outstanding(c)' PROVE Remote!Outstanding(c)
    BY <1>1, <1>2, <1>5, <2>1 DEF Remote!Outstanding, Waits
  <2> QED BY <1>1, <2>1 DEF OnePerId, Remote!IdOf
<1>11. Written'
  BY <1>1, <1>2 DEF Written
<1> QED BY <1>7, <1>8, <1>9, <1>10, <1>11 DEF RdcInv

LEMMA RdcNextInv ==
    ASSUME Careful, ~KeyMoved
    PROVE  RdcInv /\ [Remote!Next]_(Remote!vars) => RdcInv'
<1> SUFFICES ASSUME RdcInv, [Remote!Next]_(Remote!vars) PROVE RdcInv'
  OBVIOUS
<1>1. RdcTypeOK /\ Waits /\ Answering /\ OnePerId /\ Written
  BY DEF RdcInv
<1>2. \A c \in Entered : c \in Call_ /\ timer[c] # "none"
  BY <1>1 DEF Waits, Entered, RdcTypeOK
<1>3. ASSUME NEW c \in Call_, Remote!Call(c) PROVE RdcInv'
  <2> DEFINE s == IF r_started THEN "posted" ELSE IF c \in SyncCall THEN "over" ELSE "refused"
             a == IF ~r_started /\ c \in SyncCall THEN <<"not_connected">> ELSE <<>>
  <2>1. /\ UNCHANGED <<life, r_started, hasEcs, reqs, timer, r_born, written>>
        /\ stage[c] = "idle" /\ stage' = [stage EXCEPT ![c] = s]
        /\ \A d \in Call_ : Remote!IdOf(d) = Remote!IdOf(c) => ~Remote!Outstanding(d)
    BY <1>3 DEF Remote!Call
  <2>2. answers[c] = <<>>
    BY <1>1, <2>1 DEF Answering
  <2>3. answers' = [answers EXCEPT ![c] = a]
    BY <1>3, <2>2 DEF Remote!Call
  <2>4. \/ s = "over" /\ a = <<"not_connected">>
        \/ s \in {"posted", "refused"} /\ a = <<>>
    OBVIOUS
  <2>5. <<"not_connected">> \in Seq(Remote!Errors) /\ Len(<<"not_connected">>) = 1
    BY DEF Remote!Errors
  <2> HIDE DEF s, a
  <2> QED BY <2>1, <2>3, <2>4, <2>5, NotYetEntered
<1>4. ASSUME NEW c \in Call_, Remote!RunRefused(c) PROVE RdcInv'
  <2>1. /\ UNCHANGED <<life, r_started, hasEcs, reqs, timer, r_born, written>>
        /\ stage[c] = "refused" /\ stage' = [stage EXCEPT ![c] = "over"]
        /\ answers' = [answers EXCEPT ![c] = Append(@, "not_connected")]
    BY <1>4 DEF Remote!RunRefused
  <2>2. answers[c] = <<>> /\ Append(<<>>, "not_connected") = <<"not_connected">>
    BY <1>1, <2>1 DEF Answering
  <2>3. answers' = [answers EXCEPT ![c] = <<"not_connected">>]
    BY <2>1, <2>2
  <2>4. <<"not_connected">> \in Seq(Remote!Errors) /\ Len(<<"not_connected">>) = 1
    BY DEF Remote!Errors
  <2> QED BY <2>1, <2>3, <2>4, NotYetEntered
<1>5. ASSUME NEW c \in Call_, Remote!RdcSend(c) PROVE RdcInv'
  <2>1. CASE ~hasEcs
    <3>1. /\ UNCHANGED <<life, r_started, hasEcs, reqs, timer, r_born, written>>
          /\ stage[c] = "posted" /\ stage' = [stage EXCEPT ![c] = "over"]
          /\ answers' = [answers EXCEPT ![c] = Append(@, "aborted")]
      BY <1>5, <2>1 DEF Remote!RdcSend
    <3>2. answers[c] = <<>> /\ Append(<<>>, "aborted") = <<"aborted">>
      BY <1>1, <3>1 DEF Answering
    <3>3. answers' = [answers EXCEPT ![c] = <<"aborted">>]
      BY <3>1, <3>2
    <3>4. <<"aborted">> \in Seq(Remote!Errors) /\ Len(<<"aborted">>) = 1
      BY DEF Remote!Errors
    <3> QED BY <3>1, <3>3, <3>4, NotYetEntered
  <2>2. CASE hasEcs
    <3>1. /\ UNCHANGED <<life, r_started, hasEcs, answers, written>> /\ stage[c] = "posted"
          /\ stage' = [stage EXCEPT ![c] = "entered"] /\ reqs' = Append(reqs, c)
          /\ timer' = [timer EXCEPT ![c] = "armed"] /\ r_born' = [r_born EXCEPT ![c] = life]
      BY <1>5, <2>2 DEF Remote!RdcSend
    <3> QED BY <2>2, <3>1, EntersWaiting
  <2> QED BY <2>1, <2>2
<1>6. ASSUME NEW c \in Call_, Remote!Expire(c) PROVE RdcInv'
  <2>1. /\ UNCHANGED <<answers, reqs, life, hasEcs, r_born, r_started, written, stage>>
        /\ timer' = [timer EXCEPT ![c] = "fired"]
    BY <1>6 DEF Remote!Expire
  <2>2. timer' \in [Call_ -> {"none", "armed", "fired"}] /\ \A d \in Entered : timer'[d] # "none"
    BY <1>1, <1>2, <2>1 DEF RdcTypeOK
  <2>3. r_started' \in BOOLEAN /\ stage' \in [Call_ -> Remote!Stages] /\ \A d \in Call_ : GoesOn(d)
    BY <1>1, <2>1 DEF RdcTypeOK, GoesOn
  <2>4. SentNow
    BY <2>1 DEF SentNow
  <2> QED BY <2>1, <2>2, <2>3, <2>4, NobodyEnds
<1>7. ASSUME NEW c \in Call_, Remote!RunTimer(c) PROVE RdcInv'
  <2>1. /\ UNCHANGED <<life, r_started, hasEcs, r_born, written, stage>>
        /\ Remote!Ex(c) /\ timer' = Remote!TimersAfterEx(c, "none")
    BY <1>7 DEF Remote!RunTimer, Remote!None
  <2>2. stage' \in [Call_ -> Remote!Stages] /\ \A d \in Call_ : GoesOn(d)
    BY <1>1, <2>1 DEF RdcTypeOK, GoesOn
  <2> QED BY <2>1, <2>2, ExEnds
<1>8. ASSUME \/ \E c \in Call_ : Remote!Return(c)
             \/ Remote!Stop \/ Remote!Lose \/ Remote!Reconnect
      PROVE  RdcInv'
  <2>1. /\ UNCHANGED <<answers, reqs, life, hasEcs, r_born, written, stage, timer>>
        /\ r_started' \in BOOLEAN
    BY <1>1, <1>8 DEF Remote!Return, Remote!Stop, Remote!Lose, Remote!Reconnect, RdcTypeOK
  <2>2. /\ timer' \in [Call_ -> {"none", "armed", "fired"}] /\ \A c \in Entered : timer'[c] # "none"
        /\ stage' \in [Call_ -> Remote!Stages] /\ \A c \in Call_ : GoesOn(c)
    BY <1>1, <1>2, <2>1 DEF RdcTypeOK, GoesOn
  <2>3. SentNow
    BY <2>1 DEF SentNow
  <2> QED BY <2>1, <2>2, <2>3, NobodyEnds
<1>9. ASSUME Remote!Start PROVE RdcInv'
  <2>1. /\ ~hasEcs /\ life' = life + 1 /\ hasEcs' = TRUE /\ r_started' = TRUE
        /\ UNCHANGED <<answers, reqs, r_born, written, stage, timer>>
    BY <1>9 DEF Remote!Start
  <2>2. Entered = {} /\ Entered' = Entered
    BY <1>1, <2>1 DEF Waits, Entered
  <2>3. RdcTypeOK'
    BY <1>1, <2>1 DEF RdcTypeOK
  <2>4. Waits' /\ Answering'
    BY <1>1, <2>1, <2>2 DEF Waits, Answering
  <2>5. OnePerId' /\ Written'
    BY <1>1, <2>1 DEF OnePerId, Written, Remote!IdOf, Remote!Outstanding
  <2> QED BY <2>3, <2>4, <2>5 DEF RdcInv
<1>10. ASSUME Remote!RunSend PROVE RdcInv'
  <2>1. PICK c \in Call_ :
           /\ stage[c] = "entered" /\ UNCHANGED <<life, r_started, hasEcs, r_born>>
           /\ \/ /\ Remote!Ex(c) /\ timer' = Remote!TimersAfterEx(c, timer[c])
                 /\ stage' = [stage EXCEPT ![c] = "over"] /\ UNCHANGED written
              \/ /\ r_born[c] = life
                 /\ stage' = [stage EXCEPT ![c] = "writing"]
                 /\ written' = (IF r_started THEN written \cup { <<c, life>> } ELSE written)
                 /\ UNCHANGED <<timer, answers, reqs>>
    BY <1>10 DEF Remote!RunSend
  <2>2. stage' \in [Call_ -> Remote!Stages] /\ \A d \in Call_ : GoesOn(d)
    BY <1>1, <2>1 DEF RdcTypeOK, GoesOn, Remote!Stages
  <2>3. CASE Remote!Ex(c) /\ timer' = Remote!TimersAfterEx(c, timer[c]) /\ UNCHANGED written
    BY <2>1, <2>2, <2>3, ExEnds
  <2>4. CASE /\ r_born[c] = life /\ stage' = [stage EXCEPT ![c] = "writing"]
             /\ written' = (IF r_started THEN written \cup { <<c, life>> } ELSE written)
             /\ UNCHANGED <<timer, answers, reqs>>
    <3>1. stage'[c] = "writing" /\ <<c, life>> \in Call_ \X Nat
      BY <1>1, <2>4 DEF RdcTypeOK
    <3>2. ASSUME NEW w \in written'
          PROVE  \/ w \in written
                 \/ /\ w \in Call_ \X Nat
                    /\ stage'[w[1]] = "writing"
                    /\ r_born[w[1]] = w[2]
      <4>1. CASE w \in written
        BY <4>1
      <4>2. CASE w = <<c, life>>
        BY <2>4, <3>1, <4>2
      <4> QED BY <2>4, <4>1, <4>2
    <3>3. /\ timer' \in [Call_ -> {"none", "armed", "fired"}] /\ \A d \in Entered : timer'[d] # "none"
          /\ r_started' \in BOOLEAN
      BY <1>1, <1>2, <2>1, <2>4 DEF RdcTypeOK
    <3>4. SentNow
      BY <3>2 DEF SentNow
    <3> QED BY <2>1, <2>2, <2>4, <3>3, <3>4, NobodyEnds
  <2> QED BY <2>1, <2>3, <2>4
<1>11. ASSUME Remote!WriteDone PROVE RdcInv'
  <2>1. PICK c \in Call_ :
           /\ stage[c] = "writing" /\ stage' = [stage EXCEPT ![c] = "over"]
           /\ UNCHANGED <<life, r_started, hasEcs, r_born, written>>
           /\ \/ UNCHANGED <<timer, answers, reqs>>
              \/ Remote!Ex(c) /\ timer' = Remote!TimersAfterEx(c, timer[c])
    BY <1>11 DEF Remote!WriteDone
  <2>2. /\ stage' \in [Call_ -> Remote!Stages] /\ \A d \in Call_ : GoesOn(d)
        /\ r_started' \in BOOLEAN
    BY <1>1, <2>1 DEF RdcTypeOK, GoesOn, Remote!Stages
  <2>3. CASE Remote!Ex(c) /\ timer' = Remote!TimersAfterEx(c, timer[c])
    BY <2>1, <2>2, <2>3, ExEnds
  <2>4. CASE UNCHANGED <<timer, answers, reqs>>
    <3>1. timer' \in [Call_ -> {"none", "armed", "fired"}] /\ \A d \in Entered : timer'[d] # "none"
      BY <1>1, <1>2, <2>4 DEF RdcTypeOK
    <3>2. SentNow
      BY <2>1 DEF SentNow
    <3> QED BY <2>1, <2>2, <2>4, <3>1, <3>2, NobodyEnds
  <2> QED BY <2>1, <2>3, <2>4
<1>12. ASSUME Remote!Receive PROVE RdcInv'
  <2>1. PICK w \in written : \E i \in Remote!Found(w[1]) : Remote!Answer(i, "ok")
    BY <1>12 DEF Remote!Receive
  <2>2. PICK i \in Remote!Found(w[1]) : Remote!Answer(i, "ok")
    BY <2>1
  <2>3. UNCHANGED <<life, r_started, hasEcs, stage, r_born, written>>
    BY <1>12 DEF Remote!Receive
  <2>4. i \in DOMAIN reqs /\ reqs[i] \in Call_ /\ "ok" \in Remote!Errors
    BY <1>1 DEF Remote!Found, Remote!Errors, RdcTypeOK
  <2>5. /\ answers' = [answers EXCEPT ![reqs[i]] = Append(@, "ok")]
        /\ timer' = [timer EXCEPT ![reqs[i]] = Remote!Cancelled(@)]
        /\ reqs' = Remote!RemoveAt(reqs, i)
    BY <2>2 DEF Remote!Answer
  <2>6. /\ timer' \in [Call_ -> {"none", "armed", "fired"}]
        /\ \A d \in Entered : d # reqs[i] => timer'[d] # "none"
    BY <1>1, <1>2, <2>4, <2>5 DEF RdcTypeOK, Remote!Cancelled, Remote!None
  <2>7. stage' \in [Call_ -> Remote!Stages] /\ \A d \in Call_ : GoesOn(d)
    BY <1>1, <2>3 DEF RdcTypeOK, GoesOn
  <2> QED BY <2>3, <2>4, <2>5, <2>6, <2>7, OneEnds
<1>13. ASSUME Remote!Disconnect PROVE RdcInv'
  BY <1>13, AllEnd
<1>14. ASSUME UNCHANGED Remote!vars PROVE RdcInv'
  BY <1>14 DEF Remote!vars, RdcInv, RdcTypeOK, Waits, Answering, OnePerId, Written, Entered,
               Remote!IdOf, Remote!Outstanding
<1> QED BY <1>3, <1>4, <1>5, <1>6, <1>7, <1>8, <1>9, <1>10, <1>11, <1>12, <1>13, <1>14
           DEF Remote!Next

LEMMA RdcInvAnswers == RdcInv => CallsAreAnswered
<1> SUFFICES ASSUME RdcInv PROVE CallsAreAnswered
  OBVIOUS
<1>1. Waits /\ Answering /\ Written
  BY DEF RdcInv
<1>2. Remote!SentInItsLife
  BY <1>1 DEF Written, Remote!SentInItsLife
<1>3. Remote!AnsweredOnce
  BY <1>1 DEF Answering, Remote!AnsweredOnce
<1>4. Remote!NeverForgotten
  BY <1>1 DEF Waits, Answering, Remote!NeverForgotten, Remote!None
<1> QED BY <1>2, <1>3, <1>4 DEF CallsAreAnswered

(* Whenever calls are made, lost, timed out, sent too late or cut off by   *)
(* the stop, each is answered once, and goes out in its own life or not at *)
(* all (provided that two with one id are not under way together, and that *)
(* an id that was moved from still is the id).                             *)
THEOREM CallsSettle ==
    ASSUME Careful, ~KeyMoved
    PROVE  ComponentsSpec => []CallsAreAnswered
<1>1. ComponentsInit => RdcInv
  BY RdcInitInv DEF ComponentsInit
<1>2. ComponentsNext => [Remote!Next]_(Remote!vars)
  BY DEF ComponentsNext, Remote!vars, remoteVars
<1>3. UNCHANGED <<queueVars, listVars, dispVars, sendVars, socksVars, remoteVars, part>>
         => UNCHANGED Remote!vars
  BY DEF remoteVars, Remote!vars
<1>4. RdcInv /\ [ComponentsNext]_<<queueVars, listVars, dispVars, sendVars, socksVars, remoteVars, part>>
         => RdcInv'
  BY <1>2, <1>3, RdcNextInv
<1> QED BY <1>1, <1>4, RdcInvAnswers, PTL DEF ComponentsSpec

-----------------------------------------------------------------------------
(***************************************************************************)
(* The negotiation with a SOCKS5 proxy, for any methods, offers of them,   *)
(* and lengths of names.                                                   *)
(*                                                                         *)
(* TunnelIsReal is not inductive.  What the coroutine believes and what    *)
(* the proxy has decided are tied together by what is under way between    *)
(* them: a message of the client's or the proxy's answer to it, never      *)
(* both (Asked).  Of a message it is enough to know its length and the     *)
(* octets that are looked at.  An answer is read when it is there (Taken), *)
(* and of a reply there is, besides, at most what the target sent.         *)
(***************************************************************************)
Symbol == Nat \cup {"x", "data"}
Steps == {"greeting", "method", "credentials", "status", "request", "reply", "address", "end"}
Codes == {"success", "io_error", "unsupported_version", "unsupported_method",
          "no_acceptable_methods", "username_required", "refused", "general_failure",
          "unsupported_authentication_version", "authentication_failed"}
Kinds == {Socks!IPv4, Socks!Domain, Socks!IPv6}

SocksTypeOK ==
    /\ option \in Socks!Options
    /\ to_proxy \in Seq(Symbol) /\ from_proxy \in Seq(Symbol)
    /\ step \in [step : Steps, ended : BOOLEAN]
    /\ len \in Nat /\ result \in Seq(Codes) /\ open \in BOOLEAN
    /\ proxy \in [stage : {"greeting", "credentials", "request", "relay", "gone"},
                  method : Symbol, trusts : BOOLEAN, host : Symbol, kind : Symbol,
                  granted : BOOLEAN]

(* The messages of the client. *)
IsGreeting(m) == Len(m) = 2 + Len(option.methods) /\ m[2] = Len(option.methods)
IsCredentials(m) ==
    /\ Len(m) = 3 + option.user + option.password
    /\ m[2] = option.user /\ m[3 + option.user] = option.password
IsRequest(m) ==
    /\ m[4] = option.kind
    /\ option.kind = Socks!IPv4 => Len(m) = 10
    /\ option.kind = Socks!IPv6 => Len(m) = 22
    /\ option.kind = Socks!Domain => Len(m) = 7 + option.host /\ m[5] = option.host

(* The proxy's reply, and what may follow it from the target. *)
Relayed(d, n) == Len(d) = n \/ (Len(d) = n + 1 /\ d[n + 1] = "data")
IsReply(d) ==
    /\ Len(d) >= 5 /\ d[1] = 5 /\ d[4] \in Kinds
    /\ d[4] = Socks!Domain => d[5] \in Nat
    /\ d[2] = 0 => /\ d[4] = Socks!IPv4 => Relayed(d, 10)
                   /\ d[4] = Socks!IPv6 => Relayed(d, 22)
                   /\ d[4] = Socks!Domain => Relayed(d, 7 + d[5])

Trusted == proxy.method = Socks!Password => proxy.trusts
Tunnel ==
    /\ proxy.stage = "relay" /\ proxy.granted /\ Trusted
    /\ proxy.kind = option.kind /\ proxy.host = option.host

(* What is on its way to the proxy is what the proxy waits for. *)
Sent ==
    /\ proxy.stage = "greeting" => IsGreeting(to_proxy)
    /\ proxy.stage = "credentials" => to_proxy = <<>> \/ IsCredentials(to_proxy)
    /\ proxy.stage = "request" => to_proxy = <<>> \/ IsRequest(to_proxy)

(* What the proxy has to answer, or has answered, step by step. *)
GreetingAsked ==
    \/ proxy.stage = "greeting" /\ from_proxy = <<>>
    \/ /\ to_proxy = <<>> /\ from_proxy = <<5, proxy.method>>
       /\ proxy.method = Socks!Password => proxy.stage = "credentials"
       /\ proxy.method = Socks!Anonymous => proxy.stage = "request"
CredentialsAsked ==
    \/ proxy.stage = "credentials" /\ from_proxy = <<>>
    \/ /\ to_proxy = <<>> /\ Len(from_proxy) = 2
       /\ from_proxy[2] = 0 => proxy.stage = "request" /\ proxy.trusts
RequestAsked ==
    \/ proxy.stage = "request" /\ Trusted /\ from_proxy = <<>>
    \/ /\ IsReply(from_proxy) /\ proxy.stage \in {"relay", "gone"}
       /\ from_proxy[2] = 0 => Tunnel

Asked ==
    /\ step.step \in {"greeting", "method"} => GreetingAsked
    /\ step.step \in {"credentials", "status"} => CredentialsAsked
    /\ step.step \in {"request", "reply"} => RequestAsked
    /\ step.step = "address" => Tunnel /\ Relayed(from_proxy, len)

Taken ==
    /\ step.step \in {"method", "status"} => len = 2
    /\ step.step = "reply" => len = 5
    /\ step.step \in {"method", "status", "reply", "address"} /\ step.ended => Len(from_proxy) >= len

Succeeded == result = <<"success">> => Tunnel /\ from_proxy \in {<<>>, <<"data">>}

SocksInv == SocksTypeOK /\ Socks!HandlerOnce /\ Sent /\ Asked /\ Taken /\ Succeeded

-----------------------------------------------------------------------------
LEMMA Joined ==
    ASSUME NEW s \in Seq(Symbol), NEW t \in Seq(Symbol)
    PROVE  /\ s \o t \in Seq(Symbol) /\ Len(s \o t) = Len(s) + Len(t)
           /\ \A i \in 1 .. Len(s) : (s \o t)[i] = s[i]
           /\ \A i \in 1 .. Len(t) : (s \o t)[Len(s) + i] = t[i]
  BY ConcatProperties, LenProperties

LEMMA TextIs ==
    ASSUME NEW n \in Nat
    PROVE  Socks!Text(n) \in Seq(Symbol) /\ Len(Socks!Text(n)) = n
  BY DEF Socks!Text, Symbol

LEMMA LengthOctetIs ==
    ASSUME NEW n \in Length
    PROVE  n \in Nat /\ Socks!LengthOctet(n) = <<n>>
<1>1. n \in Nat /\ Octet \in Nat /\ n < Octet /\ 0 <= n
  BY SocksAssumption
<1>2. n % Octet = n
  BY <1>1
<1> QED BY <1>1, <1>2 DEF Socks!LengthOctet

LEMMA OptionIs ==
    ASSUME option \in Socks!Options
    PROVE  /\ option.methods \in Seq(Nat)
           /\ option.user \in Length /\ option.password \in Length /\ option.host \in Length
           /\ option.kind \in Kinds
           /\ option.kind # Socks!Domain => option.host = 1
<1>1. option.methods \in UNION {[1 .. n -> Method] : n \in Offer}
  BY DEF Socks!Options
<1>2. PICK n \in Offer : option.methods \in [1 .. n -> Method]
  BY <1>1
<1>3. n \in Nat /\ option.methods \in [1 .. n -> Nat]
  BY <1>2, SocksAssumption
<1>4. option.methods \in Seq(Nat)
  BY <1>3, SeqDef
<1> QED BY <1>4 DEF Socks!Options, Kinds

LEMMA GreetingIs ==
    ASSUME option \in Socks!Options
    PROVE  Socks!Greeting \in Seq(Symbol) /\ IsGreeting(Socks!Greeting)
<1>1. option.methods \in Seq(Nat)
  BY OptionIs
<1> QED BY <1>1 DEF Socks!Greeting, IsGreeting, Symbol

LEMMA CredentialsIs ==
    ASSUME option \in Socks!Options
    PROVE  Socks!Credentials \in Seq(Symbol) /\ IsCredentials(Socks!Credentials)
<1> DEFINE u == option.user
           w == option.password
<1>1. /\ u \in Nat /\ Socks!LengthOctet(u) = <<u>>
      /\ w \in Nat /\ Socks!LengthOctet(w) = <<w>>
  BY OptionIs, LengthOctetIs
<1>2. /\ Socks!Text(u) \in Seq(Symbol) /\ Len(Socks!Text(u)) = u
      /\ Socks!Text(w) \in Seq(Symbol) /\ Len(Socks!Text(w)) = w
  BY <1>1, TextIs
<1>3. Socks!Credentials = ((<<1, u>> \o Socks!Text(u)) \o <<w>>) \o Socks!Text(w)
  BY <1>1, <1>2 DEF Socks!Credentials
<1> DEFINE w1 == <<w>>
           c1 == <<1, u>> \o Socks!Text(u)
           c2 == c1 \o w1
<1>4. /\ <<1, u>> \in Seq(Symbol) /\ Len(<<1, u>>) = 2 /\ <<1, u>>[2] = u
      /\ w1 \in Seq(Symbol) /\ Len(w1) = 1 /\ w1[1] = w
  BY <1>1 DEF Symbol
<1>5. c1 \in Seq(Symbol) /\ Len(c1) = 2 + u /\ c1[2] = u
  BY <1>1, <1>2, <1>4, Joined
<1>6. c2 \in Seq(Symbol) /\ Len(c2) = 3 + u /\ c2[2] = u /\ c2[3 + u] = w
  <2> HIDE DEF c1, w1
  <2>1. /\ c2 \in Seq(Symbol) /\ Len(c2) = Len(c1) + Len(w1)
        /\ \A i \in 1 .. Len(c1) : c2[i] = c1[i]
        /\ \A i \in 1 .. Len(w1) : c2[Len(c1) + i] = w1[i]
    BY <1>4, <1>5, Joined
  <2> HIDE DEF c2
  <2>2. c2[Len(c1) + 1] = w1[1] /\ c2[2] = c1[2]
    BY <2>1, <1>1, <1>4, <1>5
  <2>3. (2 + u) + 1 = 3 + u
    BY <1>1
  <2> QED BY <2>1, <2>2, <2>3, <1>1, <1>4, <1>5
<1> HIDE DEF c2
<1> DEFINE c == c2 \o Socks!Text(w)
<1>7. /\ c \in Seq(Symbol) /\ Len(c) = 3 + u + w
      /\ c[2] = c2[2] /\ c[3 + u] = c2[3 + u]
  <2>1. /\ c \in Seq(Symbol) /\ Len(c) = Len(c2) + Len(Socks!Text(w))
        /\ \A i \in 1 .. Len(c2) : c[i] = c2[i]
    BY <1>2, <1>6, Joined
  <2> QED BY <2>1, <1>1, <1>2, <1>6
<1> QED BY <1>3, <1>6, <1>7 DEF IsCredentials, c2, w1

LEMMA RequestIs ==
    ASSUME option \in Socks!Options
    PROVE  Socks!Request \in Seq(Symbol) /\ IsRequest(Socks!Request)
<1> DEFINE h == option.host
           r == <<5, 1, 0, option.kind>>
           a == CASE option.kind = Socks!Domain -> <<h>> \o Socks!Text(h)
                  [] option.kind = Socks!IPv4   -> Socks!Text(4)
                  [] option.kind = Socks!IPv6   -> Socks!Text(16)
<1>1. h \in Nat /\ Socks!LengthOctet(h) = <<h>>
  BY OptionIs, LengthOctetIs
<1>2. \A n \in {h, 4, 16, 2} : Socks!Text(n) \in Seq(Symbol) /\ Len(Socks!Text(n)) = n
  BY <1>1, TextIs
<1>3. Socks!Request = r \o a \o Socks!Text(2)
  BY <1>1 DEF Socks!Request
<1>4. option.kind \in Kinds /\ r \in Seq(Symbol) /\ Len(r) = 4 /\ r[4] = option.kind
  BY OptionIs DEF Kinds, Symbol, Socks!IPv4, Socks!IPv6, Socks!Domain
<1>5. /\ a \in Seq(Symbol)
      /\ option.kind = Socks!IPv4 => Len(a) = 4
      /\ option.kind = Socks!IPv6 => Len(a) = 16
      /\ option.kind = Socks!Domain => Len(a) = 1 + h /\ a[1] = h
  <2>1. CASE option.kind = Socks!IPv4
    <3>1. a = Socks!Text(4)
      BY <2>1 DEF Socks!IPv4, Socks!IPv6, Socks!Domain
    <3> QED BY <3>1, <2>1, <1>2 DEF Socks!IPv4, Socks!IPv6, Socks!Domain
  <2>2. CASE option.kind = Socks!IPv6
    <3>1. a = Socks!Text(16)
      BY <2>2 DEF Socks!IPv4, Socks!IPv6, Socks!Domain
    <3> QED BY <3>1, <2>2, <1>2 DEF Socks!IPv4, Socks!IPv6, Socks!Domain
  <2>3. CASE option.kind = Socks!Domain
    <3> DEFINE h1 == <<h>>
               t == Socks!Text(h)
    <3>1. a = h1 \o t
      BY <2>3 DEF Socks!IPv4, Socks!IPv6, Socks!Domain
    <3>2. /\ h1 \in Seq(Symbol) /\ Len(h1) = 1 /\ h1[1] = h
          /\ t \in Seq(Symbol) /\ Len(t) = h
      BY <1>1, <1>2 DEF Symbol
    <3> HIDE DEF a, h1, t, h
    <3>3. a \in Seq(Symbol) /\ Len(a) = 1 + h /\ a[1] = h
      <4>1. /\ h1 \o t \in Seq(Symbol) /\ Len(h1 \o t) = Len(h1) + Len(t)
            /\ \A i \in 1 .. Len(h1) : (h1 \o t)[i] = h1[i]
        BY <3>2, Joined
      <4> QED BY <4>1, <3>1, <3>2, <1>1
    <3> QED BY <3>3, <2>3 DEF Socks!IPv4, Socks!IPv6, Socks!Domain
  <2> QED BY <2>1, <2>2, <2>3, <1>4 DEF Kinds
<1> HIDE DEF a, r
<1>6. /\ r \o a \in Seq(Symbol) /\ Len(r \o a) = 4 + Len(a) /\ (r \o a)[4] = option.kind
      /\ Len(a) >= 1 => (r \o a)[5] = a[1]
  <2>1. /\ r \o a \in Seq(Symbol) /\ Len(r \o a) = Len(r) + Len(a)
        /\ \A i \in 1 .. Len(r) : (r \o a)[i] = r[i]
        /\ \A i \in 1 .. Len(a) : (r \o a)[Len(r) + i] = a[i]
    BY <1>4, <1>5, Joined
  <2>2. Len(a) \in Nat
    BY <1>5, LenProperties
  <2> QED BY <2>1, <2>2, <1>4
<1> DEFINE ra == r \o a
           t2 == Socks!Text(2)
           q == ra \o t2
<1>7. /\ q \in Seq(Symbol) /\ Len(q) = Len(ra) + 2
      /\ \A i \in 1 .. Len(ra) : q[i] = ra[i]
  <2>1. ra \in Seq(Symbol) /\ t2 \in Seq(Symbol) /\ Len(t2) = 2
    BY <1>2, <1>6
  <2> HIDE DEF ra, t2
  <2>2. /\ q \in Seq(Symbol) /\ Len(q) = Len(ra) + Len(t2)
        /\ \A i \in 1 .. Len(ra) : q[i] = ra[i]
    BY <2>1, Joined
  <2> QED BY <2>1, <2>2
<1>8. /\ Socks!Request \in Seq(Symbol) /\ Len(Socks!Request) = Len(a) + 6
      /\ Socks!Request[4] = option.kind
      /\ Len(a) >= 1 => Socks!Request[5] = a[1]
  <2>1. Len(a) \in Nat
    BY <1>5, LenProperties
  <2> QED BY <2>1, <1>3, <1>6, <1>7
<1> HIDE DEF q, ra, t2
<1>9. CASE option.kind = Socks!Domain
  BY <1>1, <1>5, <1>8, <1>9 DEF IsRequest, Socks!IPv4, Socks!IPv6, Socks!Domain
<1>10. CASE option.kind = Socks!IPv4
  <2>1. Len(a) = 4
    BY <1>5, <1>10
  <2>2. Len(Socks!Request) = 10
    BY <2>1, <1>8
  <2> QED BY <2>2, <1>8, <1>10 DEF IsRequest, Socks!IPv4, Socks!IPv6, Socks!Domain
<1>11. CASE option.kind = Socks!IPv6
  <2>1. Len(a) = 16
    BY <1>5, <1>11
  <2>2. Len(Socks!Request) = 22
    BY <2>1, <1>8
  <2> QED BY <2>2, <1>8, <1>11 DEF IsRequest, Socks!IPv4, Socks!IPv6, Socks!Domain
<1> QED BY <1>4, <1>9, <1>10, <1>11 DEF Kinds

LEMMA NameOctets ==
    ASSUME NEW octets \in Socks!AddressOctets(Socks!Domain)
    PROVE  \E n \in Length : octets = <<n>> \o Socks!Text(n)
<1> DEFINE Names == { <<n>> \o Socks!Text(n) : n \in Length }
<1>1. Socks!AddressOctets(Socks!Domain) = Names
  <2> DEFINE A(k) == CASE k = 1 -> {Socks!Text(4)} [] k = 4 -> {Socks!Text(16)} [] k = 3 -> Names
  <2>1. Socks!AddressOctets(3) = A(3)
    BY Zenon DEF Socks!AddressOctets, Socks!IPv4, Socks!IPv6, Socks!Domain
  <2> HIDE DEF Names
  <2>2. A(3) = Names
    OBVIOUS
  <2> QED BY <2>1, <2>2 DEF Socks!Domain
<1> QED BY <1>1

LEMMA OctetsAre ==
    ASSUME NEW atyp \in Kinds, NEW octets \in Socks!AddressOctets(atyp)
    PROVE  /\ octets \in Seq(Symbol) /\ Len(octets) >= 1
           /\ atyp = Socks!IPv4 => Len(octets) = 4
           /\ atyp = Socks!IPv6 => Len(octets) = 16
           /\ atyp = Socks!Domain => octets[1] \in Nat /\ Len(octets) = 1 + octets[1]
<1>1. CASE atyp = Socks!IPv4
  <2>1. octets = Socks!Text(4)
    BY <1>1 DEF Socks!AddressOctets, Socks!IPv4, Socks!IPv6, Socks!Domain
  <2>2. octets \in Seq(Symbol) /\ Len(octets) = 4
    BY <2>1, TextIs
  <2> QED BY <1>1, <2>2 DEF Socks!IPv4, Socks!IPv6, Socks!Domain
<1>2. CASE atyp = Socks!IPv6
  <2>1. octets = Socks!Text(16)
    BY <1>2 DEF Socks!AddressOctets, Socks!IPv4, Socks!IPv6, Socks!Domain
  <2>2. octets \in Seq(Symbol) /\ Len(octets) = 16
    BY <2>1, TextIs
  <2> QED BY <1>2, <2>2 DEF Socks!IPv4, Socks!IPv6, Socks!Domain
<1>3. CASE atyp = Socks!Domain
  <2>1. PICK n \in Length : octets = <<n>> \o Socks!Text(n)
    BY <1>3, NameOctets
  <2> DEFINE n1 == <<n>>
             t == Socks!Text(n)
  <2>2. n \in Nat
    BY LengthOctetIs
  <2>3. /\ n1 \in Seq(Symbol) /\ Len(n1) = 1 /\ n1[1] = n
        /\ t \in Seq(Symbol) /\ Len(t) = n
    BY <2>2, TextIs DEF Symbol
  <2> HIDE DEF n1, t
  <2>4. /\ n1 \o t \in Seq(Symbol) /\ Len(n1 \o t) = Len(n1) + Len(t)
        /\ \A i \in 1 .. Len(n1) : (n1 \o t)[i] = n1[i]
    BY <2>3, Joined
  <2>5. octets \in Seq(Symbol) /\ Len(octets) = 1 + n /\ octets[1] = n
    BY <2>1, <2>2, <2>3, <2>4 DEF n1, t
  <2> QED BY <1>3, <2>2, <2>5 DEF Socks!IPv4, Socks!IPv6, Socks!Domain
<1> QED BY <1>1, <1>2, <1>3 DEF Kinds

LEMMA ReplyIs ==
    ASSUME NEW rep \in {0, 5}, NEW atyp \in Kinds, NEW octets \in Socks!AddressOctets(atyp),
           NEW early \in {<<>>, <<"data">>}
    PROVE  LET d == <<5, rep, 0, atyp>> \o octets \o Socks!Text(2)
                       \o (IF rep = 0 THEN early ELSE <<>>)
           IN  d \in Seq(Symbol) /\ IsReply(d) /\ d[2] = rep
<1> DEFINE r == <<5, rep, 0, atyp>>
           t2 == Socks!Text(2)
           e == IF rep = 0 THEN early ELSE <<>>
           d1 == r \o octets
           d2 == d1 \o t2
           d == d2 \o e
<1>1. /\ r \in Seq(Symbol) /\ Len(r) = 4 /\ r[1] = 5 /\ r[2] = rep /\ r[4] = atyp
      /\ t2 \in Seq(Symbol) /\ Len(t2) = 2
      /\ e \in Seq(Symbol) /\ (Len(e) = 0 \/ (Len(e) = 1 /\ e[1] = "data"))
  <2>1. t2 \in Seq(Symbol) /\ Len(t2) = 2
    BY TextIs
  <2>2. r \in Seq(Symbol) /\ Len(r) = 4 /\ r[1] = 5 /\ r[2] = rep /\ r[4] = atyp
    BY DEF Symbol, Kinds, Socks!IPv4, Socks!IPv6, Socks!Domain
  <2>3. e \in {<<>>, <<"data">>}
    OBVIOUS
  <2> HIDE DEF e
  <2>4. CASE e = <<>>
    BY <2>4, <2>1, <2>2
  <2>5. CASE e = <<"data">>
    BY <2>5, <2>1, <2>2 DEF Symbol
  <2> QED BY <2>3, <2>4, <2>5
<1>2. /\ octets \in Seq(Symbol) /\ Len(octets) >= 1
      /\ atyp = Socks!IPv4 => Len(octets) = 4
      /\ atyp = Socks!IPv6 => Len(octets) = 16
      /\ atyp = Socks!Domain => octets[1] \in Nat /\ Len(octets) = 1 + octets[1]
  BY OctetsAre
<1> HIDE DEF r, t2, e
<1>3. /\ d1 \in Seq(Symbol) /\ Len(d1) = Len(r) + Len(octets)
      /\ \A i \in 1 .. Len(r) : d1[i] = r[i]
      /\ \A i \in 1 .. Len(octets) : d1[Len(r) + i] = octets[i]
  BY <1>1, <1>2, Joined
<1> HIDE DEF d1
<1>4. /\ d2 \in Seq(Symbol) /\ Len(d2) = Len(d1) + Len(t2)
      /\ \A i \in 1 .. Len(d1) : d2[i] = d1[i]
  BY <1>1, <1>3, Joined
<1> HIDE DEF d2
<1>5. /\ d \in Seq(Symbol) /\ Len(d) = Len(d2) + Len(e)
      /\ \A i \in 1 .. Len(d2) : d[i] = d2[i]
      /\ \A i \in 1 .. Len(e) : d[Len(d2) + i] = e[i]
  BY <1>1, <1>4, Joined
<1> HIDE DEF d
<1>6. Len(octets) \in Nat
  BY <1>2, LenProperties
<1>7. /\ Len(d2) = 6 + Len(octets)
      /\ d[1] = 5 /\ d[2] = rep /\ d[4] = atyp /\ d[5] = octets[1]
  BY <1>1, <1>2, <1>3, <1>4, <1>5, <1>6
<1>8. Relayed(d, 6 + Len(octets))
  <2>1. CASE Len(e) = 0
    BY <2>1, <1>5, <1>6, <1>7 DEF Relayed
  <2>2. CASE Len(e) = 1 /\ e[1] = "data"
    <3>1. Len(d) = Len(d2) + 1 /\ d[Len(d2) + 1] = "data"
      BY <2>2, <1>5
    <3> QED BY <3>1, <1>7 DEF Relayed
  <2> QED BY <2>1, <2>2, <1>1
<1>9. Len(d) >= 5
  BY <1>1, <1>5, <1>6, <1>7
<1>10. IsReply(d)
  <2>1. CASE atyp = Socks!IPv4
    <3>0. Len(octets) = 4
      BY <2>1, <1>2
    <3>1. 6 + Len(octets) = 10
      BY <3>0
    <3>2. Relayed(d, 10)
      BY <3>1, <1>8
    <3> QED BY <2>1, <3>2, <1>7, <1>9 DEF IsReply, Socks!IPv4, Socks!IPv6, Socks!Domain
  <2>2. CASE atyp = Socks!IPv6
    <3>0. Len(octets) = 16
      BY <2>2, <1>2
    <3>1. 6 + Len(octets) = 22
      BY <3>0
    <3>2. Relayed(d, 22)
      BY <3>1, <1>8
    <3> QED BY <2>2, <3>2, <1>7, <1>9 DEF IsReply, Socks!IPv4, Socks!IPv6, Socks!Domain
  <2>3. CASE atyp = Socks!Domain
    <3>1. octets[1] \in Nat /\ 6 + Len(octets) = 7 + octets[1]
      BY <2>3, <1>2
    <3>2. d[5] \in Nat /\ Relayed(d, 7 + d[5])
      BY <3>1, <1>7, <1>8
    <3> QED BY <2>3, <3>2, <1>7, <1>9 DEF IsReply, Socks!IPv4, Socks!IPv6, Socks!Domain
  <2> QED BY <2>1, <2>2, <2>3 DEF Kinds
<1> QED BY <1>5, <1>7, <1>10 DEF d, d2, d1, r, e, t2

(* What is left when n octets are taken. *)
LEMMA TakenIs ==
    ASSUME NEW q \in Seq(Symbol), NEW n \in Nat, n <= Len(q)
    PROVE  LET r == SubSeq(q, n + 1, Len(q))
           IN  /\ r \in Seq(Symbol) /\ Len(r) = Len(q) - n
               /\ \A i \in 1 .. Len(q) - n : r[i] = q[n + i]
               /\ n = Len(q) => r = <<>>
<1> DEFINE r == SubSeq(q, n + 1, Len(q))
<1>1. Len(q) \in Nat /\ \A i \in 1 .. Len(q) : q[i] \in Symbol
  BY ElementOfSeq, LenProperties
<1>2. \A i \in n + 1 .. Len(q) : q[i] \in Symbol
  BY <1>1
<1>3. /\ r \in Seq(Symbol)
      /\ Len(r) = IF n + 1 <= Len(q) THEN Len(q) - (n + 1) + 1 ELSE 0
      /\ \A i \in 1 .. Len(q) - (n + 1) + 1 : r[i] = q[n + 1 + i - 1]
  BY <1>1, <1>2, SubSeqProperties
<1>4. Len(r) = Len(q) - n
  BY <1>1, <1>3
<1>5. \A i \in 1 .. Len(q) - n : r[i] = q[n + i]
  <2> SUFFICES ASSUME NEW i \in 1 .. Len(q) - n PROVE r[i] = q[n + i]
    OBVIOUS
  <2>1. i \in 1 .. Len(q) - (n + 1) + 1 /\ n + 1 + i - 1 = n + i
    BY <1>1
  <2> QED BY <1>3, <2>1
<1>6. n = Len(q) => r = <<>>
  BY <1>1, SubSeqEmpty
<1> QED BY <1>3, <1>4, <1>5, <1>6

-----------------------------------------------------------------------------
(* What is under way stays as it is when neither side acts on it. *)
LEMMA AskedAsBefore ==
    ASSUME UNCHANGED <<option, to_proxy, from_proxy, proxy>>
    PROVE  /\ Sent => Sent'
           /\ GreetingAsked => GreetingAsked'
           /\ CredentialsAsked => CredentialsAsked'
           /\ RequestAsked => RequestAsked'
           /\ Tunnel => Tunnel'
  BY DEF Sent, GreetingAsked, CredentialsAsked, RequestAsked, Tunnel, Trusted,
         IsGreeting, IsCredentials, IsRequest, IsReply, Relayed

LEMMA SocksInitInv == Socks!Init => SocksInv
<1> SUFFICES ASSUME Socks!Init PROVE SocksInv
  OBVIOUS
<1>1. /\ option \in Socks!Options /\ to_proxy = Socks!Greeting /\ from_proxy = <<>>
      /\ step = [step |-> "greeting", ended |-> TRUE]
      /\ len = 0 /\ result = <<>> /\ open = TRUE
      /\ proxy = [stage |-> "greeting", method |-> 255, trusts |-> FALSE,
                  host |-> 0, kind |-> 0, granted |-> FALSE]
  BY DEF Socks!Init, Socks!NoAcceptable
<1>2. Socks!Greeting \in Seq(Symbol) /\ IsGreeting(Socks!Greeting)
  BY <1>1, GreetingIs
<1>3. SocksTypeOK
  BY <1>1, <1>2 DEF SocksTypeOK, Steps, Symbol
<1>4. Sent /\ Asked
  BY <1>1, <1>2 DEF Sent, Asked, GreetingAsked
<1> QED BY <1>1, <1>3, <1>4 DEF SocksInv, Socks!HandlerOnce, Taken, Succeeded

LEMMA ReadEndsKeeps == SocksInv /\ Socks!ReadEnds => SocksInv'
<1> SUFFICES ASSUME SocksInv, Socks!ReadEnds PROVE SocksInv'
  OBVIOUS
<1>1. /\ step' = [step EXCEPT !.ended = TRUE] /\ Len(from_proxy) >= len
      /\ UNCHANGED <<option, to_proxy, from_proxy, len, addr, result, open, proxy>>
  BY DEF Socks!ReadEnds
<1>2. step'.step = step.step /\ step' \in [step : Steps, ended : BOOLEAN]
  BY <1>1 DEF SocksInv, SocksTypeOK
<1>3. SocksTypeOK'
  BY <1>1, <1>2 DEF SocksInv, SocksTypeOK
<1>4. Sent' /\ Asked'
  BY <1>1, <1>2, AskedAsBefore DEF SocksInv, Asked, Relayed
<1>5. Taken'
  BY <1>1, <1>2 DEF SocksInv, Taken
<1>6. Succeeded' /\ Socks!HandlerOnce'
  BY <1>1, <1>2 DEF SocksInv, Succeeded, Tunnel, Trusted, Socks!HandlerOnce
<1> QED BY <1>3, <1>4, <1>5, <1>6 DEF SocksInv

(* The handler is called with an error. *)
LEMMA ErrorKeeps ==
    ASSUME SocksInv, step.step # "end", NEW ec \in Codes, ec # "success",
           Socks!Finish(ec), UNCHANGED <<option, to_proxy, open, proxy>>,
           from_proxy' \in Seq(Symbol)
    PROVE  SocksInv'
<1>1. /\ result' = <<ec>> /\ len' = 0 /\ step' = [step |-> "end", ended |-> FALSE]
  BY EmptySeq, LenProperties DEF SocksInv, SocksTypeOK, Socks!HandlerOnce, Socks!Finish
<1>2. SocksTypeOK'
  BY <1>1 DEF SocksInv, SocksTypeOK, Steps
<1>3. Len(result') = 1 /\ result' # <<"success">>
  BY <1>1
<1>4. Sent'
  BY DEF SocksInv, Sent, IsGreeting, IsCredentials, IsRequest
<1> QED BY <1>1, <1>2, <1>3, <1>4 DEF SocksInv, Asked, Taken, Succeeded, Socks!HandlerOnce

LEMMA FailsKeeps == SocksInv /\ Socks!Fails => SocksInv'
<1> SUFFICES ASSUME SocksInv, Socks!Fails PROVE SocksInv'
  OBVIOUS
<1>1. /\ step.step # "end" /\ Socks!Finish("io_error")
      /\ UNCHANGED <<option, to_proxy, from_proxy, addr, open, proxy>>
  BY DEF Socks!Fails
<1>2. from_proxy' \in Seq(Symbol)
  BY <1>1 DEF SocksInv, SocksTypeOK
<1>3. "io_error" \in Codes /\ "io_error" # "success"
  BY DEF Codes
<1> QED BY <1>1, <1>2, <1>3, ErrorKeeps

LEMMA CloseSocketKeeps == SocksInv /\ Socks!CloseSocket => SocksInv'
<1> SUFFICES ASSUME SocksInv, Socks!CloseSocket PROVE SocksInv'
  OBVIOUS
<1>1. /\ open' = FALSE
      /\ UNCHANGED <<option, to_proxy, from_proxy, step, len, addr, result, proxy>>
  BY DEF Socks!CloseSocket
<1>2. SocksTypeOK'
  BY <1>1 DEF SocksInv, SocksTypeOK
<1>4. Sent' /\ Asked'
  BY <1>1, AskedAsBefore DEF SocksInv, Asked, Relayed
<1> QED BY <1>1, <1>2, <1>4 DEF SocksInv, Taken, Succeeded, Tunnel, Trusted, Socks!HandlerOnce

LEMMA WrittenKeeps == SocksInv /\ Socks!Written => SocksInv'
<1> SUFFICES ASSUME SocksInv, Socks!Written PROVE SocksInv'
  OBVIOUS
<1>1. /\ \/ step.step = "greeting" /\ step'.step = "method" /\ len' = 2
         \/ step.step = "credentials" /\ step'.step = "status" /\ len' = 2
         \/ step.step = "request" /\ step'.step = "reply" /\ len' = 5
      /\ step'.ended = FALSE /\ step' \in [step : Steps, ended : BOOLEAN]
      /\ UNCHANGED <<option, to_proxy, from_proxy, addr, result, open, proxy>>
  <2>1. UNCHANGED <<option, to_proxy, from_proxy, addr, result, open, proxy>>
    BY DEF Socks!Written
  <2>2. CASE step.step = "greeting" /\ Socks!Read("method", 2)
    BY <2>1, <2>2 DEF Socks!Read, Steps
  <2>3. CASE step.step = "credentials" /\ Socks!Read("status", 2)
    BY <2>1, <2>3 DEF Socks!Read, Steps
  <2>4. CASE step.step = "request" /\ Socks!Read("reply", 5)
    BY <2>1, <2>4 DEF Socks!Read, Steps
  <2> QED BY <2>2, <2>3, <2>4 DEF Socks!Written
<1>2. SocksTypeOK'
  BY <1>1 DEF SocksInv, SocksTypeOK
<1>3. Sent' /\ Asked'
  BY <1>1, AskedAsBefore DEF SocksInv, Asked
<1>4. Taken'
  BY <1>1 DEF SocksInv, Taken
<1>5. Succeeded' /\ Socks!HandlerOnce'
  BY <1>1 DEF SocksInv, Succeeded, Tunnel, Trusted, Socks!HandlerOnce
<1> QED BY <1>2, <1>3, <1>4, <1>5 DEF SocksInv

(* The next message is written, with the proxy's last answer taken. *)
LEMMA WriteKeeps ==
    ASSUME SocksInv, step.step \in {"method", "status"}, to_proxy = <<>>, from_proxy' = <<>>,
           NEW octets \in Seq(Symbol), NEW next \in {"credentials", "request"},
           Socks!WriteThen(next, octets), UNCHANGED <<option, addr, result, open, proxy>>,
           proxy.stage = next,
           next = "credentials" => IsCredentials(octets),
           next = "request" => IsRequest(octets) /\ Trusted
    PROVE  SocksInv'
<1>1. /\ to_proxy' = (IF open THEN <<>> \o octets ELSE <<>>)
      /\ step' = [step |-> next, ended |-> TRUE] /\ len' = 0
  BY DEF Socks!WriteThen
<1>2. to_proxy' \in {<<>>, octets} /\ to_proxy' \in Seq(Symbol)
  BY <1>1, ConcatEmptySeq, EmptySeq
<1>3. SocksTypeOK'
  BY <1>1, <1>2, EmptySeq DEF SocksInv, SocksTypeOK, Steps
<1>4. Sent'
  BY <1>2 DEF Sent, IsCredentials, IsRequest
<1>5. next = "credentials" => Asked'
  BY <1>1 DEF Asked, CredentialsAsked
<1>6. next = "request" => Asked'
  BY <1>1 DEF Asked, RequestAsked, Trusted
<1>7. result = <<>>
  BY EmptySeq, LenProperties DEF SocksInv, SocksTypeOK, Socks!HandlerOnce
<1> QED BY <1>1, <1>3, <1>4, <1>5, <1>6, <1>7 DEF SocksInv, Taken, Succeeded, Socks!HandlerOnce

LEMMA HandleMethodKeeps == SocksInv /\ Socks!HandleMethod => SocksInv'
<1> SUFFICES ASSUME SocksInv, Socks!HandleMethod PROVE SocksInv'
  OBVIOUS
<1>1. /\ step.step = "method" /\ step.ended /\ len = 2 /\ Len(from_proxy) >= 2
      /\ UNCHANGED <<option, addr, open, proxy>>
      /\ from_proxy' = SubSeq(from_proxy, len + 1, Len(from_proxy))
  BY DEF Socks!HandleMethod, Socks!TakeOctets, SocksInv, Taken
<1>2. /\ to_proxy = <<>> /\ from_proxy = <<5, proxy.method>>
      /\ proxy.method = Socks!Password => proxy.stage = "credentials"
      /\ proxy.method = Socks!Anonymous => proxy.stage = "request"
  BY <1>1, EmptySeq DEF SocksInv, Asked, GreetingAsked
<1>3. from_proxy \in Seq(Symbol) /\ Len(from_proxy) = 2 /\ from_proxy[2] = proxy.method
  BY <1>2 DEF SocksInv, SocksTypeOK
<1>4. from_proxy' = <<>>
  BY <1>1, <1>3, SubSeqEmpty
<1>5. option \in Socks!Options /\ to_proxy \in Seq(Symbol)
  BY DEF SocksInv, SocksTypeOK
<1>6. CASE from_proxy[2] = Socks!Anonymous /\ Socks!WriteThen("request", Socks!Request)
             /\ UNCHANGED result
  <2>1. proxy.stage = "request" /\ Trusted
    BY <1>2, <1>3, <1>6 DEF Trusted, Socks!Anonymous, Socks!Password
  <2> QED BY <2>1, <1>1, <1>2, <1>4, <1>5, <1>6, RequestIs, WriteKeeps
<1>7. CASE from_proxy[2] = Socks!Password /\ Socks!WriteThen("credentials", Socks!Credentials)
             /\ UNCHANGED result
  <2>1. proxy.stage = "credentials"
    BY <1>2, <1>3, <1>7
  <2> QED BY <2>1, <1>1, <1>2, <1>4, <1>5, <1>7, CredentialsIs, WriteKeeps
<1>8. CASE /\ UNCHANGED to_proxy
           /\ \E ec \in Codes \ {"success"} : Socks!Finish(ec)
  <2>1. PICK ec \in Codes \ {"success"} : Socks!Finish(ec)
    BY <1>8
  <2>2. from_proxy' \in Seq(Symbol)
    BY <1>4, EmptySeq
  <2> QED BY <2>1, <2>2, <1>1, <1>8, ErrorKeeps
<1>9. /\ \A c, d \in Codes \ {"success"} : (IF from_proxy[2] = Socks!Gssapi THEN c ELSE d) \in Codes \ {"success"}
      /\ {"username_required", "unsupported_method", "no_acceptable_methods", "unsupported_version"}
            \subseteq Codes \ {"success"}
  BY DEF Codes
<1> QED BY <1>6, <1>7, <1>8, <1>9 DEF Socks!HandleMethod

LEMMA HandleStatusKeeps == SocksInv /\ Socks!HandleStatus => SocksInv'
<1> SUFFICES ASSUME SocksInv, Socks!HandleStatus PROVE SocksInv'
  OBVIOUS
<1>1. /\ step.step = "status" /\ step.ended /\ len = 2 /\ Len(from_proxy) >= 2
      /\ UNCHANGED <<option, addr, open, proxy>>
      /\ from_proxy' = SubSeq(from_proxy, len + 1, Len(from_proxy))
  BY DEF Socks!HandleStatus, Socks!TakeOctets, SocksInv, Taken
<1>2. /\ to_proxy = <<>> /\ Len(from_proxy) = 2
      /\ from_proxy[2] = 0 => proxy.stage = "request" /\ proxy.trusts
  BY <1>1, EmptySeq DEF SocksInv, Asked, CredentialsAsked
<1>3. from_proxy' = <<>>
  BY <1>1, <1>2, SubSeqEmpty
<1>4. option \in Socks!Options /\ to_proxy \in Seq(Symbol)
  BY DEF SocksInv, SocksTypeOK
<1>5. CASE from_proxy[2] = 0 /\ Socks!WriteThen("request", Socks!Request) /\ UNCHANGED result
  <2>1. proxy.stage = "request" /\ Trusted
    BY <1>2, <1>5 DEF Trusted
  <2> QED BY <2>1, <1>1, <1>2, <1>3, <1>4, <1>5, RequestIs, WriteKeeps
<1>6. CASE /\ UNCHANGED to_proxy
           /\ \E ec \in Codes \ {"success"} : Socks!Finish(ec)
  <2>1. PICK ec \in Codes \ {"success"} : Socks!Finish(ec)
    BY <1>6
  <2>2. from_proxy' \in Seq(Symbol)
    BY <1>3, EmptySeq
  <2> QED BY <2>1, <2>2, <1>1, <1>6, ErrorKeeps
<1>7. {"unsupported_authentication_version", "authentication_failed"} \subseteq Codes \ {"success"}
  BY DEF Codes
<1> QED BY <1>5, <1>6, <1>7 DEF Socks!HandleStatus

(* A reply's first five octets say how many are left of it. *)
LEMMA HandleReplyKeeps == SocksInv /\ Socks!HandleReply => SocksInv'
<1> SUFFICES ASSUME SocksInv, Socks!HandleReply PROVE SocksInv'
  OBVIOUS
<1>1. /\ step.step = "reply" /\ step.ended /\ len = 5 /\ Len(from_proxy) >= 5
      /\ UNCHANGED <<option, to_proxy, open, proxy>>
      /\ from_proxy' = SubSeq(from_proxy, len + 1, Len(from_proxy))
  BY DEF Socks!HandleReply, Socks!TakeOctets, SocksInv, Taken
<1>2. /\ IsReply(from_proxy) /\ (from_proxy[2] = 0 => Tunnel)
      /\ from_proxy \in Seq(Symbol)
  <2>1. IsReply(from_proxy) /\ (from_proxy[2] = 0 => Tunnel)
    BY <1>1, EmptySeq DEF SocksInv, Asked, RequestAsked
  <2> QED BY <2>1 DEF SocksInv, SocksTypeOK
<1>3. /\ from_proxy' \in Seq(Symbol) /\ Len(from_proxy') = Len(from_proxy) - 5
      /\ \A i \in 1 .. Len(from_proxy) - 5 : from_proxy'[i] = from_proxy[5 + i]
  BY <1>1, <1>2, TakenIs
<1>4. ASSUME NEW n \in Nat, Relayed(from_proxy, 5 + n)
      PROVE  Relayed(from_proxy', n)
  <2>1. Len(from_proxy) \in Nat
    BY <1>2, LenProperties
  <2>2. CASE Len(from_proxy) = 5 + n
    BY <2>1, <2>2, <1>3 DEF Relayed
  <2>3. CASE Len(from_proxy) = 5 + n + 1 /\ from_proxy[5 + n + 1] = "data"
    <3>1. Len(from_proxy') = n + 1 /\ n + 1 \in 1 .. Len(from_proxy) - 5 /\ 5 + (n + 1) = 5 + n + 1
      BY <2>3, <1>3
    <3>2. from_proxy'[n + 1] = from_proxy[5 + (n + 1)]
      BY <3>1, <1>3
    <3> QED BY <3>1, <3>2, <2>3 DEF Relayed
  <2> QED BY <2>2, <2>3, <1>4 DEF Relayed
<1>5. CASE /\ from_proxy[2] = 0
           /\ \E n \in Nat : Relayed(from_proxy, 5 + n) /\ Socks!Read("address", n)
           /\ UNCHANGED result
  <2>1. PICK n \in Nat : Relayed(from_proxy, 5 + n) /\ Socks!Read("address", n)
    BY <1>5
  <2>2. step' = [step |-> "address", ended |-> FALSE] /\ len' = n
    BY <2>1 DEF Socks!Read
  <2>3. Relayed(from_proxy', len')
    BY <2>1, <2>2, <1>4
  <2>4. Tunnel'
    BY <1>1, <1>2, <1>5 DEF Tunnel, Trusted
  <2>5. SocksTypeOK'
    BY <1>1, <1>3, <1>5, <2>2 DEF SocksInv, SocksTypeOK, Steps
  <2>6. Asked'
    <3>1. Relayed(from_proxy, len)'
      BY <2>3 DEF Relayed
    <3> QED BY <2>2, <2>4, <3>1 DEF Asked
  <2>7. result = <<>>
    BY <1>1, EmptySeq, LenProperties DEF SocksInv, SocksTypeOK, Socks!HandlerOnce
  <2>8. Sent'
    BY <2>4 DEF Sent, Tunnel
  <2> QED BY <2>2, <2>8, <2>5, <2>6, <2>7, <1>5 DEF SocksInv, Taken, Succeeded, Socks!HandlerOnce
<1>6. CASE \E ec \in Codes \ {"success"} : Socks!Finish(ec)
  <2>1. PICK ec \in Codes \ {"success"} : Socks!Finish(ec)
    BY <1>6
  <2> QED BY <2>1, <1>1, <1>2, <1>3, ErrorKeeps
<1>7. {"unsupported_version", "refused", "general_failure"} \subseteq Codes \ {"success"}
  BY DEF Codes
<1>8. CASE /\ from_proxy[1] # 5 \/ from_proxy[2] # 0
                \/ from_proxy[4] \notin {Socks!IPv4, Socks!Domain, Socks!IPv6}
           /\ Socks!Finish(IF from_proxy[1] # 5 THEN "unsupported_version"
                           ELSE IF from_proxy[2] # 0 THEN "refused" ELSE "general_failure")
  BY <1>6, <1>7, <1>8
<1>9. CASE /\ from_proxy[1] = 5 /\ from_proxy[2] = 0
           /\ Socks!Read("address", CASE from_proxy[4] = Socks!IPv4   -> 4 + 2 - 1
                                      [] from_proxy[4] = Socks!Domain -> from_proxy[5] + 2
                                      [] from_proxy[4] = Socks!IPv6   -> 16 + 2 - 1)
           /\ UNCHANGED result
  <2> DEFINE n == CASE from_proxy[4] = Socks!IPv4   -> 4 + 2 - 1
                    [] from_proxy[4] = Socks!Domain -> from_proxy[5] + 2
                    [] from_proxy[4] = Socks!IPv6   -> 16 + 2 - 1
  <2>1. n \in Nat /\ Relayed(from_proxy, 5 + n)
    <3>1. CASE from_proxy[4] = Socks!IPv4
      <4>1. n = 5
        BY <3>1 DEF Socks!IPv4, Socks!IPv6, Socks!Domain
      <4>2. Relayed(from_proxy, 10)
        BY <3>1, <1>2, <1>9 DEF IsReply
      <4> HIDE DEF n
      <4> QED BY <4>1, <4>2
    <3>2. CASE from_proxy[4] = Socks!IPv6
      <4>1. n = 17
        BY <3>2 DEF Socks!IPv4, Socks!IPv6, Socks!Domain
      <4>2. Relayed(from_proxy, 22)
        BY <3>2, <1>2, <1>9 DEF IsReply
      <4> HIDE DEF n
      <4> QED BY <4>1, <4>2
    <3>3. CASE from_proxy[4] = Socks!Domain
      <4>1. n = from_proxy[5] + 2
        BY <3>3 DEF Socks!IPv4, Socks!IPv6, Socks!Domain
      <4>2. from_proxy[5] \in Nat /\ Relayed(from_proxy, 7 + from_proxy[5])
        BY <3>3, <1>2, <1>9 DEF IsReply
      <4> HIDE DEF n
      <4>3. n \in Nat /\ 5 + n = 7 + from_proxy[5]
        BY <4>1, <4>2
      <4> QED BY <4>2, <4>3
    <3> QED BY <3>1, <3>2, <3>3, <1>2 DEF IsReply, Kinds
  <2>2. Socks!Read("address", n)
    BY <1>9
  <2> HIDE DEF n
  <2> QED BY <2>1, <2>2, <1>5, <1>9
<1> QED BY <1>8, <1>9 DEF Socks!HandleReply

LEMMA HandleAddressKeeps == SocksInv /\ Socks!HandleAddress => SocksInv'
<1> SUFFICES ASSUME SocksInv, Socks!HandleAddress PROVE SocksInv'
  OBVIOUS
<1>1. /\ step.step = "address" /\ step.ended /\ Len(from_proxy) >= len
      /\ UNCHANGED <<option, to_proxy, addr, open, proxy>>
      /\ from_proxy' = SubSeq(from_proxy, len + 1, Len(from_proxy))
      /\ Socks!Finish("success")
  BY DEF Socks!HandleAddress, Socks!TakeOctets, SocksInv, Taken
<1>2. result' = <<"success">> /\ len' = 0 /\ step' = [step |-> "end", ended |-> FALSE]
  BY <1>1, EmptySeq, LenProperties DEF SocksInv, SocksTypeOK, Socks!HandlerOnce, Socks!Finish
<1>3. Tunnel /\ Relayed(from_proxy, len) /\ from_proxy \in Seq(Symbol) /\ len \in Nat
  BY <1>1 DEF SocksInv, SocksTypeOK, Asked
<1>4. /\ from_proxy' \in Seq(Symbol) /\ Len(from_proxy') = Len(from_proxy) - len
      /\ \A i \in 1 .. Len(from_proxy) - len : from_proxy'[i] = from_proxy[len + i]
      /\ len = Len(from_proxy) => from_proxy' = <<>>
  BY <1>1, <1>3, TakenIs
<1>5. from_proxy' \in {<<>>, <<"data">>}
  <2>1. CASE Len(from_proxy) = len
    BY <2>1, <1>4
  <2>2. CASE Len(from_proxy) = len + 1 /\ from_proxy[len + 1] = "data"
    <3>1. Len(from_proxy') = 1 /\ from_proxy'[1] = "data"
      BY <2>2, <1>3, <1>4
    <3>2. from_proxy' = <<"data">>
      BY <3>1, <1>4
    <3> QED BY <3>2
  <2> QED BY <2>1, <2>2, <1>3 DEF Relayed
<1>6. SocksTypeOK'
  BY <1>1, <1>2, <1>4 DEF SocksInv, SocksTypeOK, Steps, Codes
<1>7. Tunnel'
  BY <1>1, <1>3 DEF Tunnel, Trusted
<1>8. Len(result') = 1 /\ Sent'
  BY <1>2, <1>7 DEF Sent, Tunnel
<1> QED BY <1>2, <1>5, <1>6, <1>7, <1>8 DEF SocksInv, Asked, Taken, Succeeded, Socks!HandlerOnce

(* The proxy answers a message, of which it knows where it ends. *)
LEMMA ProxyTakes ==
    ASSUME SocksInv, NEW n \in Nat, n = Len(to_proxy), Socks!TakeUp(n)
    PROVE  to_proxy' = <<>> /\ Len(to_proxy) \in Nat
  BY SubSeqEmpty, LenProperties DEF SocksInv, SocksTypeOK, Socks!TakeUp

LEMMA ProxyMethodKeeps == SocksInv /\ Socks!ProxyMethod => SocksInv'
<1> SUFFICES ASSUME SocksInv, Socks!ProxyMethod PROVE SocksInv'
  OBVIOUS
<1>1. /\ proxy.stage = "greeting" /\ Len(to_proxy) >= 2 /\ Socks!TakeUp(2 + to_proxy[2])
      /\ UNCHANGED <<option, step, len, addr, result, open>>
  BY DEF Socks!ProxyMethod, Socks!Has
<1>2. PICK m \in { to_proxy[2 + i] : i \in 1 .. to_proxy[2] } \cup {Socks!NoAcceptable} :
         /\ proxy' = [proxy EXCEPT !.method = m,
                        !.stage = CASE m = Socks!Password -> "credentials"
                                    [] m = Socks!Anonymous -> "request"
                                    [] OTHER -> "gone"]
         /\ from_proxy' = from_proxy \o <<5, m>>
  BY DEF Socks!ProxyMethod
<1>3. IsGreeting(to_proxy) /\ option.methods \in Seq(Nat)
  BY <1>1, OptionIs DEF SocksInv, Sent, SocksTypeOK
<1>4. /\ to_proxy[2] \in Nat /\ Len(to_proxy) = 2 + to_proxy[2] /\ to_proxy' = <<>>
      /\ m \in Symbol
  <2>1. to_proxy[2] \in Nat /\ Len(to_proxy) = 2 + to_proxy[2]
    BY <1>3, LenProperties DEF IsGreeting
  <2>2. to_proxy' = <<>>
    BY <2>1, <1>1, ProxyTakes
  <2>3. \A i \in 1 .. to_proxy[2] : to_proxy[2 + i] \in Symbol
    BY <2>1, ElementOfSeq DEF SocksInv, SocksTypeOK
  <2>4. CASE m = Socks!NoAcceptable
    BY <2>1, <2>2, <2>4 DEF Symbol, Socks!NoAcceptable
  <2>5. CASE \E i \in 1 .. to_proxy[2] : m = to_proxy[2 + i]
    BY <2>1, <2>2, <2>3, <2>5
  <2> QED BY <2>4, <2>5, <1>2
<1> DEFINE goes == CASE m = Socks!Password -> "credentials"
                      [] m = Socks!Anonymous -> "request"
                      [] OTHER -> "gone"
<1>5. /\ goes \in {"credentials", "request", "gone"}
      /\ m = Socks!Password => goes = "credentials"
      /\ m = Socks!Anonymous => goes = "request"
  BY DEF Socks!Password, Socks!Anonymous
<1> HIDE DEF goes
<1>6. /\ proxy' = [proxy EXCEPT !.method = m, !.stage = goes]
      /\ proxy'.method = m /\ proxy'.stage = goes
  BY <1>2 DEF goes, SocksInv, SocksTypeOK
<1>7. from_proxy' \in Seq(Symbol) /\ (from_proxy = <<>> => from_proxy' = <<5, m>>)
  <2>1. <<5, m>> \in Seq(Symbol)
    BY <1>4 DEF Symbol
  <2> HIDE DEF Symbol
  <2> QED BY <2>1, <1>2, Joined, ConcatEmptySeq DEF SocksInv, SocksTypeOK
<1>8. SocksTypeOK'
  BY <1>1, <1>4, <1>5, <1>6, <1>7, EmptySeq DEF SocksInv, SocksTypeOK
<1>9. to_proxy # <<>>
  BY <1>1
<1>10. Sent'
  BY <1>4, <1>5, <1>6 DEF Sent
<1>11. Asked'
  BY <1>1, <1>4, <1>5, <1>6, <1>7, <1>9
     DEF SocksInv, Asked, GreetingAsked, CredentialsAsked, RequestAsked, Tunnel
<1>12. Succeeded'
  BY <1>1 DEF SocksInv, Succeeded, Tunnel
<1>13. Taken'
  <2>1. step.step \in {"method", "status", "reply", "address"} /\ step.ended => FALSE
    BY <1>1, <1>9, EmptySeq DEF SocksInv, Taken, Asked, GreetingAsked, CredentialsAsked, RequestAsked, Tunnel
  <2> QED BY <2>1, <1>1 DEF SocksInv, Taken
<1> QED BY <1>1, <1>8, <1>10, <1>11, <1>12, <1>13 DEF SocksInv, Socks!HandlerOnce

LEMMA ProxyStatusKeeps == SocksInv /\ Socks!ProxyStatus => SocksInv'
<1> SUFFICES ASSUME SocksInv, Socks!ProxyStatus PROVE SocksInv'
  OBVIOUS
<1> DEFINE plen == to_proxy[3 + to_proxy[2]]
<1>1. /\ proxy.stage = "credentials" /\ Len(to_proxy) >= 2
      /\ Socks!TakeUp(3 + to_proxy[2] + plen)
      /\ UNCHANGED <<option, step, len, addr, result, open>>
  BY DEF Socks!ProxyStatus, Socks!Has
<1>2. PICK good \in BOOLEAN :
         /\ from_proxy' = from_proxy \o <<1, IF good THEN 0 ELSE 1>>
         /\ proxy' = [proxy EXCEPT !.stage = IF good THEN "request" ELSE "gone",
                        !.trusts = good /\ to_proxy[2] = option.user /\ plen = option.password]
  BY DEF Socks!ProxyStatus
<1>3. to_proxy # <<>>
  BY <1>1
<1>4. IsCredentials(to_proxy) /\ option.user \in Nat /\ option.password \in Nat
  BY <1>1, <1>3, OptionIs, LengthOctetIs DEF SocksInv, Sent, SocksTypeOK
<1>5. to_proxy[2] = option.user /\ plen = option.password
  BY <1>4 DEF IsCredentials
<1>6. to_proxy' = <<>>
  <2>1. Len(to_proxy) = 3 + to_proxy[2] + plen /\ 3 + to_proxy[2] + plen \in Nat
    BY <1>4, <1>5 DEF IsCredentials
  <2> HIDE DEF plen
  <2> QED BY <2>1, <1>1, ProxyTakes
<1> DEFINE status == IF good THEN 0 ELSE 1
           goes  == IF good THEN "request" ELSE "gone"
<1>7. proxy' = [proxy EXCEPT !.stage = goes, !.trusts = good]
  BY <1>2, <1>5
<1>8. /\ proxy'.stage = goes /\ proxy'.trusts = good /\ proxy'.method = proxy.method
      /\ goes \in {"request", "gone"} /\ status \in {0, 1} /\ (status = 0 => good /\ goes = "request")
  BY <1>7 DEF SocksInv, SocksTypeOK
<1>9. from_proxy' = from_proxy \o <<1, status>>
  BY <1>2
<1> HIDE DEF status, goes, plen
<1>10. /\ from_proxy' \in Seq(Symbol)
       /\ from_proxy = <<>> => Len(from_proxy') = 2 /\ from_proxy'[2] = status
  <2>1. <<1, status>> \in Seq(Symbol) /\ Len(<<1, status>>) = 2 /\ <<1, status>>[2] = status
    BY <1>8 DEF Symbol
  <2> DEFINE st == <<1, status>>
  <2> HIDE DEF st
  <2>2. st \in Seq(Symbol) /\ from_proxy' = from_proxy \o st
    BY <2>1, <1>9 DEF st
  <2>3. from_proxy = <<>> => from_proxy' = st
    BY <2>2, ConcatEmptySeq
  <2>4. from_proxy' \in Seq(Symbol)
    BY <2>2, Joined DEF SocksInv, SocksTypeOK
  <2> QED BY <2>1, <2>3, <2>4 DEF st
<1>11. SocksTypeOK'
  BY <1>1, <1>6, <1>7, <1>8, <1>10, EmptySeq DEF SocksInv, SocksTypeOK
<1>12. Sent'
  BY <1>6, <1>8 DEF Sent
<1>13. Asked'
  BY <1>1, <1>3, <1>6, <1>8, <1>10
     DEF SocksInv, Asked, GreetingAsked, CredentialsAsked, RequestAsked, Tunnel
<1>14. Succeeded'
  BY <1>1 DEF SocksInv, Succeeded, Tunnel
<1>15. Taken'
  <2>1. step.step \in {"method", "status", "reply", "address"} /\ step.ended => FALSE
    BY <1>1, <1>3, EmptySeq DEF SocksInv, Taken, Asked, GreetingAsked, CredentialsAsked, RequestAsked, Tunnel
  <2> QED BY <2>1, <1>1 DEF SocksInv, Taken
<1> QED BY <1>1, <1>11, <1>12, <1>13, <1>14, <1>15 DEF SocksInv, Socks!HandlerOnce

LEMMA ProxyReplyKeeps == SocksInv /\ Socks!ProxyReply => SocksInv'
<1> SUFFICES ASSUME SocksInv, Socks!ProxyReply PROVE SocksInv'
  OBVIOUS
<1> DEFINE long == CASE to_proxy[4] = Socks!IPv4 -> 4 [] to_proxy[4] = Socks!IPv6 -> 16
                     [] OTHER -> to_proxy[5] + 1
<1>1. /\ proxy.stage = "request" /\ Len(to_proxy) >= 5 /\ Socks!TakeUp(4 + long + 2)
      /\ UNCHANGED <<option, step, len, addr, result, open>>
  BY DEF Socks!ProxyReply, Socks!Has
<1> DEFINE Answer(rep, atyp, early, octets) ==
             /\ from_proxy' = from_proxy \o <<5, rep, 0, atyp>> \o octets \o Socks!Text(2)
                                \o (IF rep = 0 THEN early ELSE <<>>)
             /\ proxy' = [proxy EXCEPT !.stage = IF rep = 0 THEN "relay" ELSE "gone",
                            !.granted = rep = 0, !.kind = to_proxy[4],
                            !.host = IF to_proxy[4] = Socks!Domain THEN to_proxy[5] ELSE 1]
<1>2. PICK rep \in {0, 5}, atyp \in Kinds, early \in {<<>>, <<"data">>} :
         \E octets \in Socks!AddressOctets(atyp) : Answer(rep, atyp, early, octets)
  BY DEF Socks!ProxyReply, Kinds
<1> PICK octets \in Socks!AddressOctets(atyp) : Answer(rep, atyp, early, octets)
  BY <1>2
<1>21. /\ from_proxy' = from_proxy \o <<5, rep, 0, atyp>> \o octets \o Socks!Text(2)
                             \o (IF rep = 0 THEN early ELSE <<>>)
       /\ proxy' = [proxy EXCEPT !.stage = IF rep = 0 THEN "relay" ELSE "gone",
                      !.granted = rep = 0, !.kind = to_proxy[4],
                      !.host = IF to_proxy[4] = Socks!Domain THEN to_proxy[5] ELSE 1]
  OBVIOUS
<1> HIDE DEF Answer
<1>3. to_proxy # <<>>
  BY <1>1
<1>4. /\ IsRequest(to_proxy) /\ option.kind \in Kinds /\ option.host \in Nat
      /\ option.kind # Socks!Domain => option.host = 1
  BY <1>1, <1>3, OptionIs, LengthOctetIs DEF SocksInv, Sent, SocksTypeOK
<1>5. /\ to_proxy[4] = option.kind
      /\ (IF to_proxy[4] = Socks!Domain THEN to_proxy[5] ELSE 1) = option.host
  BY <1>4 DEF IsRequest
<1>6. long \in Nat /\ Len(to_proxy) = 4 + long + 2
  <2>1. CASE option.kind = Socks!IPv4
    <3>1. long = 4 /\ Len(to_proxy) = 10
      BY <2>1, <1>4, <1>5 DEF IsRequest, Socks!IPv4, Socks!IPv6, Socks!Domain
    <3> QED BY <3>1
  <2>2. CASE option.kind = Socks!IPv6
    <3>1. long = 16 /\ Len(to_proxy) = 22
      BY <2>2, <1>4, <1>5 DEF IsRequest, Socks!IPv4, Socks!IPv6
    <3> QED BY <3>1
  <2>3. CASE option.kind = Socks!Domain
    <3>1. long = option.host + 1 /\ Len(to_proxy) = 7 + option.host
      BY <2>3, <1>4, <1>5 DEF IsRequest, Socks!IPv4, Socks!IPv6, Socks!Domain
    <3> HIDE DEF long
    <3> QED BY <3>1, <1>4
  <2> QED BY <2>1, <2>2, <2>3, <1>4 DEF Kinds
<1> HIDE DEF long
<1>7. to_proxy' = <<>>
  BY <1>1, <1>6, ProxyTakes
<1> DEFINE goes == IF rep = 0 THEN "relay" ELSE "gone"
<1>8. proxy' = [proxy EXCEPT !.stage = goes, !.granted = rep = 0, !.kind = option.kind,
                  !.host = option.host]
  BY <1>21, <1>5
<1>9. /\ proxy'.stage = goes /\ proxy'.granted = (rep = 0) /\ proxy'.kind = option.kind
      /\ proxy'.host = option.host /\ proxy'.method = proxy.method /\ proxy'.trusts = proxy.trusts
      /\ goes \in {"relay", "gone"} /\ (rep = 0 => goes = "relay")
  BY <1>8 DEF SocksInv, SocksTypeOK
<1> HIDE DEF goes
<1> DEFINE r == <<5, rep, 0, atyp>>
           t2 == Socks!Text(2)
           e == IF rep = 0 THEN early ELSE <<>>
           d == r \o octets \o t2 \o e
<1>10. d \in Seq(Symbol) /\ IsReply(d) /\ d[2] = rep
  BY ReplyIs
<1>11. r \in Seq(Symbol) /\ octets \in Seq(Symbol) /\ t2 \in Seq(Symbol) /\ e \in Seq(Symbol)
  <2>1. r \in Seq(Symbol)
    BY DEF Kinds, Symbol, Socks!IPv4, Socks!IPv6, Socks!Domain
  <2>2. octets \in Seq(Symbol)
    BY OctetsAre
  <2>3. t2 \in Seq(Symbol)
    BY TextIs
  <2>4. e \in {<<>>, <<"data">>}
    OBVIOUS
  <2>5. <<>> \in Seq(Symbol) /\ <<"data">> \in Seq(Symbol)
    BY DEF Symbol
  <2> HIDE DEF r, t2, e
  <2> QED BY <2>1, <2>2, <2>3, <2>4, <2>5
<1>12. from_proxy' = from_proxy \o r \o octets \o t2 \o e
  BY <1>21
<1> HIDE DEF r, t2, e
<1>13. from_proxy \in Seq(Symbol)
  BY DEF SocksInv, SocksTypeOK
<1>14. from_proxy' \in Seq(Symbol)
  BY <1>11, <1>12, <1>13, Joined
<1>15. from_proxy = <<>> => from_proxy' = d
  BY <1>11, <1>12, ConcatEmptySeq
<1> HIDE DEF d
<1>16. SocksTypeOK'
  <2>1. proxy' \in [stage : {"greeting", "credentials", "request", "relay", "gone"},
                    method : Symbol, trusts : BOOLEAN, host : Symbol, kind : Symbol,
                    granted : BOOLEAN]
    <3>1. option.kind \in Symbol /\ option.host \in Symbol
      BY <1>4 DEF Symbol, Kinds, Socks!IPv4, Socks!IPv6, Socks!Domain
    <3> QED BY <3>1, <1>8, <1>9 DEF SocksInv, SocksTypeOK
  <2> QED BY <2>1, <1>1, <1>7, <1>14, EmptySeq DEF SocksInv, SocksTypeOK
<1>17. Sent'
  BY <1>7, <1>9 DEF Sent
<1>18. Asked'
  <2>1. /\ step.step \in {"request", "reply"} => Trusted /\ from_proxy = <<>>
        /\ step.step \notin {"greeting", "method", "credentials", "status", "address"}
    BY <1>1, <1>3 DEF SocksInv, Asked, GreetingAsked, CredentialsAsked, RequestAsked, Tunnel
  <2>2. step.step \in {"request", "reply"} => RequestAsked'
    <3> SUFFICES ASSUME step.step \in {"request", "reply"} PROVE RequestAsked'
      OBVIOUS
    <3>1. from_proxy' = d /\ Trusted'
      BY <2>1, <1>9, <1>15 DEF Trusted
    <3>2. IsReply(from_proxy') /\ from_proxy'[2] = rep
      BY <3>1, <1>10
    <3>3. rep = 0 => Tunnel'
      BY <3>1, <1>1, <1>9 DEF Tunnel
    <3> QED BY <3>2, <3>3, <1>9 DEF RequestAsked, IsReply, Relayed
  <2> QED BY <2>1, <2>2, <1>1 DEF Asked
<1>19. Succeeded'
  BY <1>1 DEF SocksInv, Succeeded, Tunnel
<1>20. Taken'
  <2>1. step.step \in {"method", "status", "reply", "address"} /\ step.ended => FALSE
    BY <1>1, <1>3, EmptySeq DEF SocksInv, Taken, Asked, GreetingAsked, CredentialsAsked, RequestAsked, Tunnel
  <2> QED BY <2>1, <1>1 DEF SocksInv, Taken
<1> QED BY <1>1, <1>16, <1>17, <1>18, <1>19, <1>20 DEF SocksInv, Socks!HandlerOnce

LEMMA SocksNextInv == SocksInv /\ [Socks!Next]_(Socks!vars) => SocksInv'
<1> SUFFICES ASSUME SocksInv, [Socks!Next]_(Socks!vars) PROVE SocksInv'
  OBVIOUS
<1>1. CASE Socks!Coroutine
  BY <1>1, ReadEndsKeeps, FailsKeeps, WrittenKeeps, HandleMethodKeeps, HandleStatusKeeps,
     HandleReplyKeeps, HandleAddressKeeps DEF Socks!Coroutine
<1>2. CASE Socks!Proxy
  BY <1>2, ProxyMethodKeeps, ProxyStatusKeeps, ProxyReplyKeeps DEF Socks!Proxy
<1>3. CASE Socks!CloseSocket
  BY <1>3, CloseSocketKeeps
<1>4. CASE UNCHANGED Socks!vars
  <2>1. UNCHANGED <<option, to_proxy, from_proxy, step, len, result, open, proxy>>
    BY <1>4 DEF Socks!vars
  <2>2. Sent' /\ Asked'
    BY <2>1, AskedAsBefore DEF SocksInv, Asked, Relayed
  <2>3. SocksTypeOK' /\ Taken' /\ Socks!HandlerOnce'
    BY <2>1 DEF SocksInv, SocksTypeOK, Taken, Socks!HandlerOnce
  <2>4. Succeeded'
    BY <2>1 DEF SocksInv, Succeeded, Tunnel, Trusted
  <2> QED BY <2>2, <2>3, <2>4 DEF SocksInv
<1> QED BY <1>1, <1>2, <1>3, <1>4 DEF Socks!Next

LEMMA SocksInvTells == SocksInv => TunnelIsReal
  BY DEF SocksInv, Succeeded, Tunnel, Trusted, TunnelIsReal, Socks!HandlerOnce,
         Socks!TunnelExists, Socks!FramingKept

(* The negotiation ends with one call of the handler; a tunnel it reports  *)
(* has been granted for the host that was meant, by a proxy that trusts    *)
(* the user if it asked for one; and the stream is left at the first octet *)
(* of the target's: for every offer of methods and length of names.        *)
THEOREM NegotiationIsRight == ComponentsSpec => []TunnelIsReal
<1>1. ComponentsInit => SocksInv
  BY SocksInitInv DEF ComponentsInit
<1>2. ComponentsNext => [Socks!Next]_(Socks!vars)
  BY DEF ComponentsNext, Socks!vars, socksVars
<1>3. UNCHANGED <<queueVars, listVars, dispVars, sendVars, socksVars, remoteVars, part>>
         => UNCHANGED Socks!vars
  BY DEF socksVars, Socks!vars
<1>4. SocksInv /\ [ComponentsNext]_<<queueVars, listVars, dispVars, sendVars, socksVars, remoteVars, part>>
         => SocksInv'
  BY <1>2, <1>3, SocksNextInv
<1> QED BY <1>1, <1>4, SocksInvTells, PTL DEF ComponentsSpec
==============================================================================
