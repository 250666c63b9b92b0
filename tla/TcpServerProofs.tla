---------------------------- MODULE TcpServerProofs ----------------------------
(***************************************************************************)
(* TcpServer, for any set of threads and sessions and any bounds: the      *)
(* safety the run checks on two of each, and that every step of the server *)
(* is a step of ServerService.                                             *)
(***************************************************************************)
EXTENDS TcpServer, OccurrenceProofs

Handler == [k : {"start", "stop", "unreg", "cancel", "exec", "accepted",
                 "accept_failed", "accept_again", "connect", "emplace", "erase"},
            x : Caller \cup Session \cup {Nobody}]

Event == {"connect", "join", "stop", "send", "disconnect"}
Message == {"timer", "connect", "disconnect", "stop_timer", "join", "stop", "send",
            "pass_on", "disconnect_guarded", "recv", "erase", "closed"}

(* The handlers of an accept that has completed for session s.             *)
Accepts(s) == {H("accepted", s), H("accept_failed", s)}

(* What a session's record says by itself.                                 *)
Consistent(r) ==
    /\ r.phase = "idle" <=> r.q = <<>>
    /\ r.state = "stopping" => r.disconnecting
    /\ r.phase \in {"shutdown", "shut"} => r.disconnecting
    /\ r.phase = "readend" => r.state = "stopped"
    /\ r.phase = "write" => Head(r.q) = "send"
    /\ r.state = "started" => r.told = "connect"
    /\ r.state = "starting" => ~r.reading /\ ~r.joined

(* The guard is where phase says, once, and the handler that carries it    *)
(* finds the session, and the event it belongs to, as it left them.        *)
Guarded(s, r, v) ==
    IF r.phase = "away"
    THEN \/ Once(v, ToServer(s)) /\ Never(r.inbox, Back)
         \/ Never(v, ToServer(s)) /\ Once(r.inbox, Back)
    ELSE Never(v, ToServer(s)) /\ Never(r.inbox, Back)

Carried(s, r, v) ==
    /\ Guarded(s, r, v)
    /\ Contains(v, H("connect", s)) => Head(r.q) = "connect"
    /\ Contains(v, H("emplace", s)) => Head(r.q) = "join" /\ r.state = "started"
    /\ Contains(v, H("erase", s)) => r.state = "stopping"
    /\ Contains(r.inbox, "pass_on") => Head(r.q) = "connect"
    /\ Contains(r.inbox, "recv") => Head(r.q) = "join"
    /\ Contains(r.inbox, "erase") => r.state = "stopping"
    /\ Contains(r.inbox, "closed") => r.state = "stopped"

(* A session and the manager's map: m is whether it is there.              *)
Member(r, m) ==
    /\ m => r.state \in {"started", "stopping"}
    /\ m /\ r.state = "stopping" => r.old = "started"
    /\ r.reading /\ r.state = "started" => m
    /\ Contains(r.inbox, "recv") => m
    /\ r.joined => m \/ r.told = "disconnect"

OnItsWayOut(r) ==
    \/ Contains(r.inbox, "stop") \/ Contains(r.q, "stop")
    \/ Contains(r.q, "disconnect") \/ r.disconnecting

(* A session and the counter: n is whether it holds a copy.                *)
Counted(s, r, v, n) ==
    /\ ~n => r = Blank
    /\ n => Never(v, Accepts(s))
    /\ Never(v, Accepts(s)) \/ Once(v, Accepts(s))

(* All of it: v is what is posted to the server, whose state is st.        *)
Sound(s, r, v, m, st) ==
    /\ r \in SessionRecord
    /\ Consistent(r)
    /\ Carried(s, r, v)
    /\ Member(r, m)
    /\ st # "started" /\ m => OnItsWayOut(r)

(* The same while a handler of the session has the guard in its hands.     *)
InHand(s, r, v, m, st) ==
    /\ r \in SessionRecord
    /\ r.q # <<>> /\ Never(v, ToServer(s)) /\ Never(r.inbox, Back)
    /\ r.state = "stopping" => r.disconnecting
    /\ r.state = "started" => r.told = "connect"
    /\ r.state = "starting" => ~r.reading /\ ~r.joined
    /\ Member(r, m)
    /\ st # "started" /\ m => OnItsWayOut(r)

SessionInv(s) ==
    /\ Sound(s, ses[s], srv, s \in map, state)
    /\ Counted(s, ses[s], srv, s \in cnt)

(* The sessions that are in the map, or that a thread is about to send to, *)
(* exist.                                                                  *)
Held == map \subseteq cnt /\ \A c \in Caller : hold[c] \subseteq cnt

CounterIsHeld == counter <=> state = "started"

StoppingWaits == state = "stopping" => waiting

(* A started server is registered, or is about to be stopped.              *)
Registered == state = "started" => reg \/ Contains(srv, H("stop", Nobody))

StopFollows(v) ==
    \A i \in DOMAIN v : v[i] = H("unreg", Nobody) =>
        i + 1 \in DOMAIN v /\ v[i + 1] = H("stop", Nobody)

ServerInv ==
    ExecOnce /\ NoneOutlives /\ CounterIsHeld /\ StoppingWaits /\ Registered /\ StopFollows(srv)

Waiting(c) == pc[c] \in {"pool_wait", "pool_wait_others"}

(* One thread at a time stops the pool, and the acceptor's io_context      *)
(* returns first, after the server has stopped.                            *)
PoolInv ==
    /\ \A c, d \in Caller : Waiting(c) /\ Waiting(d) => c = d
    /\ \A c \in Caller : Waiting(c) => pool = "stopping"
    /\ \A c \in Caller : pc[c] = "pool_wait_others" => Nobody \notin ctx
    /\ Nobody \in ctx => Session \subseteq ctx
    /\ Nobody \notin ctx => state = "stopped"

IInv ==
    /\ TypeOK
    /\ \A s \in Session : SessionInv(s)
    /\ Held /\ ServerInv /\ PoolInv

(* The variables that only the server's io_context and the threads write.  *)
restVars == <<callVars, poolVars, state, counter, accVars, map>>
-----------------------------------------------------------------------------
(* What an element added at the end of a sequence, or taken from its       *)
(* front, changes: which elements it has, and how often something occurs.  *)
LEMMA AppendFacts ==
    ASSUME NEW T, NEW q \in Seq(T), NEW e \in T
    PROVE  /\ Append(q, e) \in Seq(T) /\ Append(q, e) # <<>>
           /\ Head(Append(q, e)) = IF q = <<>> THEN e ELSE Head(q)
           /\ \A f : Contains(Append(q, e), f) <=> Contains(q, f) \/ e = f
           /\ \A S : Never(Append(q, e), S) <=> Never(q, S) /\ e \notin S
           /\ \A S : e \notin S => (Once(Append(q, e), S) <=> Once(q, S))
           /\ \A S : e \in S => (Once(Append(q, e), S) <=> Never(q, S))
  <1>1. /\ Len(q) \in Nat /\ Len(Append(q, e)) = Len(q) + 1
        /\ \A i \in 1..Len(q) : Append(q, e)[i] = q[i]
        /\ Append(q, e)[Len(q) + 1] = e
    BY AppendProperties
  <1>2. \A f : Contains(Append(q, e), f) <=> Contains(q, f) \/ e = f
    BY <1>1 DEF Contains
  <1> QED
    BY <1>2, AppendOccurs

LEMMA TailFacts ==
    ASSUME NEW T, NEW q \in Seq(T), q # <<>>
    PROVE  /\ Head(q) \in T /\ Tail(q) \in Seq(T)
           /\ Len(q) = 1 <=> Tail(q) = <<>>
           /\ \A f : Contains(q, f) <=> Head(q) = f \/ Contains(Tail(q), f)
           /\ \A S : Never(q, S) <=> Head(q) \notin S /\ Never(Tail(q), S)
           /\ \A S : Head(q) \notin S => (Once(q, S) <=> Once(Tail(q), S))
           /\ \A S : Head(q) \in S => (Once(q, S) <=> Never(Tail(q), S))
  <1> DEFINE p == Tail(q)  h == Head(q)
  <1>1. /\ Len(p) \in Nat /\ Len(q) = Len(p) + 1
        /\ \A i \in 1..Len(p) : p[i] = q[i + 1]
        /\ q[1] = h
    BY HeadTailProperties, LenProperties
  <1>2. ASSUME NEW f PROVE Contains(q, f) <=> h = f \/ Contains(p, f)
    <2> HIDE DEF p, h
    <2>1. \A i \in 1..(Len(p) + 1) : i = 1 \/ (i - 1 \in 1..Len(p) /\ q[i] = p[i - 1])
      BY <1>1
    <2>2. Contains(q, f) => h = f \/ Contains(p, f)
      BY <1>1, <2>1 DEF Contains
    <2>3. h = f => Contains(q, f)
      BY <1>1 DEF Contains
    <2>4. ASSUME NEW i \in 1..Len(p), p[i] = f PROVE Contains(q, f)
      <3>1. i + 1 \in 1..(Len(p) + 1) /\ q[i + 1] = f
        BY <1>1, <2>4
      <3> QED
        BY <1>1, <3>1 DEF Contains
    <2> QED
      BY <2>2, <2>3, <2>4 DEF Contains
  <1> QED
    BY <1>2, TailOccurs

LEMMA EmptyFacts ==
    /\ \A f : ~Contains(<<>>, f)
    /\ \A S : Never(<<>>, S) /\ ~Once(<<>>, S)
  BY DEF Contains, Never, Once

LEMMA OnceFacts ==
    ASSUME NEW T, NEW q \in Seq(T), NEW S
    PROVE  /\ Never(q, S) <=> \A e \in S : ~Contains(q, e)
           /\ Once(q, S) => ~Never(q, S)
           /\ \A e \in S, f \in S : Once(q, S) /\ Contains(q, e) /\ Contains(q, f) => e = f
  <1>1. DOMAIN q = 1..Len(q)
    BY LenProperties
  <1> QED
    BY <1>1 DEF Contains, Never, Once

-----------------------------------------------------------------------------
(* Lemmas on what a handler does to a session.                             *)

(* Nothing that carries the guard.                                         *)
LEMMA NeverFacts ==
    ASSUME NEW s \in Session, NEW v \in Seq(Handler), NEW i \in Seq(Message)
    PROVE  /\ Never(v, ToServer(s)) => /\ ~Contains(v, H("connect", s))
                                       /\ ~Contains(v, H("emplace", s))
                                       /\ ~Contains(v, H("erase", s))
           /\ Never(i, Back) => /\ ~Contains(i, "pass_on") /\ ~Contains(i, "recv")
                                /\ ~Contains(i, "erase") /\ ~Contains(i, "closed")
  BY OnceFacts DEF ToServer, Back

LEMMA PassOnFacts ==
    ASSUME NEW s \in Session, NEW r, NEW v \in Seq(Handler), NEW m, NEW st,
           InHand(s, r, v, m, st),
           m => Head(r.q) \notin {"stop", "disconnect"} \/ r.disconnecting
    PROVE  Sound(s, PassOn(r), v, m, st)
  <1> DEFINE p == PassOn(r)
  <1>1. r.q \in Seq(Event) /\ r.q # <<>> /\ r.inbox \in Seq(Message)
    BY DEF InHand, SessionRecord, Event, Message
  <1>2. /\ p \in SessionRecord /\ p.q = Tail(r.q) /\ p.inbox = r.inbox
        /\ p.phase = IF p.q = <<>> THEN "idle" ELSE "run"
        /\ p.state = r.state /\ p.disconnecting = r.disconnecting /\ p.told = r.told
        /\ p.reading = r.reading /\ p.joined = r.joined /\ p.old = r.old
    <2>1. Tail(r.q) \in Seq(Event) /\ (Len(r.q) = 1 <=> Tail(r.q) = <<>>)
      BY <1>1, TailFacts
    <2>2. r \in SessionRecord
      BY DEF InHand
    <2> HIDE DEF p
    <2>3. p = [r EXCEPT !.q = Tail(r.q), !.phase = IF Tail(r.q) = <<>> THEN "idle" ELSE "run"]
      BY <2>1 DEF PassOn, p
    <2> QED
      BY <2>1, <2>2, <2>3 DEF SessionRecord, Event
  <1> HIDE DEF p
  <1>3. Consistent(p)
    BY <1>2 DEF Consistent, InHand
  <1>4. Carried(s, p, v)
    BY <1>1, <1>2, NeverFacts DEF Carried, Guarded, InHand
  <1>5. Member(p, m)
    BY <1>2 DEF Member, InHand
  <1>6. st # "started" /\ m => OnItsWayOut(p)
    BY <1>1, <1>2, TailFacts DEF OnItsWayOut, InHand
  <1> QED
    BY <1>2, <1>3, <1>4, <1>5, <1>6 DEF Sound, p

LEMMA CloseFacts ==
    ASSUME NEW s \in Session, NEW r, NEW v \in Seq(Handler), NEW m, NEW st,
           InHand(s, r, v, m, st), r.disconnecting
    PROVE  Sound(s, Close(r), v, m, st)
  <1>1. CASE r.state \notin {"started", "starting"}
    <2>1. Close(r) = PassOn(r)
      BY <1>1 DEF Close
    <2> QED
      BY <2>1, PassOnFacts
  <1>2. CASE r.state \in {"started", "starting"}
    <2> DEFINE p == Close(r)
    <2>1. /\ r \in SessionRecord /\ r.inbox \in Seq(Message) /\ "erase" \in Message
          /\ r.q \in Seq(Event) /\ r.q # <<>>
      BY DEF InHand, SessionRecord, Message, Event
    <2>2. /\ Append(r.inbox, "erase") \in Seq(Message)
          /\ \A f : Contains(Append(r.inbox, "erase"), f) <=> Contains(r.inbox, f) \/ "erase" = f
          /\ Never(r.inbox, Back) => Once(Append(r.inbox, "erase"), Back)
      BY <2>1, AppendFacts DEF Back
    <2>3. /\ p \in SessionRecord /\ p.inbox = Append(r.inbox, "erase") /\ p.state = "stopping"
          /\ p.old = r.state /\ p.phase = "away" /\ p.q = r.q /\ p.disconnecting
          /\ p.told = r.told /\ p.reading = r.reading /\ p.joined = r.joined
      <3> HIDE DEF p
      <3>1. p = [r EXCEPT !.inbox = Append(r.inbox, "erase"), !.state = "stopping",
                          !.old = r.state, !.phase = "away"]
        BY <1>2 DEF p, Close, Post
      <3>2. r.disconnecting \in BOOLEAN
        BY <2>1 DEF SessionRecord
      <3> QED
        BY <1>2, <2>1, <2>2, <3>1 DEF SessionRecord, Message
    <2> HIDE DEF p
    <2>4. Consistent(p)
      BY <2>1, <2>3 DEF Consistent
    <2>5. Carried(s, p, v)
      BY <2>1, <2>2, <2>3, NeverFacts DEF Carried, Guarded, InHand
    <2>6. Member(p, m)
      BY <1>2, <2>2, <2>3 DEF Member, InHand
    <2>7. OnItsWayOut(p)
      BY <2>3 DEF OnItsWayOut
    <2> QED
      BY <2>3, <2>4, <2>5, <2>6, <2>7 DEF Sound, p
  <1> QED
    BY <1>1, <1>2

(* Setting disconnecting keeps what InHand says.                           *)
LEMMA DisconnectingFacts ==
    ASSUME NEW s \in Session, NEW r, NEW v \in Seq(Handler), NEW m, NEW st,
           InHand(s, r, v, m, st)
    PROVE  LET p == [r EXCEPT !.disconnecting = TRUE]
           IN  InHand(s, p, v, m, st) /\ p.disconnecting
  <1> DEFINE p == [r EXCEPT !.disconnecting = TRUE]
  <1>1. /\ p \in SessionRecord /\ p.inbox = r.inbox /\ p.q = r.q /\ p.disconnecting
        /\ p.state = r.state /\ p.old = r.old /\ p.told = r.told
        /\ p.reading = r.reading /\ p.joined = r.joined
    BY DEF InHand, SessionRecord
  <1> HIDE DEF p
  <1> QED
    BY <1>1 DEF InHand, Member, OnItsWayOut, p

LEMMA ShutdownFacts ==
    ASSUME NEW s \in Session, NEW r, NEW v \in Seq(Handler), NEW m, NEW st,
           InHand(s, r, v, m, st), NEW fails \in BOOLEAN
    PROVE  Sound(s, Shutdown(r, fails), v, m, st)
  <1>1. CASE r.state \notin {"started", "starting"}
    <2>1. Shutdown(r, fails) = PassOn(r)
      BY <1>1 DEF Shutdown
    <2>2. m => r.disconnecting
      BY <1>1 DEF InHand, Member
    <2> QED
      BY <2>1, <2>2, PassOnFacts
  <1>2. CASE r.state \in {"started", "starting"} /\ ~(r.sock /\ r.reading /\ ~fails)
    <2> DEFINE p == [r EXCEPT !.disconnecting = TRUE]
    <2>1. Shutdown(r, fails) = Close(p)
      BY <1>2 DEF Shutdown
    <2>2. InHand(s, p, v, m, st) /\ p.disconnecting
      BY DisconnectingFacts
    <2> HIDE DEF p
    <2> QED
      BY <2>1, <2>2, CloseFacts
  <1>3. CASE r.state \in {"started", "starting"} /\ r.sock /\ r.reading /\ ~fails
    <2> DEFINE p == [r EXCEPT !.disconnecting = TRUE, !.phase = "shutdown"]
    <2>1. Shutdown(r, fails) = p
      BY <1>3 DEF Shutdown
    <2>2. /\ p \in SessionRecord /\ p.inbox = r.inbox /\ p.q = r.q /\ p.disconnecting
          /\ p.phase = "shutdown"
          /\ p.state = r.state /\ p.old = r.old /\ p.told = r.told
          /\ p.reading = r.reading /\ p.joined = r.joined /\ r.inbox \in Seq(Message)
      BY DEF InHand, SessionRecord, Message
    <2> HIDE DEF p
    <2>3. Consistent(p)
      BY <2>2 DEF Consistent, InHand
    <2>4. Carried(s, p, v)
      BY <2>2, NeverFacts DEF Carried, Guarded, InHand
    <2>5. Member(p, m) /\ OnItsWayOut(p)
      BY <2>2 DEF Member, InHand, OnItsWayOut
    <2> QED
      BY <2>1, <2>2, <2>3, <2>4, <2>5 DEF Sound
  <1> QED
    BY <1>1, <1>2, <1>3

LEMMA DisconnectGuardedFacts ==
    ASSUME NEW s \in Session, NEW r, NEW v \in Seq(Handler), NEW m, NEW st,
           InHand(s, r, v, m, st), NEW fails \in BOOLEAN
    PROVE  Sound(s, DisconnectGuarded(r, fails), v, m, st)
  BY ShutdownFacts, PassOnFacts DEF DisconnectGuarded

LEMMA ReadEndFacts ==
    ASSUME NEW s \in Session, NEW r, NEW v \in Seq(Handler), NEW m, NEW st,
           InHand(s, r, v, m, st), r.state = "stopped"
    PROVE  Sound(s, ReadEnd(r), v, m, st)
  <1> DEFINE p == [r EXCEPT !.disconnecting = FALSE, !.silence = FALSE, !.timer = FALSE]
  <1>1. /\ p \in SessionRecord /\ p.inbox = r.inbox /\ p.q = r.q
        /\ p.state = r.state /\ p.old = r.old /\ p.told = r.told
        /\ p.reading = r.reading /\ p.joined = r.joined
    BY DEF InHand, SessionRecord
  <1>2. ~m
    BY DEF InHand, Member
  <1>3. ReadEnd(r) = PassOn(p)
    BY DEF ReadEnd
  <1> HIDE DEF p
  <1>4. InHand(s, p, v, m, st)
    BY <1>1, <1>2 DEF InHand, Member
  <1> QED
    BY <1>2, <1>3, <1>4, PassOnFacts

(* An event enters the queue.                                              *)
LEMMA PushFacts ==
    ASSUME NEW r \in SessionRecord, NEW e \in Event
    PROVE  LET p == Push(r, e)
           IN  /\ p \in SessionRecord /\ p.q # <<>> /\ p.inbox = r.inbox
               /\ p.phase = IF r.q = <<>> THEN "run" ELSE r.phase
               /\ r.q # <<>> => Head(p.q) = Head(r.q)
               /\ \A f : Contains(p.q, f) <=> Contains(r.q, f) \/ e = f
               /\ p.state = r.state /\ p.disconnecting = r.disconnecting
               /\ p.told = r.told /\ p.reading = r.reading /\ p.joined = r.joined
               /\ p.old = r.old
  <1> DEFINE p == Push(r, e)
  <1>1. r.q \in Seq(Event)
    BY DEF SessionRecord, Event
  <1>2. /\ Append(r.q, e) \in Seq(Event) /\ Append(r.q, e) # <<>>
        /\ Head(Append(r.q, e)) = IF r.q = <<>> THEN e ELSE Head(r.q)
        /\ \A f : Contains(Append(r.q, e), f) <=> Contains(r.q, f) \/ e = f
    BY <1>1, AppendFacts
  <1>3. p = [r EXCEPT !.q = Append(r.q, e), !.phase = IF r.q = <<>> THEN "run" ELSE r.phase]
    BY DEF Push
  <1> HIDE DEF p
  <1>4. /\ p \in SessionRecord /\ p.q = Append(r.q, e) /\ p.inbox = r.inbox
        /\ p.phase = IF r.q = <<>> THEN "run" ELSE r.phase
        /\ p.state = r.state /\ p.disconnecting = r.disconnecting
        /\ p.told = r.told /\ p.reading = r.reading /\ p.joined = r.joined
        /\ p.old = r.old
    BY <1>2, <1>3 DEF SessionRecord, Event
  <1> QED
    BY <1>2, <1>4 DEF p

LEMMA PushIsSound ==
    ASSUME NEW s \in Session, NEW r, NEW v \in Seq(Handler), NEW m, NEW st,
           Sound(s, r, v, m, st), NEW e \in Event
    PROVE  Sound(s, Push(r, e), v, m, st)
  <1> DEFINE p == Push(r, e)
  <1>1. /\ p \in SessionRecord /\ p.q # <<>> /\ p.inbox = r.inbox
        /\ p.phase = IF r.q = <<>> THEN "run" ELSE r.phase
        /\ r.q # <<>> => Head(p.q) = Head(r.q)
        /\ \A f : Contains(p.q, f) <=> Contains(r.q, f) \/ e = f
        /\ p.state = r.state /\ p.disconnecting = r.disconnecting
        /\ p.told = r.told /\ p.reading = r.reading /\ p.joined = r.joined
        /\ p.old = r.old
    BY PushFacts DEF Sound
  <1>2. r.inbox \in Seq(Message)
    BY DEF Sound, SessionRecord, Message
  <1> HIDE DEF p
  <1>3. Consistent(p)
    BY <1>1 DEF Consistent, Sound
  <1>4. Carried(s, p, v)
    <2>1. CASE r.phase = "idle"
      BY <1>1, <1>2, <2>1, NeverFacts DEF Carried, Guarded, Sound, Consistent
    <2>2. CASE r.phase # "idle"
      BY <1>1, <2>2 DEF Carried, Guarded, Sound, Consistent
    <2> QED
      BY <2>1, <2>2
  <1>5. Member(p, m)
    BY <1>1 DEF Member, Sound
  <1>6. st # "started" /\ m => OnItsWayOut(p)
    BY <1>1 DEF OnItsWayOut, Sound
  <1> QED
    BY <1>1, <1>3, <1>4, <1>5, <1>6 DEF Sound, p

(* _do_disconnect without a guard, whether or not an event is running.     *)
LEMMA DisconnectFacts ==
    ASSUME NEW s \in Session, NEW r, NEW v \in Seq(Handler), NEW m, NEW st
    PROVE  /\ Sound(s, r, v, m, st) => Sound(s, Disconnect(r), v, m, st)
           /\ InHand(s, r, v, m, st) /\ r.phase # "shutdown" =>
                 /\ InHand(s, Disconnect(r), v, m, st)
                 /\ Head(Disconnect(r).q) = Head(r.q)
  <1> DEFINE p == [r EXCEPT !.phase = IF @ = "shutdown" THEN "shut" ELSE @]
  <1>1. CASE r.disconnecting
    <2>1. Disconnect(r) = p
      BY <1>1 DEF Disconnect
    <2>2. ASSUME r \in SessionRecord
          PROVE  /\ p \in SessionRecord /\ p.q = r.q /\ p.inbox = r.inbox
                 /\ p.phase = IF r.phase = "shutdown" THEN "shut" ELSE r.phase
                 /\ p.state = r.state /\ p.disconnecting = r.disconnecting
                 /\ p.told = r.told /\ p.reading = r.reading /\ p.joined = r.joined
                 /\ p.old = r.old
      BY <2>2 DEF SessionRecord
    <2> HIDE DEF p
    <2>3. Sound(s, r, v, m, st) => Sound(s, p, v, m, st)
      <3> SUFFICES ASSUME Sound(s, r, v, m, st) PROVE Sound(s, p, v, m, st)
        OBVIOUS
      <3>1. Consistent(p)
        BY <2>2, <1>1 DEF Consistent, Sound
      <3>2. Carried(s, p, v)
        BY <2>2 DEF Carried, Guarded, Sound
      <3>3. Member(p, m) /\ OnItsWayOut(p)
        BY <2>2, <1>1 DEF Member, Sound, OnItsWayOut
      <3> QED
        BY <2>2, <3>1, <3>2, <3>3 DEF Sound
    <2>4. InHand(s, r, v, m, st) => InHand(s, p, v, m, st) /\ p.q = r.q
      BY <2>2 DEF InHand, Member, OnItsWayOut
    <2> QED
      BY <2>1, <2>3, <2>4
  <1>2. CASE ~r.disconnecting
    <2>1. Disconnect(r) = Push(r, "disconnect") /\ "disconnect" \in Event
      BY <1>2 DEF Disconnect, Event
    <2>2. Sound(s, r, v, m, st) => Sound(s, Push(r, "disconnect"), v, m, st)
      BY <2>1, PushIsSound
    <2>3. ASSUME InHand(s, r, v, m, st)
          PROVE  /\ InHand(s, Push(r, "disconnect"), v, m, st)
                 /\ Head(Push(r, "disconnect").q) = Head(r.q)
      <3> DEFINE u == Push(r, "disconnect")
      <3>1. /\ u \in SessionRecord /\ u.q # <<>> /\ u.inbox = r.inbox
            /\ Head(u.q) = Head(r.q)
            /\ \A f : Contains(u.q, f) <=> Contains(r.q, f) \/ "disconnect" = f
            /\ u.state = r.state /\ u.disconnecting = r.disconnecting
            /\ u.told = r.told /\ u.reading = r.reading /\ u.joined = r.joined
            /\ u.old = r.old
        BY <2>1, <2>3, PushFacts DEF InHand
      <3> HIDE DEF u
      <3>2. InHand(s, u, v, m, st)
        BY <2>3, <3>1 DEF InHand, Member, OnItsWayOut
      <3> QED
        BY <3>1, <3>2 DEF u
    <2> QED
      BY <2>1, <2>2, <2>3
  <1> QED
    BY <1>1, <1>2

(* A running event, or one that waits on the session's own thread, has the *)
(* guard.                                                                  *)
LEMMA RunningHasGuard ==
    ASSUME NEW s \in Session, NEW r, NEW v \in Seq(Handler), NEW m, NEW st,
           Sound(s, r, v, m, st), r.phase \notin {"idle", "away"}
    PROVE  InHand(s, r, v, m, st)
  BY DEF Sound, InHand, Consistent, Carried, Guarded

(* A handler is posted to the session.                                     *)
LEMMA PostFields ==
    ASSUME NEW r \in SessionRecord, NEW e \in Message
    PROVE  LET p == Post(r, e)
           IN  /\ p \in SessionRecord /\ p.q = r.q /\ p.phase = r.phase
               /\ \A f : Contains(p.inbox, f) <=> Contains(r.inbox, f) \/ e = f
               /\ e \notin Back => /\ Never(p.inbox, Back) <=> Never(r.inbox, Back)
                                   /\ Once(p.inbox, Back) <=> Once(r.inbox, Back)
               /\ e \in Back /\ Never(r.inbox, Back) => Once(p.inbox, Back)
               /\ p.state = r.state /\ p.disconnecting = r.disconnecting
               /\ p.told = r.told /\ p.reading = r.reading /\ p.joined = r.joined
               /\ p.old = r.old
  <1> DEFINE p == Post(r, e)
  <1>1. r.inbox \in Seq(Message)
    BY DEF SessionRecord, Message
  <1>2. /\ Append(r.inbox, e) \in Seq(Message)
        /\ \A f : Contains(Append(r.inbox, e), f) <=> Contains(r.inbox, f) \/ e = f
        /\ e \notin Back => /\ Never(Append(r.inbox, e), Back) <=> Never(r.inbox, Back)
                            /\ Once(Append(r.inbox, e), Back) <=> Once(r.inbox, Back)
        /\ e \in Back /\ Never(r.inbox, Back) => Once(Append(r.inbox, e), Back)
    BY <1>1, AppendFacts
  <1>3. p = [r EXCEPT !.inbox = Append(r.inbox, e)]
    BY DEF Post
  <1> HIDE DEF p
  <1>4. /\ p \in SessionRecord /\ p.inbox = Append(r.inbox, e) /\ p.q = r.q /\ p.phase = r.phase
        /\ p.state = r.state /\ p.disconnecting = r.disconnecting
        /\ p.told = r.told /\ p.reading = r.reading /\ p.joined = r.joined
        /\ p.old = r.old
    BY <1>2, <1>3 DEF SessionRecord, Message
  <1> QED
    BY <1>2, <1>4 DEF p

(* One that does not carry the guard.                                      *)
LEMMA PostFacts ==
    ASSUME NEW s \in Session, NEW r, NEW v \in Seq(Handler), NEW m, NEW st,
           NEW e \in Message, e \notin Back
    PROVE  /\ Sound(s, r, v, m, st) => Sound(s, Post(r, e), v, m, st)
           /\ InHand(s, r, v, m, st) => InHand(s, Post(r, e), v, m, st)
  <1> DEFINE p == Post(r, e)
  <1>1. ASSUME r \in SessionRecord
        PROVE  /\ p \in SessionRecord /\ p.q = r.q /\ p.phase = r.phase
               /\ \A f : Contains(p.inbox, f) <=> Contains(r.inbox, f) \/ e = f
               /\ Never(p.inbox, Back) <=> Never(r.inbox, Back)
               /\ Once(p.inbox, Back) <=> Once(r.inbox, Back)
               /\ p.state = r.state /\ p.disconnecting = r.disconnecting
               /\ p.told = r.told /\ p.reading = r.reading /\ p.joined = r.joined
               /\ p.old = r.old
    BY <1>1, PostFields
  <1>2. e \notin {"pass_on", "recv", "erase", "closed"}
    BY DEF Back
  <1> HIDE DEF p
  <1>3. ASSUME Sound(s, r, v, m, st) PROVE Sound(s, p, v, m, st)
    <2>1. Consistent(p)
      BY <1>1, <1>3 DEF Consistent, Sound
    <2>2. Carried(s, p, v)
      BY <1>1, <1>2, <1>3 DEF Carried, Guarded, Sound
    <2>3. Member(p, m)
      BY <1>1, <1>2, <1>3 DEF Member, Sound
    <2>4. st # "started" /\ m => OnItsWayOut(p)
      BY <1>1, <1>3 DEF OnItsWayOut, Sound
    <2> QED
      BY <1>1, <1>3, <2>1, <2>2, <2>3, <2>4 DEF Sound
  <1>4. ASSUME InHand(s, r, v, m, st) PROVE InHand(s, p, v, m, st)
    BY <1>1, <1>2, <1>4 DEF InHand, Member, OnItsWayOut
  <1> QED
    BY <1>3, <1>4 DEF p

(* One that carries it.                                                    *)
LEMMA BringFacts ==
    ASSUME NEW s \in Session, NEW r, NEW v \in Seq(Handler), NEW m, NEW st,
           InHand(s, r, v, m, st), r.phase = "away", NEW e \in Back,
           e = "pass_on" => Head(r.q) = "connect",
           e = "recv" => Head(r.q) = "join" /\ m,
           e = "erase" => r.state = "stopping",
           e = "closed" => r.state = "stopped"
    PROVE  Sound(s, Post(r, e), v, m, st)
  <1> DEFINE p == Post(r, e)
  <1>1. e \in Message
    BY DEF Back, Message
  <1>2. /\ p \in SessionRecord /\ p.q = r.q /\ p.phase = r.phase
        /\ \A f : Contains(p.inbox, f) <=> Contains(r.inbox, f) \/ e = f
        /\ Once(p.inbox, Back)
        /\ p.state = r.state /\ p.disconnecting = r.disconnecting
        /\ p.told = r.told /\ p.reading = r.reading /\ p.joined = r.joined
        /\ p.old = r.old
    BY <1>1, PostFields DEF InHand
  <1>3. r.inbox \in Seq(Message)
    BY DEF InHand, SessionRecord, Message
  <1> HIDE DEF p
  <1>4. Consistent(p)
    BY <1>2 DEF Consistent, InHand
  <1>5. Carried(s, p, v)
    BY <1>2, <1>3, NeverFacts DEF Carried, Guarded, InHand
  <1>6. Member(p, m)
    BY <1>2 DEF Member, InHand
  <1>7. st # "started" /\ m => OnItsWayOut(p)
    BY <1>2 DEF OnItsWayOut, InHand
  <1> QED
    BY <1>2, <1>4, <1>5, <1>6, <1>7 DEF Sound, p

(* The session gives the guard to a handler on the server's io_context.    *)
LEMMA GiveFacts ==
    ASSUME NEW s \in Session, NEW r, NEW v \in Seq(Handler), NEW m, NEW st,
           InHand(s, r, v, m, st), r.phase = "away", NEW k \in {"connect", "emplace", "erase"},
           k = "connect" => Head(r.q) = "connect",
           k = "emplace" => Head(r.q) = "join" /\ r.state = "started",
           k = "erase" => r.state = "stopping"
    PROVE  Sound(s, r, Append(v, H(k, s)), m, st)
  <1> DEFINE u == Append(v, H(k, s))
  <1>1. H(k, s) \in Handler /\ H(k, s) \in ToServer(s)
    BY DEF H, Handler, ToServer
  <1>2. /\ \A f : Contains(u, f) <=> Contains(v, f) \/ H(k, s) = f
        /\ Once(u, ToServer(s))
    BY <1>1, AppendFacts DEF InHand
  <1>3. r.inbox \in Seq(Message)
    BY DEF InHand, SessionRecord, Message
  <1>4. \A j \in {"connect", "emplace", "erase"} : H(k, s) = H(j, s) => k = j
    BY DEF H
  <1> HIDE DEF u
  <1>5. Consistent(r)
    BY DEF Consistent, InHand
  <1>6. Carried(s, r, u)
    <2>1. Contains(u, H("connect", s)) => k = "connect"
      BY <1>2, <1>3, <1>4, NeverFacts DEF InHand
    <2>2. Contains(u, H("emplace", s)) => k = "emplace"
      BY <1>2, <1>3, <1>4, NeverFacts DEF InHand
    <2>3. Contains(u, H("erase", s)) => k = "erase"
      BY <1>2, <1>3, <1>4, NeverFacts DEF InHand
    <2> QED
      BY <1>2, <1>3, <2>1, <2>2, <2>3, NeverFacts DEF Carried, Guarded, InHand
  <1> QED
    BY <1>5, <1>6 DEF Sound, InHand, u

(* A handler of the session is taken from its inbox.  A stop event may be  *)
(* the reason why the session is on its way out: it is queued at once.     *)
Taken(r) == [r EXCEPT !.inbox = Tail(@)]

LEMMA TakeFacts ==
    ASSUME NEW s \in Session, NEW r, NEW v \in Seq(Handler), NEW m, NEW st,
           Sound(s, r, v, m, st), r.inbox # <<>>
    PROVE  LET p == Taken(r)
               h == Head(r.inbox)
           IN  /\ p \in SessionRecord /\ p.q = r.q /\ p.phase = r.phase /\ p.state = r.state
               /\ p.sock = r.sock /\ p.reading = r.reading /\ p.joined = r.joined
               /\ h \notin Back => Sound(s, p, v, m, "started")
               /\ h \notin Back /\ h # "stop" => Sound(s, p, v, m, st)
               /\ h \in Back => /\ InHand(s, p, v, m, st) /\ r.phase = "away"
                                /\ h = "pass_on" => Head(r.q) = "connect"
                                /\ h = "recv" => Head(r.q) = "join" /\ m
                                /\ h = "erase" => r.state = "stopping"
                                /\ h = "closed" => r.state = "stopped"
  <1> DEFINE p == Taken(r)
             h == Head(r.inbox)
  <1>1. r \in SessionRecord /\ r.inbox \in Seq(Message)
    BY DEF Sound, SessionRecord, Message
  <1>2. /\ h \in Message /\ Tail(r.inbox) \in Seq(Message)
        /\ \A f : Contains(r.inbox, f) <=> h = f \/ Contains(Tail(r.inbox), f)
        /\ Never(r.inbox, Back) <=> h \notin Back /\ Never(Tail(r.inbox), Back)
        /\ h \notin Back => (Once(r.inbox, Back) <=> Once(Tail(r.inbox), Back))
        /\ h \in Back => (Once(r.inbox, Back) <=> Never(Tail(r.inbox), Back))
    BY <1>1, TailFacts
  <1>3. /\ p \in SessionRecord /\ p.inbox = Tail(r.inbox) /\ p.q = r.q /\ p.phase = r.phase
        /\ p.state = r.state /\ p.disconnecting = r.disconnecting
        /\ p.told = r.told /\ p.reading = r.reading /\ p.joined = r.joined
        /\ p.old = r.old /\ p.sock = r.sock
    BY <1>1, <1>2 DEF Taken, SessionRecord, Message
  <1> HIDE DEF p, h
  <1>4. Consistent(p) /\ Member(p, m)
    BY <1>2, <1>3 DEF Sound, Consistent, Member
  <1>5. ASSUME h \notin Back PROVE Carried(s, p, v)
    BY <1>2, <1>3, <1>5 DEF Sound, Carried, Guarded
  <1>6. ASSUME h # "stop", st # "started", m PROVE OnItsWayOut(p)
    BY <1>2, <1>3, <1>6 DEF Sound, OnItsWayOut
  <1>7. ASSUME h \in Back
        PROVE  /\ InHand(s, p, v, m, st) /\ r.phase = "away"
               /\ h = "pass_on" => Head(r.q) = "connect"
               /\ h = "recv" => Head(r.q) = "join" /\ m
               /\ h = "erase" => r.state = "stopping"
               /\ h = "closed" => r.state = "stopped"
    <2>1. h # "stop"
      BY <1>7 DEF Back
    <2>2. r.phase = "away" /\ Never(v, ToServer(s)) /\ Never(p.inbox, Back)
      BY <1>2, <1>3, <1>7 DEF Sound, Carried, Guarded
    <2>3. p.q # <<>>
      BY <1>3, <2>2 DEF Sound, Consistent
    <2>4. InHand(s, p, v, m, st)
      BY <1>3, <1>4, <1>6, <2>1, <2>2, <2>3 DEF InHand, Consistent
    <2> QED
      BY <1>2, <2>2, <2>4 DEF Sound, Carried, Member
  <1> QED
    BY <1>3, <1>4, <1>5, <1>6, <1>7 DEF Sound, p, h

(* A handler of a session is taken by the server's io_context.             *)
LEMMA ServerTakes ==
    ASSUME NEW s \in Session, NEW r, NEW v \in Seq(Handler), NEW m, NEW st,
           Sound(s, r, v, m, st), v # <<>>, NEW k \in {"connect", "emplace", "erase"},
           Head(v) = H(k, s)
    PROVE  /\ InHand(s, r, Tail(v), m, st) /\ r.phase = "away"
           /\ k = "connect" => Head(r.q) = "connect"
           /\ k = "emplace" => Head(r.q) = "join" /\ r.state = "started"
           /\ k = "erase" => r.state = "stopping"
  <1>1. Head(v) \in ToServer(s) /\ Contains(v, H(k, s))
    BY TailFacts DEF ToServer
  <1>2. r.phase = "away" /\ Never(Tail(v), ToServer(s)) /\ Never(r.inbox, Back)
    BY <1>1, TailFacts DEF Sound, Carried, Guarded
  <1>3. r.q # <<>>
    BY <1>2 DEF Sound, Consistent
  <1> QED
    BY <1>1, <1>2, <1>3 DEF Sound, InHand, Consistent, Carried

(* The other handlers say nothing of session s.                            *)
LEMMA OtherHandlers ==
    ASSUME NEW s \in Session, NEW r, NEW v \in Seq(Handler), NEW m, NEW st,
           NEW h \in Handler, h \notin ToServer(s)
    PROVE  /\ Sound(s, r, v, m, st) => Sound(s, r, Append(v, h), m, st)
           /\ Sound(s, r, v, m, st) /\ v # <<>> /\ Head(v) = h => Sound(s, r, Tail(v), m, st)
           /\ InHand(s, r, v, m, st) => InHand(s, r, Append(v, h), m, st)
  <1>1. h \notin {H("connect", s), H("emplace", s), H("erase", s)}
    BY DEF ToServer
  <1>2. /\ Never(Append(v, h), ToServer(s)) <=> Never(v, ToServer(s))
        /\ Once(Append(v, h), ToServer(s)) <=> Once(v, ToServer(s))
        /\ \A f : Contains(Append(v, h), f) <=> Contains(v, f) \/ h = f
    BY AppendFacts
  <1>3. Carried(s, r, v) => Carried(s, r, Append(v, h))
    BY <1>1, <1>2 DEF Carried, Guarded
  <1>4. ASSUME v # <<>>, Head(v) = h, Carried(s, r, v) PROVE Carried(s, r, Tail(v))
    <2>1. /\ Never(Tail(v), ToServer(s)) <=> Never(v, ToServer(s))
          /\ Once(Tail(v), ToServer(s)) <=> Once(v, ToServer(s))
          /\ \A f : Contains(v, f) <=> h = f \/ Contains(Tail(v), f)
      BY <1>4, TailFacts
    <2> QED
      BY <1>4, <2>1 DEF Carried, Guarded
  <1> QED
    BY <1>2, <1>3, <1>4 DEF Sound, InHand

LEMMA OtherAccepts ==
    ASSUME NEW s \in Session, NEW r, NEW v \in Seq(Handler), NEW n,
           NEW h \in Handler, h \notin Accepts(s)
    PROVE  /\ Counted(s, r, v, n) => Counted(s, r, Append(v, h), n)
           /\ Counted(s, r, v, n) /\ v # <<>> /\ Head(v) = h => Counted(s, r, Tail(v), n)
  <1>1. /\ Never(Append(v, h), Accepts(s)) <=> Never(v, Accepts(s))
        /\ Once(Append(v, h), Accepts(s)) <=> Once(v, Accepts(s))
    BY AppendFacts
  <1>2. ASSUME v # <<>>, Head(v) = h
        PROVE  /\ Never(Tail(v), Accepts(s)) <=> Never(v, Accepts(s))
               /\ Once(Tail(v), Accepts(s)) <=> Once(v, Accepts(s))
    BY <1>2, TailFacts
  <1> QED
    BY <1>1, <1>2 DEF Counted

(* Whose a handler is.                                                     *)
LEMMA HandlerFacts ==
    /\ \A k, x : H(k, x).k = k /\ H(k, x).x = x
    /\ \A k, j, x, y : H(k, x) = H(j, y) <=> k = j /\ x = y
    /\ \A k, x, s : H(k, x) \in ToServer(s) <=> k \in {"connect", "emplace", "erase"} /\ x = s
    /\ \A k, x, s : H(k, x) \in Accepts(s) <=> k \in {"accepted", "accept_failed"} /\ x = s
  BY DEF H, ToServer, Accepts

-----------------------------------------------------------------------------
(* Lemmas on the queue of the server's io_context.                         *)

LEMMA FollowsFacts ==
    ASSUME NEW v \in Seq(Handler), StopFollows(v)
    PROVE  /\ \A h \in Handler : h # H("unreg", Nobody) => StopFollows(Append(v, h))
           /\ v # <<>> => StopFollows(Tail(v))
           /\ v # <<>> /\ Head(v) = H("unreg", Nobody) => Contains(Tail(v), H("stop", Nobody))
           /\ StopFollows(Append(Append(v, H("unreg", Nobody)), H("stop", Nobody)))
  <1>1. DOMAIN v = 1..Len(v) /\ Len(v) \in Nat
    OBVIOUS
  <1>2. ASSUME NEW h \in Handler, h # H("unreg", Nobody) PROVE StopFollows(Append(v, h))
    <2> DEFINE u == Append(v, h)
    <2>1. /\ DOMAIN u = 1..(Len(v) + 1) /\ u[Len(v) + 1] = h
          /\ \A i \in 1..Len(v) : u[i] = v[i]
      BY <1>1, AppendProperties
    <2> HIDE DEF u
    <2>2. StopFollows(u)
      BY <1>1, <1>2, <2>1 DEF StopFollows
    <2> QED
      BY <2>2 DEF u
  <1>3. ASSUME v # <<>> PROVE StopFollows(Tail(v))
    <2> DEFINE u == Tail(v)
    <2>1. DOMAIN u = 1..(Len(v) - 1) /\ \A i \in 1..(Len(v) - 1) : u[i] = v[i + 1]
      BY <1>1, <1>3, HeadTailProperties
    <2> HIDE DEF u
    <2>2. ASSUME NEW i \in DOMAIN u, u[i] = H("unreg", Nobody)
          PROVE  i + 1 \in DOMAIN u /\ u[i + 1] = H("stop", Nobody)
      <3>1. i + 1 \in DOMAIN v /\ v[i + 1] = H("unreg", Nobody)
        BY <1>1, <2>1, <2>2
      <3>2. (i + 1) + 1 \in DOMAIN v /\ v[(i + 1) + 1] = H("stop", Nobody)
        BY <3>1 DEF StopFollows
      <3> QED
        BY <1>1, <2>1, <2>2, <3>2
    <2> QED
      BY <2>2 DEF StopFollows, u
  <1>4. ASSUME v # <<>>, Head(v) = H("unreg", Nobody) PROVE Contains(Tail(v), H("stop", Nobody))
    <2>1. 1 \in DOMAIN v /\ v[1] = H("unreg", Nobody)
      BY <1>1, <1>4
    <2>2. 1 + 1 \in DOMAIN v /\ v[1 + 1] = H("stop", Nobody)
      BY <2>1 DEF StopFollows
    <2>3. 1 \in 1..Len(Tail(v)) /\ Tail(v)[1] = H("stop", Nobody)
      BY <1>1, <1>4, <2>2, HeadTailProperties
    <2> QED
      BY <2>3 DEF Contains
  <1>5. StopFollows(Append(Append(v, H("unreg", Nobody)), H("stop", Nobody)))
    <2> DEFINE a == H("unreg", Nobody)
               b == H("stop", Nobody)
               u == Append(v, a)
               w == Append(u, b)
    <2>0. a \in Handler /\ b \in Handler /\ a # b
      BY DEF Handler, H
    <2> HIDE DEF a, b
    <2>1. /\ u \in Seq(Handler) /\ DOMAIN u = 1..(Len(v) + 1) /\ Len(u) = Len(v) + 1
          /\ \A i \in 1..Len(v) : u[i] = v[i]
      BY <1>1, <2>0, AppendProperties
    <2> HIDE DEF u
    <2>2. /\ DOMAIN w = 1..(Len(v) + 2) /\ w[Len(v) + 2] = b
          /\ \A i \in 1..Len(v) : w[i] = v[i]
      BY <1>1, <2>0, <2>1, AppendProperties
    <2> HIDE DEF w
    <2>3. ASSUME NEW i \in DOMAIN w, w[i] = a PROVE i + 1 \in DOMAIN w /\ w[i + 1] = b
      <3>1. CASE i \in 1..Len(v)
        BY <1>1, <2>2, <2>3, <3>1 DEF StopFollows, a, b
      <3>2. CASE i = Len(v) + 1
        BY <1>1, <2>2, <3>2
      <3>3. CASE i = Len(v) + 2
        BY <2>0, <2>2, <2>3, <3>3
      <3> QED
        BY <1>1, <2>2, <3>1, <3>2, <3>3
    <2>4. StopFollows(w)
      BY <2>3 DEF StopFollows, a, b
    <2> QED
      BY <2>4 DEF w, u, a, b
  <1> QED
    BY <1>2, <1>3, <1>4, <1>5

-----------------------------------------------------------------------------
(* Steps of a session.                                                     *)

LEMMA Typing ==
    ASSUME TypeOK
    PROVE  /\ srv \in Seq(Handler) /\ ses \in [Session -> SessionRecord]
           /\ map \in SUBSET Session /\ cnt \in SUBSET Session
  BY DEF TypeOK, Handler

(* A session that does something exists.                                   *)
LEMMA ExistsIfNotBlank ==
    ASSUME IInv, NEW s \in Session, ses[s] # Blank
    PROVE  s \in cnt
  BY DEF IInv, SessionInv, Counted

LEMMA SessionStep ==
    ASSUME IInv, NEW s \in Session, s \in cnt, NEW r, Becomes(s, r), UNCHANGED srv,
           Sound(s, r, srv, s \in map, state)
    PROVE  IInv'
  <1>1. /\ ses' = [ses EXCEPT ![s] = r] /\ ses \in [Session -> SessionRecord]
        /\ UNCHANGED <<srv, cnt, restVars>>
    BY Typing DEF IInv, Becomes, restVars
  <1>2. r \in SessionRecord
    BY DEF Sound
  <1>3. TypeOK'
    BY <1>1, <1>2 DEF IInv, TypeOK, restVars, callVars, poolVars, accVars
  <1>4. ASSUME NEW t \in Session PROVE SessionInv(t)'
    <2>1. CASE t = s
      <3>1. ses'[t] = r
        BY <1>1, <2>1
      <3>2. Counted(s, r, srv, s \in cnt)
        BY DEF IInv, SessionInv, Counted
      <3> QED
        BY <1>1, <2>1, <3>1, <3>2 DEF SessionInv, restVars
    <2>2. CASE t # s
      <3>1. ses'[t] = ses[t]
        BY <1>1, <2>2
      <3> QED
        BY <1>1, <3>1 DEF IInv, SessionInv, restVars
    <2> QED
      BY <2>1, <2>2
  <1>5. Held' /\ ServerInv' /\ PoolInv'
    BY <1>1 DEF IInv, Held, ServerInv, PoolInv, ExecOnce, NoneOutlives, CounterIsHeld, StoppingWaits,
             Registered, Waiting, restVars, callVars, poolVars, accVars
  <1> QED
    BY <1>3, <1>4, <1>5 DEF IInv

(* What is posted to the server or taken by it, and is not its own stop.   *)
LEMMA ServerKeeps ==
    ASSUME IInv, NEW h \in Handler, h \notin {H("unreg", Nobody), H("exec", Nobody)},
           UNCHANGED <<state, cnt, map, counter, reg, waiting>>,
           \/ srv' = Append(srv, h)
           \/ srv # <<>> /\ Head(srv) = h /\ h # H("stop", Nobody) /\ srv' = Tail(srv)
    PROVE  ServerInv'
  <1>1. srv \in Seq(Handler) /\ StopFollows(srv) /\ ServerInv
    BY Typing DEF IInv, ServerInv
  <1>2. StopFollows(srv')
    BY <1>1, FollowsFacts
  <1>3. /\ Never(srv', {H("exec", Nobody)}) <=> Never(srv, {H("exec", Nobody)})
        /\ Once(srv', {H("exec", Nobody)}) <=> Once(srv, {H("exec", Nobody)})
        /\ Contains(srv, H("stop", Nobody)) => Contains(srv', H("stop", Nobody))
    <2>1. CASE srv' = Append(srv, h)
      BY <1>1, <2>1, AppendFacts
    <2>2. CASE srv # <<>> /\ Head(srv) = h /\ h # H("stop", Nobody) /\ srv' = Tail(srv)
      BY <1>1, <2>2, TailFacts
    <2> QED
      BY <2>1, <2>2
  <1> QED
    BY <1>1, <1>2, <1>3 DEF ServerInv, ExecOnce, NoneOutlives, CounterIsHeld, StoppingWaits,
                            Registered

(* A session sends the guard to the server's thread.                       *)
LEMMA SessionGives ==
    ASSUME IInv, NEW s \in Session, s \in cnt, NEW r, Becomes(s, r),
           NEW k \in {"connect", "emplace", "erase"}, srv' = Append(srv, H(k, s)),
           Sound(s, r, Append(srv, H(k, s)), s \in map, state)
    PROVE  IInv'
  <1> DEFINE h == H(k, s)
  <1>1. /\ ses' = [ses EXCEPT ![s] = r] /\ ses \in [Session -> SessionRecord]
        /\ UNCHANGED <<cnt, restVars>> /\ srv \in Seq(Handler)
    BY Typing DEF IInv, Becomes, restVars
  <1>2. r \in SessionRecord
    BY DEF Sound
  <1>3. /\ h \in Handler /\ h \notin {H("unreg", Nobody), H("exec", Nobody), H("stop", Nobody)}
        /\ \A t : h \notin Accepts(t)
        /\ \A t : t # s => h \notin ToServer(t)
    BY DEF H, Handler, Accepts, ToServer
  <1> HIDE DEF h
  <1>4. srv' = Append(srv, h)
    BY DEF h
  <1>5. TypeOK'
    <2>1. srv' \in Seq(Handler)
      BY <1>1, <1>3, <1>4, AppendProperties
    <2> QED
      BY <1>1, <1>2, <2>1 DEF IInv, TypeOK, restVars, callVars, poolVars, accVars, Handler
  <1>6. ASSUME NEW t \in Session PROVE SessionInv(t)'
    <2>1. CASE t = s
      <3>1. ses'[t] = r
        BY <1>1, <2>1
      <3>2. Counted(s, r, srv, s \in cnt)
        BY DEF IInv, SessionInv, Counted
      <3>3. Counted(s, r, srv', s \in cnt)
        BY <1>1, <1>3, <1>4, <3>2, OtherAccepts
      <3> QED
        BY <1>1, <2>1, <3>1, <3>3 DEF SessionInv, restVars
    <2>2. CASE t # s
      <3>1. ses'[t] = ses[t]
        BY <1>1, <2>2
      <3>2. Sound(t, ses[t], srv, t \in map, state) /\ Counted(t, ses[t], srv, t \in cnt)
        BY DEF IInv, SessionInv
      <3>3. Sound(t, ses[t], srv', t \in map, state) /\ Counted(t, ses[t], srv', t \in cnt)
        BY <1>1, <1>3, <1>4, <2>2, <3>2, OtherHandlers, OtherAccepts
      <3> QED
        BY <1>1, <3>1, <3>3 DEF SessionInv, restVars
    <2> QED
      BY <2>1, <2>2
  <1>7. Held' /\ PoolInv'
    BY <1>1 DEF IInv, Held, PoolInv, Waiting, restVars, callVars, poolVars, accVars
  <1>8. ServerInv'
    BY <1>1, <1>3, <1>4, ServerKeeps DEF restVars, poolVars, accVars
  <1> QED
    BY <1>5, <1>6, <1>7, <1>8 DEF IInv

(* What the lemmas on records need of session s.                           *)
LEMMA SessionFacts ==
    ASSUME IInv, NEW s \in Session
    PROVE  /\ Sound(s, ses[s], srv, s \in map, state) /\ srv \in Seq(Handler)
           /\ ses[s] \in SessionRecord
           /\ ses[s].q \in Seq(Event) /\ ses[s].inbox \in Seq(Message)
  <1>1. srv \in Seq(Handler) /\ ses[s] \in SessionRecord
    BY Typing DEF IInv
  <1>2. ses[s].q \in Seq(Event) /\ ses[s].inbox \in Seq(Message)
    BY <1>1 DEF SessionRecord, Event, Message
  <1> QED
    BY <1>1, <1>2 DEF IInv, SessionInv

LEMMA BlankFacts == Blank.inbox = <<>> /\ Blank.q = <<>> /\ Blank.phase = "idle"
                    /\ ~Blank.reading /\ ~Blank.timer /\ ~Blank.silence
                    /\ Blank.state = "stopped" /\ Blank.told = "none" /\ ~Blank.joined
                    /\ ~Blank.disconnecting /\ ~Blank.sock
  BY DEF Blank

(* Taking a handler from the inbox of session s.                           *)
LEMMA SesTakes ==
    ASSUME IInv, NEW s \in Session, NEW h, Ses(s, h)
    PROVE  /\ s \in cnt /\ Rest(s) \in SessionRecord
           /\ Rest(s).q = ses[s].q /\ Rest(s).phase = ses[s].phase /\ Rest(s).state = ses[s].state
           /\ h \notin Back => Sound(s, Rest(s), srv, s \in map, "started")
           /\ h \notin Back /\ h # "stop" => Sound(s, Rest(s), srv, s \in map, state)
           /\ h \in Back => /\ InHand(s, Rest(s), srv, s \in map, state) /\ Rest(s).phase = "away"
                            /\ h = "pass_on" => Head(Rest(s).q) = "connect"
                            /\ h = "recv" => Head(Rest(s).q) = "join" /\ s \in map
                            /\ h = "erase" => Rest(s).state = "stopping"
                            /\ h = "closed" => Rest(s).state = "stopped"
  <1>1. ses[s].inbox # <<>> /\ Head(ses[s].inbox) = h
    BY DEF Ses
  <1>2. s \in cnt
    BY <1>1, ExistsIfNotBlank, BlankFacts
  <1>3. Rest(s) = Taken(ses[s])
    BY DEF Rest, Taken
  <1>4. Sound(s, ses[s], srv, s \in map, state) /\ srv \in Seq(Handler)
    BY SessionFacts
  <1> DEFINE r == ses[s]
             v == srv
             m == s \in map
             st == state
             p == Taken(r)
  <1> HIDE DEF r, v, m, st, p
  <1>5. Sound(s, r, v, m, st) /\ v \in Seq(Handler)
    BY <1>4 DEF r, v, m, st
  <1>6. r.inbox # <<>> /\ Head(r.inbox) = h
    BY <1>1 DEF r
  <1>7. /\ p \in SessionRecord /\ p.q = r.q /\ p.phase = r.phase /\ p.state = r.state
        /\ h \notin Back => Sound(s, p, v, m, "started")
        /\ h \notin Back /\ h # "stop" => Sound(s, p, v, m, st)
        /\ h \in Back => /\ InHand(s, p, v, m, st) /\ r.phase = "away"
                         /\ h = "pass_on" => Head(r.q) = "connect"
                         /\ h = "recv" => Head(r.q) = "join" /\ m
                         /\ h = "erase" => r.state = "stopping"
                         /\ h = "closed" => r.state = "stopped"
    BY <1>5, <1>6, TakeFacts DEF p
  <1> QED
    BY <1>2, <1>3, <1>7 DEF p, r, v, m, st

(* The handlers of a session's inbox.                                      *)
LEMMA InboxSteps ==
    ASSUME IInv, NEW s \in Session,
           \/ QueueEvent(s) \/ ConnectTimer(s) \/ GuardBack(s) \/ StartRecv(s)
           \/ EraseMe(s) \/ Closed(s) \/ \E b \in BOOLEAN : RunDisconnect(s, b)
    PROVE  IInv'
  <1> DEFINE m == s \in map
             p == Rest(s)
  <1>0. srv \in Seq(Handler)
    BY SessionFacts
  <1>1. CASE QueueEvent(s)
    <2>1. PICK e \in {"connect", "join", "stop", "send"} :
             Ses(s, e) /\ Becomes(s, Push(p, e)) /\ UNCHANGED srv
      BY <1>1 DEF QueueEvent
    <2>2. e \notin Back /\ e \in Event
      BY DEF Back, Event
    <2>3. CASE e = "stop"
      <3>1. s \in cnt /\ p \in SessionRecord /\ Sound(s, p, srv, m, "started")
        BY <2>1, <2>2, SesTakes
      <3>2. Sound(s, Push(p, e), srv, m, "started")
        BY <1>0, <2>2, <3>1, PushIsSound
      <3>3. OnItsWayOut(Push(p, e))
        BY <2>2, <2>3, <3>1, PushFacts DEF OnItsWayOut
      <3>4. Sound(s, Push(p, e), srv, m, state)
        BY <3>2, <3>3 DEF Sound
      <3> QED
        BY <2>1, <3>1, <3>4, SessionStep
    <2>4. CASE e # "stop"
      <3>1. s \in cnt /\ Sound(s, p, srv, m, state)
        BY <2>1, <2>2, <2>4, SesTakes
      <3>2. Sound(s, Push(p, e), srv, m, state)
        BY <1>0, <2>2, <3>1, PushIsSound
      <3> QED
        BY <2>1, <3>1, <3>2, SessionStep
    <2> QED
      BY <2>3, <2>4
  <1>2. CASE ConnectTimer(s)
    <2>1. PICK b \in BOOLEAN, h \in {"timer", "stop_timer"} :
             Ses(s, h) /\ Becomes(s, [p EXCEPT !.timer = b]) /\ UNCHANGED srv
      BY <1>2 DEF ConnectTimer
    <2>2. h \notin Back /\ h # "stop"
      BY DEF Back
    <2>3. s \in cnt /\ Sound(s, p, srv, m, state)
      BY <2>1, <2>2, SesTakes
    <2> DEFINE r == [p EXCEPT !.timer = b]
    <2> HIDE DEF p
    <2>4. /\ r \in SessionRecord /\ r.inbox = p.inbox /\ r.q = p.q /\ r.phase = p.phase
          /\ r.state = p.state /\ r.old = p.old /\ r.told = p.told
          /\ r.reading = p.reading /\ r.joined = p.joined /\ r.disconnecting = p.disconnecting
      BY <2>3 DEF Sound, SessionRecord
    <2> HIDE DEF r
    <2>5. Sound(s, r, srv, m, state)
      BY <2>3, <2>4 DEF Sound, Consistent, Carried, Guarded, Member, OnItsWayOut
    <2> QED
      BY <2>1, <2>3, <2>5, SessionStep DEF r, p
  <1>3. CASE GuardBack(s)
    <2>1. Ses(s, "pass_on") /\ Becomes(s, PassOn(p)) /\ UNCHANGED srv /\ "pass_on" \in Back
      BY <1>3 DEF GuardBack, Back
    <2>2. s \in cnt /\ InHand(s, p, srv, m, state) /\ Head(p.q) = "connect"
      BY <2>1, SesTakes
    <2>3. Sound(s, PassOn(p), srv, m, state)
      BY <1>0, <2>2, PassOnFacts
    <2> QED
      BY <2>1, <2>2, <2>3, SessionStep
  <1>4. CASE StartRecv(s)
    <2> DEFINE r == [p EXCEPT !.silence = TRUE,
                              !.reading = (ses[s].state = "started" /\ ses[s].sock)]
    <2>1. Ses(s, "recv") /\ Becomes(s, PassOn(r)) /\ UNCHANGED srv /\ "recv" \in Back
      BY <1>4 DEF StartRecv, Back
    <2>2. /\ s \in cnt /\ InHand(s, p, srv, m, state) /\ Head(p.q) = "join" /\ m
          /\ ses[s].state = p.state
      BY <2>1, SesTakes
    <2> HIDE DEF p
    <2>3. /\ r \in SessionRecord /\ r.inbox = p.inbox /\ r.q = p.q /\ r.phase = p.phase
          /\ r.state = p.state /\ r.old = p.old /\ r.told = p.told
          /\ r.reading = (ses[s].state = "started" /\ ses[s].sock)
          /\ r.joined = p.joined /\ r.disconnecting = p.disconnecting
      BY <2>2 DEF InHand, SessionRecord
    <2> HIDE DEF r
    <2>4. InHand(s, r, srv, m, state)
      BY <2>2, <2>3 DEF InHand, Member, OnItsWayOut
    <2>5. Sound(s, PassOn(r), srv, m, state)
      BY <1>0, <2>2, <2>3, <2>4, PassOnFacts
    <2> QED
      BY <2>1, <2>2, <2>5, SessionStep DEF r, p
  <1>5. CASE EraseMe(s)
    <2>1. /\ Ses(s, "erase") /\ Becomes(s, p) /\ srv' = Append(srv, H("erase", s))
          /\ "erase" \in Back
      BY <1>5 DEF EraseMe, Back
    <2>2. s \in cnt /\ InHand(s, p, srv, m, state) /\ p.phase = "away" /\ p.state = "stopping"
      BY <2>1, SesTakes
    <2>3. Sound(s, p, Append(srv, H("erase", s)), m, state)
      BY <1>0, <2>2, GiveFacts
    <2> QED
      BY <2>1, <2>2, <2>3, SessionGives
  <1>6. CASE Closed(s)
    <2> DEFINE r == [p EXCEPT !.sock = FALSE]
               r2 == [r EXCEPT !.phase = "readend"]
    <2>1. /\ Ses(s, "closed") /\ UNCHANGED srv /\ "closed" \in Back
          /\ Becomes(s, IF r.reading THEN r2 ELSE ReadEnd(r))
      BY <1>6 DEF Closed, Back
    <2>2. /\ s \in cnt /\ InHand(s, p, srv, m, state) /\ p.state = "stopped"
      BY <2>1, SesTakes
    <2> HIDE DEF p
    <2>3. /\ r \in SessionRecord /\ r.inbox = p.inbox /\ r.q = p.q
          /\ r.state = p.state /\ r.old = p.old /\ r.told = p.told
          /\ r.reading = p.reading /\ r.joined = p.joined /\ r.disconnecting = p.disconnecting
      BY <2>2 DEF InHand, SessionRecord
    <2> HIDE DEF r
    <2>4. InHand(s, r, srv, m, state)
      BY <2>2, <2>3 DEF InHand, Member, OnItsWayOut
    <2>5. Sound(s, ReadEnd(r), srv, m, state)
      BY <1>0, <2>2, <2>3, <2>4, ReadEndFacts
    <2>6. /\ r2 \in SessionRecord /\ r2.inbox = r.inbox /\ r2.q = r.q /\ r2.phase = "readend"
          /\ r2.state = r.state /\ r2.old = r.old /\ r2.told = r.told
          /\ r2.reading = r.reading /\ r2.joined = r.joined /\ r2.disconnecting = r.disconnecting
          /\ r.inbox \in Seq(Message)
      BY <2>3 DEF SessionRecord, Message
    <2> HIDE DEF r2
    <2>7. Sound(s, r2, srv, m, state)
      <3>1. Consistent(r2)
        BY <2>2, <2>3, <2>4, <2>6 DEF Consistent, InHand
      <3>2. Carried(s, r2, srv)
        BY <1>0, <2>4, <2>6, NeverFacts DEF Carried, Guarded, InHand
      <3>3. Member(r2, m) /\ ~m
        BY <2>2, <2>3, <2>4, <2>6 DEF Member, InHand
      <3> QED
        BY <2>6, <3>1, <3>2, <3>3 DEF Sound
    <2> QED
      BY <2>1, <2>2, <2>5, <2>7, SessionStep DEF r2, r, p
  <1>7. ASSUME NEW b \in BOOLEAN, RunDisconnect(s, b) PROVE IInv'
    <2>1. CASE Ses(s, "disconnect") /\ Becomes(s, Disconnect(p))
      <3>1. s \in cnt /\ Sound(s, p, srv, m, state)
        BY <2>1, SesTakes DEF Back
      <3>2. Sound(s, Disconnect(p), srv, m, state)
        BY <1>0, <3>1, DisconnectFacts
      <3> QED
        BY <1>7, <2>1, <3>1, <3>2, SessionStep DEF RunDisconnect
    <2>2. CASE Ses(s, "disconnect_guarded") /\ Becomes(s, DisconnectGuarded(p, b))
      <3>1. s \in cnt /\ InHand(s, p, srv, m, state)
        BY <2>2, SesTakes DEF Back
      <3>2. Sound(s, DisconnectGuarded(p, b), srv, m, state)
        BY <1>0, <3>1, DisconnectGuardedFacts
      <3> QED
        BY <1>7, <2>2, <3>1, <3>2, SessionStep DEF RunDisconnect
    <2> QED
      BY <1>7, <2>1, <2>2 DEF RunDisconnect
  <1> QED
    BY <1>1, <1>2, <1>3, <1>4, <1>5, <1>6, <1>7

(* The event at the front of the queue.                                    *)
LEMMA EventSteps ==
    ASSUME IInv, NEW s \in Session, NEW fails \in BOOLEAN, RunEvent(s, fails)
    PROVE  IInv'
  <1> DEFINE m == s \in map
             r == ses[s]
             away == [r EXCEPT !.phase = "away"]
  <1>1. r.phase = "run" /\ srv \in Seq(Handler) /\ Sound(s, r, srv, m, state)
    BY SessionFacts DEF RunEvent
  <1>2. InHand(s, r, srv, m, state)
    BY <1>1, RunningHasGuard
  <1>3. s \in cnt
    BY <1>1, ExistsIfNotBlank, BlankFacts
  <1>4. /\ away.phase = "away" /\ away.q = r.q /\ away.state = r.state
        /\ InHand(s, away, srv, m, state)
    <2> HIDE DEF r
    <2>1. /\ away \in SessionRecord /\ away.phase = "away" /\ away.q = r.q /\ away.inbox = r.inbox
          /\ away.state = r.state /\ away.old = r.old /\ away.told = r.told
          /\ away.reading = r.reading /\ away.joined = r.joined
          /\ away.disconnecting = r.disconnecting
      BY <1>2 DEF InHand, SessionRecord
    <2> HIDE DEF away
    <2> QED
      BY <1>2, <2>1 DEF InHand, Member, OnItsWayOut
  <1>5. CASE Head(r.q) = "connect"
    <2>1. Becomes(s, away) /\ srv' = Append(srv, H("connect", s))
      BY <1>5 DEF RunEvent
    <2>2. Sound(s, away, Append(srv, H("connect", s)), m, state)
      BY <1>1, <1>4, <1>5, GiveFacts
    <2> QED
      BY <1>3, <2>1, <2>2, SessionGives
  <1>6. CASE Head(r.q) = "join" /\ r.state = "started" /\ r.sock
    <2>1. Becomes(s, away) /\ srv' = Append(srv, H("emplace", s))
      BY <1>6 DEF RunEvent
    <2>2. Sound(s, away, Append(srv, H("emplace", s)), m, state)
      BY <1>1, <1>4, <1>6, GiveFacts
    <2> QED
      BY <1>3, <2>1, <2>2, SessionGives
  <1>7. CASE Head(r.q) = "send" /\ r.state = "started" /\ r.sock
    <2> DEFINE u == [r EXCEPT !.phase = "write"]
    <2>1. Becomes(s, u) /\ UNCHANGED srv
      BY <1>7 DEF RunEvent
    <2> HIDE DEF r
    <2>2. /\ u \in SessionRecord /\ u.phase = "write" /\ u.q = r.q /\ u.inbox = r.inbox
          /\ u.state = r.state /\ u.old = r.old /\ u.told = r.told
          /\ u.reading = r.reading /\ u.joined = r.joined
          /\ u.disconnecting = r.disconnecting /\ r.inbox \in Seq(Message)
      BY <1>2 DEF InHand, SessionRecord, Message
    <2> HIDE DEF u
    <2>3. Sound(s, u, srv, m, state)
      <3>1. Consistent(u)
        BY <1>2, <1>7, <2>2 DEF Consistent, InHand
      <3>2. Carried(s, u, srv)
        BY <1>1, <1>2, <2>2, NeverFacts DEF Carried, Guarded, InHand
      <3> QED
        BY <1>2, <2>2, <3>1, <3>2 DEF Sound, InHand, Member, OnItsWayOut
    <2> QED
      BY <1>3, <2>1, <2>3, SessionStep DEF u, r
  <1>8. CASE Head(r.q) = "send" /\ ~(r.state = "started" /\ r.sock)
    <2>1. Becomes(s, PassOn(r)) /\ UNCHANGED srv
      BY <1>8 DEF RunEvent
    <2>2. Sound(s, PassOn(r), srv, m, state)
      BY <1>1, <1>2, <1>8, PassOnFacts
    <2> QED
      BY <1>3, <2>1, <2>2, SessionStep
  <1>9. CASE Head(r.q) = "disconnect"
    <2>1. Becomes(s, Shutdown(r, fails)) /\ UNCHANGED srv
      BY <1>9 DEF RunEvent
    <2>2. Sound(s, Shutdown(r, fails), srv, m, state)
      BY <1>1, <1>2, ShutdownFacts
    <2> QED
      BY <1>3, <2>1, <2>2, SessionStep
  <1>10. CASE Head(r.q) \notin {"connect", "send", "disconnect"}
              /\ ~(Head(r.q) = "join" /\ r.state = "started" /\ r.sock)
    <2>1. Becomes(s, DisconnectGuarded(r, fails)) /\ UNCHANGED srv
      BY <1>10 DEF RunEvent
    <2>2. Sound(s, DisconnectGuarded(r, fails), srv, m, state)
      BY <1>1, <1>2, DisconnectGuardedFacts
    <2> QED
      BY <1>3, <2>1, <2>2, SessionStep
  <1> QED
    BY <1>5, <1>6, <1>7, <1>8, <1>9, <1>10

(* Reads, writes and timers complete.                                      *)
LEMMA CompletionSteps ==
    ASSUME IInv, NEW s \in Session,
           \/ ReadDone(s) \/ ShutdownTimer(s) \/ ReadEndTimer(s) \/ TimedOut(s)
           \/ \E ok \in BOOLEAN : WriteDone(s, ok)
    PROVE  IInv'
  <1> DEFINE m == s \in map
             r == ses[s]
  <1>1. srv \in Seq(Handler) /\ r \in SessionRecord /\ Sound(s, r, srv, m, state)
    BY SessionFacts
  <1>2. (r.phase # "idle" \/ r.reading \/ r.timer \/ r.silence) => s \in cnt
    BY ExistsIfNotBlank, BlankFacts
  <1>3. CASE ReadDone(s)
    <2> DEFINE u == [r EXCEPT !.reading = FALSE]
    <2>1. /\ r.reading /\ UNCHANGED srv
          /\ Becomes(s, IF u.state = "started" THEN Disconnect(u) ELSE u)
      BY <1>3 DEF ReadDone
    <2>2. Sound(s, u, srv, m, state)
      <3> HIDE DEF r
      <3>1. /\ u \in SessionRecord /\ u.phase = r.phase /\ u.q = r.q /\ u.inbox = r.inbox
            /\ u.state = r.state /\ u.old = r.old /\ u.told = r.told
            /\ u.reading = FALSE /\ u.joined = r.joined /\ u.disconnecting = r.disconnecting
        BY <1>1 DEF SessionRecord
      <3> HIDE DEF u
      <3> QED
        BY <1>1, <3>1 DEF Sound, Consistent, Carried, Guarded, Member, OnItsWayOut
    <2> HIDE DEF u
    <2>3. Sound(s, Disconnect(u), srv, m, state)
      BY <1>1, <2>2, DisconnectFacts
    <2> QED
      BY <1>2, <2>1, <2>2, <2>3, SessionStep
  <1>4. CASE ShutdownTimer(s)
    <2>1. r.phase \in {"shutdown", "shut"} /\ Becomes(s, Close(r)) /\ UNCHANGED srv
      BY <1>4 DEF ShutdownTimer
    <2>2. InHand(s, r, srv, m, state) /\ r.disconnecting
      BY <1>1, <2>1, RunningHasGuard DEF Sound, Consistent
    <2>3. Sound(s, Close(r), srv, m, state)
      BY <1>1, <2>2, CloseFacts
    <2> QED
      BY <1>2, <2>1, <2>3, SessionStep
  <1>5. CASE ReadEndTimer(s)
    <2>1. r.phase = "readend" /\ Becomes(s, ReadEnd(r)) /\ UNCHANGED srv
      BY <1>5 DEF ReadEndTimer
    <2>2. InHand(s, r, srv, m, state) /\ r.state = "stopped"
      BY <1>1, <2>1, RunningHasGuard DEF Sound, Consistent
    <2>3. Sound(s, ReadEnd(r), srv, m, state)
      BY <1>1, <2>2, ReadEndFacts
    <2> QED
      BY <1>2, <2>1, <2>3, SessionStep
  <1>6. CASE TimedOut(s)
    <2> DEFINE a == [r EXCEPT !.timer = FALSE]
               b == [r EXCEPT !.silence = FALSE]
    <2>1. s \in cnt /\ UNCHANGED srv /\ (Becomes(s, Disconnect(a)) \/ Becomes(s, Disconnect(b)))
      BY <1>2, <1>6 DEF TimedOut
    <2>2. Sound(s, a, srv, m, state) /\ Sound(s, b, srv, m, state)
      <3> HIDE DEF r
      <3>1. /\ a \in SessionRecord /\ a.phase = r.phase /\ a.q = r.q /\ a.inbox = r.inbox
            /\ a.state = r.state /\ a.old = r.old /\ a.told = r.told
            /\ a.reading = r.reading /\ a.joined = r.joined /\ a.disconnecting = r.disconnecting
        BY <1>1 DEF SessionRecord
      <3>2. /\ b \in SessionRecord /\ b.phase = r.phase /\ b.q = r.q /\ b.inbox = r.inbox
            /\ b.state = r.state /\ b.old = r.old /\ b.told = r.told
            /\ b.reading = r.reading /\ b.joined = r.joined /\ b.disconnecting = r.disconnecting
        BY <1>1 DEF SessionRecord
      <3> HIDE DEF a, b
      <3>3. Sound(s, a, srv, m, state)
        BY <1>1, <3>1 DEF Sound, Consistent, Carried, Guarded, Member, OnItsWayOut
      <3>4. Sound(s, b, srv, m, state)
        BY <1>1, <3>2 DEF Sound, Consistent, Carried, Guarded, Member, OnItsWayOut
      <3> QED
        BY <3>3, <3>4
    <2> HIDE DEF a, b
    <2>3. Sound(s, Disconnect(a), srv, m, state) /\ Sound(s, Disconnect(b), srv, m, state)
      BY <1>1, <2>2, DisconnectFacts
    <2> QED
      BY <2>1, <2>3, SessionStep
  <1>7. ASSUME NEW ok \in BOOLEAN, WriteDone(s, ok) PROVE IInv'
    <2> DEFINE u == IF ok \/ r.state # "started" THEN r ELSE Disconnect(r)
    <2>1. r.phase = "write" /\ UNCHANGED srv /\ Becomes(s, PassOn(u))
      BY <1>7 DEF WriteDone
    <2>2. InHand(s, r, srv, m, state) /\ Head(r.q) = "send"
      BY <1>1, <2>1, RunningHasGuard DEF Sound, Consistent
    <2>3. InHand(s, Disconnect(r), srv, m, state) /\ Head(Disconnect(r).q) = Head(r.q)
      BY <1>1, <2>1, <2>2, DisconnectFacts
    <2>4. InHand(s, u, srv, m, state) /\ Head(u.q) = "send"
      BY <2>2, <2>3
    <2> HIDE DEF u
    <2>5. Sound(s, PassOn(u), srv, m, state)
      BY <1>1, <2>4, PassOnFacts
    <2> QED
      BY <1>2, <2>1, <2>5, SessionStep
  <1> QED
    BY <1>3, <1>4, <1>5, <1>6, <1>7

(* A session that a step does not touch; the step may take a handler from  *)
(* the server's queue or add one, which is not the session's.              *)
Elsewhere(t) ==
    /\ UNCHANGED ses[t]
    /\ t \in map' <=> t \in map
    /\ t \in cnt' <=> t \in cnt
    /\ state' \in {state, "started"} \/ t \notin map \/ OnItsWayOut(ses[t])

LEMMA SessionKept ==
    ASSUME IInv, NEW t \in Session, Elsewhere(t),
           \/ UNCHANGED srv
           \/ \E h \in Handler :
                 /\ h \notin ToServer(t) \cup Accepts(t)
                 /\ srv' = Append(srv, h) \/ (srv # <<>> /\ Head(srv) = h /\ srv' = Tail(srv))
    PROVE  SessionInv(t)'
  <1>1. /\ srv \in Seq(Handler) /\ Sound(t, ses[t], srv, t \in map, state)
        /\ Counted(t, ses[t], srv, t \in cnt)
    BY SessionFacts DEF IInv, SessionInv
  <1>2. Sound(t, ses[t], srv', t \in map, state) /\ Counted(t, ses[t], srv', t \in cnt)
    BY <1>1, OtherHandlers, OtherAccepts
  <1>3. /\ ses'[t] = ses[t] /\ (t \in map') = (t \in map) /\ (t \in cnt') = (t \in cnt)
        /\ state' \in {state, "started"} \/ t \notin map \/ OnItsWayOut(ses[t])
    BY DEF Elsewhere
  <1>4. Sound(t, ses[t], srv', t \in map, state')
    BY <1>2, <1>3 DEF Sound
  <1> QED
    BY <1>2, <1>3, <1>4 DEF SessionInv

LEMMA DieStep ==
    ASSUME IInv, NEW s \in Session, Die(s)
    PROVE  IInv'
  <1> DEFINE h == H("exec", Nobody)
  <1>1. /\ s \in cnt /\ cnt' = cnt \ {s} /\ UNCHANGED restVars
        /\ ses' = [ses EXCEPT ![s] = Blank]
        /\ ses \in [Session -> SessionRecord] /\ srv \in Seq(Handler)
        /\ srv' = IF ~counter /\ cnt = {s} THEN Append(srv, h) ELSE srv
    BY SessionFacts, Typing DEF IInv, Die, restVars
  <1>2. /\ s \notin map /\ ses[s].inbox = <<>> /\ ses[s].q = <<>>
        /\ \A c \in Caller : s \notin hold[c]
    BY DEF Die, Referenced
  <1>3. h \in Handler /\ \A t : h \notin ToServer(t) \cup Accepts(t)
    BY HandlerFacts DEF Handler, H
  <1>4. Blank \in SessionRecord
    BY DEF Blank, SessionRecord
  <1>5. TypeOK'
    <2>1. srv' \in Seq(Handler)
      BY <1>1, <1>3, AppendProperties
    <2> QED
      BY <1>1, <1>4, <2>1 DEF IInv, TypeOK, restVars, callVars, poolVars, accVars, Handler
  <1> HIDE DEF h
  <1>6. ASSUME NEW t \in Session PROVE SessionInv(t)'
    <2>1. CASE t # s
      <3>1. Elsewhere(t)
        BY <1>1, <2>1 DEF Elsewhere, restVars
      <3> QED
        BY <1>1, <1>3, <3>1, SessionKept
    <2>2. CASE t = s
      <3>1. Sound(s, ses[s], srv, s \in map, state) /\ Counted(s, ses[s], srv, s \in cnt)
        BY DEF IInv, SessionInv
      <3>2. Never(srv, ToServer(s)) /\ Never(srv, Accepts(s))
        BY <1>1, <1>2, <3>1 DEF Sound, Consistent, Carried, Guarded, Counted
      <3>3. srv' \in Seq(Handler) /\ Never(srv', ToServer(s)) /\ Never(srv', Accepts(s))
        BY <1>1, <1>3, <3>2, AppendFacts
      <3>4. Sound(s, Blank, srv', FALSE, state)
        <4>1. Consistent(Blank) /\ Member(Blank, FALSE)
          BY BlankFacts, EmptyFacts DEF Consistent, Member
        <4>2. Carried(s, Blank, srv')
          BY <3>3, <1>4, BlankFacts, EmptyFacts, OnceFacts DEF Carried, Guarded, ToServer
        <4> QED
          BY <1>4, <4>1, <4>2 DEF Sound
      <3>5. Counted(s, Blank, srv', FALSE)
        BY <3>3 DEF Counted
      <3>6. ses'[s] = Blank /\ (s \in map') = FALSE /\ (s \in cnt') = FALSE /\ state' = state
        BY <1>1, <1>2 DEF restVars
      <3> QED
        BY <2>2, <3>4, <3>5, <3>6 DEF SessionInv
    <2> QED
      BY <2>1, <2>2
  <1>7. Held' /\ PoolInv'
    BY <1>1, <1>2 DEF IInv, Held, PoolInv, Waiting, restVars, callVars, poolVars, accVars
  <1>8. ServerInv'
    <2>0. ServerInv /\ UNCHANGED <<state, map, counter, reg, waiting>> /\ cnt # {}
      BY <1>1 DEF IInv, restVars, poolVars, accVars
    <2>1. Never(srv, {h})
      BY <2>0 DEF ServerInv, ExecOnce, h
    <2>2. CASE ~counter /\ cnt = {s}
      <3>1. srv' = Append(srv, h) /\ cnt' = {}
        BY <1>1, <2>2
      <3>2. state = "stopping"
        BY <1>5, <2>0, <2>2 DEF ServerInv, NoneOutlives, CounterIsHeld, IInv, TypeOK
      <3>3. map = {}
        BY <1>2, <2>2 DEF IInv, Held
      <3>4. Once(srv', {h})
        BY <1>1, <1>3, <2>1, <3>1, AppendFacts
      <3>5. StopFollows(srv')
        BY <1>1, <1>3, <2>0, <3>1, HandlerFacts, FollowsFacts DEF ServerInv, h
      <3> QED
        BY <2>0, <2>2, <3>1, <3>2, <3>3, <3>4, <3>5
           DEF ServerInv, ExecOnce, NoneOutlives, CounterIsHeld, StoppingWaits, Registered, h
    <2>3. CASE ~(~counter /\ cnt = {s})
      <3>1. srv' = srv
        BY <1>1, <2>3
      <3> QED
        BY <1>1, <2>0, <2>1, <3>1
           DEF ServerInv, ExecOnce, NoneOutlives, CounterIsHeld, StoppingWaits, Registered, h
    <2> QED
      BY <2>2, <2>3
  <1> QED
    BY <1>5, <1>6, <1>7, <1>8 DEF IInv

LEMMA SesReturnsStep ==
    ASSUME IInv, NEW s \in Session, SesReturns(s)
    PROVE  IInv'
  <1>1. /\ UNCHANGED <<callVars, pool, reg, srv, state, counter, cnt, accVars, map, ses>>
        /\ ctx' = ctx \ {s} /\ Nobody \notin ctx
    BY DEF SesReturns, IInv, PoolInv
  <1>2. TypeOK'
    BY <1>1 DEF IInv, TypeOK, callVars, accVars
  <1>3. ASSUME NEW t \in Session PROVE SessionInv(t)'
    BY <1>1, SessionKept DEF Elsewhere
  <1>4. Held' /\ ServerInv'
    BY <1>1 DEF IInv, Held, ServerInv, ExecOnce, NoneOutlives, CounterIsHeld, StoppingWaits,
                Registered, callVars, accVars
  <1>5. PoolInv'
    BY <1>1 DEF IInv, PoolInv, Waiting, callVars
  <1> QED
    BY <1>2, <1>3, <1>4, <1>5 DEF IInv

-----------------------------------------------------------------------------
(* Steps of the server.                                                    *)

(* A handler that is no session's is taken from the server's queue.        *)
LEMMA ServerTakesOwn ==
    ASSUME IInv, NEW k \in {"start", "stop", "unreg", "cancel", "exec", "accept_again"}, NEW x,
           Srv(k, x)
    PROVE  /\ srv \in Seq(Handler) /\ srv # <<>> /\ Head(srv) = H(k, x) /\ H(k, x) \in Handler
           /\ Tail(srv) \in Seq(Handler) /\ StopFollows(Tail(srv))
           /\ \A t : H(k, x) \notin ToServer(t) \cup Accepts(t)
           /\ \A t \in Session : /\ Sound(t, ses[t], Tail(srv), t \in map, state)
                                 /\ Counted(t, ses[t], Tail(srv), t \in cnt)
  <1>1. srv \in Seq(Handler) /\ srv # <<>> /\ Head(srv) = H(k, x) /\ StopFollows(srv)
    BY Typing DEF IInv, Srv, ServerInv
  <1>2. H(k, x) \in Handler /\ Tail(srv) \in Seq(Handler)
    BY <1>1, TailFacts
  <1>3. StopFollows(Tail(srv))
    BY <1>1, FollowsFacts
  <1>4. \A t : H(k, x) \notin ToServer(t) \cup Accepts(t)
    BY HandlerFacts
  <1>5. ASSUME NEW t \in Session
        PROVE  /\ Sound(t, ses[t], Tail(srv), t \in map, state)
               /\ Counted(t, ses[t], Tail(srv), t \in cnt)
    <2>1. Sound(t, ses[t], srv, t \in map, state) /\ Counted(t, ses[t], srv, t \in cnt)
      BY DEF IInv, SessionInv
    <2> QED
      BY <1>1, <1>2, <1>4, <2>1, OtherHandlers, OtherAccepts
  <1> QED
    BY <1>1, <1>2, <1>3, <1>4, <1>5

(* The sweep leaves every session of the map on its way out.               *)
LEMMA StopSessionFacts ==
    ASSUME NEW s \in Session, NEW r, NEW v \in Seq(Handler), NEW m, NEW st,
           Sound(s, r, v, m, st), m
    PROVE  /\ Sound(s, StopSession(r), v, m, "stopping")
           /\ StopSession(r).told = r.told /\ StopSession(r) \in SessionRecord
  <1>1. CASE r.state \in {"stopped", "stopping"}
    <2>1. r.disconnecting /\ StopSession(r) = r
      BY <1>1 DEF Sound, Member, Consistent, StopSession
    <2> QED
      BY <2>1 DEF Sound, OnItsWayOut
  <1>2. CASE r.state \notin {"stopped", "stopping"}
    <2>1. StopSession(r) = Post(r, "stop") /\ "stop" \in Message /\ "stop" \notin Back
      BY <1>2 DEF StopSession, Message, Back
    <2>2. Sound(s, Post(r, "stop"), v, m, st)
      BY <2>1, PostFacts
    <2>3. /\ Post(r, "stop") \in SessionRecord /\ Post(r, "stop").told = r.told
          /\ Contains(Post(r, "stop").inbox, "stop")
      BY <2>1, PostFields DEF Sound
    <2> QED
      BY <2>1, <2>2, <2>3 DEF Sound, OnItsWayOut
  <1> QED
    BY <1>1, <1>2

LEMMA PostStopFacts ==
    ASSUME IInv, NEW rest \in Seq(Handler), StopFollows(rest),
           Never(rest, {H("exec", Nobody)}),
           \A t \in Session : /\ Sound(t, ses[t], rest, t \in map, state)
                              /\ Counted(t, ses[t], rest, t \in cnt),
           PostStop(rest), UNCHANGED <<map, cnt>>
    PROVE  /\ \A t \in Session : SessionInv(t)' /\ ses'[t].told = ses[t].told
           /\ ServerInv'
           /\ srv' \in Seq(Handler) /\ ses' \in [Session -> SessionRecord]
           /\ state' = "stopping" /\ counter' = FALSE /\ waiting' = TRUE
  <1> DEFINE h == H("exec", Nobody)
  <1>1. /\ state' = "stopping" /\ counter' = FALSE /\ waiting' = TRUE
        /\ ses \in [Session -> SessionRecord]
        /\ ses' = [t \in Session |-> IF t \in map THEN StopSession(ses[t]) ELSE ses[t]]
        /\ srv' = IF cnt = {} THEN Append(rest, h) ELSE rest
    BY Typing DEF IInv, PostStop
  <1>2. h \in Handler /\ h # H("unreg", Nobody) /\ \A t : h \notin ToServer(t) \cup Accepts(t)
    BY HandlerFacts DEF Handler, H
  <1>3. /\ srv' \in Seq(Handler) /\ StopFollows(srv')
        /\ cnt = {} => Once(srv', {h})
        /\ cnt # {} => Never(srv', {h})
    BY <1>1, <1>2, AppendFacts, FollowsFacts
  <1> HIDE DEF h
  <1>4. ASSUME NEW t \in Session
        PROVE  /\ SessionInv(t)' /\ ses'[t].told = ses[t].told
               /\ ses'[t] \in SessionRecord
    <2>1. Sound(t, ses[t], srv', t \in map, state) /\ Counted(t, ses[t], srv', t \in cnt)
      BY <1>1, <1>2, OtherHandlers, OtherAccepts
    <2>2. CASE t \in map
      <3>1. ses'[t] = StopSession(ses[t]) /\ t \in cnt
        BY <1>1, <2>2 DEF IInv, Held
      <3>2. /\ Sound(t, ses'[t], srv', t \in map, "stopping")
            /\ ses'[t].told = ses[t].told /\ ses'[t] \in SessionRecord
        BY <1>3, <2>1, <2>2, <3>1, StopSessionFacts
      <3>3. Counted(t, ses'[t], srv', t \in cnt)
        BY <2>1, <3>1 DEF Counted
      <3> QED
        BY <1>1, <3>2, <3>3 DEF SessionInv
    <2>3. CASE t \notin map
      <3>1. ses'[t] = ses[t] /\ ses[t] \in SessionRecord
        BY <1>1, <2>3
      <3>2. Sound(t, ses[t], srv', t \in map, "stopping")
        BY <2>1, <2>3 DEF Sound
      <3> QED
        BY <1>1, <2>1, <3>1, <3>2 DEF SessionInv
    <2> QED
      BY <2>2, <2>3
  <1>5. ses' \in [Session -> SessionRecord]
    <2>1. /\ ses' = [t \in Session |-> ses'[t]]
          /\ \A t \in Session : ses'[t] \in SessionRecord
      BY <1>1, <1>4
    <2> QED
      BY <2>1
  <1>6. ServerInv'
    <2>1. cnt = {} => map = {}
      BY DEF IInv, Held
    <2> QED
      BY <1>1, <1>3, <2>1
         DEF ServerInv, ExecOnce, NoneOutlives, CounterIsHeld, StoppingWaits, Registered, h
  <1> QED
    BY <1>1, <1>3, <1>4, <1>5, <1>6

LEMMA StartStep ==
    ASSUME IInv, NEW c \in Caller, NEW ok \in BOOLEAN, RunStart(c, ok)
    PROVE  IInv'
  <1> DEFINE h == H("start", c)
             rest == Tail(srv)
  <1>1. /\ srv \in Seq(Handler) /\ srv # <<>> /\ Head(srv) = h /\ h \in Handler
        /\ rest \in Seq(Handler) /\ StopFollows(rest)
        /\ \A t : h \notin ToServer(t) \cup Accepts(t)
        /\ \A t \in Session : /\ Sound(t, ses[t], rest, t \in map, state)
                              /\ Counted(t, ses[t], rest, t \in cnt)
    BY ServerTakesOwn DEF RunStart
  <1>2. h \notin {H("unreg", Nobody), H("exec", Nobody), H("stop", Nobody)}
    BY HandlerFacts
  <1>3. /\ UNCHANGED <<job, hold, pool, ctx, cnt, map>>
        /\ pc' = [pc EXCEPT ![c] = "idle"]
        /\ Nobody \in ctx
    BY DEF RunStart, Goto, Srv
  <1>4. Held'
    BY <1>3 DEF IInv, Held
  <1>5. PoolInv'
    <2>1. \A d \in Caller : Waiting(d)' => Waiting(d) /\ (pc'[d] = "pool_wait_others" <=> pc[d] = "pool_wait_others")
      BY <1>3 DEF Waiting, IInv, TypeOK
    <2> QED
      BY <1>3, <2>1 DEF IInv, PoolInv, Waiting
  <1> HIDE DEF h, rest
  <1>6. CASE state # "stopped"
    <2>1. srv' = rest /\ UNCHANGED <<reg, state, counter, accVars, ses>>
      BY <1>6 DEF RunStart, rest
    <2>2. TypeOK'
      BY <1>1, <1>3, <2>1 DEF IInv, TypeOK, Handler, accVars
    <2>3. ASSUME NEW t \in Session PROVE SessionInv(t)'
      BY <1>1, <1>3, <2>1 DEF SessionInv
    <2>4. ServerInv'
      BY <1>1, <1>2, <1>3, <2>1, ServerKeeps DEF accVars, rest
    <2> QED
      BY <1>4, <1>5, <2>2, <2>3, <2>4 DEF IInv
  <1>7. CASE state = "stopped"
    <2>0. reg' = TRUE
      BY <1>7 DEF RunStart
    <2>1. cnt = {} /\ map = {} /\ Never(rest, {H("exec", Nobody)})
      <3>1. cnt = {} /\ map = {} /\ Never(srv, {H("exec", Nobody)})
        BY <1>7 DEF IInv, ServerInv, ExecOnce, NoneOutlives
      <3> QED
        BY <1>1, <3>1, TailFacts DEF rest
    <2>2. CASE ok
      <3>1. /\ state' = "started" /\ counter' = TRUE /\ accepting' = TRUE /\ srv' = rest
            /\ UNCHANGED <<acctimer, waiting, ses>>
        BY <1>7, <2>2 DEF RunStart, rest
      <3>2. TypeOK'
        BY <1>1, <1>3, <2>0, <3>1 DEF IInv, TypeOK, Handler
      <3>3. ASSUME NEW t \in Session PROVE SessionInv(t)'
        <4>1. Sound(t, ses[t], rest, t \in map, "started")
          BY <1>1 DEF Sound
        <4> QED
          BY <1>1, <1>3, <3>1, <4>1 DEF SessionInv
      <3>4. ServerInv'
        BY <1>1, <2>0, <2>1, <3>1
           DEF ServerInv, ExecOnce, NoneOutlives, CounterIsHeld, StoppingWaits, Registered
      <3> QED
        BY <1>4, <1>5, <3>2, <3>3, <3>4 DEF IInv
    <2>3. CASE ~ok
      <3>1. PostStop(rest) /\ UNCHANGED <<accepting, acctimer>>
        BY <1>7, <2>3 DEF RunStart, rest
      <3>2. /\ \A t \in Session : SessionInv(t)'
            /\ ServerInv' /\ srv' \in Seq(Handler) /\ ses' \in [Session -> SessionRecord]
            /\ state' = "stopping" /\ counter' = FALSE /\ waiting' = TRUE
        BY <1>1, <1>3, <2>1, <3>1, PostStopFacts
      <3>3. TypeOK'
        BY <1>3, <2>0, <3>1, <3>2 DEF IInv, TypeOK, Handler
      <3> QED
        BY <1>4, <1>5, <3>2, <3>3 DEF IInv
    <2> QED
      BY <2>2, <2>3
  <1> QED
    BY <1>6, <1>7

LEMMA UnregStep ==
    ASSUME IInv, RunUnreg
    PROVE  IInv'
  <1> DEFINE rest == Tail(srv)
  <1>1. /\ srv \in Seq(Handler) /\ srv # <<>> /\ Head(srv) = H("unreg", Nobody)
        /\ rest \in Seq(Handler) /\ StopFollows(rest)
        /\ \A t \in Session : /\ Sound(t, ses[t], rest, t \in map, state)
                              /\ Counted(t, ses[t], rest, t \in cnt)
    BY ServerTakesOwn DEF RunUnreg
  <1>2. /\ UNCHANGED <<callVars, pool, ctx, state, counter, cnt, accVars, map, ses>>
        /\ reg' = FALSE /\ srv' = rest
    BY DEF RunUnreg
  <1>3. Contains(rest, H("stop", Nobody))
    BY <1>1, FollowsFacts DEF IInv, ServerInv
  <1>4. /\ Never(rest, {H("exec", Nobody)}) <=> Never(srv, {H("exec", Nobody)})
        /\ Once(rest, {H("exec", Nobody)}) <=> Once(srv, {H("exec", Nobody)})
    BY <1>1, TailFacts, HandlerFacts
  <1> HIDE DEF rest
  <1>5. TypeOK'
    BY <1>1, <1>2 DEF IInv, TypeOK, Handler, accVars, callVars
  <1>6. ASSUME NEW t \in Session PROVE SessionInv(t)'
    BY <1>1, <1>2 DEF SessionInv
  <1>7. ServerInv'
    BY <1>1, <1>2, <1>3, <1>4 DEF IInv, ServerInv, ExecOnce, NoneOutlives, CounterIsHeld,
                                  StoppingWaits, Registered, accVars
  <1>8. Held' /\ PoolInv'
    BY <1>2 DEF IInv, Held, PoolInv, Waiting, callVars
  <1> QED
    BY <1>5, <1>6, <1>7, <1>8 DEF IInv

LEMMA StopStep ==
    ASSUME IInv, RunStop
    PROVE  IInv'
  <1> DEFINE h == H("stop", Nobody)
             rest == Tail(srv)
  <1>1. /\ srv \in Seq(Handler) /\ srv # <<>> /\ Head(srv) = h /\ h \in Handler
        /\ rest \in Seq(Handler) /\ StopFollows(rest)
        /\ \A t \in Session : /\ Sound(t, ses[t], rest, t \in map, state)
                              /\ Counted(t, ses[t], rest, t \in cnt)
    BY ServerTakesOwn DEF RunStop
  <1>2. UNCHANGED <<callVars, poolVars, cnt, accepting, acctimer, map>> /\ Nobody \in ctx
    BY DEF RunStop, Srv
  <1>3. /\ Never(rest, {H("exec", Nobody)}) <=> Never(srv, {H("exec", Nobody)})
        /\ Once(rest, {H("exec", Nobody)}) <=> Once(srv, {H("exec", Nobody)})
    BY <1>1, TailFacts, HandlerFacts
  <1>4. Held'
    BY <1>2 DEF IInv, Held, callVars
  <1>5. PoolInv'
    BY <1>2 DEF IInv, PoolInv, Waiting, callVars, poolVars
  <1> HIDE DEF h, rest
  <1>6. CASE state = "started"
    <2>1. PostStop(rest)
      BY <1>6 DEF RunStop, rest
    <2>2. Never(rest, {H("exec", Nobody)})
      BY <1>3, <1>6 DEF IInv, ServerInv, ExecOnce
    <2>3. /\ \A t \in Session : SessionInv(t)'
          /\ ServerInv' /\ srv' \in Seq(Handler) /\ ses' \in [Session -> SessionRecord]
          /\ state' = "stopping" /\ counter' = FALSE /\ waiting' = TRUE
      BY <1>1, <1>2, <2>1, <2>2, PostStopFacts
    <2>4. TypeOK'
      BY <1>2, <2>3 DEF IInv, TypeOK, Handler, callVars, poolVars
    <2> QED
      BY <1>4, <1>5, <2>3, <2>4 DEF IInv
  <1>7. CASE state # "started"
    <2>1. srv' = rest /\ UNCHANGED <<state, waiting, counter, ses>>
      BY <1>7 DEF RunStop, rest
    <2>2. TypeOK'
      BY <1>1, <1>2, <2>1 DEF IInv, TypeOK, Handler, callVars, poolVars
    <2>3. ASSUME NEW t \in Session PROVE SessionInv(t)'
      BY <1>1, <1>2, <2>1 DEF SessionInv
    <2>4. ServerInv'
      BY <1>1, <1>2, <1>3, <1>7, <2>1
         DEF IInv, ServerInv, ExecOnce, NoneOutlives, CounterIsHeld, StoppingWaits, Registered
    <2> QED
      BY <1>4, <1>5, <2>2, <2>3, <2>4 DEF IInv
  <1> QED
    BY <1>6, <1>7

LEMMA ExecStep ==
    ASSUME IInv, RunExec
    PROVE  /\ IInv'
           /\ state = "stopping" /\ state' = "stopped" /\ cnt = {}
  <1> DEFINE h == H("exec", Nobody)
             rest == Tail(srv)
  <1>1. /\ srv \in Seq(Handler) /\ srv # <<>> /\ Head(srv) = h
        /\ rest \in Seq(Handler) /\ StopFollows(rest)
        /\ \A t \in Session : /\ Sound(t, ses[t], rest, t \in map, state)
                              /\ Counted(t, ses[t], rest, t \in cnt)
    BY ServerTakesOwn DEF RunExec
  <1>2. /\ UNCHANGED <<callVars, poolVars, counter, cnt, map, ses>> /\ srv' = rest
        /\ Nobody \in ctx /\ state' = IF state = "stopping" THEN "stopped" ELSE state
        /\ accepting' = FALSE /\ acctimer' = FALSE /\ waiting' = FALSE
    BY DEF RunExec, Srv
  <1>3. /\ ~Never(srv, {h})
        /\ Once(srv, {h}) => Never(rest, {h})
    BY <1>1, TailFacts
  <1> HIDE DEF rest
  <1>4. /\ state = "stopping" /\ state' = "stopped" /\ cnt = {} /\ map = {} /\ ~counter
        /\ Never(rest, {h})
    BY <1>2, <1>3 DEF IInv, ServerInv, ExecOnce
  <1>5. TypeOK'
    BY <1>1, <1>2, <1>4 DEF IInv, TypeOK, Handler, callVars, poolVars
  <1>6. ASSUME NEW t \in Session PROVE SessionInv(t)'
    <2>1. Sound(t, ses[t], rest, t \in map, "stopped")
      BY <1>1, <1>4 DEF Sound
    <2> QED
      BY <1>1, <1>2, <1>4, <2>1 DEF SessionInv
  <1>7. ServerInv'
    BY <1>1, <1>2, <1>4 DEF ServerInv, ExecOnce, NoneOutlives, CounterIsHeld, StoppingWaits, Registered
  <1>8. Held' /\ PoolInv'
    BY <1>2 DEF IInv, Held, PoolInv, Waiting, callVars, poolVars
  <1> QED
    BY <1>4, <1>5, <1>6, <1>7, <1>8 DEF IInv

(* stop() and a registered server's cancel post the same two handlers.     *)
LEMMA PostStopHandlers ==
    ASSUME NEW v \in Seq(Handler), StopFollows(v)
    PROVE  LET w == v \o <<H("unreg", Nobody), H("stop", Nobody)>>
           IN  /\ w \in Seq(Handler) /\ StopFollows(w) /\ Contains(w, H("stop", Nobody))
               /\ Never(w, {H("exec", Nobody)}) <=> Never(v, {H("exec", Nobody)})
               /\ Once(w, {H("exec", Nobody)}) <=> Once(v, {H("exec", Nobody)})
               /\ \A s \in Session : \A r, m, st : Sound(s, r, v, m, st) => Sound(s, r, w, m, st)
               /\ \A s \in Session : \A r, n : Counted(s, r, v, n) => Counted(s, r, w, n)
  <1> DEFINE a == H("unreg", Nobody)
             b == H("stop", Nobody)
             u == Append(v, a)
             w == v \o <<a, b>>
  <1>1. a \in Handler /\ b \in Handler /\ a # H("exec", Nobody) /\ b # H("exec", Nobody)
    BY HandlerFacts DEF Handler, H
  <1>2. \A t : a \notin ToServer(t) \cup Accepts(t) /\ b \notin ToServer(t) \cup Accepts(t)
    BY HandlerFacts
  <1>3. StopFollows(Append(u, b))
    BY FollowsFacts
  <1> HIDE DEF a, b
  <1>4. w = Append(u, b)
    BY <1>1, PostTwo
  <1>5. /\ u \in Seq(Handler)
        /\ Never(u, {H("exec", Nobody)}) <=> Never(v, {H("exec", Nobody)})
        /\ Once(u, {H("exec", Nobody)}) <=> Once(v, {H("exec", Nobody)})
    BY <1>1, AppendFacts
  <1>6. /\ w \in Seq(Handler) /\ Contains(w, b)
        /\ Never(w, {H("exec", Nobody)}) <=> Never(v, {H("exec", Nobody)})
        /\ Once(w, {H("exec", Nobody)}) <=> Once(v, {H("exec", Nobody)})
    <2> HIDE DEF u, w
    <2> QED
      BY <1>1, <1>4, <1>5, AppendFacts
  <1>7. ASSUME NEW s \in Session, NEW r, NEW m, NEW st, Sound(s, r, v, m, st)
        PROVE  Sound(s, r, w, m, st)
    <2>1. Sound(s, r, u, m, st)
      BY <1>1, <1>2, <1>7, OtherHandlers
    <2> HIDE DEF u, w
    <2> QED
      BY <1>1, <1>2, <1>4, <1>5, <2>1, OtherHandlers
  <1>8. ASSUME NEW s \in Session, NEW r, NEW n, Counted(s, r, v, n) PROVE Counted(s, r, w, n)
    <2>1. Counted(s, r, u, n)
      BY <1>1, <1>2, <1>8, OtherAccepts
    <2> HIDE DEF u, w
    <2> QED
      BY <1>1, <1>2, <1>4, <1>5, <2>1, OtherAccepts
  <1> QED
    BY <1>3, <1>4, <1>6, <1>7, <1>8 DEF a, b

LEMMA CancelStep ==
    ASSUME IInv, RunCancel
    PROVE  IInv'
  <1> DEFINE h == H("cancel", Nobody)
             rest == Tail(srv)
             more == rest \o <<H("unreg", Nobody), H("stop", Nobody)>>
  <1>1. /\ srv \in Seq(Handler) /\ srv # <<>> /\ Head(srv) = h /\ h \in Handler
        /\ rest \in Seq(Handler) /\ StopFollows(rest)
        /\ \A t \in Session : /\ Sound(t, ses[t], rest, t \in map, state)
                              /\ Counted(t, ses[t], rest, t \in cnt)
    BY ServerTakesOwn DEF RunCancel
  <1>2. /\ UNCHANGED <<callVars, pool, ctx, state, counter, cnt, accVars, map, ses>>
        /\ reg' = FALSE /\ srv' = IF reg THEN more ELSE rest
    BY DEF RunCancel
  <1>3. /\ Never(rest, {H("exec", Nobody)}) <=> Never(srv, {H("exec", Nobody)})
        /\ Once(rest, {H("exec", Nobody)}) <=> Once(srv, {H("exec", Nobody)})
        /\ Contains(srv, H("stop", Nobody)) => Contains(rest, H("stop", Nobody))
    BY <1>1, TailFacts, HandlerFacts
  <1> HIDE DEF rest
  <1>4. /\ more \in Seq(Handler) /\ StopFollows(more) /\ Contains(more, H("stop", Nobody))
        /\ Never(more, {H("exec", Nobody)}) <=> Never(rest, {H("exec", Nobody)})
        /\ Once(more, {H("exec", Nobody)}) <=> Once(rest, {H("exec", Nobody)})
        /\ \A s \in Session : \A r, m, st : Sound(s, r, rest, m, st) => Sound(s, r, more, m, st)
        /\ \A s \in Session : \A r, n : Counted(s, r, rest, n) => Counted(s, r, more, n)
    BY <1>1, PostStopHandlers
  <1> HIDE DEF more
  <1>5. TypeOK'
    BY <1>1, <1>2, <1>4 DEF IInv, TypeOK, Handler, accVars, callVars
  <1>6. ASSUME NEW t \in Session PROVE SessionInv(t)'
    <2>1. Sound(t, ses[t], srv', t \in map, state) /\ Counted(t, ses[t], srv', t \in cnt)
      BY <1>1, <1>2, <1>4
    <2> QED
      BY <1>2, <2>1 DEF SessionInv
  <1>7. ServerInv'
    <2>1. /\ StopFollows(srv') /\ (Contains(srv, H("stop", Nobody)) \/ reg => Contains(srv', H("stop", Nobody)))
          /\ Never(srv', {H("exec", Nobody)}) <=> Never(srv, {H("exec", Nobody)})
          /\ Once(srv', {H("exec", Nobody)}) <=> Once(srv, {H("exec", Nobody)})
      BY <1>1, <1>2, <1>3, <1>4
    <2> QED
      BY <1>2, <2>1 DEF IInv, ServerInv, ExecOnce, NoneOutlives, CounterIsHeld, StoppingWaits, Registered,
                        accVars
  <1>8. Held' /\ PoolInv'
    BY <1>2 DEF IInv, Held, PoolInv, Waiting, callVars
  <1> QED
    BY <1>5, <1>6, <1>7, <1>8 DEF IInv

LEMMA AcceptorSteps ==
    ASSUME IInv, RunAcceptAgain \/ AcceptorTimer \/ SrvReturns
    PROVE  IInv'
  <1>1. CASE RunAcceptAgain
    <2> DEFINE h == H("accept_again", Nobody)
    <2>1. /\ srv \in Seq(Handler) /\ srv # <<>> /\ Head(srv) = h /\ h \in Handler
          /\ Tail(srv) \in Seq(Handler)
          /\ \A t : h \notin ToServer(t) \cup Accepts(t)
      BY <1>1, ServerTakesOwn DEF RunAcceptAgain
    <2>2. /\ UNCHANGED <<callVars, poolVars, state, counter, cnt, acctimer, waiting, map, ses>>
          /\ srv' = Tail(srv) /\ accepting' = (accepting \/ state = "started")
      BY <1>1 DEF RunAcceptAgain
    <2>3. h \notin {H("unreg", Nobody), H("exec", Nobody), H("stop", Nobody)}
      BY HandlerFacts
    <2> HIDE DEF h
    <2>4. TypeOK'
      BY <2>1, <2>2 DEF IInv, TypeOK, Handler, callVars, poolVars
    <2>5. ASSUME NEW t \in Session PROVE SessionInv(t)'
      BY <2>1, <2>2, SessionKept DEF Elsewhere
    <2>6. ServerInv'
      BY <2>1, <2>2, <2>3, ServerKeeps DEF poolVars
    <2>7. Held' /\ PoolInv'
      BY <2>2 DEF IInv, Held, PoolInv, Waiting, callVars, poolVars
    <2> QED
      BY <2>4, <2>5, <2>6, <2>7 DEF IInv
  <1>2. CASE AcceptorTimer
    <2> DEFINE h == H("accept_again", Nobody)
    <2>1. /\ UNCHANGED <<callVars, poolVars, state, counter, cnt, accepting, waiting, map, ses>>
          /\ srv' = Append(srv, h) /\ acctimer' = FALSE /\ srv \in Seq(Handler)
      BY <1>2, Typing DEF AcceptorTimer, IInv
    <2>2. /\ h \in Handler /\ h \notin {H("unreg", Nobody), H("exec", Nobody), H("stop", Nobody)}
          /\ \A t : h \notin ToServer(t) \cup Accepts(t)
      BY HandlerFacts DEF Handler, H
    <2> HIDE DEF h
    <2>3. srv' \in Seq(Handler)
      BY <2>1, <2>2, AppendFacts
    <2>4. TypeOK'
      BY <2>1, <2>3 DEF IInv, TypeOK, Handler, callVars, poolVars
    <2>5. ASSUME NEW t \in Session PROVE SessionInv(t)'
      BY <2>1, <2>2, SessionKept DEF Elsewhere
    <2>6. ServerInv'
      BY <2>1, <2>2, ServerKeeps DEF poolVars
    <2>7. Held' /\ PoolInv'
      BY <2>1 DEF IInv, Held, PoolInv, Waiting, callVars, poolVars
    <2> QED
      BY <2>4, <2>5, <2>6, <2>7 DEF IInv
  <1>3. CASE SrvReturns
    <2>1. /\ UNCHANGED <<callVars, pool, reg, srv, state, counter, cnt, accVars, map, ses>>
          /\ ctx' = ctx \ {Nobody} /\ pool = "stopping"
          /\ srv = <<>> /\ ~waiting /\ ~reg
      BY <1>3 DEF SrvReturns
    <2>2. state = "stopped"
      BY <2>1, EmptyFacts DEF IInv, TypeOK, ServerInv, StoppingWaits, Registered
    <2>3. TypeOK'
      BY <2>1 DEF IInv, TypeOK, callVars, accVars
    <2>4. ASSUME NEW t \in Session PROVE SessionInv(t)'
      BY <2>1, SessionKept DEF Elsewhere
    <2>5. Held' /\ ServerInv'
      BY <2>1 DEF IInv, Held, ServerInv, ExecOnce, NoneOutlives, CounterIsHeld, StoppingWaits,
                  Registered, callVars, accVars
    <2>6. PoolInv'
      BY <2>1, <2>2 DEF IInv, PoolInv, Waiting, callVars
    <2> QED
      BY <2>3, <2>4, <2>5, <2>6 DEF IInv
  <1> QED
    BY <1>1, <1>2, <1>3

(* The server handles session s, which becomes r.  A session that leaves   *)
(* or enters the map is s itself.                                          *)
LEMMA ServerHandles ==
    ASSUME IInv, NEW s \in Session, s \in cnt, NEW k \in {"connect", "emplace", "erase"}, Srv(k, s),
           NEW r, ses' = [ses EXCEPT ![s] = r], srv' = Tail(srv),
           UNCHANGED <<callVars, poolVars, state, counter, cnt, accVars>>,
           map' \ {s} = map \ {s}, state = "stopped" => map' = map,
           ~Never(srv, {H("exec", Nobody)}) => map' \subseteq map,
           Sound(s, r, Tail(srv), s \in map', state)
    PROVE  IInv'
  <1> DEFINE h == H(k, s)
  <1>1. /\ ses \in [Session -> SessionRecord] /\ srv \in Seq(Handler) /\ srv # <<>> /\ Head(srv) = h
        /\ map \in SUBSET Session
    BY Typing DEF IInv, Srv
  <1>2. r \in SessionRecord
    BY DEF Sound
  <1>3. /\ h \in Handler /\ h \notin {H("unreg", Nobody), H("exec", Nobody), H("stop", Nobody)}
        /\ \A t : h \notin Accepts(t)
        /\ \A t : t # s => h \notin ToServer(t)
    BY HandlerFacts DEF H, Handler
  <1>4. Tail(srv) \in Seq(Handler)
    BY <1>1, TailFacts
  <1> HIDE DEF h
  <1>5. TypeOK'
    BY <1>1, <1>2, <1>4 DEF IInv, TypeOK, callVars, poolVars, accVars, Handler
  <1>6. ASSUME NEW t \in Session PROVE SessionInv(t)'
    <2>1. CASE t = s
      <3>1. ses'[t] = r
        BY <1>1, <2>1
      <3>2. Counted(s, r, srv, s \in cnt)
        BY DEF IInv, SessionInv, Counted
      <3>3. Counted(s, r, Tail(srv), s \in cnt)
        BY <1>1, <1>3, <3>2, OtherAccepts
      <3> QED
        BY <2>1, <3>1, <3>3 DEF SessionInv
    <2>2. CASE t # s
      <3>1. Elsewhere(t)
        BY <1>1, <2>2 DEF Elsewhere
      <3> QED
        BY <1>1, <1>3, <2>2, <3>1, SessionKept
    <2> QED
      BY <2>1, <2>2
  <1>7. Held'
    BY DEF IInv, Held, callVars
  <1>8. PoolInv'
    BY DEF IInv, PoolInv, Waiting, callVars, poolVars
  <1>9. ServerInv'
    <2>1. /\ Never(srv', {H("exec", Nobody)}) <=> Never(srv, {H("exec", Nobody)})
          /\ Once(srv', {H("exec", Nobody)}) <=> Once(srv, {H("exec", Nobody)})
          /\ Contains(srv, H("stop", Nobody)) => Contains(srv', H("stop", Nobody))
          /\ StopFollows(srv')
      BY <1>1, <1>3, TailFacts, FollowsFacts DEF IInv, ServerInv
    <2>2. Once(srv, {H("exec", Nobody)}) => ~Never(srv, {H("exec", Nobody)})
      BY <1>1, OnceFacts
    <2> QED
      BY <2>1, <2>2 DEF IInv, ServerInv, ExecOnce, NoneOutlives, CounterIsHeld, StoppingWaits, Registered,
                        poolVars, accVars
  <1> QED
    BY <1>5, <1>6, <1>7, <1>8, <1>9 DEF IInv

(* on_connect.                                                             *)
LEMMA ConnectStep ==
    ASSUME IInv, NEW s \in Session, RunConnect(s)
    PROVE  /\ IInv' /\ s \in cnt
           /\ ses' = [ses EXCEPT ![s] = ses'[s]] /\ ses'[s].told \in {ses[s].told, "connect"}
  <1> DEFINE r == ses[s]
             v == Tail(srv)
             m == s \in map
             a == [r EXCEPT !.state = "started", !.told = "connect"]
             yes == Post(Post(Post(a, "stop_timer"), "join"), "pass_on")
             no == Post(Post(r, "stop_timer"), "disconnect_guarded")
  <1>1. /\ Srv("connect", s) /\ srv \in Seq(Handler) /\ v \in Seq(Handler)
        /\ Sound(s, r, srv, m, state) /\ r \in SessionRecord /\ r.inbox \in Seq(Message)
    BY SessionFacts, TailFacts DEF RunConnect, Srv
  <1>2. InHand(s, r, v, m, state) /\ r.phase = "away" /\ Head(r.q) = "connect"
    BY <1>1, ServerTakes DEF Srv
  <1>3. s \in cnt
    BY <1>2, ExistsIfNotBlank, BlankFacts
  <1>4. /\ "stop_timer" \in Message /\ "join" \in Message
        /\ "pass_on" \in Message /\ "disconnect_guarded" \in Message
        /\ "pass_on" \in Back /\ "disconnect_guarded" \in Back
        /\ "stop_timer" \notin Back /\ "join" \notin Back
    BY DEF Message, Back
  <1>5. ASSUME r.sock, r.state = "starting" PROVE Sound(s, yes, v, m, state) /\ yes.told = "connect"
    <2> HIDE DEF r, v, m
    <2>1. /\ a \in SessionRecord /\ a.phase = r.phase /\ a.q = r.q /\ a.inbox = r.inbox
          /\ a.state = "started" /\ a.old = r.old /\ a.told = "connect"
          /\ a.reading = r.reading /\ a.joined = r.joined /\ a.disconnecting = r.disconnecting
      BY <1>2 DEF InHand, SessionRecord
    <2> HIDE DEF a
    <2>2. InHand(s, a, v, m, state)
      BY <1>2, <1>5, <2>1 DEF InHand, Member, OnItsWayOut
    <2> DEFINE b == Post(a, "stop_timer")
               c == Post(b, "join")
    <2>3. InHand(s, b, v, m, state) /\ b.phase = "away" /\ b.q = a.q /\ b.told = "connect"
      BY <1>1, <1>2, <1>4, <2>1, <2>2, PostFacts, PostFields DEF v
    <2> HIDE DEF b
    <2>4. InHand(s, c, v, m, state) /\ c.phase = "away" /\ c.q = a.q /\ c.told = "connect"
      <3>1. b \in SessionRecord
        BY <2>3 DEF InHand
      <3>2. InHand(s, c, v, m, state)
        BY <1>1, <1>4, <2>3, PostFacts DEF v
      <3> QED
        BY <1>4, <2>3, <3>1, <3>2, PostFields
    <2> HIDE DEF c
    <2>5. Sound(s, Post(c, "pass_on"), v, m, state)
      BY <1>1, <1>2, <1>4, <2>1, <2>4, BringFacts DEF v
    <2>6. Post(c, "pass_on").told = "connect"
      BY <1>4, <2>4, PostFields DEF InHand
    <2> QED
      BY <2>5, <2>6 DEF c, b
  <1>6. Sound(s, no, v, m, state) /\ no.told = r.told
    <2> HIDE DEF r, v, m
    <2> DEFINE b == Post(r, "stop_timer")
    <2>1. InHand(s, b, v, m, state) /\ b.phase = "away" /\ b.told = r.told
      BY <1>1, <1>2, <1>4, PostFacts, PostFields DEF v
    <2> HIDE DEF b
    <2>2. Sound(s, Post(b, "disconnect_guarded"), v, m, state)
      BY <1>1, <1>4, <2>1, BringFacts DEF v
    <2>3. Post(b, "disconnect_guarded").told = b.told
      BY <1>4, <2>1, PostFields DEF InHand
    <2> QED
      BY <2>1, <2>2, <2>3 DEF b
  <1> DEFINE new == IF r.sock /\ r.state = "starting" THEN yes ELSE no
  <1>7. ses' = [ses EXCEPT ![s] = new]
    <2>1. ASSUME NEW x \in Message, NEW y \in Message, NEW z \in Message
          PROVE  /\ r.inbox \o <<x, y, z>> = Append(Append(Append(r.inbox, x), y), z)
                 /\ r.inbox \o <<x, y>> = Append(Append(r.inbox, x), y)
      <3> HIDE DEF r
      <3>1. r.inbox \o <<x, y, z>> = Append(Append(Append(r.inbox, x), y), z)
        BY <1>1, PostThree
      <3>2. r.inbox \o <<x, y>> = Append(Append(r.inbox, x), y)
        BY <1>1, PostTwo
      <3> QED
        BY <3>1, <3>2
    <2>2. /\ r.inbox \o <<"stop_timer", "join", "pass_on">>
                 = Append(Append(Append(r.inbox, "stop_timer"), "join"), "pass_on")
          /\ r.inbox \o <<"stop_timer", "disconnect_guarded">>
                 = Append(Append(r.inbox, "stop_timer"), "disconnect_guarded")
      BY <1>4, <2>1
    <2>3. yes = [r EXCEPT !.state = "started", !.told = "connect",
                          !.inbox = Append(Append(Append(r.inbox, "stop_timer"), "join"), "pass_on")]
      BY <1>1 DEF Post, SessionRecord
    <2>4. no = [r EXCEPT !.inbox = Append(Append(r.inbox, "stop_timer"), "disconnect_guarded")]
      BY <1>1 DEF Post, SessionRecord
    <2> HIDE DEF yes, no
    <2>5. CASE r.sock /\ r.state = "starting"
      BY <2>2, <2>3, <2>5 DEF RunConnect
    <2>6. CASE ~(r.sock /\ r.state = "starting")
      BY <2>2, <2>4, <2>6 DEF RunConnect
    <2> QED
      BY <2>5, <2>6
  <1> HIDE DEF yes, no
  <1>8. Sound(s, new, v, m, state) /\ new.told \in {r.told, "connect"}
    BY <1>5, <1>6
  <1>9. /\ srv' = v /\ map' = map
        /\ UNCHANGED <<callVars, poolVars, state, counter, cnt, accVars>>
    BY DEF RunConnect
  <1> HIDE DEF new
  <1>10. ses'[s] = new
    BY <1>7, Typing DEF IInv
  <1>11. IInv'
    BY <1>1, <1>3, <1>7, <1>8, <1>9, ServerHandles
  <1> QED
    BY <1>3, <1>7, <1>8, <1>10, <1>11

LEMMA EmplaceStep ==
    ASSUME IInv, NEW s \in Session, RunEmplace(s)
    PROVE  /\ IInv' /\ s \in cnt
           /\ ses' = [ses EXCEPT ![s] = ses'[s]] /\ ses'[s].told = ses[s].told
  <1> DEFINE r == ses[s]
             v == Tail(srv)
             m == s \in map
  <1>1. /\ Srv("emplace", s) /\ srv \in Seq(Handler) /\ v \in Seq(Handler)
        /\ Sound(s, r, srv, m, state) /\ r \in SessionRecord
        /\ UNCHANGED <<callVars, poolVars, state, counter, cnt, accVars>> /\ srv' = v
        /\ ses \in [Session -> SessionRecord]
    BY SessionFacts, TailFacts, Typing DEF IInv, RunEmplace, Srv
  <1>2. /\ InHand(s, r, v, m, state) /\ r.phase = "away" /\ Head(r.q) = "join"
        /\ r.state = "started"
    BY <1>1, ServerTakes DEF Srv
  <1>3. s \in cnt
    BY <1>2, ExistsIfNotBlank, BlankFacts
  <1>4. CASE state = "started"
    <2> DEFINE a == [r EXCEPT !.joined = TRUE]
               new == Post(a, "recv")
               old == [Post(r, "recv") EXCEPT !.joined = TRUE]
    <2>1. new = old
      BY <1>1 DEF Post, SessionRecord
    <2> HIDE DEF old
    <2>2. ses' = [ses EXCEPT ![s] = old] /\ map' = map \cup {s}
      BY <1>4 DEF RunEmplace, old
    <2>3. /\ a \in SessionRecord /\ a.phase = r.phase /\ a.q = r.q /\ a.inbox = r.inbox
          /\ a.state = r.state /\ a.old = r.old /\ a.told = r.told
          /\ a.reading = r.reading /\ a.joined = TRUE /\ a.disconnecting = r.disconnecting
      <3> HIDE DEF r
      <3> QED
        BY <1>1 DEF SessionRecord
    <2> HIDE DEF a
    <2>4. InHand(s, a, v, TRUE, state)
      BY <1>2, <1>4, <2>3 DEF InHand, Member
    <2>5. Sound(s, new, v, TRUE, state) /\ new.told = a.told
      <3>1. "recv" \in Back /\ "recv" \in Message
        BY DEF Back, Message
      <3>2. Sound(s, new, v, TRUE, state)
        BY <1>1, <1>2, <2>3, <2>4, <3>1, BringFacts
      <3> QED
        BY <2>3, <3>1, <3>2, PostFields
    <2> HIDE DEF new
    <2>6. (s \in map') = TRUE
      BY <2>2
    <2>7. Sound(s, new, v, s \in map', state)
      BY <2>5, <2>6
    <2>8. Never(srv, {H("exec", Nobody)})
      BY <1>4 DEF IInv, ServerInv, ExecOnce
    <2>9. map' \ {s} = map \ {s}
      BY <2>2
    <2>10. IInv'
      BY <1>1, <1>3, <1>4, <2>1, <2>2, <2>7, <2>8, <2>9, ServerHandles
    <2> QED
      BY <1>1, <1>3, <2>1, <2>2, <2>3, <2>5, <2>10
  <1>5. CASE state # "started"
    <2> DEFINE new == Post(r, "disconnect_guarded")
    <2>1. ses' = [ses EXCEPT ![s] = new] /\ map' = map
      BY <1>5 DEF RunEmplace
    <2>2. "disconnect_guarded" \in Back /\ "disconnect_guarded" \in Message
      BY DEF Back, Message
    <2>3. Sound(s, new, v, m, state) /\ new.told = r.told
      BY <1>1, <1>2, <2>2, BringFacts, PostFields
    <2> HIDE DEF new
    <2>4. IInv'
      BY <1>1, <1>3, <2>1, <2>3, ServerHandles
    <2> QED
      BY <1>1, <1>3, <2>1, <2>3, <2>4
  <1> QED
    BY <1>4, <1>5

(* on_disconnect, if the session was in the map.                           *)
LEMMA EraseStep ==
    ASSUME IInv, NEW s \in Session, RunErase(s)
    PROVE  /\ IInv' /\ s \in cnt
           /\ ses' = [ses EXCEPT ![s] = ses'[s]] /\ ses'[s].told \in {ses[s].told, "disconnect"}
  <1> DEFINE r == ses[s]
             v == Tail(srv)
             m == s \in map
  <1>1. /\ Srv("erase", s) /\ srv \in Seq(Handler) /\ v \in Seq(Handler)
        /\ Sound(s, r, srv, m, state) /\ r \in SessionRecord
        /\ UNCHANGED <<callVars, poolVars, state, counter, cnt, accVars>> /\ srv' = v
        /\ map' = map \ {s}
        /\ ses \in [Session -> SessionRecord]
    BY SessionFacts, TailFacts, Typing DEF IInv, RunErase, Srv
  <1>2. /\ InHand(s, r, v, m, state) /\ r.phase = "away" /\ r.state = "stopping"
    BY <1>1, ServerTakes DEF Srv
  <1>3. s \in cnt
    BY <1>2, ExistsIfNotBlank, BlankFacts
  <1> DEFINE told == IF r.old = "started" /\ m THEN "disconnect" ELSE r.told
             a == [r EXCEPT !.state = "stopped", !.told = told]
             new == Post(a, "closed")
             old == [Post(r, "closed") EXCEPT !.state = "stopped", !.told = told]
  <1>4. told \in {r.told, "disconnect"} /\ (r.old = "started" /\ m => told = "disconnect")
    OBVIOUS
  <1>5. new = old
    <2> HIDE DEF told, r
    <2> QED
      BY <1>1 DEF Post, SessionRecord
  <1>6. ses' = [ses EXCEPT ![s] = old]
    BY DEF RunErase
  <1> HIDE DEF old, told
  <1>7. /\ a \in SessionRecord /\ a.phase = r.phase /\ a.q = r.q /\ a.inbox = r.inbox
        /\ a.state = "stopped" /\ a.old = r.old /\ a.told = told
        /\ a.reading = r.reading /\ a.joined = r.joined /\ a.disconnecting = r.disconnecting
    <2> HIDE DEF r
    <2> QED
      BY <1>1, <1>4 DEF SessionRecord
  <1> HIDE DEF a
  <1>8. InHand(s, a, v, FALSE, state)
    <2>1. ~Contains(a.inbox, "recv")
      <3>1. a.inbox \in Seq(Message) /\ Never(a.inbox, Back)
        BY <1>2, <1>7 DEF InHand, SessionRecord, Message
      <3> QED
        BY <3>1, OnceFacts DEF Back
    <2>2. a.joined => a.told = "disconnect"
      BY <1>2, <1>4, <1>7 DEF InHand, Member
    <2> QED
      BY <1>2, <1>7, <2>1, <2>2 DEF InHand, Member
  <1>9. Sound(s, new, v, FALSE, state) /\ new.told = told
    <2>1. "closed" \in Back /\ "closed" \in Message
      BY DEF Back, Message
    <2>2. v \in Seq(Handler) /\ a.phase = "away" /\ a.state = "stopped" /\ a \in SessionRecord
      BY <1>1, <1>2, <1>7
    <2>3. Sound(s, Post(a, "closed"), v, FALSE, state)
      BY <1>8, <2>1, <2>2, BringFacts
    <2>4. Post(a, "closed").told = a.told
      BY <2>1, <2>2, PostFields
    <2> QED
      BY <1>7, <2>3, <2>4 DEF new
  <1> HIDE DEF new
  <1>10. (s \in map') = FALSE
    BY <1>1
  <1>11. Sound(s, new, v, s \in map', state)
    BY <1>9, <1>10
  <1>12. /\ map' \ {s} = map \ {s} /\ map' \subseteq map
         /\ state = "stopped" => map' = map
    BY <1>1 DEF IInv, ServerInv, NoneOutlives
  <1>13. IInv'
    BY <1>1, <1>3, <1>5, <1>6, <1>11, <1>12, ServerHandles
  <1> QED
    BY <1>1, <1>3, <1>4, <1>5, <1>6, <1>9, <1>13

(* A session that has just been accepted.                                  *)
Accepted(ok) ==
    [Blank EXCEPT !.state = "starting", !.sock = ok,
        !.inbox = IF ok THEN <<"timer", "connect">> ELSE <<"disconnect">>]

LEMMA AcceptedFacts ==
    ASSUME NEW s \in Session, NEW v \in Seq(Handler), NEW st, NEW ok \in BOOLEAN,
           Never(v, ToServer(s))
    PROVE  Sound(s, Accepted(ok), v, FALSE, st) /\ Accepted(ok).told = "none"
  <1> DEFINE r == Accepted(ok)
             i == IF ok THEN <<"timer", "connect">> ELSE <<"disconnect">>
  <1>1. i \in {<<"timer", "connect">>, <<"disconnect">>}
    OBVIOUS
  <1>2. i \in Seq(Message) /\ \A j \in DOMAIN i : i[j] \in {"timer", "connect", "disconnect"}
    <2> HIDE DEF i
    <2>1. CASE i = <<"timer", "connect">>
      <3>1. i \in Seq(Message)
        BY <2>1 DEF Message
      <3>2. DOMAIN i = 1..2 /\ i[1] = "timer" /\ i[2] = "connect"
        BY <2>1
      <3> QED
        BY <3>1, <3>2
    <2>2. CASE i = <<"disconnect">>
      <3>1. i \in Seq(Message)
        BY <2>2 DEF Message
      <3>2. DOMAIN i = 1..1 /\ i[1] = "disconnect"
        BY <2>2
      <3> QED
        BY <3>1, <3>2
    <2> QED
      BY <1>1, <2>1, <2>2
  <1> HIDE DEF i
  <1>3. Never(i, Back)
    BY <1>2 DEF Never, Back
  <1>4. r = [Blank EXCEPT !.state = "starting", !.sock = ok, !.inbox = i]
    BY DEF Accepted, i
  <1>5. Blank \in SessionRecord
    BY DEF Blank, SessionRecord
  <1> HIDE DEF r
  <1>6. /\ r \in SessionRecord /\ r.phase = "idle" /\ r.q = <<>> /\ r.inbox = i
        /\ r.state = "starting" /\ r.told = "none" /\ ~r.reading /\ ~r.joined
    <2>1. r \in SessionRecord
      BY <1>2, <1>4, <1>5 DEF SessionRecord, Message
    <2> QED
      BY <1>4, <2>1 DEF Blank
  <1>7. Consistent(r)
    BY <1>6 DEF Consistent
  <1>8. Carried(s, r, v) /\ Member(r, FALSE)
    BY <1>2, <1>3, <1>6, NeverFacts DEF Carried, Guarded, Member
  <1> QED
    BY <1>6, <1>7, <1>8 DEF Sound, r

LEMMA RunAcceptStep ==
    ASSUME IInv, NEW s \in Session, NEW ok \in BOOLEAN, RunAccept(s, ok)
    PROVE  /\ IInv'
           /\ \/ UNCHANGED <<ses, cnt>>
              \/ s \notin cnt /\ cnt' = cnt \cup {s} /\ ses' = [ses EXCEPT ![s] = Accepted(ok)]
  <1> DEFINE k == IF ok THEN "accepted" ELSE "accept_failed"
             h == H(k, s)
             v == Tail(srv)
  <1>1. /\ Srv(k, s) /\ srv \in Seq(Handler) /\ srv # <<>> /\ Head(srv) = h /\ srv' = v
        /\ v \in Seq(Handler)
        /\ UNCHANGED <<callVars, poolVars, state, counter, map>>
        /\ ses \in [Session -> SessionRecord]
    BY SessionFacts, TailFacts, Typing DEF IInv, RunAccept, Srv
  <1>2. k \in {"accepted", "accept_failed"}
    OBVIOUS
  <1>3. /\ h \in Handler /\ h \notin {H("unreg", Nobody), H("exec", Nobody), H("stop", Nobody)}
        /\ \A t : h \notin ToServer(t)
        /\ \A t : t # s => h \notin Accepts(t)
        /\ h \in Accepts(s)
    BY <1>2, HandlerFacts DEF H, Handler
  <1> HIDE DEF h, k
  <1>4. s \notin cnt /\ ses[s] = Blank /\ Never(v, Accepts(s))
    <2>1. Counted(s, ses[s], srv, s \in cnt)
      BY DEF IInv, SessionInv
    <2>2. ~Never(srv, Accepts(s)) /\ (Once(srv, Accepts(s)) => Never(v, Accepts(s)))
      BY <1>1, <1>3, TailFacts
    <2> QED
      BY <2>1, <2>2 DEF Counted
  <1>5. Sound(s, ses[s], v, s \in map, state)
    BY <1>1, <1>3, SessionFacts, OtherHandlers
  <1>6. PoolInv'
    BY <1>1 DEF IInv, PoolInv, Waiting, callVars, poolVars
  <1>7. /\ Never(srv', {H("exec", Nobody)}) <=> Never(srv, {H("exec", Nobody)})
        /\ Once(srv', {H("exec", Nobody)}) <=> Once(srv, {H("exec", Nobody)})
        /\ Contains(srv, H("stop", Nobody)) => Contains(srv', H("stop", Nobody))
        /\ StopFollows(srv')
    BY <1>1, <1>3, TailFacts, FollowsFacts DEF IInv, ServerInv
  <1>8. CASE state # "started"
    <2>1. UNCHANGED <<cnt, accVars, ses>>
      BY <1>8 DEF RunAccept
    <2>2. TypeOK'
      BY <1>1, <2>1 DEF IInv, TypeOK, Handler, callVars, poolVars, accVars
    <2>3. ASSUME NEW t \in Session PROVE SessionInv(t)'
      <3>1. CASE t = s
        <4>1. Counted(s, ses[s], v, s \in cnt)
          BY <1>4 DEF Counted
        <4> QED
          BY <1>1, <1>5, <2>1, <3>1, <4>1 DEF SessionInv
      <3>2. CASE t # s
        BY <1>1, <1>3, <2>1, <3>2, SessionKept DEF Elsewhere
      <3> QED
        BY <3>1, <3>2
    <2>4. Held' /\ ServerInv'
      BY <1>1, <1>3, <2>1, ServerKeeps DEF IInv, Held, callVars, poolVars, accVars
    <2> QED
      BY <1>6, <2>1, <2>2, <2>3, <2>4 DEF IInv
  <1>9. CASE state = "started"
    <2> DEFINE r == Accepted(ok)
    <2>1. /\ cnt' = cnt \cup {s} /\ ses' = [ses EXCEPT ![s] = r] /\ waiting' = waiting
          /\ accepting' = (accepting \/ ok) /\ acctimer' = (acctimer \/ ~ok)
      BY <1>9 DEF RunAccept, Accepted
    <2>2. Never(v, ToServer(s)) /\ s \notin map
      BY <1>4, <1>5, BlankFacts DEF Sound, Carried, Guarded, IInv, Held
    <2> HIDE DEF v
    <2>3. Sound(s, r, v, FALSE, state)
      BY <1>1, <2>2, AcceptedFacts
    <2> HIDE DEF r
    <2>4. r \in SessionRecord
      BY <2>3 DEF Sound
    <2>5. TypeOK'
      BY <1>1, <2>1, <2>4 DEF IInv, TypeOK, Handler, callVars, poolVars
    <2>6. ASSUME NEW t \in Session PROVE SessionInv(t)'
      <3>1. CASE t = s
        <4>1. ses'[s] = r /\ (s \in map') = FALSE /\ (s \in cnt') = TRUE
          BY <1>1, <2>1, <2>2
        <4>2. Counted(s, r, v, TRUE)
          BY <1>4 DEF Counted
        <4>3. Sound(s, ses'[s], srv', s \in map', state')
          BY <1>1, <2>3, <4>1
        <4>4. Counted(s, ses'[s], srv', s \in cnt')
          BY <1>1, <4>1, <4>2
        <4> QED
          BY <3>1, <4>3, <4>4 DEF SessionInv
      <3>2. CASE t # s
        BY <1>1, <1>3, <2>1, <3>2, SessionKept DEF Elsewhere, v
      <3> QED
        BY <3>1, <3>2
    <2>7. Held'
      BY <1>1, <2>1 DEF IInv, Held, callVars
    <2>8. ServerInv'
      <3>1. Never(srv, {H("exec", Nobody)})
        BY <1>9 DEF IInv, ServerInv, ExecOnce
      <3> QED
        BY <1>1, <1>7, <1>9, <2>1, <3>1
           DEF IInv, ServerInv, ExecOnce, NoneOutlives, CounterIsHeld, StoppingWaits, Registered, poolVars
    <2> QED
      BY <1>4, <1>6, <2>1, <2>5, <2>6, <2>7, <2>8 DEF IInv, r
  <1> QED
    BY <1>8, <1>9

LEMMA AcceptStep ==
    ASSUME IInv, NEW s \in Session, NEW ok \in BOOLEAN, Accept(s, ok)
    PROVE  IInv'
  <1> DEFINE k == IF ok THEN "accepted" ELSE "accept_failed"
             h == H(k, s)
  <1>1. /\ srv' = Append(srv, h) /\ srv \in Seq(Handler) /\ accepting' = FALSE
        /\ UNCHANGED <<callVars, poolVars, state, counter, cnt, acctimer, waiting, map, ses>>
        /\ ses[s] = Blank /\ s \notin cnt
    BY SessionFacts DEF Accept
  <1>2. k \in {"accepted", "accept_failed"}
    OBVIOUS
  <1>3. /\ h \in Handler /\ h \notin {H("unreg", Nobody), H("exec", Nobody), H("stop", Nobody)}
        /\ \A t : h \notin ToServer(t)
        /\ \A t : t # s => h \notin Accepts(t)
        /\ h \in Accepts(s)
    BY <1>2, HandlerFacts DEF H, Handler
  <1>4. Never(srv, Accepts(s))
    BY HandlerFacts DEF Accept, Referenced, Never, Accepts
  <1> HIDE DEF h, k
  <1>5. srv' \in Seq(Handler)
    BY <1>1, <1>3, AppendFacts
  <1>6. TypeOK'
    BY <1>1, <1>5 DEF IInv, TypeOK, Handler, callVars, poolVars
  <1>7. ASSUME NEW t \in Session PROVE SessionInv(t)'
    <2>1. CASE t = s
      <3>1. Sound(s, ses[s], srv', s \in map, state)
        BY <1>1, <1>3, SessionFacts, OtherHandlers
      <3>2. Once(srv', Accepts(s))
        BY <1>1, <1>3, <1>4, AppendFacts
      <3>3. Counted(s, ses[s], srv', s \in cnt)
        BY <1>1, <3>2 DEF Counted
      <3> QED
        BY <1>1, <2>1, <3>1, <3>3 DEF SessionInv
    <2>2. CASE t # s
      BY <1>1, <1>3, <2>2, SessionKept DEF Elsewhere
    <2> QED
      BY <2>1, <2>2
  <1>8. ServerInv'
    BY <1>1, <1>3, ServerKeeps DEF poolVars
  <1>9. Held' /\ PoolInv'
    BY <1>1 DEF IInv, Held, PoolInv, Waiting, callVars, poolVars
  <1> QED
    BY <1>6, <1>7, <1>8, <1>9 DEF IInv

-----------------------------------------------------------------------------
(* Steps of the threads.                                                   *)

LEMMA ThreadGoes ==
    ASSUME IInv, TypeOK', PoolInv', \A c \in Caller : hold'[c] \subseteq cnt,
           UNCHANGED <<reg, srv, state, counter, cnt, accVars, map, ses>>
    PROVE  IInv'
  <1>1. ASSUME NEW t \in Session PROVE SessionInv(t)'
    BY SessionKept DEF Elsewhere
  <1>2. Held' /\ ServerInv'
    BY DEF IInv, Held, ServerInv, ExecOnce, NoneOutlives, CounterIsHeld, StoppingWaits,
           Registered, accVars
  <1> QED
    BY <1>1, <1>2 DEF IInv

LEMMA ThreadPosts ==
    ASSUME IInv, PoolInv', NEW h \in Handler, srv' = Append(srv, h),
           h.k \in {"start", "cancel"}, NEW l, pc' = l, 
           l \in [Caller -> {"idle", "stop_post", "stop_pool", "pool_wait", "pool_wait_others",
                             "start_pool", "start_post", "start_wait", "sending"}],
           UNCHANGED <<job, hold, poolVars, state, counter, cnt, accVars, map, ses>>
    PROVE  IInv'
  <1>1. srv \in Seq(Handler) /\ h = H(h.k, h.x)
    BY SessionFacts, Typing DEF IInv, Handler, H
  <1>2. /\ h \notin {H("unreg", Nobody), H("exec", Nobody), H("stop", Nobody)}
        /\ \A t : h \notin ToServer(t) \cup Accepts(t)
    BY <1>1, HandlerFacts
  <1>3. srv' \in Seq(Handler)
    BY <1>1, AppendFacts
  <1>4. TypeOK'
    BY <1>3 DEF IInv, TypeOK, Handler, poolVars, accVars
  <1>5. ASSUME NEW t \in Session PROVE SessionInv(t)'
    BY <1>1, <1>2, SessionKept DEF Elsewhere
  <1>6. ServerInv'
    BY <1>2, ServerKeeps DEF poolVars, accVars
  <1>7. Held'
    BY DEF IInv, Held
  <1> QED
    BY <1>4, <1>5, <1>6, <1>7 DEF IInv

LEMMA CallStep ==
    ASSUME IInv, NEW c \in Caller, NEW j \in {"run", "stop"}, Call(c, j)
    PROVE  IInv'
  <1>1. /\ UNCHANGED <<hold, poolVars, srv, state, counter, cnt, accVars, map, ses>>
        /\ pc' = [pc EXCEPT ![c] = pc'[c]]
        /\ pc'[c] \in {"start_pool", "idle", "stop_post"}
        /\ job' = [job EXCEPT ![c] = j]
    BY DEF Call, Goto, AfterStop, IInv, TypeOK
  <1>2. TypeOK'
    BY <1>1 DEF IInv, TypeOK, poolVars, accVars
  <1>3. PoolInv'
    BY <1>1 DEF IInv, TypeOK, PoolInv, Waiting, poolVars
  <1> QED
    BY <1>1, <1>2, <1>3, ThreadGoes DEF IInv, Held, poolVars

LEMMA StopPostStep ==
    ASSUME IInv, NEW c \in Caller, StopPost(c)
    PROVE  IInv'
  <1> DEFINE more == srv \o <<H("unreg", Nobody), H("stop", Nobody)>>
  <1>1. /\ UNCHANGED <<job, hold, poolVars, state, counter, cnt, accVars, map, ses>>
        /\ pc' = [pc EXCEPT ![c] = "stop_pool"] /\ srv' = more
        /\ srv \in Seq(Handler) /\ StopFollows(srv)
    BY Typing DEF StopPost, Goto, IInv, ServerInv
  <1>2. /\ more \in Seq(Handler) /\ StopFollows(more) /\ Contains(more, H("stop", Nobody))
        /\ Never(more, {H("exec", Nobody)}) <=> Never(srv, {H("exec", Nobody)})
        /\ Once(more, {H("exec", Nobody)}) <=> Once(srv, {H("exec", Nobody)})
        /\ \A s \in Session : \A r, m, st : Sound(s, r, srv, m, st) => Sound(s, r, more, m, st)
        /\ \A s \in Session : \A r, n : Counted(s, r, srv, n) => Counted(s, r, more, n)
    BY <1>1, PostStopHandlers
  <1> HIDE DEF more
  <1>3. TypeOK'
    BY <1>1, <1>2 DEF IInv, TypeOK, Handler, accVars, poolVars
  <1>4. ASSUME NEW t \in Session PROVE SessionInv(t)'
    <2>1. Sound(t, ses[t], srv', t \in map, state) /\ Counted(t, ses[t], srv', t \in cnt)
      BY <1>1, <1>2 DEF IInv, SessionInv
    <2> QED
      BY <1>1, <2>1 DEF SessionInv
  <1>5. ServerInv'
    BY <1>1, <1>2 DEF IInv, ServerInv, ExecOnce, NoneOutlives, CounterIsHeld, StoppingWaits,
                      Registered, accVars
  <1>6. Held' /\ PoolInv'
    BY <1>1 DEF IInv, TypeOK, Held, PoolInv, Waiting, poolVars
  <1> QED
    BY <1>3, <1>4, <1>5, <1>6 DEF IInv

LEMMA PoolSteps ==
    ASSUME IInv, NEW c \in Caller,
           StopIopool(c) \/ PoolOthers(c) \/ PoolStopped(c) \/ StartPool(c)
    PROVE  IInv'
  <1>1. /\ UNCHANGED <<job, hold, reg, srv, state, counter, cnt, accVars, map, ses>>
        /\ pc' = [pc EXCEPT ![c] = pc'[c]]
        /\ pc'[c] \in {"pool_wait", "pool_wait_others", "start_pool", "idle", "start_post"}
    BY DEF StopIopool, PoolOthers, PoolStopped, StartPool, Goto, AfterStop, IInv, TypeOK, poolVars
  <1>2. pool' \in {"stopped", "started", "stopping"} /\ ctx' \subseteq Session \cup {Nobody}
    BY DEF StopIopool, PoolOthers, PoolStopped, StartPool, IInv, TypeOK, poolVars
  <1>3. TypeOK'
    BY <1>1, <1>2 DEF IInv, TypeOK, accVars
  <1>4. PoolInv'
    <2>1. CASE StopIopool(c)
      BY <1>1, <2>1 DEF IInv, TypeOK, PoolInv, Waiting, StopIopool, Goto, AfterStop
    <2>2. CASE PoolOthers(c)
      BY <1>1, <2>2 DEF IInv, TypeOK, PoolInv, Waiting, PoolOthers, Goto, poolVars
    <2>3. CASE PoolStopped(c)
      BY <1>1, <2>3 DEF IInv, TypeOK, PoolInv, Waiting, PoolStopped, Goto, AfterStop
    <2>4. CASE StartPool(c)
      BY <1>1, <2>4 DEF IInv, TypeOK, PoolInv, Waiting, StartPool, Goto
    <2> QED
      BY <2>1, <2>2, <2>3, <2>4
  <1> QED
    BY <1>1, <1>3, <1>4, ThreadGoes DEF IInv, Held

LEMMA PostingSteps ==
    ASSUME IInv, NEW c \in Caller, PoolCancel(c) \/ StartPost(c)
    PROVE  IInv'
  <1>1. CASE PoolCancel(c)
    <2>1. /\ srv' = Append(srv, H("cancel", Nobody)) /\ pc' = pc
          /\ UNCHANGED <<job, hold, poolVars, state, counter, cnt, accVars, map, ses>>
      BY <1>1 DEF PoolCancel, callVars
    <2>2. H("cancel", Nobody) \in Handler /\ H("cancel", Nobody).k = "cancel"
      BY DEF Handler, H
    <2>3. PoolInv'
      BY <2>1 DEF IInv, PoolInv, Waiting, poolVars
    <2> QED
      BY <2>1, <2>2, <2>3, ThreadPosts DEF IInv, TypeOK
  <1>2. CASE StartPost(c)
    <2>1. /\ srv' = Append(srv, H("start", c)) /\ pc' = [pc EXCEPT ![c] = "start_wait"]
          /\ UNCHANGED <<job, hold, poolVars, state, counter, cnt, accVars, map, ses>>
      BY <1>2 DEF StartPost, Goto
    <2>2. H("start", c) \in Handler /\ H("start", c).k = "start"
      BY DEF Handler, H
    <2>3. PoolInv'
      BY <2>1 DEF IInv, TypeOK, PoolInv, Waiting, poolVars
    <2>4. [pc EXCEPT ![c] = "start_wait"] \in
              [Caller -> {"idle", "stop_post", "stop_pool", "pool_wait", "pool_wait_others",
                          "start_pool", "start_post", "start_wait", "sending"}]
      BY DEF IInv, TypeOK
    <2> QED
      BY <2>1, <2>2, <2>3, <2>4, ThreadPosts
  <1> QED
    BY <1>1, <1>2

LEMMA SendAllStep ==
    ASSUME IInv, NEW c \in Caller, SendAll(c)
    PROVE  IInv'
  <1>1. /\ UNCHANGED <<job, poolVars, srv, state, counter, cnt, accVars, map, ses>>
        /\ pc' = [pc EXCEPT ![c] = "sending"] /\ hold' = [hold EXCEPT ![c] = map]
    BY DEF SendAll, Goto
  <1>2. TypeOK'
    BY <1>1 DEF IInv, TypeOK, poolVars, accVars
  <1>3. PoolInv'
    BY <1>1 DEF IInv, TypeOK, PoolInv, Waiting, poolVars
  <1>4. \A d \in Caller : hold'[d] \subseteq cnt
    BY <1>1 DEF IInv, TypeOK, Held
  <1> QED
    BY <1>1, <1>2, <1>3, <1>4, ThreadGoes DEF poolVars

(* One of the sessions copied from the map gets its event; it exists still,*)
(* because the copy holds it.                                              *)
LEMMA SendToStep ==
    ASSUME IInv, NEW c \in Caller, NEW s \in Session, SendTo(c, s)
    PROVE  /\ IInv' /\ s \in cnt
           /\ ses' = [ses EXCEPT ![s] = ses'[s]] /\ ses'[s].told = ses[s].told
  <1>1. /\ UNCHANGED <<job, poolVars, srv, state, counter, cnt, accVars, map>>
        /\ pc' \in {pc, [pc EXCEPT ![c] = "idle"]}
        /\ hold' = [hold EXCEPT ![c] = @ \ {s}] /\ s \in hold[c]
        /\ ses \in [Session -> SessionRecord]
    BY Typing DEF SendTo, Goto, IInv
  <1>2. PICK r \in {ses[s], Post(ses[s], "send")} : ses' = [ses EXCEPT ![s] = r]
    BY DEF SendTo
  <1>3. s \in cnt
    BY <1>1 DEF IInv, Held
  <1>4. "send" \in Message /\ "send" \notin Back
    BY DEF Message, Back
  <1>5. Sound(s, r, srv, s \in map, state) /\ r.told = ses[s].told /\ r \in SessionRecord
    <2>1. Sound(s, ses[s], srv, s \in map, state) /\ ses[s] \in SessionRecord /\ srv \in Seq(Handler)
      BY SessionFacts
    <2>2. CASE r = ses[s]
      BY <2>1, <2>2
    <2>3. CASE r = Post(ses[s], "send")
      BY <2>1, <2>3, <1>4, PostFacts, PostFields
    <2> QED
      BY <2>2, <2>3
  <1>6. TypeOK'
    BY <1>1, <1>2, <1>5 DEF IInv, TypeOK, poolVars, accVars
  <1>7. ASSUME NEW t \in Session PROVE SessionInv(t)'
    <2>1. CASE t = s
      <3>1. ses'[t] = r
        BY <1>1, <1>2, <2>1
      <3>2. Counted(s, r, srv, s \in cnt)
        BY <1>3 DEF IInv, SessionInv, Counted
      <3> QED
        BY <1>1, <1>5, <2>1, <3>1, <3>2 DEF SessionInv
    <2>2. CASE t # s
      <3>1. ses'[t] = ses[t]
        BY <1>1, <1>2, <2>2
      <3> QED
        BY <1>1, <3>1, SessionKept DEF Elsewhere
    <2> QED
      BY <2>1, <2>2
  <1>8. Held' /\ ServerInv' /\ PoolInv'
    BY <1>1 DEF IInv, TypeOK, Held, PoolInv, Waiting, poolVars, ServerInv, ExecOnce, NoneOutlives,
                CounterIsHeld, StoppingWaits, Registered, accVars
  <1> QED
    BY <1>1, <1>2, <1>3, <1>5, <1>6, <1>7, <1>8 DEF IInv

-----------------------------------------------------------------------------
(* The invariant.                                                          *)

LEMMA InitHolds ==
    ASSUME Init
    PROVE  IInv
  <1>1. /\ srv = <<>> /\ ses \in [Session -> {Blank}] /\ Blank \in SessionRecord
        /\ map = {} /\ cnt = {} /\ hold = [c \in Caller |-> {}]
    BY DEF Init, Blank, SessionRecord
  <1>2. TypeOK
    <2>1. ses \in [Session -> SessionRecord] /\ srv \in Seq(Handler)
      BY <1>1
    <2>2. {reg, counter, accepting, acctimer, waiting} \subseteq BOOLEAN
      BY DEF Init
    <2>3. /\ pc \in [Caller -> {"idle"}] /\ job \in [Caller -> {"stop"}]
          /\ hold \in [Caller -> SUBSET Session]
          /\ pool = "stopped" /\ ctx = {} /\ state = "stopped"
      BY DEF Init
    <2> QED
      BY <1>1, <2>1, <2>2, <2>3 DEF TypeOK, Handler
  <1>3. ASSUME NEW s \in Session PROVE SessionInv(s)
    <2>1. ses[s] = Blank /\ s \notin map /\ s \notin cnt
      BY <1>1
    <2>2. Consistent(Blank)
      BY BlankFacts DEF Consistent
    <2>3. Carried(s, Blank, srv)
      BY <1>1, EmptyFacts, BlankFacts DEF Carried, Guarded
    <2>4. Member(Blank, FALSE)
      BY EmptyFacts, BlankFacts DEF Member
    <2>5. Sound(s, Blank, srv, FALSE, state)
      BY <1>1, <2>2, <2>3, <2>4 DEF Sound
    <2>6. Counted(s, Blank, srv, FALSE)
      BY <1>1, EmptyFacts DEF Counted
    <2>7. (s \in map) = FALSE /\ (s \in cnt) = FALSE
      BY <2>1
    <2> QED
      BY <2>1, <2>5, <2>6, <2>7 DEF SessionInv
  <1>4. Held /\ PoolInv
    BY <1>1 DEF Init, Held, PoolInv, Waiting
  <1>5. ServerInv
    BY <1>1, EmptyFacts DEF Init, ServerInv, ExecOnce, NoneOutlives, CounterIsHeld, StoppingWaits,
                            Registered, StopFollows
  <1> QED
    BY <1>2, <1>3, <1>4, <1>5 DEF IInv

LEMMA NextKeeps ==
    ASSUME IInv, Next
    PROVE  IInv'
  <1>1. CASE \E c \in Caller : GoOn(c) \/ SendAll(c) \/ \E j \in {"run", "stop"} : Call(c, j)
    BY <1>1, CallStep, StopPostStep, PoolSteps, PostingSteps, SendAllStep, SendToStep DEF GoOn
  <1>2. CASE SrvNext
    BY <1>2, StartStep, UnregStep, CancelStep, StopStep, ExecStep, AcceptorSteps, ConnectStep,
       EmplaceStep, EraseStep, RunAcceptStep DEF SrvNext
  <1>3. CASE \E s \in Session : SesNext(s) \/ ReadDone(s) \/ TimedOut(s)
    BY <1>3, InboxSteps, EventSteps, CompletionSteps, DieStep, SesReturnsStep DEF SesNext
  <1>4. CASE \E s \in Session, ok \in BOOLEAN : Accept(s, ok)
    BY <1>4, AcceptStep
  <1> QED
    BY <1>1, <1>2, <1>3, <1>4 DEF Next

LEMMA StutteringKeeps ==
    ASSUME IInv, UNCHANGED vars
    PROVE  IInv'
  <1>1. UNCHANGED <<pc, job, hold, pool, ctx, reg, srv, state, counter, cnt,
                    accepting, acctimer, waiting, map, ses>>
    BY DEF vars
  <1>2. TypeOK'
    BY <1>1 DEF IInv, TypeOK
  <1>3. PoolInv'
    BY <1>1 DEF IInv, PoolInv, Waiting
  <1> QED
    BY <1>1, <1>2, <1>3, ThreadGoes DEF IInv, Held, accVars

(* In every behaviour the guard of each session's queue is in one place,   *)
(* the handler that brings it finds the session as it was sent from, the   *)
(* counter is held by exactly the sessions there are, and the pool's       *)
(* threads return in order: what all that follows rests on.                *)
THEOREM Invariant == Spec => []IInv
  <1>1. IInv /\ [Next]_vars => IInv'
    BY NextKeeps, StutteringKeeps
  <1> QED
    BY <1>1, InitHolds, PTL DEF Spec

-----------------------------------------------------------------------------
(* What it says.                                                           *)

(* Every variable keeps its type, whatever the number of threads and       *)
(* sessions and however many handlers are posted.                          *)
THEOREM TypeCorrect == Spec => []TypeOK
  BY Invariant, PTL DEF IInv

(* The guard of a session's queue, sent to the server's thread and back in *)
(* posted handlers, is never duplicated and never lost.                    *)
THEOREM GuardsAreKept == Spec => []GuardIsUnique
  <1>1. IInv => GuardIsUnique
    BY DEF IInv, SessionInv, Sound, Carried, Guarded, GuardIsUnique
  <1> QED
    BY <1>1, Invariant, PTL

(* No session slips through the sweep of _post_stop, and none reads that   *)
(* has not been announced and put into the manager.                        *)
THEOREM SweepIsComplete == Spec => []SessionsAreCaught
  <1>1. IInv => NobodyEscapes
    BY DEF IInv, TypeOK, SessionInv, Sound, OnItsWayOut, NobodyEscapes
  <1>2. IInv => RecvWhileJoined
    BY DEF IInv, SessionInv, Sound, Consistent, Member, RecvWhileJoined
  <1>3. IInv => SessionsAreCaught
    BY <1>1, <1>2 DEF SessionsAreCaught
  <1> QED
    BY <1>3, Invariant, PTL

(* on_disconnect is called before a session that has joined is destroyed.  *)
THEOREM DisconnectIsTold == Spec => []LeavingIsTold
  <1>1. IInv => LeavingIsTold
    BY DEF IInv, TypeOK, SessionInv, Sound, Member, Referenced, LeavingIsTold
  <1> QED
    BY <1>1, Invariant, PTL

(* _exec_stop's handler comes once and after the last session; when the    *)
(* server has stopped nobody is left, and no io_context returns with work. *)
THEOREM StopComesLast == Spec => []StopIsLast
  <1>1. ASSUME IInv PROVE NothingLost
    <2>1. ASSUME NEW s \in Session, s \notin ctx PROVE ses[s] = Blank
      BY <1>1, <2>1 DEF IInv, PoolInv, ServerInv, NoneOutlives, SessionInv, Counted
    <2> QED
      BY <2>1 DEF NothingLost
  <1>2. IInv => StopIsLast
    BY <1>1 DEF IInv, ServerInv, StopIsLast
  <1> QED
    BY <1>2, Invariant, PTL

-----------------------------------------------------------------------------
(* The server implements ServerService.                                    *)

Inside == {s \in cnt : ses[s].told = "connect"}

(* Nothing a session does on its own io_context tells the program that it  *)
(* has come or gone.                                                       *)
LEMMA TellingNobody ==
    ASSUME NEW r \in SessionRecord, NEW e
    PROVE  /\ Post(r, e).told = r.told /\ Push(r, e).told = r.told
           /\ PassOn(r).told = r.told /\ ReadEnd(r).told = r.told
           /\ Close(r).told = r.told /\ Disconnect(r).told = r.told
           /\ \A b \in BOOLEAN : /\ Shutdown(r, b).told = r.told
                                 /\ DisconnectGuarded(r, b).told = r.told
  <1>1. Post(r, e).told = r.told
    BY DEF Post, SessionRecord
  <1>2. ASSUME NEW f PROVE Push(r, f).told = r.told
    BY DEF Push, SessionRecord
  <1>3. ASSUME NEW p \in SessionRecord PROVE PassOn(p).told = p.told
    BY DEF PassOn, SessionRecord
  <1>4. ReadEnd(r).told = r.told
    <2> DEFINE p == [r EXCEPT !.disconnecting = FALSE, !.silence = FALSE, !.timer = FALSE]
    <2>1. p \in SessionRecord /\ p.told = r.told
      BY DEF SessionRecord
    <2> HIDE DEF p
    <2>2. PassOn(p).told = p.told
      BY <1>3, <2>1
    <2> QED
      BY <2>1, <2>2 DEF ReadEnd, p
  <1>5. ASSUME NEW p \in SessionRecord PROVE Close(p).told = p.told
    BY <1>3 DEF Close, Post, SessionRecord
  <1>6. Disconnect(r).told = r.told
    BY <1>2 DEF Disconnect, SessionRecord
  <1>7. ASSUME NEW b \in BOOLEAN PROVE Shutdown(r, b).told = r.told
    <2> DEFINE p == [r EXCEPT !.disconnecting = TRUE]
    <2>1. p \in SessionRecord /\ p.told = r.told
      BY DEF SessionRecord
    <2>2. [r EXCEPT !.disconnecting = TRUE, !.phase = "shutdown"].told = r.told
      BY DEF SessionRecord
    <2> HIDE DEF p
    <2>3. Close(p).told = p.told /\ PassOn(r).told = r.told
      BY <1>3, <1>5, <2>1
    <2> QED
      BY <2>1, <2>2, <2>3 DEF Shutdown, p
  <1>8. ASSUME NEW b \in BOOLEAN PROVE DisconnectGuarded(r, b).told = r.told
    BY <1>3, <1>7 DEF DisconnectGuarded
  <1> QED
    BY <1>1, <1>2, <1>3, <1>4, <1>5, <1>6, <1>7, <1>8

LEMMA InsideStays ==
    ASSUME IInv, NEW s \in Session, UNCHANGED cnt, NEW r, ses' = [ses EXCEPT ![s] = r],
           r.told = ses[s].told
    PROVE  UNCHANGED Inside
  BY DEF IInv, TypeOK, Inside

LEMMA SessionsTellNobody ==
    ASSUME IInv, NEW s \in Session,
           \/ QueueEvent(s) \/ ConnectTimer(s) \/ GuardBack(s) \/ StartRecv(s)
           \/ EraseMe(s) \/ Closed(s) \/ ShutdownTimer(s) \/ ReadEndTimer(s)
           \/ \E b \in BOOLEAN : RunDisconnect(s, b) \/ RunEvent(s, b) \/ WriteDone(s, b)
           \/ ReadDone(s) \/ TimedOut(s)
    PROVE  UNCHANGED <<state, Inside>>
  <1>1. ses[s] \in SessionRecord /\ \A h : Ses(s, h) => Rest(s) \in SessionRecord
    BY SessionFacts, SesTakes
  <1>2. Rest(s).told = ses[s].told
    BY <1>1 DEF Rest, SessionRecord
  <1> DEFINE Quiet(r) == r.told = ses[s].told
  <1>3. ASSUME NEW r, Becomes(s, r), Quiet(r) PROVE UNCHANGED <<state, Inside>>
    BY <1>3, InsideStays DEF Becomes
  <1>4. CASE QueueEvent(s)
    BY <1>1, <1>2, <1>3, <1>4, TellingNobody DEF QueueEvent
  <1>5. CASE ConnectTimer(s)
    <2>1. \A h, b : Ses(s, h) => Quiet([Rest(s) EXCEPT !.timer = b])
      BY <1>1, <1>2 DEF SessionRecord
    <2> QED
      BY <1>3, <1>5, <2>1 DEF ConnectTimer
  <1>6. CASE GuardBack(s)
    BY <1>1, <1>2, <1>3, <1>6, TellingNobody DEF GuardBack
  <1>7. CASE StartRecv(s)
    <2> DEFINE r == [Rest(s) EXCEPT !.silence = TRUE,
                              !.reading = (ses[s].state = "started" /\ ses[s].sock)]
    <2>1. r \in SessionRecord /\ r.told = Rest(s).told
      BY <1>1, <1>7 DEF StartRecv, SessionRecord
    <2>2. Becomes(s, PassOn(r))
      BY <1>7 DEF StartRecv
    <2> HIDE DEF r
    <2> QED
      BY <1>2, <1>3, <2>1, <2>2, TellingNobody
  <1>8. CASE EraseMe(s)
    BY <1>2, <1>3, <1>8 DEF EraseMe
  <1>9. CASE Closed(s)
    <2> DEFINE r == [Rest(s) EXCEPT !.sock = FALSE]
               p == [r EXCEPT !.phase = "readend"]
    <2>1. r \in SessionRecord /\ r.told = Rest(s).told /\ p.told = Rest(s).told
      BY <1>1, <1>9 DEF Closed, SessionRecord
    <2>2. Becomes(s, IF r.reading THEN p ELSE ReadEnd(r))
      BY <1>9 DEF Closed
    <2> HIDE DEF r, p
    <2> QED
      BY <1>2, <1>3, <2>1, <2>2, TellingNobody
  <1>10. CASE ShutdownTimer(s) \/ ReadEndTimer(s)
    BY <1>1, <1>3, <1>10, TellingNobody DEF ShutdownTimer, ReadEndTimer
  <1>11. ASSUME NEW b \in BOOLEAN, RunDisconnect(s, b) PROVE UNCHANGED <<state, Inside>>
    BY <1>1, <1>2, <1>3, <1>11, TellingNobody DEF RunDisconnect
  <1>12. ASSUME NEW b \in BOOLEAN, RunEvent(s, b) PROVE UNCHANGED <<state, Inside>>
    <2>1. \A p : Quiet([ses[s] EXCEPT !.phase = p])
      BY <1>1 DEF SessionRecord
    <2> HIDE DEF Quiet
    <2>2. PICK r : Becomes(s, r) /\ \/ \E p : r = [ses[s] EXCEPT !.phase = p]
                                    \/ r \in {PassOn(ses[s]), Shutdown(ses[s], b),
                                              DisconnectGuarded(ses[s], b)}
      BY <1>12 DEF RunEvent
    <2> QED
      BY <1>1, <1>3, <2>1, <2>2, TellingNobody DEF Quiet
  <1>13. ASSUME NEW b \in BOOLEAN, WriteDone(s, b) PROVE UNCHANGED <<state, Inside>>
    <2>1. Disconnect(ses[s]) \in SessionRecord /\ Quiet(Disconnect(ses[s]))
      BY <1>1, PushFacts, TellingNobody DEF Disconnect, SessionRecord, Event
    <2> QED
      BY <1>1, <1>3, <1>13, <2>1, TellingNobody DEF WriteDone
  <1>14. CASE ReadDone(s)
    <2> DEFINE r == [ses[s] EXCEPT !.reading = FALSE]
    <2>1. r \in SessionRecord /\ r.told = ses[s].told
      BY <1>1 DEF SessionRecord
    <2>2. Becomes(s, IF r.state = "started" THEN Disconnect(r) ELSE r)
      BY <1>14 DEF ReadDone
    <2> HIDE DEF r
    <2> QED
      BY <1>3, <2>1, <2>2, TellingNobody
  <1>15. CASE TimedOut(s)
    <2> DEFINE t == [ses[s] EXCEPT !.timer = FALSE]
               q == [ses[s] EXCEPT !.silence = FALSE]
    <2>1. t \in SessionRecord /\ t.told = ses[s].told /\ q \in SessionRecord /\ q.told = ses[s].told
      BY <1>1 DEF SessionRecord
    <2>2. Becomes(s, Disconnect(t)) \/ Becomes(s, Disconnect(q))
      BY <1>15 DEF TimedOut
    <2> HIDE DEF t, q
    <2> QED
      BY <1>3, <2>1, <2>2, TellingNobody
  <1> QED
    BY <1>4, <1>5, <1>6, <1>7, <1>8, <1>9, <1>10, <1>11, <1>12, <1>13, <1>14, <1>15

(* Threads and the acceptor tell nothing either.                           *)
LEMMA ThreadsTellNobody ==
    ASSUME IInv, NEW c \in Caller, GoOn(c) \/ SendAll(c) \/ \E j \in {"run", "stop"} : Call(c, j)
    PROVE  UNCHANGED <<state, Inside>>
  <1>1. CASE \E s \in Session : SendTo(c, s)
    <2> PICK s \in Session : SendTo(c, s)
      BY <1>1
    <2>1. UNCHANGED <<state, cnt>>
      BY DEF SendTo
    <2>2. ses' = [ses EXCEPT ![s] = ses'[s]] /\ ses'[s].told = ses[s].told
      BY SendToStep
    <2> QED
      BY <2>1, <2>2, InsideStays
  <1>2. CASE ~\E s \in Session : SendTo(c, s)
    <2>1. UNCHANGED <<state, cnt, ses>>
      BY <1>2 DEF GoOn, SendAll, Call, StopPost, StopIopool, PoolCancel, PoolOthers, PoolStopped,
                  StartPool, StartPost
    <2> QED
      BY <2>1 DEF Inside
  <1> QED
    BY <1>1, <1>2

LEMMA ServerTells ==
    ASSUME IInv, SrvNext
    PROVE  \/ UNCHANGED <<state, Inside>>
           \/ state = "stopped" /\ state' \in {"started", "stopping"} /\ UNCHANGED Inside
           \/ state = "started" /\ state' = "stopping" /\ UNCHANGED Inside
           \/ state = "stopping" /\ Inside = {} /\ state' = "stopped" /\ UNCHANGED Inside
           \/ \E s \in Session : s \notin Inside /\ Inside' = Inside \cup {s}
                                 /\ state # "stopped" /\ UNCHANGED state
           \/ \E s \in Session : s \in Inside /\ Inside' = Inside \ {s} /\ UNCHANGED state
  <1>1. CASE \E c \in Caller, ok \in BOOLEAN : RunStart(c, ok)
    <2> PICK c \in Caller, ok \in BOOLEAN : RunStart(c, ok)
      BY <1>1
    <2>1. state # "stopped" => UNCHANGED <<state, cnt, ses>>
      BY DEF RunStart
    <2>2. state = "stopped" => cnt = {} /\ cnt' = {} /\ state' \in {"started", "stopping"}
      BY DEF RunStart, PostStop, IInv, ServerInv, NoneOutlives
    <2> QED
      BY <2>1, <2>2 DEF Inside
  <1>2. CASE RunStop
    <2>1. CASE state = "started"
      <3> DEFINE rest == Tail(srv)
      <3>1. /\ rest \in Seq(Handler) /\ StopFollows(rest)
            /\ \A t \in Session : /\ Sound(t, ses[t], rest, t \in map, state)
                                  /\ Counted(t, ses[t], rest, t \in cnt)
            /\ srv # <<>> /\ srv \in Seq(Handler)
        BY <1>2, ServerTakesOwn DEF RunStop
      <3>2. Never(rest, {H("exec", Nobody)})
        BY <2>1, <3>1, TailFacts DEF IInv, ServerInv, ExecOnce
      <3>3. PostStop(rest) /\ UNCHANGED <<map, cnt>>
        BY <1>2, <2>1 DEF RunStop
      <3> HIDE DEF rest
      <3>4. state' = "stopping" /\ \A t \in Session : ses'[t].told = ses[t].told
        BY <3>1, <3>2, <3>3, PostStopFacts
      <3> QED
        BY <2>1, <3>3, <3>4 DEF Inside, IInv, TypeOK
    <2>2. CASE state # "started"
      BY <1>2, <2>2 DEF RunStop, Inside
    <2> QED
      BY <2>1, <2>2
  <1>3. CASE RunExec
    <2>1. state = "stopping" /\ state' = "stopped" /\ cnt = {}
      BY <1>3, ExecStep
    <2>2. UNCHANGED <<cnt, ses>>
      BY <1>3 DEF RunExec
    <2> QED
      BY <2>1, <2>2 DEF Inside
  <1>4. CASE RunUnreg \/ RunCancel \/ RunAcceptAgain \/ SrvReturns \/ AcceptorTimer
    BY <1>4 DEF RunUnreg, RunCancel, RunAcceptAgain, SrvReturns, AcceptorTimer, Inside
  <1>5. ASSUME NEW s \in Session, RunConnect(s)
        PROVE  \/ UNCHANGED <<state, Inside>>
               \/ s \notin Inside /\ Inside' = Inside \cup {s} /\ state # "stopped" /\ UNCHANGED state
    <2>1. /\ s \in cnt /\ UNCHANGED <<state, cnt>> /\ ses' = [ses EXCEPT ![s] = ses'[s]]
          /\ ses'[s].told \in {ses[s].told, "connect"}
      BY <1>5, ConnectStep DEF RunConnect
    <2>2. CASE ses'[s].told = ses[s].told
      BY <2>1, <2>2, InsideStays
    <2>3. CASE ses'[s].told = "connect" /\ ses[s].told # "connect"
      BY <2>1, <2>3 DEF Inside, IInv, TypeOK, ServerInv, NoneOutlives
    <2> QED
      BY <2>1, <2>2, <2>3
  <1>6. ASSUME NEW s \in Session, RunEmplace(s) PROVE UNCHANGED <<state, Inside>>
    <2>1. /\ UNCHANGED <<state, cnt>> /\ ses' = [ses EXCEPT ![s] = ses'[s]]
          /\ ses'[s].told = ses[s].told
      BY <1>6, EmplaceStep DEF RunEmplace
    <2> QED
      BY <2>1, InsideStays
  <1>7. ASSUME NEW s \in Session, RunErase(s)
        PROVE  \/ UNCHANGED <<state, Inside>>
               \/ s \in Inside /\ Inside' = Inside \ {s} /\ UNCHANGED state
    <2>1. /\ s \in cnt /\ UNCHANGED <<state, cnt>> /\ ses' = [ses EXCEPT ![s] = ses'[s]]
          /\ ses'[s].told \in {ses[s].told, "disconnect"}
      BY <1>7, EraseStep DEF RunErase
    <2>2. CASE ses'[s].told = ses[s].told
      BY <2>1, <2>2, InsideStays
    <2>3. CASE ses'[s].told = "disconnect"
      BY <2>1, <2>3 DEF Inside, IInv, TypeOK
    <2> QED
      BY <2>1, <2>2, <2>3
  <1>8. ASSUME NEW s \in Session, NEW ok \in BOOLEAN, RunAccept(s, ok)
        PROVE  UNCHANGED <<state, Inside>>
    <2>1. UNCHANGED state
      BY <1>8 DEF RunAccept
    <2>2. CASE UNCHANGED <<ses, cnt>>
      BY <2>1, <2>2 DEF Inside
    <2>3. CASE s \notin cnt /\ cnt' = cnt \cup {s} /\ ses' = [ses EXCEPT ![s] = Accepted(ok)]
      <3>1. Accepted(ok).told # "connect"
        BY DEF Accepted, Blank
      <3> QED
        BY <2>1, <2>3, <3>1 DEF Inside, IInv, TypeOK
    <2> QED
      BY <1>8, <2>2, <2>3, RunAcceptStep
  <1> QED
    BY <1>1, <1>2, <1>3, <1>4, <1>5, <1>6, <1>7, <1>8 DEF SrvNext

LEMMA StepImplements ==
    ASSUME IInv, [Next]_vars
    PROVE  [Service!Next]_(Service!vars)
  <1> SUFFICES Service!Next \/ UNCHANGED <<state, Inside>>
    BY DEF Service!vars, Inside
  <1>1. /\ Service!Start <=> state = "stopped" /\ state' \in {"started", "stopping"} /\ UNCHANGED Inside
        /\ Service!Stop <=> state = "started" /\ state' = "stopping" /\ UNCHANGED Inside
        /\ Service!Stopped <=> state = "stopping" /\ Inside = {} /\ state' = "stopped" /\ UNCHANGED Inside
        /\ \A s : Service!Enter(s) <=> /\ state \in {"started", "stopping"} /\ s \notin Inside
                                       /\ Inside' = Inside \cup {s} /\ UNCHANGED state
        /\ \A s : Service!Leave(s) <=> s \in Inside /\ Inside' = Inside \ {s} /\ UNCHANGED state
    BY DEF Service!Start, Service!Stop, Service!Stopped, Service!Enter, Service!Leave, Inside
  <1>2. CASE UNCHANGED vars
    BY <1>2 DEF vars, Inside
  <1>3. CASE \E c \in Caller : GoOn(c) \/ SendAll(c) \/ \E j \in {"run", "stop"} : Call(c, j)
    BY <1>3, ThreadsTellNobody
  <1>4. CASE SrvNext
    BY <1>1, <1>4, ServerTells DEF Service!Next, IInv, TypeOK
  <1>5. ASSUME NEW s \in Session, Die(s) PROVE Service!Next \/ UNCHANGED <<state, Inside>>
    <2>1. /\ s \in cnt /\ cnt' = cnt \ {s} /\ ses' = [ses EXCEPT ![s] = Blank] /\ UNCHANGED state
      BY <1>5 DEF Die
    <2>2. Inside' = Inside \ {s}
      BY <2>1 DEF Inside, IInv, TypeOK
    <2>3. Inside' = Inside \/ (s \in Inside /\ Inside' = Inside \ {s})
      BY <2>2
    <2> QED
      BY <1>1, <2>1, <2>3 DEF Service!Next
  <1>6. CASE \E s \in Session : SesReturns(s) \/ \E ok \in BOOLEAN : Accept(s, ok)
    BY <1>6 DEF SesReturns, Accept, Inside
  <1>7. ASSUME NEW s \in Session, SesNext(s) \/ ReadDone(s) \/ TimedOut(s), ~Die(s), ~SesReturns(s)
        PROVE  UNCHANGED <<state, Inside>>
    BY <1>7, SessionsTellNobody DEF SesNext
  <1> QED
    BY <1>2, <1>3, <1>4, <1>5, <1>6, <1>7 DEF Next

(* The server implements ServerService, but for the promise that it stops: *)
(* on_start and on_stop alternate, on_stop finds every announced session   *)
(* gone, and sessions are announced and leave only in between.             *)
THEOREM Implements == Spec => Service!Init /\ [][Service!Next]_(Service!vars)
  <1>1. Init => Service!Init
    BY DEF Init, Service!Init
  <1>2. IInv /\ [Next]_vars => [Service!Next]_(Service!vars)
    BY StepImplements
  <1> QED
    BY <1>1, <1>2, Invariant, PTL DEF Spec
=============================================================================
