----------------------------------- MODULE Tls -----------------------------------
(***************************************************************************)
(* ssl_stream_cp, as tcps_client and tcps_session use it: a handshake      *)
(* between connecting and being up, and a shutdown of the stream before    *)
(* that of the socket.  The peer may never answer either; a timer then     *)
(* closes the socket.  Every attempt makes a stream of its own, and each   *)
(* is cleared (SSL_clear) when nobody holds its SSL_clear_op any more.     *)
(***************************************************************************)
EXTENDS Naturals, Sequences, FiniteSets

CONSTANT MaxStream      \* bound: attempts

VARIABLES
    phase,      \* "idle", "handshake", "up" or "stopping"
    sock,       \* whether the socket is open
    stream,     \* ssl_stream_: its number; a new one destroys the one before
    op,         \* what waits for the peer: "none", "handshake" or "shutdown"
    read,       \* whether the receive of a session that is up is pending
    timer,      \* the timer that runs: "none", "handshake" or "shutdown"
    flag,       \* *flag_ptr of the attempt
    clear_s,    \* the stream SSL_clear_ptr names
    holders,    \* the lambdas that hold SSL_clear_ptr
    ready       \* the handlers of the io_context that are ready, in order

vars == <<phase, sock, stream, op, read, timer, flag, clear_s, holders, ready>>

Init ==
    /\ phase = "idle" /\ sock = FALSE /\ stream = 0
    /\ op = "none" /\ read = FALSE /\ timer = "none"
    /\ flag = FALSE /\ clear_s = 0 /\ holders = {}
    /\ ready = <<>>

If(cond, what) == IF cond THEN <<what>> ELSE <<>>
H(of, result) == [of |-> of, result |-> result, stream |-> stream]

TimerHandler == [handshake |-> "handshake_timer", shutdown |-> "shutdown_timer"]

(* close(): what waits on the socket completes with operation_aborted.     *)
Aborted == If(op # "none", H(op, "aborted")) \o If(read, H("read", "aborted"))
CloseSocket == sock' = FALSE /\ op' = "none" /\ read' = FALSE

(* cancel_timer(): a timer that has fired already is not called off.       *)
TimerOff(t) == timer' = IF timer = t THEN "none" ELSE timer
CalledOff(t) == If(timer = t, H(TimerHandler[t], "aborted"))

(* _do_init, _ssl_init, the connection and _post_handshake.                *)
Connect ==
    /\ phase = "idle" /\ stream < MaxStream
    /\ phase' = "handshake"
    /\ sock' = TRUE /\ stream' = stream + 1
    /\ op' = "handshake" /\ timer' = "handshake" /\ flag' = FALSE
    /\ UNCHANGED <<read, clear_s, holders, ready>>

Answer(result) ==
    /\ op # "none"
    /\ ready' = Append(ready, H(op, result))
    /\ op' = "none"
    /\ UNCHANGED <<phase, sock, stream, read, timer, flag, clear_s, holders>>

Receive ==
    /\ read
    /\ read' = FALSE
    /\ ready' = Append(ready, H("read", "error"))
    /\ UNCHANGED <<phase, sock, stream, op, timer, flag, clear_s, holders>>

Expire ==
    /\ timer # "none"
    /\ timer' = "none"
    /\ ready' = Append(ready, H(TimerHandler[timer], "fired"))
    /\ UNCHANGED <<phase, sock, stream, op, read, flag, clear_s, holders>>

-----------------------------------------------------------------------------
Is(of) == ready # <<>> /\ ready[1].of = of
Result == ready[1].result

(***************************************************************************)
(* _ssl_stop: SSL_clear_ptr is held by the timer and by async_shutdown,    *)
(* the guard of the event queue by the timer.  rest is what the handler    *)
(* that stops has made ready before.                                       *)
(***************************************************************************)
SslStop(rest) ==
    /\ phase' = "stopping"
    /\ clear_s' = stream /\ holders' = {"timer", "op"}
    /\ timer' = "shutdown"
    /\ read' = FALSE
    /\ op' = IF sock THEN "shutdown" ELSE "none"
    /\ ready' = rest \o If(read, H("read", "aborted"))
                     \o If(~ sock, H("shutdown", "error"))
    /\ UNCHANGED <<sock, stream, flag>>

Stop ==
    /\ phase = "up"
    /\ SslStop(ready)

(* The read of a stream that is being stopped fails without effect.        *)
RunRead_Aborted ==                   (* Mutant: a read that was called off is no reason to stop. *)
    /\ Is("read")
    /\ \/ phase = "up" /\ Result # "aborted" /\ SslStop(Tail(ready))
       \/ /\ phase # "up" \/ Result = "aborted"
          /\ ready' = Tail(ready)
          /\ UNCHANGED <<phase, sock, stream, op, read, timer, flag, clear_s, holders>>

RunRead ==
    /\ Is("read")
    /\ \/ phase = "up" /\ SslStop(Tail(ready))
       \/ /\ phase # "up"
          /\ ready' = Tail(ready)
          /\ UNCHANGED <<phase, sock, stream, op, read, timer, flag, clear_s, holders>>

(***************************************************************************)
(* The handler of the handshake: timed out, if its timer has said so, even *)
(* when the handshake itself went well.                                    *)
(***************************************************************************)
Shaken_AsItWas == Result = "ok"      (* Mutant: the flag of the timer is not looked at. *)

Shaken == Result = "ok" /\ ~ flag

RunHandshake ==
    /\ Is("handshake")
    /\ flag' = TRUE
    /\ \/ /\ Shaken
          /\ phase' = "up" /\ read' = sock
          /\ TimerOff("handshake")
          /\ ready' = Tail(ready) \o CalledOff("handshake") \o If(~ sock, H("read", "error"))
          /\ UNCHANGED <<sock, stream, op, clear_s, holders>>
       \/ /\ ~ Shaken
          /\ phase' = "stopping"
          /\ clear_s' = stream /\ holders' = {"timer", "op"}
          /\ timer' = "shutdown"
          /\ op' = IF sock THEN "shutdown" ELSE "none"
          /\ ready' = Tail(ready) \o CalledOff("handshake")
                                  \o If(~ sock, H("shutdown", "error"))
          /\ UNCHANGED <<sock, stream, read>>

RunHandshakeTimer_NoClose ==         (* Mutant: the socket is left open. *)
    /\ Is("handshake_timer")
    /\ ready' = Tail(ready)
    /\ flag' = (flag \/ Result = "fired")
    /\ UNCHANGED <<phase, sock, stream, op, read, timer, clear_s, holders>>

(* A timer that fired as the handshake ended closes the socket even so.    *)
RunHandshakeTimer ==
    /\ Is("handshake_timer")
    /\ \/ /\ Result = "fired"
          /\ flag' = (flag \/ ready[1].stream = stream)
          /\ ready' = Tail(ready) \o Aborted
          /\ CloseSocket
       \/ /\ Result # "fired"
          /\ ready' = Tail(ready)
          /\ UNCHANGED <<sock, op, read, flag>>
    /\ UNCHANGED <<phase, stream, timer, clear_s, holders>>

RunShutdown ==
    /\ Is("shutdown")
    /\ holders' = holders \ {"op"}
    /\ TimerOff("shutdown")
    /\ ready' = Tail(ready) \o CalledOff("shutdown")
    /\ UNCHANGED <<phase, sock, stream, op, read, flag, clear_s>>

(* The timer's lambda ends, and with it the chain: the socket is next.     *)
RunShutdownTimer_Waits ==            (* Mutant: the chain goes on when async_shutdown has ended. *)
    /\ Is("shutdown_timer")
    /\ holders' = holders \ {"timer"}
    /\ ready' = Tail(ready) \o If("op" \notin holders, H("close", "ok"))
    /\ UNCHANGED <<phase, sock, stream, op, read, timer, flag, clear_s>>

RunShutdownTimer ==
    /\ Is("shutdown_timer")
    /\ holders' = holders \ {"timer"}
    /\ ready' = Append(Tail(ready), H("close", "ok"))
    /\ UNCHANGED <<phase, sock, stream, op, read, timer, flag, clear_s>>

(* _post_shutdown of the socket, its close, and the guard's next_event.    *)
RunClose_GuardFirst ==               (* Mutant: the next event is posted before the socket is closed. *)
    /\ Is("close")
    /\ ready' = Append(Tail(ready), H("next", "ok")) \o Aborted
    /\ CloseSocket
    /\ UNCHANGED <<phase, stream, timer, flag, clear_s, holders>>

RunClose ==
    /\ Is("close")
    /\ ready' = Append(Tail(ready) \o Aborted, H("next", "ok"))
    /\ CloseSocket
    /\ UNCHANGED <<phase, stream, timer, flag, clear_s, holders>>

RunNext ==
    /\ Is("next")
    /\ phase' = "idle"
    /\ ready' = Tail(ready)
    /\ UNCHANGED <<sock, stream, op, read, timer, flag, clear_s, holders>>

Run ==
    \/ RunRead \/ RunHandshake \/ RunHandshakeTimer
    \/ RunShutdown \/ RunShutdownTimer \/ RunClose \/ RunNext

Next ==
    \/ Connect \/ Stop \/ Receive \/ Expire \/ Run
    \/ \E result \in {"ok", "bad"} : Answer(result)

(* The io thread runs what is ready and the timers expire; the peer and    *)
(* the caller may do nothing.                                              *)
Fairness == WF_vars(Run) /\ WF_vars(Expire)

Spec == Init /\ [][Next]_vars /\ Fairness

-----------------------------------------------------------------------------
(* SSL_clear is called on a stream that still exists: the last holder of   *)
(* SSL_clear_ptr is gone before the next attempt makes another stream.     *)
ClearsTheLiving == [][holders # {} /\ holders' = {} => clear_s = stream]_vars

(* What is reported to be up has not been closed by the handshake's timer. *)
UpIsOpen == [][phase # "up" /\ phase' = "up" => sock']_vars

(* A handshake and a shutdown end though the peer never answers, and a     *)
(* session whose socket a late timer closed does not stay up.              *)
HandshakeEnds == phase = "handshake" ~> phase # "handshake"
TlsStopEnds == phase = "stopping" ~> phase = "idle"
ClosedIsNoticed == phase = "up" /\ ~ sock ~> phase # "up"
=============================================================================
