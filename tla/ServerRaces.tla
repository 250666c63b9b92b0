------------------------------ MODULE ServerRaces ------------------------------
(***************************************************************************)
(* Model checking the safety of the server on two instances:               *)
(*   "sessions"  all the sessions, one thread that starts and stops;       *)
(*   "calls"     all the threads, one session, which is sent to.           *)
(* A behaviour stays in the one it begins in.                              *)
(***************************************************************************)
EXTENDS TcpServer

CONSTANTS OneCaller, OneSession

VARIABLE mode

Sessions == INSTANCE TcpServer WITH Caller <- {OneCaller}, MaxSend <- 0
Calls    == INSTANCE TcpServer WITH Session <- {OneSession}

RacesInit == Init /\ mode \in {"sessions", "calls"}

RacesNext ==
    /\ UNCHANGED mode
    /\ \/ mode = "sessions" /\ Sessions!Next
       \/ mode = "calls" /\ Calls!Next

RacesSpec == RacesInit /\ [][RacesNext]_<<vars, mode>>
=============================================================================
