----------------------------- MODULE ServerService -----------------------------
(***************************************************************************)
(* What asio2::tcp_server promises to the program that gives it callbacks: *)
(* on_start and on_stop alternate, and the sessions for which on_connect   *)
(* has been called come and go in between.                                 *)
(***************************************************************************)
CONSTANT Session

VARIABLES
    phase,  \* "started" after on_start, "stopping", "stopped" after on_stop
    inside  \* the sessions that have been announced and have not left

vars == <<phase, inside>>

Init == phase = "stopped" /\ inside = {}

(* Listening works, or it fails and the server stops again.                *)
Start ==
    /\ phase = "stopped"
    /\ phase' \in {"started", "stopping"}
    /\ UNCHANGED inside

(* on_connect; a connection that was under way may still be announced      *)
(* while the server stops.                                                 *)
Enter(s) ==
    /\ phase \in {"started", "stopping"}
    /\ s \notin inside
    /\ inside' = inside \cup {s}
    /\ UNCHANGED phase

Leave(s) ==
    /\ s \in inside
    /\ inside' = inside \ {s}
    /\ UNCHANGED phase

Stop ==
    /\ phase = "started"
    /\ phase' = "stopping"
    /\ UNCHANGED inside

(* on_stop: nobody is left.                                                *)
Stopped ==
    /\ phase = "stopping" /\ inside = {}
    /\ phase' = "stopped"
    /\ UNCHANGED inside

Next == Start \/ Stop \/ Stopped \/ \E s \in Session : Enter(s) \/ Leave(s)

(* A server that is stopping stops.                                        *)
Liveness == phase = "stopping" ~> phase = "stopped"

Spec == Init /\ [][Next]_vars /\ Liveness
=============================================================================
