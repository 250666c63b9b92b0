----------------------------- MODULE ClientService -----------------------------
(***************************************************************************)
(* What a client promises to the threads that start and stop it, without   *)
(* queue, pool, timers or sockets: between a start and the end of the next *)
(* stop it is active, and it tries to be connected all that time.          *)
(***************************************************************************)

VARIABLES active,   \* started, and not completely stopped since
          link      \* the connection: down, being tried, or up

vars == <<active, link>>

Init == active = FALSE /\ link = "down"

(* A start() that finds the client stopped tries at once. *)
Activate ==
    /\ ~active
    /\ active' = TRUE
    /\ link' = "trying"

Retry ==
    /\ active
    /\ link = "down"
    /\ link' = "trying"
    /\ UNCHANGED active

Establish ==
    /\ active
    /\ link = "trying"
    /\ link' = "up"
    /\ UNCHANGED active

Lose ==
    /\ link # "down"
    /\ link' = "down"
    /\ UNCHANGED active

Deactivate ==
    /\ active
    /\ active' = FALSE
    /\ link' = "down"

Next == Activate \/ Retry \/ Establish \/ Lose \/ Deactivate

SafeSpec == Init /\ [][Next]_vars

(* Every attempt has an outcome, and a lost connection is tried again.     *)
Liveness ==
    /\ (link = "trying") ~> (link # "trying")
    /\ (active /\ link = "down") ~> (link # "down" \/ ~active)

Spec == SafeSpec /\ Liveness
=============================================================================
