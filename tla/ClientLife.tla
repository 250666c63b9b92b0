------------------------------- MODULE ClientLife -------------------------------
(***************************************************************************)
(* Model checking that what is begun with one client ends, in two          *)
(* compositions:                                                           *)
(*   "one"  one thread calls start, stop and async_send as it likes;       *)
(*   "app"  the application, with one detached thread at a time.           *)
(* A behaviour stays in the one it begins in.                              *)
(***************************************************************************)
EXTENDS NetConn

VARIABLE mode

LifeInit == AppInit /\ mode \in {"one", "app"}

LifeNext ==
    /\ UNCHANGED mode
    /\ \/ mode = "one" /\ (IoNext \/ CallerNext(Gui)) /\ UNCHANGED appVars
       \/ mode = "app" /\ AppNext

LifeSpec == LifeInit /\ [][LifeNext]_<<allVars, mode>> /\ AppFairness

(* Every call of the only thread returns.  In the application a start may  *)
(* be lost, which is the run lost_start.                                   *)
CallsReturnToOne == mode = "one" => CallsReturn
=============================================================================
