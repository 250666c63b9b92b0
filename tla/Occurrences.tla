------------------------------ MODULE Occurrences ------------------------------
(***************************************************************************)
(* How often something of a set is in a sequence.  What may happen twice   *)
(* when it should happen once (a guard that is passed on, a promise that   *)
(* is kept) is stated with these, position by position, and not by         *)
(* counting.                                                               *)
(***************************************************************************)
EXTENDS Naturals, Sequences

Never(q, S) == \A i \in DOMAIN q : q[i] \notin S

Once(q, S) == \E i \in DOMAIN q : q[i] \in S /\ \A j \in DOMAIN q : q[j] \in S => j = i
=============================================================================
