----------------------------- MODULE CallbackList -----------------------------
(***************************************************************************)
(* callback_list_base of event_dispatcher.hpp: the doubly linked list of   *)
(* the listeners of one event, called while listeners come and go.  Adding *)
(* and removing is serialised by the mutex of the dispatcher the list      *)
(* belongs to; a dispatch takes the list's own lock for each step only, so *)
(* that everything may happen in the middle of it, on other threads or in  *)
(* the listener it is calling.                                             *)
(*                                                                         *)
(* A removed node keeps its links and stays alive while a dispatch stands  *)
(* on it; until then its handle can still be locked.                       *)
(***************************************************************************)
EXTENDS Naturals, Sequences, FiniteSets, SequencesExt

CONSTANTS MaxNode,   \* bound: the nodes 1..MaxNode are allocated once each, in turn
          Dispatch,  \* the dispatches under way at a time
          Modulus,   \* of counter_type
          Careful    \* a handle is not used any more once its node is removed

Node == 1..MaxNode
Null == 0
First == MaxNode + 1   \* a place for a new node: before all others
removed_counter == 0

VARIABLES head, tail, size,
          current,   \* current_counter_
          node,      \* node[n]: prev, next, counter; used: it has been allocated
          adding,    \* the append, prepend or insert that holds the mutex
          dispatch   \* dispatch[d]: a do_for_each_if; due, allowed, called: history

vars == <<head, tail, size, current, node, adding, dispatch>>

Nobody == [n |-> Null, before |-> Null, at |-> "none"]
Idle == [at |-> "idle", n |-> Null, snap |-> 0, due |-> {}, allowed |-> {}, called |-> <<>>]

(* The counter of a list that has been used for long may be about to wrap. *)
Init ==
    /\ head = Null /\ tail = Null /\ size = 0
    /\ current \in {0, Modulus - 2}
    /\ node = [n \in Node |-> [used |-> FALSE, prev |-> Null, next |-> Null, counter |-> 0]]
    /\ adding = Nobody
    /\ dispatch = [d \in Dispatch |-> Idle]

-----------------------------------------------------------------------------
(* The nodes met from n on: those in every set that n and whatever follows *)
(* a member of it are in.                                                  *)
FollowsIn(W) == \A x \in W : node[x].next \in W \cup {Null}
From(n) ==
    {m \in Node : \A W \in SUBSET Node : n \in W \cup {Null} /\ FollowsIn(W) => m \in W}

Listed == From(head)
After(n) == From(node[n].next)

(* Whoever is reached from the list or from where a dispatch stands.       *)
Alive ==
    {m \in Node : \A W \in SUBSET Node :
        /\ {head, tail} \cup {dispatch[d].n : d \in Dispatch} \subseteq W \cup {Null}
        /\ \A x \in W : {node[x].next, node[x].prev} \subseteq W \cup {Null}
        => m \in W}

Usable == IF Careful THEN Listed ELSE {n \in Node : node[n].used}

-----------------------------------------------------------------------------
(* append, prepend and insert: the node is allocated with the next value   *)
(* of the counter, then linked under the list's lock.                      *)

Allocate(n, before) ==
    /\ adding = Nobody
    /\ n = 1 + Cardinality({m \in Node : node[m].used})
    /\ current' = (current + 1) % Modulus
    /\ node' = [node EXCEPT ![n].used = TRUE, ![n].counter = current']
    /\ adding' = [n |-> n, before |-> before,
                  at |-> IF current' = 0 THEN "reset" ELSE "link"]
    /\ UNCHANGED <<head, tail, size, dispatch>>

Append_(n) == Allocate(n, Null)
Prepend(n) == Allocate(n, First)

(* insert: a handle that cannot be locked any more means append.           *)
Insert(n, b) ==
    /\ b \in Usable
    /\ Allocate(n, IF b \in Alive THEN b ELSE Null)

(* get_next_counter on overflow: everybody becomes old.  The dispatches    *)
(* under way will take newcomers for old ones.                             *)
ResetCounters ==
    /\ adding.at = "reset"
    /\ current' = current + 1
    /\ node' = [n \in Node |->
                  IF n \in Listed THEN [node[n] EXCEPT !.counter = 1]
                  ELSE IF n = adding.n THEN [node[n] EXCEPT !.counter = current']
                  ELSE node[n]]
    /\ adding' = [adding EXCEPT !.at = "link"]
    /\ dispatch' = [d \in Dispatch |-> [dispatch[d] EXCEPT !.allowed = Node]]
    /\ UNCHANGED <<head, tail, size>>

LinkLast(n) ==
    /\ head' = IF head = Null THEN n ELSE head
    /\ tail' = n
    /\ node' = IF head = Null THEN node
               ELSE [node EXCEPT ![n].prev = tail, ![tail].next = n]

LinkFirst(n) ==
    /\ head' = n
    /\ tail' = IF head = Null THEN n ELSE tail
    /\ node' = IF head = Null THEN node
               ELSE [node EXCEPT ![n].next = head, ![head].prev = n]

(* Mutant: the node before is not linked to the new one.                   *)
LinkBefore_OneWay(n, b) ==
    /\ head' = IF b = head THEN n ELSE head
    /\ node' = [node EXCEPT ![n].prev = node[b].prev, ![n].next = b, ![b].prev = n]
    /\ UNCHANGED tail

(* do_insert.                                                              *)
LinkBefore(n, b) ==
    /\ head' = IF b = head THEN n ELSE head
    /\ node' = [m \in Node |->
                  IF m = n THEN [node[n] EXCEPT !.prev = node[b].prev, !.next = b]
                  ELSE IF m = b THEN [node[b] EXCEPT !.prev = n]
                  ELSE IF m = node[b].prev THEN [node[m] EXCEPT !.next = n]
                  ELSE node[m]]
    /\ UNCHANGED tail

Link ==
    /\ adding.at = "link"
    /\ CASE adding.before = Null   -> LinkLast(adding.n)
         [] adding.before = First -> LinkFirst(adding.n)
         [] OTHER                  -> LinkBefore(adding.n, adding.before)
    /\ size' = size + 1
    /\ adding' = Nobody
    /\ UNCHANGED <<current, dispatch>>

-----------------------------------------------------------------------------
(* Mutant: the node's own links are cleared as well.                       *)
Free_ClearsLinks(n) ==
    /\ node' = [m \in Node |->
                  IF m = n THEN [node[n] EXCEPT !.counter = removed_counter,
                                                !.prev = Null, !.next = Null]
                  ELSE [node[m] EXCEPT !.prev = IF m = node[n].next THEN node[n].prev ELSE @,
                                       !.next = IF m = node[n].prev THEN node[n].next ELSE @]]
    /\ head' = IF head = n THEN node[n].next ELSE head
    /\ tail' = IF tail = n THEN node[n].prev ELSE tail

(* do_free_node.  The links of the node itself stay as they are.           *)
Free(n) ==
    /\ node' = [m \in Node |->
                  [node[m] EXCEPT
                      !.counter = IF m = n THEN removed_counter ELSE @,
                      !.prev = IF m = node[n].next THEN node[n].prev ELSE @,
                      !.next = IF m = node[n].prev THEN node[n].next ELSE @]]
    /\ head' = IF head = n THEN node[n].next ELSE head
    /\ tail' = IF tail = n THEN node[n].prev ELSE tail

(* Of a handle that cannot be locked any more nothing is removed.          *)
RemoveNode(n) ==
    /\ adding = Nobody
    /\ n \in Usable \cap Alive
    /\ Free(n)
    /\ size' = size - 1
    /\ UNCHANGED <<current, adding, dispatch>>

(* clear: the nodes go to an empty list, whose counter is 0, and lose      *)
(* their links when that one is destroyed.                                 *)
Clear ==
    /\ adding = Nobody
    /\ head # Null
    /\ head' = Null /\ tail' = Null /\ size' = 0
    /\ current' = 0
    /\ node' = [n \in Node |-> IF n \in Listed
                               THEN [node[n] EXCEPT !.prev = Null, !.next = Null]
                               ELSE node[n]]
    /\ UNCHANGED <<adding, dispatch>>

-----------------------------------------------------------------------------
(* do_for_each_if.                                                         *)

Begin(d) ==
    /\ dispatch[d].at = "idle"
    /\ dispatch' = [dispatch EXCEPT ![d] = [Idle EXCEPT !.at = "load", !.n = head, !.due = Listed]]
    /\ UNCHANGED <<head, tail, size, current, node, adding>>

LoadCounter(d) ==
    /\ dispatch[d].at = "load"
    /\ dispatch' = [dispatch EXCEPT
          ![d].at = "visit", ![d].snap = current,
          ![d].allowed = {n \in Node : node[n].used} \cup
                         (IF adding.at = "reset" THEN Node ELSE {})]
    /\ UNCHANGED <<head, tail, size, current, node, adding>>

(* Mutant: a newcomer is called as well.                                   *)
Called_Newcomers(d, n) == node[n].counter # removed_counter

Called(d, n) == node[n].counter # removed_counter /\ dispatch[d].snap >= node[n].counter

(* The listener is called; it may say that it is enough.                   *)
Visit(d) ==
    /\ dispatch[d].at = "visit" /\ dispatch[d].n # Null
    /\ IF Called(d, dispatch[d].n)
       THEN \E more \in BOOLEAN :
              dispatch' = [dispatch EXCEPT ![d].called = Append(@, dispatch[d].n),
                                           ![d].at = IF more THEN "step" ELSE "idle",
                                           ![d].n = IF more THEN @ ELSE Null]
       ELSE dispatch' = [dispatch EXCEPT ![d].at = "step"]
    /\ UNCHANGED <<head, tail, size, current, node, adding>>

(* Mutant: from a node that has been removed it goes back to the head.     *)
Step_Restarts(d) ==
    /\ dispatch[d].at = "step"
    /\ dispatch' = [dispatch EXCEPT
          ![d].n = IF node[@].counter = removed_counter THEN head ELSE node[@].next,
          ![d].at = "visit"]
    /\ UNCHANGED <<head, tail, size, current, node, adding>>

Step(d) ==
    /\ dispatch[d].at = "step"
    /\ dispatch' = [dispatch EXCEPT ![d].n = node[@].next, ![d].at = "visit"]
    /\ UNCHANGED <<head, tail, size, current, node, adding>>

End(d) ==
    /\ dispatch[d].at = "visit" /\ dispatch[d].n = Null
    /\ dispatch' = [dispatch EXCEPT ![d] = Idle]
    /\ UNCHANGED <<head, tail, size, current, node, adding>>

Next ==
    \/ \E n \in Node : Append_(n) \/ Prepend(n) \/ RemoveNode(n) \/ \E b \in Node : Insert(n, b)
    \/ ResetCounters \/ Link \/ Clear
    \/ \E d \in Dispatch : Begin(d) \/ LoadCounter(d) \/ Visit(d) \/ Step(d) \/ End(d)

Spec == Init /\ [][Next]_vars

-----------------------------------------------------------------------------
TypeOK ==
    /\ {head, tail} \subseteq Node \cup {Null}
    /\ size \in 0..Cardinality(Node)
    /\ current \in 0..Modulus - 1
    /\ node \in [Node -> [used : BOOLEAN, prev : Node \cup {Null}, next : Node \cup {Null},
                          counter : 0..Modulus - 1]]
    /\ adding.at \in {"none", "reset", "link"} /\ adding.n \in Node \cup {Null}
    /\ \A d \in Dispatch : dispatch[d].at \in {"idle", "load", "visit", "step"}

(* Forwards and backwards the list has the same listeners, size() of them, *)
(* none of which has been removed, and ends.                               *)
ListIntact ==
    /\ head = Null <=> tail = Null
    /\ \A n \in Listed :
          /\ n \notin After(n)
          /\ n = tail <=> node[n].next = Null
          /\ n = head <=> node[n].prev = Null
          /\ n # tail => node[node[n].next].prev = n
          /\ node[n].counter # removed_counter
    /\ size = Cardinality(Listed)

(* From wherever a dispatch stands, removed nodes included, it comes to an *)
(* end, and it still meets everybody it has to call: who was there when it *)
(* began, has not been removed and has not been called.  (A dispatch that  *)
(* loads the counter while it wraps reads 0, and calls nobody.)            *)
NobodyIsMissed ==
    \A d \in Dispatch : LET t == dispatch[d] IN
       t.at \in {"visit", "step"} =>
          /\ \A n \in From(t.n) : n \notin After(n)
          /\ t.snap # 0 =>
                (t.due \cap Listed) \ ToSet(t.called) \subseteq {n \in From(t.n) : Called(d, n)}

(* A listener added in the middle of a dispatch is not called by it (until *)
(* the counter wraps), nor does it call one twice or against their order.  *)
NoNewcomer ==
    \A d \in Dispatch : dispatch[d].at # "idle" =>
        ToSet(dispatch[d].called) \subseteq dispatch[d].allowed

CalledInOrder ==
    \A d \in Dispatch : LET c == dispatch[d].called IN
       \A i, j \in DOMAIN c : i < j =>
          /\ c[i] # c[j]
          /\ {c[i], c[j]} \subseteq Listed => c[j] \in After(c[i])
=============================================================================
