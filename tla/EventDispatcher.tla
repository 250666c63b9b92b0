---------------------------- MODULE EventDispatcher ----------------------------
(***************************************************************************)
(* event_dispatcher_base of event_dispatcher.hpp: who listens to which     *)
(* event, in the two maps by event and by name.  Each operation is one    *)
(* step, as it holds listener_mtx_; a dispatch holds it only to find its   *)
(* list.  The list itself is module CallbackList; here it is a sequence    *)
(* that a dispatch goes through, skipping who has been removed.            *)
(***************************************************************************)
EXTENDS Naturals, Sequences, FiniteSets, SequencesExt

CONSTANTS Event, Name,
          MaxNode,   \* bound: the listeners that are ever added
          Careful    \* what is in use is not removed, see Spared

Null == 0
Node == 1..MaxNode

VARIABLES listener_map,   \* listener_map[e]; an event without an entry has <<>>
          sizes,          \* size_ of each list
          name_map,       \* listener_name_map_, as triples <<name, event, node>>
          born,           \* the listeners ever added, with their name and event
          dispatch        \* the dispatch under way: its event, where it stands, whom it
                          \* has still to call, and whether its list is still there

vars == <<listener_map, sizes, name_map, born, dispatch>>

Idle == [e |-> Null, at |-> Null, todo |-> <<>>, there |-> TRUE]

Init ==
    /\ listener_map = [e \in Event |-> <<>>]
    /\ sizes = [e \in Event |-> 0]
    /\ name_map = {}
    /\ born = <<>>
    /\ dispatch = Idle

Listed(e) == ToSet(listener_map[e])
New == Len(born) + 1
Dispatching(e) == dispatch.e = e

(* A handle can be locked as long as its node is in a list, or called.     *)
CanLock(n) == n \in Listed(born[n].e) \/ dispatch.at = n

(* Mutant: listeners without an entry of the name map.                     *)
Added_NoName(name, e) == name_map

Added(name, e) == name_map \cup {<<name, e, New>>}

(* append_listener, prepend_listener, insert_listener with a predicate: a  *)
(* new listener anywhere in its list.                                      *)
AddAt(name, e, i) ==
    /\ Len(born) < MaxNode
    /\ i \in 0..Len(listener_map[e])
    /\ listener_map' = [listener_map EXCEPT ![e] = InsertAt(@, i + 1, New)]
    /\ sizes' = [sizes EXCEPT ![e] = @ + 1]
    /\ name_map' = Added(name, e)
    /\ born' = Append(born, [name |-> name, e |-> e])
    /\ UNCHANGED dispatch

AppendListener(name, e)  == AddAt(name, e, Len(listener_map[e]))
PrependListener(name, e) == AddAt(name, e, 0)
InsertListenerIf(name, e) == \E i \in 0..Len(listener_map[e]) : AddAt(name, e, i)

(* insert_listener with a handle: of another event, nothing is done; one   *)
(* that cannot be locked means append.  (One whose node is only kept alive *)
(* by the dispatch would put the listener beside a node outside the list.) *)
InsertListener(name, e, b) ==
    /\ b \in DOMAIN born
    /\ CanLock(b) => born[b].e = e /\ b \in Listed(e)
    /\ IF CanLock(b) THEN AddAt(name, e, SelectInSeq(listener_map[e], LAMBDA x : x = b) - 1)
       ELSE AppendListener(name, e)

-----------------------------------------------------------------------------
(* A list that has become empty is erased, with whoever is iterating it.   *)
Erase(gone) ==
    dispatch' = [dispatch EXCEPT !.there = @ /\ ~\E e \in gone : Dispatching(e)]

Spared(e, left) == Careful => ~(Dispatching(e) /\ left = <<>>)

(* The listeners of e without those in ns, in the same order: the k-th of  *)
(* them stands where k of them have been met.                              *)
Staying(e, ns) == {i \in DOMAIN listener_map[e] : listener_map[e][i] \notin ns}
Removed(e, ns) ==
    [k \in 1..Cardinality(Staying(e, ns)) |->
        listener_map[e][CHOOSE i \in Staying(e, ns) : Cardinality(Staying(e, ns) \cap (1..i)) = k]]

(* remove_listener of a handle.  The node is found in the name map by its  *)
(* address; callback_list_base::remove does not ask whether it is in it.   *)
RemoveListener(n) ==
    /\ n \in DOMAIN born /\ CanLock(n)
    /\ Careful => n \in Listed(born[n].e)
    /\ LET e == born[n].e  left == Removed(e, {n}) IN
       /\ Spared(e, left)
       /\ name_map' = name_map \ {<<born[n].name, e, n>>}
       /\ listener_map' = [listener_map EXCEPT ![e] = left]
       /\ sizes' = [sizes EXCEPT ![e] = IF listener_map[e] = <<>> \/ left = <<>> THEN 0 ELSE @ - 1]
       /\ Erase(IF left = <<>> /\ listener_map[e] # <<>> THEN {e} ELSE {})
    /\ UNCHANGED born

(* remove_listener of a name and the events es: one, or all it has.        *)
RemoveNamed(name, es) ==
    LET ns == {t[3] : t \in {t \in name_map : t[1] = name /\ t[2] \in es}}
        left == [e \in Event |-> Removed(e, ns)]
        emptied == {e \in es : left[e] = <<>> /\ listener_map[e] # <<>>}
    IN  /\ ns # {}
        /\ \A e \in emptied : Spared(e, left[e])
        /\ name_map' = {t \in name_map : ~(t[1] = name /\ t[2] \in es)}
        /\ listener_map' = left
        /\ sizes' = [e \in Event |-> IF e \in emptied THEN 0
                                     ELSE sizes[e] - Cardinality(ns \cap Listed(e))]
        /\ Erase(emptied)
        /\ UNCHANGED born

(* Mutant: the names are left in the map.                                  *)
ClearListeners_KeepsNames ==
    /\ Careful => dispatch.e = Null
    /\ listener_map' = [e \in Event |-> <<>>]
    /\ sizes' = [e \in Event |-> 0]
    /\ Erase({e \in Event : listener_map[e] # <<>>})
    /\ UNCHANGED <<born, name_map>>

ClearListeners ==
    /\ Careful => dispatch.e = Null
    /\ listener_map' = [e \in Event |-> <<>>]
    /\ sizes' = [e \in Event |-> 0]
    /\ name_map' = {}
    /\ Erase({e \in Event : listener_map[e] # <<>>})
    /\ UNCHANGED born

-----------------------------------------------------------------------------
(* direct_dispatch, no filter having objected: the list is found, and kept *)
(* by its address.                                                         *)
Dispatch(e) ==
    /\ dispatch = Idle
    /\ listener_map[e] # <<>>
    /\ dispatch' = [e |-> e, at |-> Head(listener_map[e]), todo |-> Tail(listener_map[e]),
                    there |-> TRUE]
    /\ UNCHANGED <<listener_map, sizes, name_map, born>>

(* The listener returns; the next one that has not been removed is called. *)
Return ==
    /\ dispatch # Idle /\ dispatch.there
    /\ LET rest == SelectSeq(dispatch.todo, LAMBDA x : x \in Listed(dispatch.e)) IN
       dispatch' = IF rest = <<>> THEN Idle
                   ELSE [dispatch EXCEPT !.at = Head(rest), !.todo = Tail(rest)]
    /\ UNCHANGED <<listener_map, sizes, name_map, born>>

Next ==
    \/ \E name \in Name, e \in Event :
         \/ AppendListener(name, e) \/ PrependListener(name, e) \/ InsertListenerIf(name, e)
         \/ \E b \in Node : InsertListener(name, e, b)
         \/ RemoveNamed(name, {e}) \/ RemoveNamed(name, Event)
    \/ \E n \in Node : RemoveListener(n)
    \/ ClearListeners
    \/ \E e \in Event : Dispatch(e)
    \/ Return

Spec == Init /\ [][Next]_vars

-----------------------------------------------------------------------------
TypeOK ==
    /\ listener_map \in [Event -> Seq(Node)]
    /\ sizes \in [Event -> Nat]
    /\ name_map \subseteq Name \X Event \X Node
    /\ born \in Seq([name : Name, e : Event])
    /\ dispatch.e \in Event \cup {Null} /\ dispatch.todo \in Seq(Node)

(* The two maps tell the same listeners, so that the assertion of          *)
(* get_listener_count holds (the counts by event and by name agree), and   *)
(* the counted sizes are the real ones.                                    *)
MapsAgree ==
    /\ name_map = {<<born[n].name, born[n].e, n>> : n \in UNION {Listed(e) : e \in Event}}
    /\ \A e \in Event : sizes[e] = Len(listener_map[e]) /\ IsInjective(listener_map[e])

(* "node may be still used in a loop": a listener may remove listeners,    *)
(* and the list the dispatch goes through is still there afterwards.       *)
DispatchedListExists == dispatch.there
=============================================================================
