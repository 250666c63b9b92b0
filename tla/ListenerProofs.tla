----------------------------- MODULE ListenerProofs -----------------------------
(***************************************************************************)
(* The listeners of event_dispatcher.hpp, for any number of events, names, *)
(* listeners and dispatches: the list of one event, step by step, and the  *)
(* dispatcher's maps.                                                      *)
(***************************************************************************)
EXTENDS Components, SequenceTheorems, FiniteSetTheorems, TLAPS

-----------------------------------------------------------------------------
(***************************************************************************)
(* DispatchIsRight is not inductive, and what it says of the nodes that    *)
(* are met is the least set closed under the links, about which there is   *)
(* no induction to be had: each change of a link comes with the set that   *)
(* is closed under the new links (the lemmas Meets...).                    *)
(*                                                                         *)
(* The list is whole when nobody outside is linked into it (Apart), no     *)
(* walk returns to where it was, from a removed node neither (Ends), the   *)
(* neighbours know each other (Whole) and the node about to be linked is   *)
(* fresh (Adder).  A dispatch misses nobody because it has them ahead of   *)
(* it (DueAreMet), calls no newcomer because their counters are beyond its *)
(* own, or are going to be (LateAreTold), and keeps to the order because   *)
(* all it will meet is behind all it has called (KeepsOrder).              *)
(***************************************************************************)
(* What is met from n on along f.                                          *)
Within(f, W) == \A x \in W : f[x] \in W \cup {List!Null}
Meets(f, n) ==
    {m \in List!Node : \A W \in SUBSET List!Node :
                          n \in W \cup {List!Null} /\ Within(f, W) => m \in W}

(* Null and First are no nodes.                                            *)
LEMMA NodeFacts ==
    /\ List!Null = 0 /\ List!Null \notin List!Node /\ List!Node \in SUBSET Nat
    /\ List!First \notin List!Node /\ List!First # List!Null
  BY ListAssumption DEF List!Null, List!Node, List!First

(* What is met from n on is the least set that is closed under f.          *)
LEMMA MeetsIsLeast ==
    ASSUME NEW f \in [List!Node -> List!Node \cup {List!Null}]
    PROVE  /\ Meets(f, List!Null) = {}
           /\ \A n \in List!Node \cup {List!Null} :
                /\ Meets(f, n) \in SUBSET List!Node /\ Within(f, Meets(f, n))
                /\ n \in Meets(f, n) \cup {List!Null}
                /\ \A W \in SUBSET List!Node :
                      n \in W \cup {List!Null} /\ Within(f, W) => Meets(f, n) \subseteq W
<1>1. Within(f, {}) /\ {} \in SUBSET List!Node
  BY DEF Within
<1>2. Meets(f, List!Null) = {}
  BY <1>1 DEF Meets
<1>3. ASSUME NEW n \in List!Node \cup {List!Null}
      PROVE  /\ Meets(f, n) \in SUBSET List!Node
             /\ n \in Meets(f, n) \cup {List!Null}
             /\ \A W \in SUBSET List!Node :
                   n \in W \cup {List!Null} /\ Within(f, W) => Meets(f, n) \subseteq W
  BY DEF Meets
<1>4. ASSUME NEW n \in List!Node \cup {List!Null}, NEW m \in Meets(f, n), f[m] # List!Null
      PROVE  f[m] \in Meets(f, n)
  <2>1. m \in List!Node /\ f[m] \in List!Node
    BY <1>3, <1>4
  <2>2. ASSUME NEW W \in SUBSET List!Node, n \in W \cup {List!Null}, Within(f, W)
        PROVE  f[m] \in W
    <3>1. m \in W
      BY <1>3, <2>2
    <3> QED BY <1>4, <2>2, <3>1 DEF Within
  <2> QED BY <2>1, <2>2 DEF Meets
<1> QED BY <1>2, <1>3, <1>4 DEF Within

(* From n on n is met, and whoever is met from the next one; and whoever   *)
(* is met is met from nowhere further back.                                *)
LEMMA MeetsFacts ==
    ASSUME NEW f \in [List!Node -> List!Node \cup {List!Null}], NEW n \in List!Node
    PROVE  /\ n \in Meets(f, n) /\ Meets(f, n) = {n} \cup Meets(f, f[n])
           /\ \A k \in List!Node \cup {List!Null} :
                 n \in Meets(f, k) => Meets(f, n) \subseteq Meets(f, k)
<1>1. n \in Meets(f, n) /\ f[n] \in Meets(f, n) \cup {List!Null} /\ f[n] \in List!Node \cup {List!Null}
  BY MeetsIsLeast, NodeFacts DEF Within
<1>2. ASSUME NEW k \in List!Node \cup {List!Null}, NEW j \in Meets(f, k) \cup {List!Null}
      PROVE  Meets(f, j) \subseteq Meets(f, k)
  <2>1. j \in List!Node \cup {List!Null} /\ Within(f, Meets(f, k)) /\ Meets(f, k) \in SUBSET List!Node
    BY MeetsIsLeast
  <2> QED BY <2>1, MeetsIsLeast
<1>3. Meets(f, f[n]) \subseteq Meets(f, n)
  BY <1>1, <1>2
<1>4. Meets(f, n) \subseteq {n} \cup Meets(f, f[n])
  <2> DEFINE W == {n} \cup Meets(f, f[n])
  <2>1. W \in SUBSET List!Node /\ Within(f, W) /\ n \in W
    BY <1>1, MeetsIsLeast DEF Within
  <2> HIDE DEF W
  <2>2. Meets(f, n) \subseteq W
    BY <2>1, MeetsIsLeast
  <2> QED BY <2>2 DEF W
<1> QED BY <1>1, <1>2, <1>3, <1>4

(* Links that only lead further on, or nowhere.                            *)
LEMMA MeetsLess ==
    ASSUME NEW f \in [List!Node -> List!Node \cup {List!Null}],
           NEW g \in [List!Node -> List!Node \cup {List!Null}],
           \A x \in List!Node : g[x] \in Meets(f, f[x]) \cup {List!Null}
    PROVE  \A n \in List!Node \cup {List!Null} : Meets(g, n) \subseteq Meets(f, n)
<1> SUFFICES ASSUME NEW n \in List!Node \cup {List!Null}
             PROVE  Meets(g, n) \subseteq Meets(f, n)
  OBVIOUS
<1>1. Meets(f, n) \in SUBSET List!Node /\ n \in Meets(f, n) \cup {List!Null}
  BY MeetsIsLeast
<1>2. ASSUME NEW x \in Meets(f, n) PROVE g[x] \in Meets(f, n) \cup {List!Null}
  <2>1. Meets(f, f[x]) \subseteq Meets(f, x) /\ Meets(f, x) \subseteq Meets(f, n)
    BY <1>1, MeetsFacts
  <2> QED BY <1>1, <2>1
<1> QED BY <1>1, <1>2, MeetsIsLeast DEF Within

(* One that is passed over.                                                *)
LEMMA MeetsSkipped ==
    ASSUME NEW f \in [List!Node -> List!Node \cup {List!Null}],
           NEW g \in [List!Node -> List!Node \cup {List!Null}],
           NEW r \in List!Node, f[r] # r,
           \A x \in List!Node : g[x] = f[x] \/ (f[x] = r /\ g[x] = f[r])
    PROVE  \A n \in List!Node \cup {List!Null} :
              Meets(g, n) \subseteq Meets(f, n) /\ Meets(f, n) \ {r} \subseteq Meets(g, n)
<1>1. ASSUME NEW x \in List!Node PROVE g[x] \in Meets(f, f[x]) \cup {List!Null}
  <2>1. CASE g[x] = f[x]
    BY <2>1, MeetsIsLeast
  <2>2. CASE f[x] = r /\ g[x] = f[r]
    <3>1. r \in Meets(f, r)
      BY MeetsFacts
    <3>2. Within(f, Meets(f, r))
      BY MeetsIsLeast
    <3> QED BY <2>2, <3>1, <3>2 DEF Within
  <2> QED BY <2>1, <2>2
<1>2. ASSUME NEW n \in List!Node \cup {List!Null} PROVE Meets(f, n) \ {r} \subseteq Meets(g, n)
  <2> DEFINE V == Meets(g, n)
  <2>1. V \in SUBSET List!Node /\ Within(g, V) /\ n \in V \cup {List!Null}
    BY MeetsIsLeast
  <2> HIDE DEF V
  <2>2. CASE f[r] \in V \cup {List!Null}
    <3>1. Within(f, V \cup {r}) /\ V \cup {r} \in SUBSET List!Node /\ n \in (V \cup {r}) \cup {List!Null}
      BY <2>1, <2>2 DEF Within
    <3>2. Meets(f, n) \subseteq V \cup {r}
      BY <3>1, MeetsIsLeast
    <3> QED BY <3>2 DEF V
  <2>3. CASE f[r] \notin V \cup {List!Null}
    <3>1. r \notin V
      BY <2>1, <2>3 DEF Within
    <3>2. Within(f, V)
      BY <2>1, <2>3, <3>1 DEF Within
    <3>3. Meets(f, n) \subseteq V
      BY <2>1, <3>2, MeetsIsLeast
    <3> QED BY <3>3 DEF V
  <2> QED BY <2>2, <2>3
<1> QED BY <1>1, <1>2, MeetsLess

(* One that comes between p and what followed it.                          *)
Joins(f, g, p, x) ==
    /\ f[x] = List!Null /\ p # x /\ g[p] = x /\ g[x] = f[p]
    /\ \A y \in List!Node : f[y] # x
    /\ \A y \in List!Node \ {p, x} : g[y] = f[y]

LEMMA MeetsJoined ==
    ASSUME NEW f \in [List!Node -> List!Node \cup {List!Null}],
           NEW g \in [List!Node -> List!Node \cup {List!Null}],
           NEW p \in List!Node, NEW x \in List!Node, Joins(f, g, p, x)
    PROVE  /\ \A n \in (List!Node \cup {List!Null}) \ {x} :
                /\ Meets(f, n) \subseteq Meets(g, n)
                /\ Meets(g, n) \subseteq Meets(f, n) \cup {x}
                /\ x \in Meets(g, n) <=> p \in Meets(f, n)
           /\ (\A n \in List!Node : n \notin Meets(f, f[n])) => \A n \in List!Node : n \notin Meets(g, g[n])
<1>1. /\ f[x] = List!Null /\ p # x /\ g[p] = x /\ g[x] = f[p]
      /\ \A y \in List!Node : f[y] # x
      /\ \A y \in List!Node \ {p, x} : g[y] = f[y]
  BY DEF Joins
<1>2. ASSUME NEW n \in (List!Node \cup {List!Null}) \ {x}
      PROVE  /\ Meets(f, n) \subseteq Meets(g, n)
             /\ Meets(g, n) \subseteq Meets(f, n) \cup {x}
             /\ x \in Meets(g, n) <=> p \in Meets(f, n)
  <2> DEFINE V == Meets(f, n)  W == Meets(g, n)
  <2>1. /\ V \in SUBSET List!Node /\ Within(f, V) /\ n \in V \cup {List!Null}
        /\ W \in SUBSET List!Node /\ Within(g, W) /\ n \in W \cup {List!Null}
    BY <1>1, MeetsIsLeast
  <2>2. x \notin V
    <3>1. Within(f, List!Node \ {x}) /\ n \in (List!Node \ {x}) \cup {List!Null}
      BY <1>1 DEF Within
    <3>2. V \subseteq List!Node \ {x}
      BY <3>1, MeetsIsLeast
    <3> QED BY <3>2
  <2> HIDE DEF V, W
  <2>3. V \subseteq W
    <3>1. ASSUME NEW y \in W PROVE f[y] \in W \cup {List!Null}
      <4>1. CASE y = p
        BY <1>1, <2>1, <4>1, NodeFacts DEF Within
      <4>2. CASE y # p
        BY <1>1, <2>1, <4>2 DEF Within
      <4> QED BY <4>1, <4>2
    <3> QED BY <2>1, <3>1, MeetsIsLeast DEF Within, V
  <2>4. CASE p \in V
    <3>1. Within(g, V \cup {x}) /\ V \cup {x} \in SUBSET List!Node /\ n \in (V \cup {x}) \cup {List!Null}
      BY <1>1, <2>1, <2>4 DEF Within
    <3>2. W \subseteq V \cup {x}
      BY <1>1, <3>1, MeetsIsLeast DEF W
    <3>3. x \in W
      BY <1>1, <2>1, <2>3, <2>4, NodeFacts DEF Within
    <3> QED BY <2>3, <2>4, <3>2, <3>3 DEF V, W
  <2>5. CASE p \notin V
    <3>1. Within(g, V)
      BY <1>1, <2>1, <2>2, <2>5 DEF Within
    <3>2. W \subseteq V
      BY <1>1, <2>1, <3>1, MeetsIsLeast DEF W
    <3> QED BY <2>2, <2>3, <2>5, <3>2 DEF V, W
  <2> QED BY <2>4, <2>5
<1>3. ASSUME \A n \in List!Node : n \notin Meets(f, f[n]), NEW n \in List!Node
      PROVE  n \notin Meets(g, g[n])
  <2>1. f[n] \in (List!Node \cup {List!Null}) \ {x} /\ f[p] \in (List!Node \cup {List!Null}) \ {x}
    BY <1>1, NodeFacts
  <2>2. CASE n = p
    <3>1. Meets(g, x) = {x} \cup Meets(g, f[p])
      BY <1>1, MeetsFacts
    <3> QED BY <1>1, <1>2, <1>3, <2>1, <2>2, <3>1
  <2>3. CASE n = x
    BY <1>1, <1>2, <1>3, <2>1, <2>3
  <2>4. CASE n \notin {p, x}
    BY <1>1, <1>2, <1>3, <2>1, <2>4
  <2> QED BY <2>2, <2>3, <2>4
<1> QED BY <1>1, <1>2, <1>3

(* One that is put in front of h.                                          *)
LEMMA MeetsFronted ==
    ASSUME NEW f \in [List!Node -> List!Node \cup {List!Null}],
           NEW x \in List!Node, f[x] = List!Null, \A y \in List!Node : f[y] # x,
           NEW h \in (List!Node \cup {List!Null}) \ {x},
           NEW g \in [List!Node -> List!Node \cup {List!Null}], g[x] = h,
           \A y \in List!Node \ {x} : g[y] = f[y]
    PROVE  /\ \A n \in (List!Node \cup {List!Null}) \ {x} : Meets(g, n) = Meets(f, n)
           /\ (\A n \in List!Node : n \notin Meets(f, f[n])) => \A n \in List!Node : n \notin Meets(g, g[n])
<1>1. /\ g \in [List!Node -> List!Node \cup {List!Null}] /\ g[x] = h
      /\ \A y \in List!Node \ {x} : g[y] = f[y]
  OBVIOUS
<1>2. ASSUME NEW n \in (List!Node \cup {List!Null}) \ {x}
      PROVE  Meets(g, n) = Meets(f, n) /\ x \notin Meets(f, n)
  <2> DEFINE V == Meets(f, n)  W == Meets(g, n)  U == List!Node \ {x}
  <2>1. /\ V \in SUBSET List!Node /\ Within(f, V) /\ n \in V \cup {List!Null}
        /\ W \in SUBSET List!Node /\ Within(g, W) /\ n \in W \cup {List!Null}
    BY <1>1, MeetsIsLeast
  <2>2. x \notin V /\ x \notin W
    <3>1. Within(f, U) /\ Within(g, U) /\ n \in U \cup {List!Null} /\ U \in SUBSET List!Node
      BY <1>1 DEF Within
    <3> HIDE DEF U
    <3>2. V \subseteq U /\ W \subseteq U
      BY <1>1, <3>1, MeetsIsLeast
    <3> QED BY <3>2 DEF U
  <2> HIDE DEF V, W
  <2>3. Within(g, V) /\ Within(f, W)
    BY <1>1, <2>1, <2>2 DEF Within
  <2>4. W \subseteq V
    BY <1>1, <2>1, <2>3, MeetsIsLeast DEF W
  <2>5. V \subseteq W
    BY <2>1, <2>3, MeetsIsLeast DEF V
  <2> QED BY <2>2, <2>4, <2>5 DEF V, W
<1>3. ASSUME \A n \in List!Node : n \notin Meets(f, f[n]), NEW n \in List!Node
      PROVE  n \notin Meets(g, g[n])
  <2>1. CASE n = x
    BY <1>1, <1>2, <2>1
  <2>2. CASE n # x
    BY <1>1, <1>2, <1>3, <2>2, NodeFacts
  <2> QED BY <2>1, <2>2
<1> QED BY <1>1, <1>2, <1>3
-----------------------------------------------------------------------------
NextOf == [n \in List!Node |-> node[n].next]
Met(n) == Meets(NextOf, n)
InList == Met(head)

Linked == {n \in List!Node : node[n].used /\ n # adding.n}
CalledBy(d) == {dispatch[d].called[i] : i \in DOMAIN dispatch[d].called}

Count == 0..Modulus - 1
NodeType == [used : BOOLEAN, prev : List!Node \cup {List!Null},
             next : List!Node \cup {List!Null}, counter : Count]

WalkType == [at : {"idle", "load", "visit", "step"}, n : List!Node \cup {List!Null},
             snap : Count, due : SUBSET List!Node, allowed : SUBSET List!Node,
             called : Seq(List!Node)]

ListTypeOK ==
    /\ {head, tail} \subseteq List!Node \cup {List!Null}
    /\ size \in Nat
    /\ current \in 0..Modulus - 1
    /\ node \in [List!Node -> NodeType]
    /\ adding \in [n : List!Node \cup {List!Null}, before : Nat, at : {"none", "reset", "link"}]
    /\ dispatch \in [Walker -> WalkType]

(* Who has not been linked yet is alone.                                   *)
Apart ==
    /\ {head, tail} \subseteq Linked \cup {List!Null}
    /\ \A n \in Linked : node[n].next \in Linked \cup {List!Null}
    /\ \A n \in List!Node \ Linked : node[n].next = List!Null /\ node[n].prev = List!Null

(* The list, and the removed nodes that lead into it, are without a circle. *)
Ends == \A n \in List!Node : n \notin Met(node[n].next)

(* The neighbours in the list know each other.                             *)
Whole ==
    /\ head = List!Null <=> tail = List!Null
    /\ tail \in InList \cup {List!Null}
    /\ \A n \in InList :
          /\ n = tail <=> node[n].next = List!Null
          /\ n = head <=> node[n].prev = List!Null
          /\ n # tail => node[node[n].next].prev = n
          /\ n # head => node[n].prev \in InList /\ node[node[n].prev].next = n
    /\ size = Cardinality(InList)

(* The node that is about to be linked, and where.                         *)
Adder ==
    /\ adding.at = "none" <=> adding.n = List!Null
    /\ adding.n \in List!Node => node[adding.n].used
    /\ adding.before \in InList \cup {List!Null, List!First}
    /\ adding.at = "reset" => current = 0
    /\ adding.at = "link" => current # 0 /\ node[adding.n].counter = current
    /\ \E k \in 0..MaxNode : \A n \in List!Node : node[n].used <=> n <= k

Counters ==
    \A n \in InList : /\ node[n].counter # 0
                      /\ adding.at = "reset" \/ node[n].counter <= current

(* A dispatch meets who it has to call, and may call them.                 *)
DueAreMet(d) ==
    LET t == dispatch[d] IN
    /\ t.at = "load" \/ (t.at \in {"visit", "step"} /\ t.snap # 0) =>
          \A n \in (t.due \cap InList) \ CalledBy(d) : n \in Met(t.n) /\ (t.at = "step" => n # t.n)
    /\ t.at \in {"visit", "step"} /\ t.snap # 0 =>
          \A n \in t.due \cap InList : node[n].counter <= t.snap

(* Who came too late has a greater number, and so has whoever is to come as *)
(* long as somebody of the list is met.                                    *)
Late(d, n) == \/ n \in dispatch[d].allowed
              \/ node[n].counter = 0
              \/ node[n].counter > dispatch[d].snap
LateAreTold(d) ==
    LET t == dispatch[d] IN
    /\ t.at # "idle" => CalledBy(d) \subseteq t.allowed
    /\ t.at \in {"visit", "step"} =>
          /\ \A n \in Met(t.n) : Late(d, n)
          /\ Met(t.n) \cap InList # {} =>
                /\ adding.at = "link" => Late(d, adding.n)
                /\ adding.at = "reset" \/ t.allowed = List!Node \/ t.snap <= current

(* Whom a dispatch has called it does not meet again, and they are before  *)
(* all that it will meet.                                                  *)
KeepsOrder(d) ==
    LET t == dispatch[d] IN
    /\ t.at = "idle" => t.n = List!Null
    /\ t.at = "load" => t.called = <<>>
    /\ t.at = "step" => t.n # List!Null
    /\ CalledBy(d) \cap Met(t.n) \subseteq (IF t.at = "step" THEN {t.n} ELSE {})
    /\ \A i, j \in DOMAIN t.called : i < j =>
          /\ t.called[i] # t.called[j]
          /\ {t.called[i], t.called[j]} \subseteq InList => t.called[j] \in Met(t.called[i])
    /\ \A c \in CalledBy(d) \cap InList, n \in Met(t.n) \cap InList : n \in Met(c)
    /\ CalledBy(d) \cup t.due \cup ({t.n} \ {List!Null}) \subseteq Linked

Walks == \A d \in Walker : DueAreMet(d) /\ LateAreTold(d) /\ KeepsOrder(d)

ListInv == ListTypeOK /\ Apart /\ Ends /\ Whole /\ Adder /\ Counters /\ Walks
-----------------------------------------------------------------------------
(* What is met, in terms of the nodes' links.                              *)
LEMMA MetFacts ==
    ASSUME ListTypeOK
    PROVE  /\ NextOf \in [List!Node -> List!Node \cup {List!Null}]
           /\ \A n \in List!Node : NextOf[n] = node[n].next
           /\ Met(List!Null) = {}
           /\ \A n \in List!Node \cup {List!Null} : Met(n) \in SUBSET List!Node
           /\ \A n \in List!Node : n \in Met(n) /\ Met(n) = {n} \cup Met(node[n].next)
           /\ InList \in SUBSET List!Node
<1>1. /\ NextOf \in [List!Node -> List!Node \cup {List!Null}]
      /\ \A n \in List!Node : NextOf[n] = node[n].next
  BY DEF ListTypeOK, NodeType, NextOf
<1>2. \A n \in List!Node : n \in Met(n) /\ Met(n) = {n} \cup Met(node[n].next)
  BY <1>1, MeetsFacts DEF Met
<1>3. Met(List!Null) = {} /\ \A n \in List!Node \cup {List!Null} : Met(n) \in SUBSET List!Node
  BY <1>1, MeetsIsLeast DEF Met
<1> QED BY <1>1, <1>2, <1>3 DEF InList, ListTypeOK

(* Nobody is met who has not been linked.                                  *)
LEMMA MetAreLinked ==
    ASSUME ListTypeOK, Apart
    PROVE  /\ \A n \in Linked \cup {List!Null} : Met(n) \subseteq Linked
           /\ InList \subseteq Linked /\ Linked \subseteq List!Node
<1>1. Linked \subseteq List!Node
  BY DEF Linked
<1>2. Within(NextOf, Linked)
  BY <1>1, MetFacts DEF Within, Apart
<1>3. ASSUME NEW n \in Linked \cup {List!Null} PROVE Met(n) \subseteq Linked
  BY <1>1, <1>2, MetFacts, MeetsIsLeast DEF Met
<1> QED BY <1>1, <1>3 DEF Apart, InList

(* The words of CallbackList.                                              *)
LEMMA ListWords ==
    ASSUME ListTypeOK
    PROVE  /\ \A n : List!From(n) = Met(n)
           /\ \A n : List!After(n) = Met(node[n].next)
           /\ List!Listed = InList
           /\ \A d : List!ToSet(dispatch[d].called) = CalledBy(d)
<1>1. \A W \in SUBSET List!Node : List!FollowsIn(W) <=> Within(NextOf, W)
  BY MetFacts DEF List!FollowsIn, Within
<1>2. ASSUME NEW n PROVE List!From(n) = Met(n)
  BY <1>1 DEF List!From, Met, Meets
<1> QED BY <1>2 DEF List!After, List!Listed, InList, List!ToSet, CalledBy

(* The invariant says what DispatchIsRight asks for.                       *)
LEMMA ListInvRight == ListInv => DispatchIsRight
<1> SUFFICES ASSUME ListInv PROVE DispatchIsRight
  OBVIOUS
<1>1. ListTypeOK /\ Apart /\ Ends /\ Whole /\ Adder /\ Counters /\ Walks
  BY DEF ListInv
<1>2. \A n \in InList : n \in List!Node /\ n \notin Met(node[n].next)
  BY <1>1, MetFacts DEF Ends
<1>3. List!ListIntact
  <2>1. \A n \in InList : node[n].counter # 0
    BY <1>1 DEF Counters
  <2>2. size = List!Cardinality(InList)
    BY <1>1 DEF Whole, List!Cardinality, Cardinality
  <2> QED BY <1>1, <1>2, <2>1, <2>2, ListWords DEF List!ListIntact, Whole, List!removed_counter
<1>4. List!NobodyIsMissed
  <2> SUFFICES ASSUME NEW d \in Walker, dispatch[d].at \in {"visit", "step"}
               PROVE  /\ \A n \in Met(dispatch[d].n) : n \notin Met(node[n].next)
                      /\ dispatch[d].snap # 0 =>
                            \A n \in (dispatch[d].due \cap InList) \ CalledBy(d) :
                               n \in Met(dispatch[d].n) /\ List!Called(d, n)
    BY <1>1, ListWords DEF List!NobodyIsMissed
  <2>1. dispatch[d].n \in List!Node \cup {List!Null} /\ dispatch[d].snap \in 0..Modulus - 1
    BY <1>1 DEF ListTypeOK, WalkType, Count
  <2>2. \A n \in Met(dispatch[d].n) : n \notin Met(node[n].next)
    BY <1>1, <2>1, MetFacts DEF Ends
  <2>3. ASSUME dispatch[d].snap # 0, NEW n \in (dispatch[d].due \cap InList) \ CalledBy(d)
        PROVE  n \in Met(dispatch[d].n) /\ List!Called(d, n)
    <3>1. n \in Met(dispatch[d].n) /\ node[n].counter <= dispatch[d].snap
      BY <1>1, <2>3 DEF Walks, DueAreMet
    <3>2. node[n].counter # 0 /\ node[n].counter \in 0..Modulus - 1
      BY <1>1, <1>2, <2>3 DEF Counters, ListTypeOK, NodeType, Count
    <3> QED BY <2>1, <3>1, <3>2, ListAssumption DEF List!Called, List!removed_counter
  <2> QED BY <2>2, <2>3
<1>5. List!NoNewcomer
  BY <1>1, ListWords DEF List!NoNewcomer, Walks, LateAreTold
<1>6. List!CalledInOrder
  <2> SUFFICES ASSUME NEW d \in Walker, NEW i \in DOMAIN dispatch[d].called,
                      NEW j \in DOMAIN dispatch[d].called, i < j
               PROVE  LET c == dispatch[d].called
                      IN  /\ c[i] # c[j]
                          /\ {c[i], c[j]} \subseteq InList => c[j] \in Met(node[c[i]].next)
    BY <1>1, ListWords DEF List!CalledInOrder
  <2> DEFINE c == dispatch[d].called
  <2>1. c[i] # c[j] /\ ({c[i], c[j]} \subseteq InList => c[j] \in Met(c[i]))
    BY <1>1 DEF Walks, KeepsOrder
  <2>2. c[i] \in InList => Met(c[i]) = {c[i]} \cup Met(node[c[i]].next)
    BY <1>1, MetFacts
  <2> QED BY <2>1, <2>2
<1> QED BY <1>3, <1>4, <1>5, <1>6 DEF DispatchIsRight

(* An empty list, whatever its counter.                                    *)
LEMMA ListInitInv == List!Init => ListInv
<1> SUFFICES ASSUME List!Init PROVE ListInv
  OBVIOUS
<1>1. /\ head = List!Null /\ tail = List!Null /\ size = 0 /\ current \in {0, Modulus - 2}
      /\ node = [n \in List!Node |-> [used |-> FALSE, prev |-> List!Null, next |-> List!Null, counter |-> 0]]
      /\ adding = [n |-> List!Null, before |-> List!Null, at |-> "none"]
      /\ dispatch = [d \in Walker |-> [at |-> "idle", n |-> List!Null, snap |-> 0, due |-> {},
                                       allowed |-> {}, called |-> <<>>]]
  BY DEF List!Init, List!Nobody, List!Idle
<1>2. ListTypeOK
  BY <1>1, NodeFacts, ListAssumption DEF ListTypeOK, NodeType, WalkType, Count
<1>3. InList = {} /\ Linked = {} /\ \A d \in Walker : CalledBy(d) = {}
  BY <1>1, <1>2, MetFacts DEF InList, Linked, CalledBy
<1>4. Apart
  BY <1>1, <1>3 DEF Apart
<1>5. Ends
  BY <1>1, <1>2, MetFacts DEF Ends
<1>6. Whole
  BY <1>1, <1>3, FS_EmptySet DEF Whole
<1>7. Adder
  BY <1>1, <1>3, NodeFacts, ListAssumption DEF Adder, List!Node
<1>8. Counters
  BY <1>3 DEF Counters
<1>9. Walks
  BY <1>1, <1>2, <1>3, MetFacts DEF Walks, DueAreMet, LateAreTold, KeepsOrder
<1> QED BY <1>2, <1>4, <1>5, <1>6, <1>7, <1>8, <1>9 DEF ListInv

(* When links change the dispatches go on: X is who is linked now.         *)
LEMMA DispatchesHold ==
    ASSUME ListInv, NEW X \in SUBSET List!Node, UNCHANGED dispatch,
           X = {} \/ (X = {adding.n} /\ adding.at = "link"),
           adding.at # "reset", adding'.at = "none",
           Linked \subseteq Linked', InList' \subseteq InList \cup X,
           InList' = {} \/ current' = current,
           \A n \in List!Node : node'[n].counter \in {node[n].counter, 0},
           \A n \in Linked \cup {List!Null} :
              /\ Met(n)' \subseteq Met(n) \cup X
              /\ Met(n) \cap InList' \subseteq Met(n)'
              /\ \A x \in X \cap Met(n)' : \E p \in InList \cap Met(n) :
                    \A q \in Linked : p \in Met(q) => x \in Met(q)'
    PROVE  Walks'
<1>1. ListTypeOK /\ Apart /\ Walks
  BY DEF ListInv
<1> SUFFICES ASSUME NEW d \in Walker
             PROVE  DueAreMet(d)' /\ LateAreTold(d)' /\ KeepsOrder(d)'
  BY DEF Walks
<1> DEFINE t == dispatch[d]
<1>2. DueAreMet(d) /\ LateAreTold(d) /\ KeepsOrder(d)
  BY <1>1 DEF Walks
<1>3. CalledBy(d)' = CalledBy(d) /\ dispatch'[d] = t
  BY DEF CalledBy
<1>4. /\ t.n \in Linked \cup {List!Null} /\ t.due \subseteq Linked /\ CalledBy(d) \subseteq Linked
      /\ InList \subseteq Linked /\ Linked \subseteq List!Node
      /\ t.snap \in Nat /\ \A n \in List!Node : node[n].counter \in Nat
  BY <1>1, <1>2, MetAreLinked DEF KeepsOrder, ListTypeOK, NodeType, WalkType, Count
<1>5. X \cap Linked = {}
  BY DEF Linked
<1>6. InList' \cap Linked \subseteq InList
  BY <1>5
<1>7. DueAreMet(d)'
  BY <1>2, <1>3, <1>4, <1>6 DEF DueAreMet
<1>8. Met(t.n)' \cap InList' # {} => Met(t.n) \cap InList # {}
  BY <1>4
<1>9. LateAreTold(d)'
  <2>1. ASSUME t.at \in {"visit", "step"}, NEW n \in Met(t.n)' PROVE Late(d, n)'
    <3>1. Late(d, n)
      <4>1. CASE n \in Met(t.n)
        BY <1>2, <2>1, <4>1 DEF LateAreTold
      <4>2. CASE n \in X
        <5>1. Met(t.n) \cap InList # {}
          BY <1>4, <2>1, <4>2
        <5> QED BY <1>2, <2>1, <4>2, <5>1 DEF LateAreTold
      <4> QED BY <1>4, <2>1, <4>1, <4>2
    <3>2. n \in List!Node
      BY <1>1, <1>4, <2>1, MetAreLinked
    <3> QED BY <1>3, <3>1, <3>2 DEF Late
  <2> QED BY <1>2, <1>3, <1>8, <2>1 DEF LateAreTold
<1>10. KeepsOrder(d)'
  <2>1. ASSUME NEW c \in CalledBy(d) \cap InList', NEW n \in Met(t.n)' \cap InList'
        PROVE  n \in Met(c)'
    <3>1. c \in Linked /\ c \in InList
      BY <1>4, <1>6
    <3>2. CASE n \in X
      <4>1. PICK p \in InList \cap Met(t.n) : \A q \in Linked : p \in Met(q) => n \in Met(q)'
        BY <1>4, <3>2
      <4>2. p \in Met(c)
        BY <1>2, <3>1, <4>1 DEF KeepsOrder
      <4> QED BY <3>1, <4>1, <4>2
    <3>3. CASE n \notin X
      <4>1. n \in Met(t.n) /\ n \in InList
        BY <1>4, <3>3
      <4> QED BY <1>2, <3>1, <4>1 DEF KeepsOrder
    <3> QED BY <3>2, <3>3
  <2>2. CalledBy(d) \cap Met(t.n)' \subseteq CalledBy(d) \cap Met(t.n)
    BY <1>4, <1>5
  <2>3. ASSUME NEW i \in DOMAIN t.called, NEW j \in DOMAIN t.called, i < j
        PROVE  /\ t.called[i] # t.called[j]
               /\ {t.called[i], t.called[j]} \subseteq InList' => t.called[j] \in Met(t.called[i])'
    <3>1. t.called[i] \in CalledBy(d) /\ t.called[j] \in CalledBy(d)
      BY DEF CalledBy
    <3> QED BY <1>2, <1>4, <1>6, <2>3, <3>1 DEF KeepsOrder
  <2> HIDE DEF t
  <2> QED BY <1>2, <1>3, <2>1, <2>2, <2>3 DEF KeepsOrder, t
<1> QED BY <1>7, <1>9, <1>10

Changed(z, k, p, q) == [z EXCEPT !.counter = k, !.prev = p, !.next = q]

(* A node's parts after do_free_node.                                      *)
LEMMA NodeChanged ==
    ASSUME NEW z \in NodeType, NEW k \in Count,
           NEW p \in List!Node \cup {List!Null}, NEW q \in List!Node \cup {List!Null}
    PROVE  LET y == Changed(z, k, p, q)
           IN  /\ y \in NodeType
               /\ y.used = z.used /\ y.prev = p /\ y.next = q /\ y.counter = k
<1> DEFINE C == Count  P == List!Node \cup {List!Null}
<1>1. z \in [used : BOOLEAN, prev : P, next : P, counter : C] /\ k \in C /\ p \in P /\ q \in P
  BY DEF NodeType
<1> HIDE DEF C, P
<1>2. LET y == [z EXCEPT !.counter = k, !.prev = p, !.next = q]
      IN  /\ y \in [used : BOOLEAN, prev : P, next : P, counter : C]
          /\ y.used = z.used /\ y.prev = p /\ y.next = q /\ y.counter = k
  BY <1>1
<1> QED BY <1>2 DEF NodeType, C, P, Changed

(* Each node has the parts of a node.                                      *)
LEMMA NodeFields ==
    ASSUME ListTypeOK
    PROVE  /\ \A n \in List!Node :
                /\ node[n] \in NodeType
                /\ node[n].used \in BOOLEAN /\ node[n].counter \in Count
                /\ node[n].next \in List!Node \cup {List!Null} /\ node[n].prev \in List!Node \cup {List!Null}
           /\ DOMAIN node = List!Node
  BY DEF ListTypeOK, NodeType

(* A node of the list is taken out. It keeps its links, so that nobody who *)
(* is met from it is lost.                                                 *)
LEMMA RemoveNodeInv ==
    ASSUME Careful, ListInv, NEW r \in List!Node, List!RemoveNode(r)
    PROVE  ListInv'
<1>1. ListTypeOK /\ Apart /\ Ends /\ Whole /\ Adder /\ Counters /\ Walks
  BY DEF ListInv
<1>2. r \in InList /\ adding.at = "none" /\ adding = List!Nobody /\ UNCHANGED <<current, adding, dispatch>>
  BY <1>1, ListWords DEF List!RemoveNode, List!Usable, List!Nobody
<1>0. PICK p, q : p = node[r].prev /\ q = node[r].next
  OBVIOUS
<1>3. p \in List!Node \cup {List!Null} /\ q \in List!Node \cup {List!Null} /\ r \in List!Node
  BY <1>0, <1>1, NodeFields
<1>4. /\ r = tail <=> q = List!Null
      /\ r = head <=> p = List!Null
      /\ r # tail => node[q].prev = r
      /\ r # head => p \in InList /\ node[p].next = r
  BY <1>0, <1>1, <1>2 DEF Whole
<1>5. /\ head' = IF head = r THEN q ELSE head
      /\ tail' = IF tail = r THEN p ELSE tail
      /\ size' = size - 1
      /\ node' = [n \in List!Node |-> [node[n] EXCEPT !.counter = IF n = r THEN 0 ELSE @,
                                                   !.prev = IF n = q THEN p ELSE @,
                                                   !.next = IF n = p THEN q ELSE @]]
  <2>1. List!Free(r) /\ size' = size - 1
    BY DEF List!RemoveNode
  <2> QED BY <1>0, <2>1 DEF List!Free, List!removed_counter
<1>6. /\ \A n \in List!Node :
           /\ node'[n].used = node[n].used
           /\ node'[n].prev = (IF n = q THEN p ELSE node[n].prev)
           /\ node'[n].next = (IF n = p THEN q ELSE node[n].next)
           /\ node'[n].counter = (IF n = r THEN 0 ELSE node[n].counter)
      /\ ListTypeOK'
  <2>1. InList # {} /\ InList \in SUBSET List!Node
    BY <1>1, <1>2, MetFacts
  <2>2. IsFiniteSet(List!Node)
    BY ListAssumption, FS_Interval DEF List!Node
  <2>3. size - 1 \in Nat
    <3>1. IsFiniteSet(InList) /\ size \in Nat /\ size = Cardinality(InList)
      BY <1>1, <2>1, <2>2, FS_Subset DEF Whole, ListTypeOK
    <3>2. size # 0
      BY <2>1, <3>1, FS_EmptySet
    <3> QED BY <3>1, <3>2
  <2>4. 0 \in Count
    BY ListAssumption DEF Count
  <2>5. ASSUME NEW n \in List!Node
        PROVE  /\ node'[n].used = node[n].used
               /\ node'[n].prev = (IF n = q THEN p ELSE node[n].prev)
               /\ node'[n].next = (IF n = p THEN q ELSE node[n].next)
               /\ node'[n].counter = (IF n = r THEN 0 ELSE node[n].counter)
               /\ node'[n] \in NodeType
    <3> DEFINE k == IF n = r THEN 0 ELSE node[n].counter
               v == IF n = q THEN p ELSE node[n].prev
               x == IF n = p THEN q ELSE node[n].next
    <3>1. /\ node[n] \in NodeType
          /\ k \in Count /\ v \in List!Node \cup {List!Null} /\ x \in List!Node \cup {List!Null}
      BY <1>1, <1>3, <2>4, NodeFields
    <3>2. node'[n] = Changed(node[n], k, v, x)
      BY <1>5 DEF Changed
    <3>3. /\ node'[n].used = node[n].used /\ node'[n].prev = v /\ node'[n].next = x /\ node'[n].counter = k
          /\ node'[n] \in NodeType
      <4> HIDE DEF k, v, x
      <4>1. Changed(node[n], k, v, x) \in NodeType
        BY <3>1, NodeChanged
      <4>2. Changed(node[n], k, v, x).next = x
        BY <3>1, NodeChanged
      <4>3. Changed(node[n], k, v, x).used = node[n].used
        BY <3>1 DEF Changed, NodeType
      <4>4. Changed(node[n], k, v, x).prev = v /\ Changed(node[n], k, v, x).counter = k
        BY <3>1, NodeChanged
      <4> QED BY <3>2, <4>1, <4>2, <4>3, <4>4
    <3> QED BY <3>3
  <2>6. node' \in [List!Node -> NodeType]
    BY <1>5, <2>5
  <2>7. head' \in List!Node \cup {List!Null} /\ tail' \in List!Node \cup {List!Null} /\ size' \in Nat
    BY <1>1, <1>3, <1>5, <2>3 DEF ListTypeOK
  <2> QED BY <1>1, <1>2, <2>5, <2>6, <2>7 DEF ListTypeOK
(* What is met.                                                            *)
<1>7. /\ node[r].next = q /\ NextOf[r] = q /\ NextOf[r] # r
      /\ r \notin Met(q) /\ Met(r) = {r} \cup Met(q)
      /\ \A n \in List!Node : NextOf'[n] = NextOf[n] \/ (NextOf[n] = r /\ NextOf'[n] = NextOf[r])
      /\ NextOf' \in [List!Node -> List!Node \cup {List!Null}]
  <2>1. node[r].next = q /\ r \notin Met(q) /\ Met(r) = {r} \cup Met(q)
    BY <1>0, <1>1, <1>3, MetFacts DEF Ends
  <2>2. \A n \in List!Node : NextOf[n] = node[n].next /\ NextOf'[n] = node'[n].next
    BY DEF NextOf
  <2>3. \A n \in List!Node : n = p => node[n].next = r
    BY <1>4, NodeFacts
  <2>4. NextOf' \in [List!Node -> List!Node \cup {List!Null}]
    BY <1>6 DEF NextOf, ListTypeOK, NodeType
  <2>5. q # r
    BY <1>1, <2>1, MetFacts
  <2>6. ASSUME NEW n \in List!Node
        PROVE  NextOf'[n] = NextOf[n] \/ (NextOf[n] = r /\ NextOf'[n] = q)
    BY <1>6, <2>2, <2>3
  <2> QED BY <1>3, <2>1, <2>2, <2>4, <2>5, <2>6
<1>8. \A n \in List!Node \cup {List!Null} : Met(n)' \subseteq Met(n) /\ Met(n) \ {r} \subseteq Met(n)'
  BY <1>1, <1>7, MetFacts, MeetsSkipped DEF Met
<1>9. InList' = InList \ {r}
  <2>1. CASE head = r
    <3>1. head' = q /\ InList = {r} \cup Met(q)
      BY <1>5, <1>7, <2>1 DEF InList
    <3>2. InList' = Met(q)'
      BY <3>1 DEF InList, Met
    <3> QED BY <1>3, <1>7, <1>8, <3>1, <3>2
  <2>2. CASE head # r
    <3>1. head' = head /\ head \in InList /\ head \in List!Node \cup {List!Null}
      BY <1>1, <1>2, <1>5, <2>2, MetFacts DEF ListTypeOK, InList
    <3>2. InList' = Met(head)' /\ InList' \subseteq InList /\ InList \ {r} \subseteq InList'
      <4>1. InList' = Met(head)'
        BY <3>1 DEF InList, Met
      <4> QED BY <1>8, <3>1, <4>1 DEF InList
    <3>3. ASSUME NEW n \in InList \ {r} PROVE NextOf'[n] \in (InList \ {r}) \cup {List!Null}
      <4>1. NextOf[n] \in InList \cup {List!Null} /\ q \in InList \cup {List!Null} /\ n \in List!Node
        BY <1>1, <1>2, <1>7, <3>1, MetFacts, MeetsIsLeast DEF InList, Met, Within
      <4>2. NextOf[n] = node[n].next /\ NextOf'[n] = node'[n].next
        BY <4>1 DEF NextOf
      <4>3. CASE n = p
        <5>1. NextOf'[n] = q
          BY <1>6, <4>1, <4>2, <4>3
        <5> QED BY <1>7, <4>1, <5>1
      <4>4. CASE n # p
        <5>1. node'[n].next = node[n].next
          BY <1>6, <4>1, <4>4
        <5>2. node[n].next # r
          <6>1. SUFFICES ASSUME node[n].next = r PROVE FALSE
            OBVIOUS
          <6>2. n # tail
            BY <1>1, <1>3, <6>1, NodeFacts DEF Whole
          <6>3. node[r].prev = n
            BY <1>1, <6>1, <6>2 DEF Whole
          <6> QED BY <1>0, <4>4, <6>3
        <5> QED BY <4>1, <4>2, <5>1, <5>2
      <4> QED BY <4>3, <4>4
    <3>4. Met(head)' \subseteq InList \ {r}
      <4>1. InList \ {r} \in SUBSET List!Node /\ Within(NextOf', InList \ {r}) /\ head \in InList \ {r}
        BY <1>1, <2>2, <3>1, <3>3, MetFacts DEF Within
      <4> HIDE DEF InList
      <4> QED BY <1>7, <3>1, <4>1, MeetsIsLeast DEF Met
    <3> QED BY <3>2, <3>4
  <2> QED BY <2>1, <2>2
<1>10. Ends'
  <2>1. ASSUME NEW n \in List!Node PROVE n \notin Meets(NextOf', NextOf'[n])
    <3>1. NextOf'[n] \in List!Node \cup {List!Null} /\ NextOf[n] \in List!Node \cup {List!Null} /\ n \notin Met(NextOf[n])
      BY <1>1, <1>7, MetFacts DEF Ends
    <3>2. Met(NextOf'[n]) \subseteq Met(NextOf[n])
      BY <1>1, <1>7, MetFacts
    <3>3. Meets(NextOf', NextOf'[n]) \subseteq Met(NextOf'[n])
      BY <1>1, <1>7, <3>1, MetFacts, MeetsSkipped DEF Met
    <3> QED BY <3>1, <3>2, <3>3
  <2>2. \A n \in List!Node : NextOf'[n] = node'[n].next
    BY DEF NextOf
  <2> QED BY <2>1, <2>2 DEF Ends, Met
<1>11. Linked' = Linked /\ InList \subseteq Linked /\ InList \in SUBSET List!Node
  BY <1>1, <1>2, <1>6, MetAreLinked, MetFacts DEF Linked
<1>12. q \in InList \cup {List!Null} /\ q # r /\ p \in InList \cup {List!Null} /\ p # r
  <2>1. Within(NextOf, InList)
    BY <1>1, MetFacts, MeetsIsLeast DEF InList, Met, ListTypeOK
  <2>2. q \in InList \cup {List!Null} /\ q # r
    BY <1>2, <1>7, <2>1 DEF Within
  <2> QED BY <1>2, <1>3, <1>4, <1>7, <2>2, NodeFacts
<1>13. Apart'
  <2>1. {head', tail'} \subseteq Linked \cup {List!Null}
    BY <1>1, <1>5, <1>11, <1>12 DEF Apart
  <2>2. ASSUME NEW n \in List!Node
        PROVE  /\ n \in Linked => node'[n].next \in Linked \cup {List!Null}
               /\ n \notin Linked => node'[n].next = List!Null /\ node'[n].prev = List!Null
    BY <1>1, <1>6, <1>11, <1>12, NodeFacts DEF Apart
  <2>3. Linked \subseteq List!Node
    BY DEF Linked
  <2> QED BY <1>11, <2>1, <2>2, <2>3 DEF Apart
<1>14. Whole'
  <2>1. head' = List!Null <=> tail' = List!Null
    BY <1>1, <1>2, <1>3, <1>4, <1>5, NodeFacts DEF Whole
  <2>2. tail' \in InList' \cup {List!Null}
    BY <1>1, <1>5, <1>9, <1>12 DEF Whole
  <2>3. size' = Cardinality(InList')
    <3>1. IsFiniteSet(List!Node)
      BY ListAssumption, FS_Interval DEF List!Node
    <3>2. IsFiniteSet(InList)
      BY <1>11, <3>1, FS_Subset
    <3> QED BY <1>1, <1>2, <1>5, <1>9, <3>2, FS_RemoveElement DEF Whole
  <2>4. ASSUME NEW n \in InList \ {r}
        PROVE  /\ n = tail' <=> node'[n].next = List!Null
               /\ n = head' <=> node'[n].prev = List!Null
               /\ n # tail' => node'[node'[n].next].prev = n
               /\ n # head' => node'[n].prev \in InList \ {r} /\ node'[node'[n].prev].next = n
    <3>1. /\ n \in List!Node /\ n # List!Null
          /\ node[n].next \in List!Node \cup {List!Null} /\ node[n].prev \in List!Node \cup {List!Null}
      BY <1>1, <1>11, NodeFields, NodeFacts
    <3>2. /\ n = tail <=> node[n].next = List!Null
          /\ n = head <=> node[n].prev = List!Null
          /\ n # tail => node[node[n].next].prev = n
          /\ n # head => node[n].prev \in InList /\ node[node[n].prev].next = n
      BY <1>1 DEF Whole
    <3>3. /\ node'[n].next = (IF n = p THEN q ELSE node[n].next)
          /\ node'[n].prev = (IF n = q THEN p ELSE node[n].prev)
      BY <1>6, <3>1
    <3>4. n = tail' <=> node'[n].next = List!Null
      BY <1>3, <1>4, <1>5, <1>7, <1>12, <3>1, <3>2, <3>3, NodeFacts
    <3>5. n = head' <=> node'[n].prev = List!Null
      BY <1>0, <1>3, <1>4, <1>5, <1>7, <1>12, <3>1, <3>2, <3>3, NodeFacts
    <3>6. n # tail' => node'[node'[n].next].prev = n
      <4>1. CASE n = p
        BY <1>3, <1>6, <3>3, <3>4, <4>1
      <4>2. CASE n # p /\ n # tail'
        <5>1. PICK s : s = node[n].next
          OBVIOUS
        <5>2. node'[n].next = s /\ s \in List!Node /\ node[s].prev = n
          BY <3>1, <3>2, <3>3, <3>4, <4>2, <5>1
        <5>3. s # q
          BY <1>4, <5>2, NodeFacts
        <5> QED BY <1>6, <5>2, <5>3
      <4> QED BY <4>1, <4>2
    <3>7. n # head' => node'[n].prev \in InList \ {r} /\ node'[node'[n].prev].next = n
      <4>1. CASE n = q
        BY <1>3, <1>6, <1>12, <3>1, <3>3, <3>5, <4>1, NodeFacts
      <4>2. CASE n # q /\ n # head'
        <5>1. PICK s : s = node[n].prev
          OBVIOUS
        <5>2. node'[n].prev = s /\ s \in InList /\ s \in List!Node /\ node[s].next = n
          BY <1>11, <3>1, <3>2, <3>3, <3>5, <4>2, <5>1
        <5>3. s # r /\ s # p
          BY <1>4, <1>7, <4>2, <5>2, NodeFacts
        <5> QED BY <1>6, <5>2, <5>3
      <4> QED BY <4>1, <4>2
    <3> QED BY <3>4, <3>5, <3>6, <3>7
  <2> QED BY <1>9, <2>1, <2>2, <2>3, <2>4 DEF Whole
<1>15. Adder'
  <2>1. adding' = adding /\ adding.n = List!Null /\ adding.before = List!Null /\ adding.at = "none"
    BY <1>2 DEF List!Nobody
  <2>2. \E k \in 0..MaxNode : \A n \in List!Node : node'[n].used <=> n <= k
    BY <1>1, <1>6 DEF Adder
  <2> QED BY <2>1, <2>2, NodeFacts DEF Adder
<1>16. Counters'
  BY <1>1, <1>2, <1>6, <1>9, <1>11 DEF Counters
<1>17. Walks'
  <2>0. PICK X \in SUBSET List!Node : X = {}
    OBVIOUS
  <2>1. \A n \in Linked \cup {List!Null} :
           /\ Met(n)' \subseteq Met(n) \cup X
           /\ Met(n) \cap InList' \subseteq Met(n)'
           /\ X \cap Met(n)' = {}
    BY <1>8, <1>9, <2>0 DEF Linked
  <2>2. \A n \in List!Node : node'[n].counter \in {node[n].counter, 0}
    BY <1>6
  <2>3. /\ UNCHANGED dispatch /\ X = {} /\ adding.at # "reset" /\ adding'.at = "none"
        /\ Linked \subseteq Linked' /\ InList' \subseteq InList \cup X /\ current' = current
    BY <1>2, <1>9, <1>11, <2>0
  <2> QED BY <2>1, <2>2, <2>3, DispatchesHold
<1> QED BY <1>6, <1>10, <1>13, <1>14, <1>15, <1>16, <1>17 DEF ListInv

(* What the actions make of a node.                                        *)
Back(z, p) == [z EXCEPT !.prev = p]
Forth(z, q) == [z EXCEPT !.next = q]
Between(z, p, q) == [z EXCEPT !.prev = p, !.next = q]
Numbered(z, k) == [z EXCEPT !.counter = k]
Fresh(z, k) == [z EXCEPT !.used = TRUE, !.counter = k]

LEMMA NodeBack ==
    ASSUME NEW z \in NodeType, NEW p \in List!Node \cup {List!Null}
    PROVE  /\ Back(z, p) \in NodeType /\ Back(z, p).prev = p
           /\ Back(z, p).next = z.next /\ Back(z, p).counter = z.counter
<1> DEFINE C == Count  P == List!Node \cup {List!Null}
<1>1. z \in [used : BOOLEAN, prev : P, next : P, counter : C] /\ p \in P
  BY DEF NodeType
<1> HIDE DEF C, P
<1>2. LET y == Back(z, p)
      IN  /\ y \in [used : BOOLEAN, prev : P, next : P, counter : C]
          /\ y.prev = p /\ y.next = z.next /\ y.counter = z.counter
  BY <1>1 DEF Back
<1> QED BY <1>2 DEF NodeType, C, P

LEMMA NodeForth ==
    ASSUME NEW z \in NodeType, NEW q \in List!Node \cup {List!Null}
    PROVE  /\ Forth(z, q) \in NodeType /\ Forth(z, q).prev = z.prev
           /\ Forth(z, q).next = q /\ Forth(z, q).counter = z.counter
<1> DEFINE C == Count  P == List!Node \cup {List!Null}
<1>1. z \in [used : BOOLEAN, prev : P, next : P, counter : C] /\ q \in P
  BY DEF NodeType
<1> HIDE DEF C, P
<1>2. LET y == Forth(z, q)
      IN  /\ y \in [used : BOOLEAN, prev : P, next : P, counter : C]
          /\ y.prev = z.prev /\ y.next = q /\ y.counter = z.counter
  BY <1>1 DEF Forth
<1> QED BY <1>2 DEF NodeType, C, P

LEMMA NodeBetween ==
    ASSUME NEW z \in NodeType,
           NEW p \in List!Node \cup {List!Null}, NEW q \in List!Node \cup {List!Null}
    PROVE  /\ Between(z, p, q) \in NodeType /\ Between(z, p, q).prev = p
           /\ Between(z, p, q).next = q /\ Between(z, p, q).counter = z.counter
<1> DEFINE C == Count  P == List!Node \cup {List!Null}
<1>1. z \in [used : BOOLEAN, prev : P, next : P, counter : C] /\ p \in P /\ q \in P
  BY DEF NodeType
<1> HIDE DEF C, P
<1>2. LET y == Between(z, p, q)
      IN  /\ y \in [used : BOOLEAN, prev : P, next : P, counter : C]
          /\ y.prev = p /\ y.next = q /\ y.counter = z.counter
  BY <1>1 DEF Between
<1> QED BY <1>2 DEF NodeType, C, P

LEMMA NodeNumbered ==
    ASSUME NEW z \in NodeType, NEW k \in Count
    PROVE  /\ Numbered(z, k) \in NodeType /\ Numbered(z, k).prev = z.prev
           /\ Numbered(z, k).next = z.next /\ Numbered(z, k).counter = k
<1> DEFINE C == Count  P == List!Node \cup {List!Null}
<1>1. z \in [used : BOOLEAN, prev : P, next : P, counter : C] /\ k \in C
  BY DEF NodeType
<1> HIDE DEF C, P
<1>2. LET y == Numbered(z, k)
      IN  /\ y \in [used : BOOLEAN, prev : P, next : P, counter : C]
          /\ y.prev = z.prev /\ y.next = z.next /\ y.counter = k
  BY <1>1 DEF Numbered
<1> QED BY <1>2 DEF NodeType, C, P

LEMMA NodeFresh ==
    ASSUME NEW z \in NodeType, NEW k \in Count
    PROVE  /\ Fresh(z, k) \in NodeType /\ Fresh(z, k).prev = z.prev
           /\ Fresh(z, k).next = z.next /\ Fresh(z, k).counter = k
<1> DEFINE C == Count  P == List!Node \cup {List!Null}
<1>1. z \in [used : BOOLEAN, prev : P, next : P, counter : C] /\ k \in C
  BY DEF NodeType
<1> HIDE DEF C, P
<1>2. LET y == Fresh(z, k)
      IN  /\ y \in [used : BOOLEAN, prev : P, next : P, counter : C]
          /\ y.prev = z.prev /\ y.next = z.next /\ y.counter = k
  BY <1>1 DEF Fresh
<1> QED BY <1>2 DEF NodeType, C, P

(* The nodes of the list lose their links: a dispatch that stands on one   *)
(* of them meets nobody after it, and nobody is left to be called.         *)
LEMMA ClearInv == ListInv /\ List!Clear => ListInv'
<1> SUFFICES ASSUME ListInv, List!Clear PROVE ListInv'
  OBVIOUS
<1>1. ListTypeOK /\ Apart /\ Ends /\ Whole /\ Adder /\ Counters /\ Walks
  BY DEF ListInv
<1>2. /\ head' = List!Null /\ tail' = List!Null /\ size' = 0 /\ current' = 0
      /\ adding.at = "none" /\ adding.n = List!Null /\ adding.before = List!Null /\ UNCHANGED <<adding, dispatch>>
      /\ node' = [n \in List!Node |-> IF n \in InList
                                      THEN [node[n] EXCEPT !.prev = List!Null, !.next = List!Null]
                                      ELSE node[n]]
  BY <1>1, ListWords DEF List!Clear, List!Nobody
<1>3. ASSUME NEW n \in List!Node
      PROVE  /\ node'[n].used = node[n].used /\ node'[n].counter = node[n].counter
             /\ node'[n].prev = (IF n \in InList THEN List!Null ELSE node[n].prev)
             /\ node'[n].next = (IF n \in InList THEN List!Null ELSE node[n].next)
             /\ node'[n] \in NodeType
  <2>1. node[n] \in NodeType /\ node[n].counter \in Count /\ List!Null \in List!Node \cup {List!Null}
    BY <1>1, NodeFields
  <2>2. /\ Between(node[n], List!Null, List!Null) \in NodeType
        /\ Between(node[n], List!Null, List!Null).prev = List!Null
        /\ Between(node[n], List!Null, List!Null).next = List!Null
        /\ Between(node[n], List!Null, List!Null).counter = node[n].counter
    <3>1. Between(node[n], List!Null, List!Null) \in NodeType
      BY <2>1, NodeBetween
    <3>2. Between(node[n], List!Null, List!Null).prev = List!Null
      BY <2>1, NodeBetween
    <3>3. Between(node[n], List!Null, List!Null).next = List!Null
      BY <2>1, NodeBetween
    <3>4. Between(node[n], List!Null, List!Null).counter = node[n].counter
      BY <2>1, NodeBetween
    <3> QED BY <3>1, <3>2, <3>3, <3>4
  <2>3. Between(node[n], List!Null, List!Null).used = node[n].used
    BY <2>1 DEF Between, NodeType
  <2>4. node'[n] = IF n \in InList THEN Between(node[n], List!Null, List!Null) ELSE node[n]
    BY <1>2 DEF Between
  <2> QED BY <2>1, <2>2, <2>3, <2>4
<1>4. ListTypeOK'
  <2>1. node' \in [List!Node -> NodeType]
    BY <1>2, <1>3
  <2>2. 0 \in 0..Modulus - 1
    BY ListAssumption
  <2> QED BY <1>1, <1>2, <2>1, <2>2 DEF ListTypeOK
<1>5. /\ NextOf' \in [List!Node -> List!Node \cup {List!Null}]
      /\ \A n \in List!Node : NextOf'[n] \in {NextOf[n], List!Null} /\ NextOf'[n] = node'[n].next
  BY <1>3 DEF NextOf, NodeType
<1>6. InList' = {} /\ Linked' = Linked
  <2>1. InList' = Met(List!Null)'
    BY <1>2 DEF InList, Met
  <2>2. Met(List!Null)' = {}
    BY <1>5, MeetsIsLeast DEF Met
  <2> QED BY <1>2, <1>3, <2>1, <2>2 DEF Linked
<1>7. \A n \in List!Node \cup {List!Null} : Met(n)' \subseteq Met(n)
  <2>1. \A n \in List!Node : NextOf'[n] \in Meets(NextOf, NextOf[n]) \cup {List!Null}
    BY <1>1, <1>5, MetFacts, MeetsIsLeast
  <2> QED BY <1>1, <1>5, <2>1, MetFacts, MeetsLess DEF Met
<1>8. Ends'
  <2>1. ASSUME NEW n \in List!Node PROVE n \notin Meets(NextOf', NextOf'[n])
    <3>1. NextOf'[n] \in List!Node \cup {List!Null} /\ NextOf[n] \in List!Node \cup {List!Null} /\ n \notin Met(NextOf[n])
      BY <1>1, <1>5, MetFacts DEF Ends
    <3>2. n \notin Met(NextOf'[n])
      BY <1>1, <1>5, <3>1, MetFacts
    <3>3. Meets(NextOf', NextOf'[n]) \subseteq Met(NextOf'[n])
      <4> PICK m : m = NextOf'[n]
        OBVIOUS
      <4> QED BY <1>7, <3>1 DEF Met
    <3> QED BY <3>2, <3>3
  <2> QED BY <1>5, <2>1 DEF Ends, Met
<1>9. Apart'
  <2>1. Linked \subseteq List!Node
    BY DEF Linked
  <2> QED BY <1>1, <1>2, <1>3, <1>6, <2>1 DEF Apart
<1>10. Whole' /\ Counters'
  BY <1>2, <1>6, FS_EmptySet DEF Whole, Counters
<1>11. Adder'
  BY <1>1, <1>2, <1>3, NodeFacts DEF Adder
<1>12. Walks'
  <2>1. PICK X \in SUBSET List!Node : X = {}
    OBVIOUS
  <2>2. \A n \in Linked \cup {List!Null} :
           /\ Met(n)' \subseteq Met(n) \cup X
           /\ Met(n) \cap InList' \subseteq Met(n)'
           /\ X \cap Met(n)' = {}
    BY <1>6, <1>7, <2>1 DEF Linked
  <2> QED BY <1>2, <1>3, <1>6, <2>1, <2>2, DispatchesHold
<1> QED BY <1>4, <1>8, <1>9, <1>10, <1>11, <1>12 DEF ListInv
(* The node about to be linked: nobody points to it, and it to nobody.     *)
LEMMA NewcomerFacts ==
    ASSUME ListInv, adding.at = "link"
    PROVE  LET x == adding.n
           IN  /\ x \in List!Node /\ x \notin Linked /\ x \notin InList /\ x # List!Null
               /\ node[x].used /\ node[x].counter = current /\ current # 0
               /\ node[x].next = List!Null /\ node[x].prev = List!Null
               /\ \A y \in List!Node : node[y].next # x
               /\ NextOf[x] = List!Null /\ \A y \in List!Node : NextOf[y] # x
               /\ head # x /\ tail # x
<1>1. ListTypeOK /\ Apart /\ Adder
  BY DEF ListInv
<1>2. /\ adding.n \in List!Node /\ adding.n \notin Linked /\ adding.n # List!Null
      /\ node[adding.n].used /\ node[adding.n].counter = current /\ current # 0
  BY <1>1, NodeFacts DEF Adder, ListTypeOK, Linked
<1>3. node[adding.n].next = List!Null /\ node[adding.n].prev = List!Null
  BY <1>1, <1>2 DEF Apart
<1>4. ASSUME NEW y \in List!Node PROVE node[y].next # adding.n
  BY <1>1, <1>2, <1>4 DEF Apart
<1>5. adding.n \notin InList /\ head # adding.n /\ tail # adding.n
  BY <1>1, <1>2, MetAreLinked DEF Apart
<1> QED BY <1>1, <1>2, <1>3, <1>4, <1>5, MetFacts

(* The list has a size.                                                    *)
LEMMA InListIsFinite == ListTypeOK => IsFiniteSet(InList)
<1> SUFFICES ASSUME ListTypeOK PROVE IsFiniteSet(InList)
  OBVIOUS
<1>1. IsFiniteSet(List!Node)
  BY ListAssumption, FS_Interval DEF List!Node
<1> QED BY <1>1, MetFacts, FS_Subset

(* The new node comes first.                                               *)
LEMMA LinkFrontInv ==
    ASSUME ListInv, adding.at = "link", NEW x, x = adding.n,
           head' = x, tail' = (IF head = List!Null THEN x ELSE tail),
           size' = size + 1, adding' = List!Nobody, UNCHANGED <<current, dispatch>>,
           node' \in [List!Node -> NodeType],
           \A n \in List!Node : /\ node'[n].used = node[n].used /\ node'[n].counter = node[n].counter
                                /\ node'[n].next = (IF n = x THEN head ELSE node[n].next)
                                /\ node'[n].prev = (IF n = head THEN x ELSE node[n].prev)
    PROVE  ListInv'
<1>1. ListTypeOK /\ Apart /\ Ends /\ Whole /\ Adder /\ Counters /\ Walks
  BY DEF ListInv
<1>2. /\ x \in List!Node /\ x \notin Linked /\ x \notin InList /\ x # List!Null
      /\ node[x].used /\ node[x].counter = current /\ current # 0
      /\ node[x].next = List!Null /\ node[x].prev = List!Null
      /\ NextOf[x] = List!Null /\ \A y \in List!Node : NextOf[y] # x
      /\ head # x /\ tail # x
  BY NewcomerFacts
<1>3. ListTypeOK'
  BY <1>1, <1>2, NodeFacts DEF ListTypeOK, List!Nobody
<1>4. /\ NextOf' \in [List!Node -> List!Node \cup {List!Null}] /\ NextOf'[x] = head
      /\ \A n \in List!Node \ {x} : NextOf'[n] = NextOf[n]
      /\ \A n \in List!Node : NextOf'[n] = node'[n].next
  BY <1>1, <1>2 DEF NextOf, NodeType, ListTypeOK
<1>5. /\ \A n \in (List!Node \cup {List!Null}) \ {x} : Meets(NextOf', n) = Meets(NextOf, n)
      /\ Meets(NextOf', x) = {x} \cup Meets(NextOf, head)
      /\ (\A n \in List!Node : n \notin Meets(NextOf, NextOf[n]))
            => \A n \in List!Node : n \notin Meets(NextOf', NextOf'[n])
  <2>1. PICK f, g, h : f = NextOf /\ g = NextOf' /\ h = head
    OBVIOUS
  <2>2. /\ f \in [List!Node -> List!Node \cup {List!Null}] /\ h \in (List!Node \cup {List!Null}) \ {x}
        /\ g \in [List!Node -> List!Node \cup {List!Null}] /\ g[x] = h
        /\ x \in List!Node /\ f[x] = List!Null
        /\ \A y \in List!Node : f[y] # x
        /\ \A y \in List!Node \ {x} : g[y] = f[y]
    BY <1>1, <1>2, <1>4, <2>1, MetFacts DEF ListTypeOK
  <2>3. \A n \in (List!Node \cup {List!Null}) \ {x} : Meets(g, n) = Meets(f, n)
    BY <2>2, MeetsFronted
  <2>4. Meets(g, x) = {x} \cup Meets(f, h)
    BY <2>2, <2>3, MeetsFacts
  <2>5. (\A n \in List!Node : n \notin Meets(f, f[n])) => \A n \in List!Node : n \notin Meets(g, g[n])
    BY <2>2, MeetsFronted
  <2> QED BY <2>1, <2>3, <2>4, <2>5
<1>6. \A n \in (List!Node \cup {List!Null}) \ {x} : Met(n)' = Met(n)
  BY <1>5 DEF Met
<1>7. InList' = {x} \cup InList
  <2>1. InList' = Meets(NextOf', x)
    BY DEF InList, Met
  <2> QED BY <1>5, <2>1 DEF InList, Met
<1>8. Ends'
  <2>1. \A n \in List!Node : n \notin Meets(NextOf, NextOf[n])
    BY <1>1, MetFacts DEF Ends, Met
  <2> QED BY <1>3, <1>5, <2>1 DEF Ends, Met, NextOf
<1>9. Linked' = Linked \cup {x} /\ InList \subseteq Linked /\ Linked \subseteq List!Node
  <2>1. adding'.n = List!Null
    BY DEF List!Nobody
  <2> QED BY <1>1, <1>2, <2>1, NodeFacts, MetAreLinked DEF Linked
<1>10. Apart'
  <2>1. {head', tail'} \subseteq Linked' \cup {List!Null}
    BY <1>1, <1>9 DEF Apart
  <2>2. ASSUME NEW n \in List!Node
        PROVE  /\ n \in Linked' => node'[n].next \in Linked' \cup {List!Null}
               /\ n \notin Linked' => node'[n].next = List!Null /\ node'[n].prev = List!Null
    BY <1>1, <1>9, NodeFacts DEF Apart
  <2> QED BY <1>2, <1>9, <2>1, <2>2 DEF Apart
<1>11. InList = {} <=> head = List!Null
  BY <1>1, MetFacts DEF InList, ListTypeOK
<1>12. Whole'
  <2>1. (head' = List!Null <=> tail' = List!Null) /\ tail' \in InList' \cup {List!Null}
    BY <1>1, <1>2, <1>7 DEF Whole
  <2>2. size' = Cardinality(InList')
    <3>1. IsFiniteSet(InList)
      BY <1>1, InListIsFinite
    <3>2. Cardinality(InList \cup {x}) = Cardinality(InList) + 1
      BY <1>2, <3>1, FS_AddElement
    <3> QED BY <1>1, <1>7, <3>2 DEF Whole
  <2>3. ASSUME NEW n \in InList \cup {x}
        PROVE  /\ n = tail' <=> node'[n].next = List!Null
               /\ n = head' <=> node'[n].prev = List!Null
               /\ n # tail' => node'[node'[n].next].prev = n
               /\ n # head' => node'[n].prev \in InList \cup {x} /\ node'[node'[n].prev].next = n
    <3>1. CASE n = x
      <4>1. node'[x].next = head /\ node'[x].prev = List!Null
        BY <1>2
      <4>2. n # tail' => head \in List!Node
        BY <1>1, <3>1 DEF ListTypeOK
      <4>3. x = tail' <=> head = List!Null
        BY <1>1, <1>2 DEF Whole
      <4> QED BY <3>1, <4>1, <4>2, <4>3
    <3>2. CASE n # x
      <4>1. /\ n \in InList /\ n \in List!Node /\ n # List!Null /\ head # List!Null
            /\ tail' = tail /\ tail # List!Null /\ head \in List!Node
        BY <1>1, <1>9, <1>11, <3>2, NodeFacts DEF Whole, ListTypeOK
      <4>2. /\ n = tail <=> node[n].next = List!Null
            /\ n = head <=> node[n].prev = List!Null
            /\ n # tail => node[node[n].next].prev = n
            /\ n # head => node[n].prev \in InList /\ node[node[n].prev].next = n
        BY <1>1, <4>1 DEF Whole
      <4>3. node'[n].next = node[n].next /\ node'[n].prev = (IF n = head THEN x ELSE node[n].prev)
        BY <3>2, <4>1
      <4>4. n # tail' => node'[node'[n].next].prev = n
        <5>1. PICK s : s = node[n].next
          OBVIOUS
        <5>2. n # tail => s \in List!Node /\ node[s].prev = n
          BY <1>1, <4>1, <4>2, <5>1, NodeFields
        <5>3. n # tail => s # head
          <6>1. head \in InList
            BY <1>1, <4>1, MetFacts DEF InList
          <6>2. node[head].prev = List!Null
            BY <1>1, <6>1 DEF Whole
          <6> QED BY <4>1, <5>2, <6>2
        <5> QED BY <4>1, <4>3, <5>1, <5>2, <5>3
      <4>5. n # head' => node'[n].prev \in InList \cup {x} /\ node'[node'[n].prev].next = n
        <5>1. CASE n = head
          BY <1>2, <4>3, <5>1
        <5>2. CASE n # head
          <6>1. PICK s : s = node[n].prev
            OBVIOUS
          <6>2. s \in InList /\ s \in List!Node /\ s # x /\ node[s].next = n /\ node'[n].prev = s
            BY <1>2, <1>9, <4>2, <4>3, <5>2, <6>1
          <6> QED BY <6>2
        <5> QED BY <5>1, <5>2
      <4>6. n = tail' <=> node'[n].next = List!Null
        BY <4>1, <4>2, <4>3
      <4>7. n = head' <=> node'[n].prev = List!Null
        BY <1>2, <3>2, <4>2, <4>3
      <4> QED BY <4>4, <4>5, <4>6, <4>7
    <3> QED BY <3>1, <3>2
  <2>4. InList' = InList \cup {x}
    BY <1>7
  <2> QED BY <2>1, <2>2, <2>3, <2>4 DEF Whole
<1>13. Adder'
  <2>1. adding'.at = "none" /\ adding'.n = List!Null /\ adding'.before = List!Null
    BY DEF List!Nobody
  <2>2. \E k \in 0..MaxNode : \A n \in List!Node : node'[n].used <=> n <= k
    BY <1>1 DEF Adder
  <2> QED BY <2>1, <2>2, NodeFacts DEF Adder
<1>14. Counters'
  <2>1. current \in Nat
    BY <1>1 DEF ListTypeOK
  <2> QED BY <1>1, <1>2, <1>7, <1>9, <2>1 DEF Counters
<1>15. Walks'
  <2>1. PICK X \in SUBSET List!Node : X = {x}
    BY <1>2
  <2>2. \A n \in Linked \cup {List!Null} : n \in (List!Node \cup {List!Null}) \ {x} /\ Met(n) \subseteq Linked
    BY <1>1, <1>2, <1>9, MetAreLinked
  <2>3. \A n \in Linked \cup {List!Null} :
           /\ Met(n)' \subseteq Met(n) \cup X
           /\ Met(n) \cap InList' \subseteq Met(n)'
           /\ X \cap Met(n)' = {}
    BY <1>2, <1>6, <2>1, <2>2
  <2>4. adding'.at = "none"
    BY DEF List!Nobody
  <2> QED BY <1>7, <1>9, <2>1, <2>3, <2>4, DispatchesHold
<1> QED BY <1>3, <1>8, <1>10, <1>12, <1>13, <1>14, <1>15 DEF ListInv

(* The new node comes behind p.                                            *)
LEMMA LinkBehindInv ==
    ASSUME ListInv, adding.at = "link", NEW x, x = adding.n,
           NEW p \in InList, NEW q, q = node[p].next,
           head' = head, tail' = (IF p = tail THEN x ELSE tail),
           size' = size + 1, adding' = List!Nobody, UNCHANGED <<current, dispatch>>,
           node' \in [List!Node -> NodeType],
           \A n \in List!Node : /\ node'[n].used = node[n].used /\ node'[n].counter = node[n].counter
                                /\ node'[n].next = (IF n = p THEN x ELSE IF n = x THEN q ELSE node[n].next)
                                /\ node'[n].prev = (IF n = x THEN p ELSE IF n = q THEN x ELSE node[n].prev)
    PROVE  ListInv'
<1>1. ListTypeOK /\ Apart /\ Ends /\ Whole /\ Adder /\ Counters /\ Walks
  BY DEF ListInv
<1>2. /\ x \in List!Node /\ x \notin Linked /\ x \notin InList /\ x # List!Null
      /\ node[x].used /\ node[x].counter = current /\ current # 0
      /\ node[x].next = List!Null /\ node[x].prev = List!Null
      /\ NextOf[x] = List!Null /\ \A y \in List!Node : NextOf[y] # x
      /\ head # x /\ tail # x
  BY NewcomerFacts
<1>3. /\ p \in List!Node /\ p # x /\ p # List!Null /\ q = NextOf[p] /\ q \in InList \cup {List!Null}
      /\ q # x /\ q # p /\ head # List!Null /\ tail \in List!Node /\ p \in Linked
      /\ p = tail <=> q = List!Null
      /\ p # tail => node[q].prev = p
  <2>1. p \in List!Node /\ p # x /\ q = NextOf[p] /\ p # List!Null /\ p \in Linked
    BY <1>1, <1>2, MetFacts, MetAreLinked, NodeFacts
  <2>2. q \in InList \cup {List!Null}
    BY <1>1, <2>1, MetFacts, MeetsIsLeast DEF InList, Met, Within, ListTypeOK
  <2>3. q # p
    <3>1. p \notin Met(q) /\ p \in Met(p)
      BY <1>1, <2>1, MetFacts DEF Ends
    <3> QED BY <3>1
  <2>4. head # List!Null
    BY <1>1, MetFacts DEF InList
  <2>5. tail \in List!Node
    BY <1>1, <2>4 DEF Whole, ListTypeOK
  <2>6. q # x
    BY <1>2, <2>1
  <2>7. (p = tail <=> q = List!Null) /\ (p # tail => node[q].prev = p)
    BY <1>1 DEF Whole
  <2> QED BY <2>1, <2>2, <2>3, <2>4, <2>5, <2>6, <2>7
<1>4. /\ NextOf' \in [List!Node -> List!Node \cup {List!Null}] /\ NextOf'[p] = x /\ NextOf'[x] = NextOf[p]
      /\ \A n \in List!Node \ {p, x} : NextOf'[n] = NextOf[n]
      /\ \A n \in List!Node : NextOf'[n] = node'[n].next
  BY <1>1, <1>2, <1>3 DEF NextOf, NodeType, ListTypeOK
<1>5. /\ \A n \in (List!Node \cup {List!Null}) \ {x} :
            /\ Met(n) \subseteq Met(n)'
            /\ Met(n)' \subseteq Met(n) \cup {x}
            /\ x \in Met(n)' <=> p \in Met(n)
      /\ (\A n \in List!Node : n \notin Meets(NextOf, NextOf[n]))
            => \A n \in List!Node : n \notin Meets(NextOf', NextOf'[n])
  <2>1. PICK f, g : f = NextOf /\ g = NextOf'
    OBVIOUS
  <2>2. /\ f \in [List!Node -> List!Node \cup {List!Null}] /\ p \in List!Node /\ x \in List!Node
        /\ g \in [List!Node -> List!Node \cup {List!Null}] /\ Joins(f, g, p, x)
    BY <1>1, <1>2, <1>3, <1>4, <2>1, MetFacts DEF Joins
  <2>3. \A n \in (List!Node \cup {List!Null}) \ {x} : Meets(f, n) \subseteq Meets(g, n)
    BY <2>2, MeetsJoined
  <2>4. \A n \in (List!Node \cup {List!Null}) \ {x} : Meets(g, n) \subseteq Meets(f, n) \cup {x}
    BY <2>2, MeetsJoined
  <2>5. \A n \in (List!Node \cup {List!Null}) \ {x} : x \in Meets(g, n) <=> p \in Meets(f, n)
    BY <2>2, MeetsJoined
  <2>6. (\A n \in List!Node : n \notin Meets(f, f[n])) => \A n \in List!Node : n \notin Meets(g, g[n])
    BY <2>2, MeetsJoined
  <2> QED BY <2>1, <2>3, <2>4, <2>5, <2>6 DEF Met
<1>6. ListTypeOK'
  BY <1>1, <1>2, NodeFacts DEF ListTypeOK, List!Nobody
<1>7. InList' = InList \cup {x}
  <2>1. head \in (List!Node \cup {List!Null}) \ {x} /\ InList' = Met(head)'
    BY <1>1, <1>2 DEF ListTypeOK, InList, Met
  <2> QED BY <1>5, <2>1 DEF InList
<1>8. Ends'
  <2>1. \A n \in List!Node : n \notin Meets(NextOf, NextOf[n])
    BY <1>1, MetFacts DEF Ends, Met
  <2> QED BY <1>4, <1>5, <2>1 DEF Ends, Met
<1>9. Linked' = Linked \cup {x} /\ InList \subseteq Linked /\ Linked \subseteq List!Node
  <2>1. adding'.n = List!Null
    BY DEF List!Nobody
  <2> QED BY <1>1, <1>2, <2>1, NodeFacts, MetAreLinked DEF Linked
<1>10. Apart'
  <2>1. {head', tail'} \subseteq Linked' \cup {List!Null}
    BY <1>1, <1>9 DEF Apart
  <2>2. ASSUME NEW n \in List!Node
        PROVE  /\ n \in Linked' => node'[n].next \in Linked' \cup {List!Null}
               /\ n \notin Linked' => node'[n].next = List!Null /\ node'[n].prev = List!Null
    BY <1>1, <1>3, <1>9, NodeFacts DEF Apart
  <2> QED BY <1>2, <1>9, <2>1, <2>2 DEF Apart
<1>11. Whole'
  <2>1. (head' = List!Null <=> tail' = List!Null) /\ tail' \in InList' \cup {List!Null}
    BY <1>1, <1>2, <1>3, <1>7, NodeFacts DEF Whole
  <2>2. size' = Cardinality(InList')
    <3>1. IsFiniteSet(InList)
      BY <1>1, InListIsFinite
    <3>2. Cardinality(InList \cup {x}) = Cardinality(InList) + 1
      BY <1>2, <3>1, FS_AddElement
    <3> QED BY <1>1, <1>7, <3>2 DEF Whole
  <2>3. ASSUME NEW n \in InList \cup {x}
        PROVE  /\ n = tail' <=> node'[n].next = List!Null
               /\ n = head' <=> node'[n].prev = List!Null
               /\ n # tail' => node'[node'[n].next].prev = n
               /\ n # head' => node'[n].prev \in InList \cup {x} /\ node'[node'[n].prev].next = n
    <3>1. CASE n = x
      <4>1. node'[x].next = q /\ node'[x].prev = p /\ node'[p].next = x
        BY <1>2, <1>3
      <4>2. x = tail' <=> q = List!Null
        BY <1>2, <1>3
      <4>3. q # List!Null => q \in List!Node /\ node'[q].prev = x
        BY <1>3, <1>9
      <4> QED BY <1>2, <1>3, <3>1, <4>1, <4>2, <4>3
    <3>2. CASE n # x
      <4>1. /\ n \in InList /\ n \in List!Node /\ n # List!Null
            /\ node[n].next \in List!Node \cup {List!Null} /\ node[n].prev \in List!Node \cup {List!Null}
        BY <1>1, <1>9, <3>2, NodeFacts, NodeFields
      <4>2. /\ n = tail <=> node[n].next = List!Null
            /\ n = head <=> node[n].prev = List!Null
            /\ n # tail => node[node[n].next].prev = n
            /\ n # head => node[n].prev \in InList /\ node[node[n].prev].next = n
        BY <1>1, <4>1 DEF Whole
      <4>3. /\ node'[n].next = (IF n = p THEN x ELSE node[n].next)
            /\ node'[n].prev = (IF n = q THEN x ELSE node[n].prev)
        BY <3>2, <4>1
      <4>4. n # tail' => node'[node'[n].next].prev = n
        <5>1. CASE n = p
          BY <1>2, <4>3, <5>1
        <5>2. CASE n # p
          <6>1. PICK s : s = node[n].next
            OBVIOUS
          <6>2. n # tail' => s \in List!Node /\ node[s].prev = n /\ node'[n].next = s
            BY <1>2, <3>2, <4>1, <4>2, <4>3, <5>2, <6>1
          <6>3. n # tail' => s # q /\ s # x
            BY <1>2, <1>3, <4>1, <5>2, <6>2, NodeFacts
          <6> QED BY <6>2, <6>3
        <5> QED BY <5>1, <5>2
      <4>5. n # head' => node'[n].prev \in InList \cup {x} /\ node'[node'[n].prev].next = n
        <5>1. CASE n = q
          BY <1>2, <1>3, <4>3, <5>1
        <5>2. CASE n # q
          <6>1. PICK s : s = node[n].prev
            OBVIOUS
          <6>2. n # head' => s \in InList /\ s \in List!Node /\ node[s].next = n /\ node'[n].prev = s
            BY <1>9, <4>2, <4>3, <5>2, <6>1
          <6>3. n # head' => s # p /\ s # x
            BY <1>2, <5>2, <6>2
          <6> QED BY <6>2, <6>3
        <5> QED BY <5>1, <5>2
      <4>6. n = tail' <=> node'[n].next = List!Null
        BY <1>2, <1>3, <3>2, <4>2, <4>3
      <4>7. n = head' <=> node'[n].prev = List!Null
        <5>1. CASE n = q
          <6>1. node[q].prev = p
            BY <1>3, <4>1, <5>1
          <6> QED BY <1>2, <1>3, <4>2, <4>3, <5>1, <6>1
        <5>2. CASE n # q
          BY <4>2, <4>3, <5>2
        <5> QED BY <5>1, <5>2
      <4> QED BY <4>4, <4>5, <4>6, <4>7
    <3> QED BY <3>1, <3>2
  <2> QED BY <1>7, <2>1, <2>2, <2>3 DEF Whole
<1>12. Adder'
  <2>1. adding'.at = "none" /\ adding'.n = List!Null /\ adding'.before = List!Null
    BY DEF List!Nobody
  <2>2. \E k \in 0..MaxNode : \A n \in List!Node : node'[n].used <=> n <= k
    BY <1>1 DEF Adder
  <2> QED BY <2>1, <2>2, NodeFacts DEF Adder
<1>13. Counters'
  <2>1. current \in Nat
    BY <1>1 DEF ListTypeOK
  <2> QED BY <1>1, <1>2, <1>7, <1>9, <2>1 DEF Counters
<1>14. Walks'
  <2>1. PICK X \in SUBSET List!Node : X = {x}
    BY <1>2
  <2>2. \A n \in Linked \cup {List!Null} : n \in (List!Node \cup {List!Null}) \ {x} /\ Met(n) \subseteq Linked
    BY <1>1, <1>2, <1>9, MetAreLinked
  <2>3. ASSUME NEW n \in Linked \cup {List!Null}
        PROVE  /\ Met(n)' \subseteq Met(n) \cup X
               /\ Met(n) \cap InList' \subseteq Met(n)'
               /\ \A y \in X \cap Met(n)' : \E r \in InList \cap Met(n) :
                     \A m \in Linked : r \in Met(m) => y \in Met(m)'
    <3>1. Met(n) \subseteq Met(n)' /\ Met(n)' \subseteq Met(n) \cup X
      BY <1>5, <2>1, <2>2
    <3>2. ASSUME x \in Met(n)'
          PROVE  p \in InList \cap Met(n) /\ \A m \in Linked : p \in Met(m) => x \in Met(m)'
      BY <1>5, <2>2, <3>2
    <3> QED BY <2>1, <3>1, <3>2
  <2>4. adding'.at = "none"
    BY DEF List!Nobody
  <2> QED BY <1>7, <1>9, <2>1, <2>3, <2>4, DispatchesHold
<1> QED BY <1>6, <1>8, <1>10, <1>11, <1>12, <1>13, <1>14 DEF ListInv

(* do_insert and its like: the new node comes first, or behind a node of   *)
(* the list.                                                               *)
LEMMA LinkInv == ListInv /\ List!Link => ListInv'
<1> SUFFICES ASSUME ListInv, List!Link PROVE ListInv'
  OBVIOUS
<1>0. PICK x, b : x = adding.n /\ b = adding.before
  OBVIOUS
<1>1. ListTypeOK /\ Apart /\ Ends /\ Whole /\ Adder
  BY DEF ListInv
<1>2. /\ adding.at = "link" /\ size' = size + 1 /\ adding' = List!Nobody /\ UNCHANGED <<current, dispatch>>
      /\ b = List!Null => List!LinkLast(x)
      /\ b = List!First => List!LinkFirst(x)
      /\ b # List!Null /\ b # List!First => List!LinkBefore(x, b)
  BY <1>0, NodeFacts DEF List!Link
<1>3. /\ x \in List!Node /\ x # List!Null /\ x \notin InList /\ node[x] \in NodeType
      /\ node[x].next = List!Null /\ node[x].prev = List!Null
      /\ head # x /\ tail # x
      /\ head \in List!Node \cup {List!Null} /\ tail \in List!Node \cup {List!Null}
  BY <1>0, <1>1, <1>2, NewcomerFacts, NodeFields DEF ListTypeOK
<1>4. /\ node \in [List!Node -> NodeType]
      /\ \A n \in List!Node : node[n] \in NodeType /\ n # List!Null
  BY <1>1, NodeFacts DEF ListTypeOK
<1>5. CASE head = List!Null /\ b \in {List!Null, List!First}
  <2>1. head' = x /\ tail' = x /\ node' = node
    BY <1>2, <1>5 DEF List!LinkLast, List!LinkFirst
  <2>2. \A n \in List!Node : /\ node'[n].used = node[n].used /\ node'[n].counter = node[n].counter
                             /\ node'[n].next = (IF n = x THEN head ELSE node[n].next)
                             /\ node'[n].prev = (IF n = head THEN x ELSE node[n].prev)
    BY <1>3, <1>4, <1>5, <2>1
  <2> QED BY <1>0, <1>2, <1>4, <1>5, <2>1, <2>2, LinkFrontInv
<1>6. CASE head # List!Null /\ b = List!First
  <2>1. head' = x /\ tail' = tail /\ node' = [node EXCEPT ![x].next = head, ![head].prev = x]
    BY <1>2, <1>6 DEF List!LinkFirst
  <2>2. head \in List!Node /\ node[head] \in NodeType
    BY <1>3, <1>4, <1>6
  <2>3. \A n \in List!Node : node'[n] = IF n = x THEN Forth(node[x], head)
                                        ELSE IF n = head THEN Back(node[head], x) ELSE node[n]
    BY <1>3, <1>4, <2>1, <2>2 DEF Forth, Back
  <2>4. /\ Forth(node[x], head) \in NodeType /\ Back(node[head], x) \in NodeType
        /\ Forth(node[x], head).next = head /\ Forth(node[x], head).prev = node[x].prev
        /\ Forth(node[x], head).counter = node[x].counter
        /\ Back(node[head], x).next = node[head].next /\ Back(node[head], x).prev = x
        /\ Back(node[head], x).counter = node[head].counter
    <3>1. /\ node[x] \in NodeType /\ node[head] \in NodeType
          /\ head \in List!Node \cup {List!Null} /\ x \in List!Node \cup {List!Null}
      BY <1>3, <2>2
    <3> QED BY <3>1, NodeBack, NodeForth
  <2>5. Forth(node[x], head).used = node[x].used /\ Back(node[head], x).used = node[head].used
    BY <1>3, <2>2 DEF Forth, Back, NodeType
  <2>6. \A n \in List!Node : /\ node'[n].used = node[n].used /\ node'[n].counter = node[n].counter
                             /\ node'[n].next = (IF n = x THEN head ELSE node[n].next)
                             /\ node'[n].prev = (IF n = head THEN x ELSE node[n].prev)
    BY <1>3, <2>3, <2>4, <2>5
  <2>7. node' \in [List!Node -> NodeType]
    BY <1>4, <2>1, <2>3, <2>4
  <2> QED BY <1>0, <1>2, <1>6, <2>1, <2>6, <2>7, LinkFrontInv
<1>7. CASE head # List!Null /\ b = List!Null
  <2>1. /\ head' = head /\ tail' = x /\ node' = [node EXCEPT ![x].prev = tail, ![tail].next = x]
        /\ tail \in InList /\ tail \in List!Node /\ node[tail].next = List!Null
    BY <1>1, <1>2, <1>3, <1>7 DEF List!LinkLast, Whole
  <2>2. \A n \in List!Node : node'[n] = IF n = x THEN Back(node[x], tail)
                                        ELSE IF n = tail THEN Forth(node[tail], x) ELSE node[n]
    BY <1>3, <1>4, <2>1 DEF Forth, Back
  <2>3. /\ Back(node[x], tail) \in NodeType /\ Forth(node[tail], x) \in NodeType
        /\ Back(node[x], tail).next = node[x].next /\ Back(node[x], tail).prev = tail
        /\ Back(node[x], tail).counter = node[x].counter
        /\ Forth(node[tail], x).next = x /\ Forth(node[tail], x).prev = node[tail].prev
        /\ Forth(node[tail], x).counter = node[tail].counter
    <3>1. /\ node[x] \in NodeType /\ node[tail] \in NodeType
          /\ tail \in List!Node \cup {List!Null} /\ x \in List!Node \cup {List!Null}
      BY <1>3, <1>4, <2>1
    <3> QED BY <3>1, NodeBack, NodeForth
  <2>4. Back(node[x], tail).used = node[x].used /\ Forth(node[tail], x).used = node[tail].used
    BY <1>3, <1>4, <2>1 DEF Forth, Back, NodeType
  <2>5. \A n \in List!Node :
           /\ node'[n].used = node[n].used /\ node'[n].counter = node[n].counter
           /\ node'[n].next = (IF n = tail THEN x ELSE IF n = x THEN node[tail].next ELSE node[n].next)
           /\ node'[n].prev = (IF n = x THEN tail ELSE IF n = node[tail].next THEN x ELSE node[n].prev)
    BY <1>3, <1>4, <2>1, <2>2, <2>3, <2>4
  <2>6. node' \in [List!Node -> NodeType]
    BY <1>4, <2>1, <2>2, <2>3
  <2>7. PICK p, q : p = tail /\ q = node[tail].next
    OBVIOUS
  <2> QED BY <1>0, <1>2, <2>1, <2>5, <2>6, <2>7, LinkBehindInv
<1>8. CASE b \notin {List!Null, List!First}
  <2>1. PICK p : p = node[b].prev
    OBVIOUS
  <2>2. /\ b \in InList /\ b \in List!Node /\ b # x /\ head # List!Null
        /\ node[b] \in NodeType /\ p \in List!Node \cup {List!Null}
        /\ b = head <=> p = List!Null
        /\ b # head => p \in InList /\ p \in List!Node /\ node[p].next = b
    <3>1. b \in InList /\ InList \in SUBSET List!Node
      BY <1>0, <1>1, <1>8, MetFacts DEF Adder
    <3>2. head # List!Null
      BY <1>1, <3>1, MetFacts DEF InList
    <3> QED BY <1>1, <1>3, <2>1, <3>1, <3>2, NodeFields DEF Whole
  <2>3. /\ head' = (IF b = head THEN x ELSE head) /\ tail' = tail
        /\ node' = [m \in List!Node |->
                       IF m = x THEN [node[x] EXCEPT !.prev = p, !.next = b]
                       ELSE IF m = b THEN [node[b] EXCEPT !.prev = x]
                       ELSE IF m = p THEN [node[m] EXCEPT !.next = x]
                       ELSE node[m]]
    BY <1>2, <1>8, <2>1 DEF List!LinkBefore
  <2>4. \A n \in List!Node : node'[n] = IF n = x THEN Between(node[x], p, b)
                                        ELSE IF n = b THEN Back(node[b], x)
                                        ELSE IF n = p THEN Forth(node[n], x)
                                        ELSE node[n]
    BY <2>3 DEF Between, Back, Forth
  <2>5. /\ Between(node[x], p, b) \in NodeType
        /\ Between(node[x], p, b).prev = p /\ Between(node[x], p, b).next = b
        /\ Between(node[x], p, b).counter = node[x].counter
    <3>1. node[x] \in NodeType /\ p \in List!Node \cup {List!Null} /\ b \in List!Node \cup {List!Null}
      BY <1>3, <2>2
    <3> QED BY <3>1, NodeBetween
  <2>6. /\ Back(node[b], x) \in NodeType
        /\ Back(node[b], x).prev = x /\ Back(node[b], x).next = node[b].next
        /\ Back(node[b], x).counter = node[b].counter
    <3>1. node[b] \in NodeType /\ x \in List!Node \cup {List!Null}
      BY <1>3, <2>2
    <3> QED BY <3>1, NodeBack
  <2>7. ASSUME NEW n \in List!Node
        PROVE  /\ Forth(node[n], x) \in NodeType
               /\ Forth(node[n], x).next = x /\ Forth(node[n], x).prev = node[n].prev
               /\ Forth(node[n], x).counter = node[n].counter
    <3>1. node[n] \in NodeType /\ x \in List!Node \cup {List!Null}
      BY <1>3, <1>4
    <3> QED BY <3>1, NodeForth
  <2>8. Between(node[x], p, b).used = node[x].used /\ Back(node[b], x).used = node[b].used
    BY <1>3, <2>2 DEF Between, Back, NodeType
  <2>9. \A n \in List!Node : Forth(node[n], x).used = node[n].used
    BY <1>3, <1>4 DEF Forth, NodeType
  <2>10. node' \in [List!Node -> NodeType]
    BY <1>4, <2>3, <2>4, <2>5, <2>6, <2>7
  <2>11. CASE b = head
    <3>1. \A n \in List!Node : /\ node'[n].used = node[n].used /\ node'[n].counter = node[n].counter
                               /\ node'[n].next = (IF n = x THEN head ELSE node[n].next)
                               /\ node'[n].prev = (IF n = head THEN x ELSE node[n].prev)
      BY <1>3, <1>4, <2>2, <2>4, <2>6, <2>8, <2>11, <2>5
    <3> QED BY <1>0, <1>2, <2>2, <2>3, <2>10, <2>11, <3>1, LinkFrontInv
  <2>12. CASE b # head
    <3>1. p # x /\ p # b /\ p # tail
      <4>1. p # b
        BY <1>1, <2>2, <2>12, MetFacts DEF Ends
      <4>2. p # tail
        BY <1>1, <1>4, <2>2, <2>12 DEF Whole
      <4> QED BY <1>3, <2>2, <2>12, <4>1, <4>2
    <3>2. ASSUME NEW n \in List!Node
          PROVE  /\ node'[n].used = node[n].used /\ node'[n].counter = node[n].counter
                 /\ node'[n].next = (IF n = p THEN x ELSE IF n = x THEN b ELSE node[n].next)
                 /\ node'[n].prev = (IF n = x THEN p ELSE IF n = b THEN x ELSE node[n].prev)
      BY <2>2, <2>4, <2>6, <2>7, <2>8, <2>9, <2>12, <2>5, <3>1
    <3>3. p \in InList /\ b = node[p].next /\ tail' = (IF p = tail THEN x ELSE tail) /\ head' = head
      BY <2>2, <2>3, <2>12, <3>1
    <3> QED BY <1>0, <1>2, <2>10, <3>2, <3>3, LinkBehindInv
  <2> QED BY <2>11, <2>12
<1> QED BY <1>5, <1>6, <1>7, <1>8

(* A node is allocated: its number is greater than that of any dispatch    *)
(* under way, unless the counter wraps.                                    *)
LEMMA AllocInv ==
    ASSUME ListInv, NEW n \in List!Node, NEW b \in InList \cup {List!Null, List!First},
           List!Allocate(n, b)
    PROVE  ListInv'
<1>1. ListTypeOK /\ Apart /\ Ends /\ Whole /\ Adder /\ Counters /\ Walks
  BY DEF ListInv
<1>2. PICK c : c = (current + 1) % Modulus
  OBVIOUS
<1>3. /\ adding.at = "none" /\ adding.n = List!Null
      /\ current' = c
      /\ node' = [node EXCEPT ![n].used = TRUE, ![n].counter = c]
      /\ adding' = [n |-> n, before |-> b, at |-> IF c = 0 THEN "reset" ELSE "link"]
      /\ UNCHANGED <<head, tail, size, dispatch>>
  BY <1>2 DEF List!Allocate, List!Nobody
<1>4. c \in Count /\ (c # 0 => c = current + 1)
  <2>1. current \in 0..Modulus - 1 /\ Modulus \in Nat
    BY <1>1, ListAssumption DEF ListTypeOK
  <2>2. CASE current + 1 = Modulus
    BY <1>2, <2>1, <2>2, ListAssumption DEF Count
  <2>3. CASE current + 1 # Modulus
    BY <1>2, <2>1, <2>3, ListAssumption DEF Count
  <2> QED BY <2>2, <2>3
<1>5. PICK k \in 0..MaxNode : n = k + 1 /\ \A m \in List!Node : node[m].used <=> m <= k
  <2>1. PICK k \in 0..MaxNode : \A m \in List!Node : node[m].used <=> m <= k
    BY <1>1 DEF Adder
  <2> DEFINE U == {m \in List!Node : node[m].used}
  <2>2. U = 1..k
    BY <2>1, ListAssumption DEF List!Node
  <2>3. Cardinality(1..k) = k
    BY <2>1, FS_Interval
  <2>4. n = 1 + Cardinality(U)
    BY DEF List!Allocate, List!Cardinality, Cardinality
  <2> HIDE DEF U
  <2>5. n = k + 1
    BY <2>2, <2>3, <2>4
  <2> QED BY <2>1, <2>5
<1>6. ASSUME NEW m \in List!Node
      PROVE  /\ node'[m].next = node[m].next /\ node'[m].prev = node[m].prev
             /\ node'[m].used <=> node[m].used \/ m = n
             /\ node'[m].counter = (IF m = n THEN c ELSE node[m].counter)
             /\ node'[m] \in NodeType
  <2>1. node[m] \in NodeType /\ node'[m] = IF m = n THEN Fresh(node[m], c) ELSE node[m]
    BY <1>1, <1>3, NodeFields DEF Fresh
  <2>2. /\ Fresh(node[m], c) \in NodeType /\ Fresh(node[m], c).next = node[m].next
        /\ Fresh(node[m], c).prev = node[m].prev /\ Fresh(node[m], c).counter = c
    BY <1>4, <2>1, NodeFresh
  <2>3. Fresh(node[m], c).used = TRUE /\ node[m].used \in BOOLEAN
    BY <2>1 DEF Fresh, NodeType
  <2> QED BY <2>1, <2>2, <2>3
<1>7. ListTypeOK'
  <2>1. node' \in [List!Node -> NodeType]
    BY <1>1, <1>3, <1>6 DEF ListTypeOK
  <2>2. b \in Nat
    <3>1. List!Null \in Nat /\ List!First \in Nat
      BY NodeFacts, ListAssumption DEF List!First
    <3>2. InList \in SUBSET Nat
      BY <1>1, MetFacts, NodeFacts
    <3> QED BY <3>1, <3>2
  <2>3. adding' \in [n : List!Node \cup {List!Null}, before : Nat, at : {"none", "reset", "link"}]
    BY <1>3, <2>2
  <2> QED BY <1>1, <1>3, <1>4, <2>1, <2>3 DEF ListTypeOK, Count
<1>8. NextOf' = NextOf
  BY <1>6 DEF NextOf
<1>9. \A m : Met(m)' = Met(m)
  BY <1>8 DEF Met
<1>10. InList' = InList /\ Linked' = Linked /\ n \notin Linked /\ InList \subseteq Linked /\ Linked \subseteq List!Node
  <2>1. InList' = InList
    BY <1>3, <1>8 DEF InList, Met
  <2>2. ~ node[n].used /\ adding'.n = n /\ adding.n = List!Null
    BY <1>3, <1>5
  <2>3. n \notin Linked
    BY <2>2 DEF Linked
  <2>4. ASSUME NEW m \in List!Node PROVE m \in Linked' <=> m \in Linked
    BY <1>6, <2>2, NodeFacts DEF Linked
  <2>5. Linked' = Linked
    BY <2>4 DEF Linked
  <2> QED BY <1>1, <2>1, <2>3, <2>5, MetAreLinked
<1>11. Apart' /\ Ends'
  <2>1. Apart'
    BY <1>1, <1>3, <1>6, <1>10 DEF Apart
  <2>2. ASSUME NEW m \in List!Node PROVE m \notin Meets(NextOf', node'[m].next)
    BY <1>1, <1>6, <1>8 DEF Ends, Met
  <2> QED BY <2>1, <2>2 DEF Ends, Met
<1>12. Whole'
  <2>1. \A m \in InList : m \in List!Node /\ node[m].next \in List!Node \cup {List!Null} /\ node[m].prev \in List!Node \cup {List!Null}
    BY <1>1, <1>10, NodeFields
  <2>2. ASSUME NEW m \in InList
        PROVE  /\ m = tail <=> node'[m].next = List!Null
               /\ m = head <=> node'[m].prev = List!Null
               /\ m # tail => node'[node'[m].next].prev = m
               /\ m # head => node'[m].prev \in InList /\ node'[node'[m].prev].next = m
    <3>1. PICK p, q : p = node[m].prev /\ q = node[m].next
      OBVIOUS
    <3>2. node'[m].prev = p /\ node'[m].next = q
      BY <1>6, <2>1, <3>1
    <3>3. /\ m = tail <=> q = List!Null
          /\ m = head <=> p = List!Null
          /\ m # tail => node[q].prev = m
          /\ m # head => p \in InList /\ node[p].next = m
      BY <1>1, <3>1 DEF Whole
    <3> QED BY <1>6, <1>10, <2>1, <3>1, <3>2, <3>3
  <2>3. UNCHANGED <<head, tail, size>>
    BY <1>3
  <2> QED BY <1>1, <1>10, <2>2, <2>3 DEF Whole
<1>13. Adder'
  <2>1. /\ adding'.at = (IF c = 0 THEN "reset" ELSE "link") /\ adding'.n = n /\ adding'.before = b
        /\ node'[n].used /\ node'[n].counter = c
    BY <1>3, <1>6
  <2>2. \E j \in 0..MaxNode : \A m \in List!Node : node'[m].used <=> m <= j
    <3>1. k + 1 \in 0..MaxNode
      BY <1>5, ListAssumption DEF List!Node
    <3>2. \A m \in List!Node : m <= k + 1 <=> m <= k \/ m = n
      BY <1>5 DEF List!Node
    <3>3. \A m \in List!Node : node'[m].used <=> m <= k + 1
      BY <1>5, <1>6, <3>2
    <3> QED BY <3>1, <3>3
  <2> QED BY <1>3, <1>10, <2>1, <2>2, NodeFacts DEF Adder
<1>14. Counters'
  <2>1. \A m \in InList : node'[m].counter = node[m].counter /\ node[m].counter \in Nat /\ current \in Nat
    BY <1>1, <1>6, <1>10 DEF ListTypeOK, NodeType, WalkType, Count
  <2>2. current' = c /\ adding.at = "none" /\ (c = 0 => adding'.at = "reset")
    BY <1>3
  <2> QED BY <1>1, <1>4, <1>10, <2>1, <2>2 DEF Counters
<1>15. Walks'
  <2> SUFFICES ASSUME NEW d \in Walker
               PROVE  DueAreMet(d)' /\ LateAreTold(d)' /\ KeepsOrder(d)'
    BY DEF Walks
  <2> DEFINE t == dispatch[d]
  <2>1. DueAreMet(d) /\ LateAreTold(d) /\ KeepsOrder(d)
    BY <1>1 DEF Walks
  <2>2. CalledBy(d)' = CalledBy(d) /\ dispatch'[d] = t
    BY <1>3 DEF CalledBy
  <2>3. \A m \in Linked : node'[m].counter = node[m].counter
    BY <1>6, <1>10
  <2>4. /\ t.n \in Linked \cup {List!Null} /\ Met(t.n) \subseteq Linked
        /\ t.snap \in Nat /\ current \in Nat
    BY <1>1, <2>1, MetAreLinked DEF KeepsOrder, ListTypeOK, WalkType, Count
  <2>5. DueAreMet(d)'
    BY <1>9, <1>10, <2>1, <2>2, <2>3 DEF DueAreMet
  <2>6. LateAreTold(d)'
    <3>1. ASSUME t.at \in {"visit", "step"}, NEW m \in Met(t.n) PROVE Late(d, m)'
      BY <2>1, <2>2, <2>3, <2>4, <3>1 DEF LateAreTold, Late
    <3>2. ASSUME t.at \in {"visit", "step"}, Met(t.n) \cap InList # {}, c # 0
          PROVE  Late(d, n)' /\ (t.allowed = List!Node \/ t.snap <= c)
      <4>1. t.allowed = List!Node \/ t.snap <= current
        BY <1>3, <2>1, <3>2 DEF LateAreTold
      <4>2. node'[n].counter = c /\ c = current + 1
        BY <1>4, <1>6, <3>2
      <4>3. CASE t.allowed = List!Node
        BY <2>2, <4>3 DEF Late
      <4>4. CASE t.snap <= current
        BY <2>2, <2>4, <4>2, <4>4 DEF Late
      <4> QED BY <4>1, <4>3, <4>4
    <3>3. adding'.at = (IF c = 0 THEN "reset" ELSE "link") /\ adding'.n = n
      BY <1>3
    <3>4. Met(t.n)' = Met(t.n)
      BY <1>8, <2>2 DEF Met
    <3> HIDE DEF t
    <3>5. (\A m \in Met(t.n)' : t.at \in {"visit", "step"} => Late(d, m)')
      BY <3>1, <3>4
    <3> QED BY <1>3, <1>10, <2>1, <2>2, <3>2, <3>3, <3>4, <3>5 DEF LateAreTold, t
  <2>7. KeepsOrder(d)'
    <3>1. \A m \in CalledBy(d) : Met(m)' = Met(m)
      BY <1>8 DEF Met
    <3> QED BY <1>8, <1>10, <2>1, <2>2 DEF KeepsOrder, Met
  <2> QED BY <2>5, <2>6, <2>7
<1> QED BY <1>7, <1>11, <1>12, <1>13, <1>14, <1>15 DEF ListInv

(* What the actions make of a dispatch.                                    *)
Told(t) == [t EXCEPT !.allowed = List!Node]
Loaded(t, s, A) == [t EXCEPT !.at = "visit", !.snap = s, !.allowed = A]
Heard(t, c, a, m) == [t EXCEPT !.called = c, !.at = a, !.n = m]
Passed(t) == [t EXCEPT !.at = "step"]
Moved(t, m) == [t EXCEPT !.n = m, !.at = "visit"]

LEMMA WalkTold ==
    ASSUME NEW t \in WalkType
    PROVE  /\ Told(t) \in WalkType /\ Told(t).at = t.at /\ Told(t).n = t.n
           /\ Told(t).snap = t.snap /\ Told(t).due = t.due
           /\ Told(t).allowed = List!Node /\ Told(t).called = t.called
  BY DEF Told, WalkType

LEMMA WalkLoaded ==
    ASSUME NEW t \in WalkType, NEW s \in Count, NEW A \in SUBSET List!Node
    PROVE  /\ Loaded(t, s, A) \in WalkType /\ Loaded(t, s, A).at = "visit" /\ Loaded(t, s, A).n = t.n
           /\ Loaded(t, s, A).snap = s /\ Loaded(t, s, A).due = t.due
           /\ Loaded(t, s, A).allowed = A /\ Loaded(t, s, A).called = t.called
  BY DEF Loaded, WalkType

LEMMA WalkHeard ==
    ASSUME NEW t \in WalkType,
           NEW c \in Seq(List!Node), NEW a \in {"step", "idle"}, NEW m \in List!Node \cup {List!Null}
    PROVE  /\ Heard(t, c, a, m) \in WalkType /\ Heard(t, c, a, m).at = a /\ Heard(t, c, a, m).n = m
           /\ Heard(t, c, a, m).snap = t.snap /\ Heard(t, c, a, m).due = t.due
           /\ Heard(t, c, a, m).allowed = t.allowed /\ Heard(t, c, a, m).called = c
  BY DEF Heard, WalkType

LEMMA WalkPassed ==
    ASSUME NEW t \in WalkType
    PROVE  /\ Passed(t) \in WalkType /\ Passed(t).at = "step" /\ Passed(t).n = t.n
           /\ Passed(t).snap = t.snap /\ Passed(t).due = t.due
           /\ Passed(t).allowed = t.allowed /\ Passed(t).called = t.called
  BY DEF Passed, WalkType

LEMMA WalkMoved ==
    ASSUME NEW t \in WalkType, NEW m \in List!Node \cup {List!Null}
    PROVE  /\ Moved(t, m) \in WalkType /\ Moved(t, m).at = "visit" /\ Moved(t, m).n = m
           /\ Moved(t, m).snap = t.snap /\ Moved(t, m).due = t.due
           /\ Moved(t, m).allowed = t.allowed /\ Moved(t, m).called = t.called
  BY DEF Moved, WalkType

(* The counter wraps: every number becomes 1, and the dispatches under way *)
(* may call whom they meet.                                                *)
LEMMA ResetInv == ListInv /\ List!ResetCounters => ListInv'
<1> SUFFICES ASSUME ListInv, List!ResetCounters PROVE ListInv'
  OBVIOUS
<1>0. PICK x : x = adding.n
  OBVIOUS
<1>1. ListTypeOK /\ Apart /\ Ends /\ Whole /\ Adder /\ Counters /\ Walks
  BY DEF ListInv
<1>2. /\ adding.at = "reset" /\ current = 0 /\ current' = 1
      /\ x \in List!Node /\ node[x].used /\ 1 \in Count
      /\ UNCHANGED <<head, tail, size>>
  <2>1. adding.at = "reset" /\ current' = current + 1 /\ UNCHANGED <<head, tail, size>>
    BY DEF List!ResetCounters
  <2>2. current = 0 /\ x \in List!Node /\ node[x].used
    BY <1>0, <1>1, <2>1, NodeFacts DEF Adder, ListTypeOK
  <2> QED BY <2>1, <2>2, ListAssumption DEF Count
<1>3. /\ node' = [m \in List!Node |-> IF m \in InList THEN [node[m] EXCEPT !.counter = 1]
                                      ELSE IF m = x THEN [node[m] EXCEPT !.counter = 1]
                                      ELSE node[m]]
      /\ adding' = [adding EXCEPT !.at = "link"]
      /\ dispatch' = [d \in Walker |-> [dispatch[d] EXCEPT !.allowed = List!Node]]
  BY <1>0, <1>1, <1>2, ListWords DEF List!ResetCounters
<1>4. ASSUME NEW m \in List!Node
      PROVE  /\ node'[m].next = node[m].next /\ node'[m].prev = node[m].prev
             /\ node'[m].used <=> node[m].used
             /\ node'[m].counter = (IF m \in InList \/ m = x THEN 1 ELSE node[m].counter)
             /\ node'[m] \in NodeType
  <2>1. node[m] \in NodeType /\ node'[m] = IF m \in InList \/ m = x THEN Numbered(node[m], 1) ELSE node[m]
    BY <1>1, <1>3, NodeFields DEF Numbered
  <2>2. /\ Numbered(node[m], 1) \in NodeType /\ Numbered(node[m], 1).next = node[m].next
        /\ Numbered(node[m], 1).prev = node[m].prev /\ Numbered(node[m], 1).counter = 1
    BY <1>2, <2>1, NodeNumbered
  <2>3. Numbered(node[m], 1).used = node[m].used
    BY <2>1 DEF Numbered, NodeType
  <2> QED BY <2>1, <2>2, <2>3
<1>5. ASSUME NEW d \in Walker
      PROVE  /\ dispatch'[d] \in WalkType /\ dispatch'[d].at = dispatch[d].at
             /\ dispatch'[d].n = dispatch[d].n /\ dispatch'[d].snap = dispatch[d].snap
             /\ dispatch'[d].due = dispatch[d].due /\ dispatch'[d].allowed = List!Node
             /\ dispatch'[d].called = dispatch[d].called
  <2>1. dispatch[d] \in WalkType /\ dispatch'[d] = Told(dispatch[d])
    BY <1>1, <1>3 DEF Told, ListTypeOK
  <2> QED BY <2>1, WalkTold
<1>6. /\ adding' \in [n : List!Node \cup {List!Null}, before : Nat, at : {"none", "reset", "link"}]
      /\ adding'.n = x /\ adding'.before = adding.before /\ adding'.at = "link"
  BY <1>0, <1>1, <1>3 DEF ListTypeOK
<1>7. ListTypeOK'
  <2>1. node' \in [List!Node -> NodeType] /\ dispatch' \in [Walker -> WalkType]
    BY <1>3, <1>4, <1>5
  <2> QED BY <1>1, <1>2, <1>6, <2>1 DEF ListTypeOK, Count
<1>8. NextOf' = NextOf
  BY <1>4 DEF NextOf
<1>9. \A m : Met(m)' = Met(m)
  BY <1>8 DEF Met
<1>10. InList' = InList /\ Linked' = Linked /\ InList \subseteq Linked /\ Linked \subseteq List!Node
  <2>1. InList' = InList
    BY <1>2, <1>8 DEF InList, Met
  <2>2. adding.n = adding'.n
    BY <1>0, <1>6
  <2>3. ASSUME NEW m \in List!Node PROVE m \in Linked' <=> m \in Linked
    BY <1>4, <2>2 DEF Linked
  <2>4. Linked' = Linked
    BY <2>3 DEF Linked
  <2> QED BY <1>1, <2>1, <2>4, MetAreLinked
<1>11. Apart' /\ Ends'
  <2>1. Apart'
    BY <1>1, <1>2, <1>4, <1>10 DEF Apart
  <2>2. ASSUME NEW m \in List!Node PROVE m \notin Meets(NextOf', node'[m].next)
    BY <1>1, <1>4, <1>8 DEF Ends, Met
  <2> QED BY <2>1, <2>2 DEF Ends, Met
<1>12. Whole'
  <2>1. ASSUME NEW m \in InList
        PROVE  /\ m = tail <=> node'[m].next = List!Null
               /\ m = head <=> node'[m].prev = List!Null
               /\ m # tail => node'[node'[m].next].prev = m
               /\ m # head => node'[m].prev \in InList /\ node'[node'[m].prev].next = m
    <3>1. PICK p, q : p = node[m].prev /\ q = node[m].next
      OBVIOUS
    <3>2. node'[m].prev = p /\ node'[m].next = q /\ m \in List!Node /\ q \in List!Node \cup {List!Null}
      BY <1>1, <1>4, <1>10, <3>1, NodeFields
    <3>3. /\ m = tail <=> q = List!Null
          /\ m = head <=> p = List!Null
          /\ m # tail => node[q].prev = m
          /\ m # head => p \in InList /\ node[p].next = m
      BY <1>1, <3>1 DEF Whole
    <3> QED BY <1>4, <1>10, <3>1, <3>2, <3>3
  <2> QED BY <1>1, <1>2, <1>10, <2>1 DEF Whole
<1>13. Adder'
  <2>1. x # List!Null /\ node'[x].used /\ node'[x].counter = 1 /\ adding.before \in InList \cup {List!Null, List!First}
    BY <1>1, <1>2, <1>4, NodeFacts DEF Adder
  <2>2. \E k \in 0..MaxNode : \A m \in List!Node : node'[m].used <=> m <= k
    BY <1>1, <1>4 DEF Adder
  <2> QED BY <1>2, <1>6, <1>10, <2>1, <2>2 DEF Adder
<1>14. Counters'
  <2>1. \A m \in InList : node'[m].counter = 1
    BY <1>4, <1>10
  <2> QED BY <1>2, <1>10, <2>1 DEF Counters
<1>15. Walks'
  <2> SUFFICES ASSUME NEW d \in Walker
               PROVE  DueAreMet(d)' /\ LateAreTold(d)' /\ KeepsOrder(d)'
    BY DEF Walks
  <2>1. DueAreMet(d) /\ LateAreTold(d) /\ KeepsOrder(d) /\ dispatch[d] \in WalkType
    BY <1>1 DEF Walks, ListTypeOK
  <2>2. CalledBy(d)' = CalledBy(d)
    BY <1>5 DEF CalledBy
  <2>3. Met(dispatch[d].n)' = Met(dispatch[d].n)
    BY <1>5, <1>8 DEF Met
  <2>4. DueAreMet(d)'
    <3>1. \A m \in InList : node'[m].counter = 1
      BY <1>4, <1>10
    <3>2. dispatch[d].snap # 0 => 1 <= dispatch[d].snap
      BY <2>1 DEF WalkType, Count
    <3> QED BY <1>5, <1>10, <2>1, <2>2, <2>3, <3>1, <3>2 DEF DueAreMet
  <2>5. LateAreTold(d)'
    <3>1. CalledBy(d)' \subseteq List!Node
      BY <1>10, <2>1, <2>2 DEF KeepsOrder
    <3>2. Met(dispatch[d].n)' \subseteq List!Node
      BY <1>1, <2>1, <2>3, MetFacts DEF WalkType
    <3>3. \A m \in List!Node : Late(d, m)'
      BY <1>5 DEF Late
    <3> QED BY <1>2, <1>5, <1>6, <3>1, <3>2, <3>3 DEF LateAreTold
  <2>6. KeepsOrder(d)'
    <3>1. \A m : Meets(NextOf', m) = Meets(NextOf, m)
      BY <1>8
    <3> QED BY <1>5, <1>10, <2>1, <2>2, <2>3, <3>1 DEF KeepsOrder, Met
  <2> QED BY <2>4, <2>5, <2>6
<1> QED BY <1>7, <1>11, <1>12, <1>13, <1>14, <1>15 DEF ListInv

(* A step of a dispatch leaves the list and the other dispatches alone.    *)
LEMMA WalkStep ==
    ASSUME ListInv, UNCHANGED <<head, tail, size, current, node, adding>>,
           NEW d \in Walker, dispatch' \in [Walker -> WalkType],
           \A e \in Walker \ {d} : dispatch'[e] = dispatch[e],
           DueAreMet(d)', LateAreTold(d)', KeepsOrder(d)'
    PROVE  ListInv'
<1>1. ListTypeOK /\ Apart /\ Ends /\ Whole /\ Adder /\ Counters /\ Walks
  BY DEF ListInv
<1>2. NextOf' = NextOf /\ InList' = InList /\ Linked' = Linked
  BY DEF NextOf, InList, Met, Linked
<1>3. ListTypeOK' /\ Apart' /\ Adder' /\ Counters'
  BY <1>1, <1>2 DEF ListTypeOK, Apart, Adder, Counters
<1>4. Ends' /\ Whole'
  BY <1>1, <1>2 DEF Ends, Whole, Met
<1>5. ASSUME NEW e \in Walker
      PROVE  DueAreMet(e)' /\ LateAreTold(e)' /\ KeepsOrder(e)'
  <2>1. CASE e = d
    BY <2>1
  <2>2. CASE e # d
    <3>1. DueAreMet(e) /\ LateAreTold(e) /\ KeepsOrder(e)
      BY <1>1 DEF Walks
    <3>2. dispatch'[e] = dispatch[e] /\ CalledBy(e)' = CalledBy(e)
      BY <2>2 DEF CalledBy
    <3> QED BY <1>2, <3>1, <3>2 DEF DueAreMet, LateAreTold, KeepsOrder, Late, Met
  <2> QED BY <2>1, <2>2
<1> QED BY <1>3, <1>4, <1>5 DEF ListInv, Walks

(* What there is to know of a dispatch, in words of its own.               *)
LEMMA WalkFacts ==
    ASSUME ListInv, NEW d \in Walker
    PROVE  /\ dispatch[d] \in WalkType /\ DueAreMet(d) /\ LateAreTold(d) /\ KeepsOrder(d)
           /\ dispatch[d].n \in Linked \cup {List!Null} /\ CalledBy(d) \subseteq Linked
           /\ Met(dispatch[d].n) \subseteq Linked /\ InList \subseteq Linked /\ Linked \subseteq List!Node
           /\ dispatch[d].snap \in Nat /\ current \in Nat /\ Met(List!Null) = {}
           /\ \A n \in List!Node : node[n].counter \in Nat /\ n # List!Null
           /\ head \in List!Node \cup {List!Null} /\ current \in Count
<1>1. ListTypeOK /\ Apart /\ Walks
  BY DEF ListInv
<1>2. DueAreMet(d) /\ LateAreTold(d) /\ KeepsOrder(d) /\ dispatch[d] \in WalkType
  BY <1>1 DEF Walks, ListTypeOK
<1> QED BY <1>1, <1>2, MetAreLinked, MetFacts, NodeFacts DEF KeepsOrder, ListTypeOK, NodeType, WalkType, Count

(* A dispatch begins at the head, with all of the list ahead of it; it     *)
(* ends.                                                                   *)
LEMMA BeginInv == ASSUME ListInv, NEW d \in Walker, List!Begin(d) \/ List!End(d) PROVE ListInv'
<1>1. ListTypeOK
  BY DEF ListInv
<1>2. /\ UNCHANGED <<head, tail, size, current, node, adding>>
      /\ dispatch' = [dispatch EXCEPT ![d] = dispatch'[d]]
      /\ \/ dispatch'[d] = [at |-> "load", n |-> head, snap |-> 0, due |-> InList,
                            allowed |-> {}, called |-> <<>>]
         \/ dispatch'[d] = [at |-> "idle", n |-> List!Null, snap |-> 0, due |-> {},
                            allowed |-> {}, called |-> <<>>]
  BY <1>1, ListWords DEF List!Begin, List!End, List!Idle, ListTypeOK
<1>3. dispatch'[d] \in WalkType /\ dispatch' \in [Walker -> WalkType]
  <2>1. dispatch'[d] \in WalkType
    <3>1. 0 \in Count /\ InList \in SUBSET List!Node /\ head \in List!Node \cup {List!Null}
      BY <1>1, MetFacts, ListAssumption DEF Count, ListTypeOK
    <3>2. [at |-> "load", n |-> head, snap |-> 0, due |-> InList, allowed |-> {}, called |-> <<>>] \in WalkType
      BY <3>1 DEF WalkType
    <3>3. [at |-> "idle", n |-> List!Null, snap |-> 0, due |-> {}, allowed |-> {}, called |-> <<>>] \in WalkType
      BY <3>1 DEF WalkType
    <3> QED BY <1>2, <3>2, <3>3
  <2> QED BY <1>1, <1>2, <2>1 DEF ListTypeOK
<1>4. \A e \in Walker \ {d} : dispatch'[e] = dispatch[e]
  BY <1>1, <1>2 DEF ListTypeOK
<1>5. NextOf' = NextOf /\ InList' = InList /\ Linked' = Linked
  BY <1>2 DEF NextOf, InList, Met, Linked
<1>6. /\ dispatch'[d].called = <<>> /\ dispatch'[d].at \in {"idle", "load"}
      /\ dispatch'[d].n \in {head, List!Null}
      /\ dispatch'[d].at = "load" => dispatch'[d].n = head
      /\ dispatch'[d].at = "idle" => dispatch'[d].n = List!Null
      /\ dispatch'[d].due \subseteq InList
  BY <1>2
<1>7. CalledBy(d)' = {}
  BY <1>6 DEF CalledBy
<1>8. DueAreMet(d)'
  BY <1>5, <1>6 DEF DueAreMet, Met, InList
<1>9. LateAreTold(d)'
  BY <1>6, <1>7 DEF LateAreTold
<1>10. KeepsOrder(d)'
  <2>1. head \in Linked \cup {List!Null} /\ InList \subseteq Linked
    BY MetAreLinked DEF ListInv, Apart
  <2> QED BY <1>5, <1>6, <1>7, <2>1 DEF KeepsOrder
<1> QED BY <1>2, <1>3, <1>4, <1>8, <1>9, <1>10, WalkStep

(* It loads the counter: whoever is linked by now has a number up to it.   *)
LEMMA LoadCounterInv == ASSUME ListInv, NEW d \in Walker, List!LoadCounter(d) PROVE ListInv'
<1>1. ListTypeOK /\ Apart /\ Adder /\ Counters
  BY DEF ListInv
<1>2. PICK t, A : /\ t = dispatch[d]
                  /\ A = {n \in List!Node : node[n].used} \cup
                         (IF adding.at = "reset" THEN List!Node ELSE {})
  OBVIOUS
<1>3. /\ UNCHANGED <<head, tail, size, current, node, adding>> /\ t.at = "load"
      /\ dispatch' = [dispatch EXCEPT ![d].at = "visit", ![d].snap = current, ![d].allowed = A]
  BY <1>2 DEF List!LoadCounter
<1>4. t \in WalkType /\ current \in Count /\ A \in SUBSET List!Node
  BY <1>2, WalkFacts
<1>5. /\ dispatch'[d] = Loaded(t, current, A)
      /\ \A e \in Walker \ {d} : dispatch'[e] = dispatch[e]
  BY <1>1, <1>2, <1>3 DEF Loaded, ListTypeOK
<1>6. /\ dispatch'[d] \in WalkType /\ dispatch'[d].at = "visit" /\ dispatch'[d].n = t.n
      /\ dispatch'[d].snap = current /\ dispatch'[d].due = t.due
      /\ dispatch'[d].allowed = A /\ dispatch'[d].called = t.called
  BY <1>4, <1>5, WalkLoaded
<1>7. dispatch' \in [Walker -> WalkType]
  BY <1>1, <1>3, <1>5, <1>6 DEF ListTypeOK
<1>8. NextOf' = NextOf /\ InList' = InList /\ Linked' = Linked
  BY <1>3 DEF NextOf, InList, Met, Linked
<1>9. t.called = <<>> /\ CalledBy(d) = {} /\ CalledBy(d)' = {}
  BY <1>2, <1>3, <1>6, WalkFacts DEF KeepsOrder, CalledBy
<1>10. DueAreMet(d)'
  <2>1. ASSUME current # 0, NEW n \in InList PROVE node[n].counter <= current
    BY <1>1, <2>1 DEF Counters, Adder
  <2> QED BY <1>2, <1>3, <1>6, <1>8, <1>9, <2>1, WalkFacts DEF DueAreMet, Met
<1>11. LateAreTold(d)'
  <2>1. Linked \subseteq A /\ Met(t.n) \subseteq Linked
    BY <1>2, WalkFacts DEF Linked
  <2>2. adding.at = "link" => adding.n \in A
    BY <1>1, <1>2 DEF Adder, ListTypeOK
  <2>3. \A n \in A : Late(d, n)'
    BY <1>6 DEF Late
  <2>4. Met(t.n)' = Met(t.n) /\ current \in Nat
    BY <1>8, <1>4 DEF Met, Count
  <2>5. UNCHANGED <<current, adding>>
    BY <1>3
  <2> QED BY <1>6, <1>8, <1>9, <2>1, <2>2, <2>3, <2>4, <2>5 DEF LateAreTold, Met
<1>12. KeepsOrder(d)'
  <2>1. t.due \cup ({t.n} \ {List!Null}) \subseteq Linked
    BY <1>2, WalkFacts DEF KeepsOrder
  <2> QED BY <1>6, <1>8, <1>9, <2>1 DEF KeepsOrder
<1> QED BY <1>3, <1>5, <1>7, <1>10, <1>11, <1>12, WalkStep

(* The listener is called.                                                 *)
LEMMA CallInv ==
    ASSUME ListInv, NEW d \in Walker, NEW t, t = dispatch[d],
           t.at = "visit", t.n # List!Null, List!Called(d, t.n),
           UNCHANGED <<head, tail, size, current, node, adding>>,
           NEW a \in {"step", "idle"}, NEW m, m = (IF a = "step" THEN t.n ELSE List!Null),
           dispatch' = [dispatch EXCEPT ![d].called = Append(t.called, t.n), ![d].at = a, ![d].n = m]
    PROVE  ListInv'
<1>1. ListTypeOK
  BY DEF ListInv
<1>2. PICK c : c = Append(t.called, t.n)
  OBVIOUS
<1>3. /\ t \in WalkType /\ DueAreMet(d) /\ LateAreTold(d) /\ KeepsOrder(d)
      /\ t.n \in Linked /\ CalledBy(d) \subseteq Linked /\ Met(t.n) \subseteq Linked
      /\ Linked \subseteq List!Node /\ t.snap \in Nat /\ node[t.n].counter \in Nat
      /\ Met(List!Null) = {} /\ t.n \in Met(t.n)
  BY <1>1, WalkFacts, MetFacts
<1>4. t.called \in Seq(List!Node) /\ c \in Seq(List!Node) /\ m \in List!Node \cup {List!Null}
  <2>1. t.called \in Seq(List!Node)
    BY <1>3 DEF WalkType
  <2> QED BY <1>2, <1>3, <2>1
<1>5. /\ dispatch'[d] = Heard(t, c, a, m)
      /\ \A e \in Walker \ {d} : dispatch'[e] = dispatch[e]
  BY <1>1, <1>2 DEF Heard, ListTypeOK
<1>6. /\ dispatch'[d] \in WalkType /\ dispatch'[d].at = a /\ dispatch'[d].n = m
      /\ dispatch'[d].snap = t.snap /\ dispatch'[d].due = t.due
      /\ dispatch'[d].allowed = t.allowed /\ dispatch'[d].called = c
  <2>1. t \in WalkType /\ c \in Seq(List!Node) /\ m \in List!Node \cup {List!Null} /\ a \in {"step", "idle"}
    BY <1>3, <1>4
  <2>2. /\ Heard(t, c, a, m) \in WalkType /\ Heard(t, c, a, m).at = a /\ Heard(t, c, a, m).n = m
        /\ Heard(t, c, a, m).snap = t.snap /\ Heard(t, c, a, m).due = t.due
        /\ Heard(t, c, a, m).allowed = t.allowed /\ Heard(t, c, a, m).called = c
    BY <2>1, WalkHeard
  <2> QED BY <1>5, <2>2
<1>7. dispatch' \in [Walker -> WalkType]
  BY <1>1, <1>5, <1>6 DEF ListTypeOK
<1>8. NextOf' = NextOf /\ InList' = InList /\ Linked' = Linked
  BY DEF NextOf, InList, Met, Linked
<1>9. /\ DOMAIN t.called = 1..Len(t.called) /\ DOMAIN c = 1..Len(t.called) + 1 /\ Len(t.called) \in Nat
      /\ \A i \in 1..Len(t.called) : c[i] = t.called[i]
      /\ c[Len(t.called) + 1] = t.n
  BY <1>2, <1>3, <1>4
<1>10. CalledBy(d)' = CalledBy(d) \cup {t.n}
  <2>1. CalledBy(d) = {t.called[i] : i \in 1..Len(t.called)}
    BY <1>9 DEF CalledBy
  <2>2. CalledBy(d)' = {c[i] : i \in 1..Len(t.called) + 1}
    BY <1>6, <1>9 DEF CalledBy
  <2>3. ASSUME NEW y \in CalledBy(d)' PROVE y \in CalledBy(d) \cup {t.n}
    <3>1. PICK i \in 1..Len(t.called) + 1 : y = c[i]
      BY <2>2
    <3>2. CASE i \in 1..Len(t.called)
      BY <1>9, <2>1, <3>1, <3>2
    <3>3. CASE i = Len(t.called) + 1
      BY <1>9, <3>1, <3>3
    <3> QED BY <1>9, <3>2, <3>3
  <2>4. ASSUME NEW y \in CalledBy(d) \cup {t.n} PROVE y \in CalledBy(d)'
    <3>1. CASE y \in CalledBy(d)
      <4>1. PICK i \in 1..Len(t.called) : y = t.called[i]
        BY <2>1, <3>1
      <4>2. y = c[i] /\ i \in 1..Len(t.called) + 1
        BY <1>9, <4>1
      <4> QED BY <2>2, <4>2
    <3>2. CASE y = t.n
      <4>1. y = c[Len(t.called) + 1] /\ Len(t.called) + 1 \in 1..Len(t.called) + 1
        BY <1>9, <3>2
      <4> QED BY <2>2, <4>1
    <3> QED BY <3>1, <3>2
  <2> QED BY <2>3, <2>4
<1>11. t.n \in t.allowed /\ CalledBy(d) \subseteq t.allowed /\ CalledBy(d) \cap Met(t.n) = {}
  <2>1. node[t.n].counter # 0 /\ ~ (node[t.n].counter > t.snap)
    BY <1>3 DEF List!Called, List!removed_counter
  <2> QED BY <1>3, <2>1 DEF LateAreTold, Late, KeepsOrder
<1>12. Meets(NextOf', m) \subseteq Met(t.n) /\ (a = "step" => Meets(NextOf', m) = Met(t.n))
  BY <1>3, <1>8 DEF Met
<1>13. DueAreMet(d)'
  BY <1>3, <1>6, <1>8, <1>10, <1>12 DEF DueAreMet, Met
<1>14. LateAreTold(d)'
  BY <1>3, <1>6, <1>8, <1>10, <1>11, <1>12 DEF LateAreTold, Late, Met
<1>15. KeepsOrder(d)'
  <2>1. ASSUME NEW i \in DOMAIN c, NEW j \in DOMAIN c, i < j
        PROVE  /\ c[i] # c[j]
               /\ {c[i], c[j]} \subseteq InList => c[j] \in Met(c[i])
    <3>1. i \in 1..Len(t.called) /\ c[i] = t.called[i] /\ c[i] \in CalledBy(d)
      BY <1>9, <2>1 DEF CalledBy
    <3>2. CASE j \in 1..Len(t.called)
      BY <1>3, <1>9, <2>1, <3>1, <3>2 DEF KeepsOrder
    <3>3. CASE j = Len(t.called) + 1
      BY <1>3, <1>9, <1>11, <3>1, <3>3 DEF KeepsOrder
    <3> QED BY <1>9, <3>2, <3>3
  <2>2. ASSUME NEW q \in (CalledBy(d) \cup {t.n}) \cap InList, NEW n \in Meets(NextOf', m) \cap InList
        PROVE  n \in Met(q)
    BY <1>3, <1>12 DEF KeepsOrder
  <2>3. (CalledBy(d) \cup {t.n}) \cap Meets(NextOf', m) \subseteq (IF a = "step" THEN {m} ELSE {})
    <3>1. CASE a = "step"
      BY <1>11, <1>12, <3>1
    <3>2. CASE a = "idle"
      BY <1>3, <1>8, <3>2 DEF Met
    <3> QED BY <3>1, <3>2
  <2>4. t.due \cup CalledBy(d) \cup {t.n} \subseteq Linked
    BY <1>3 DEF KeepsOrder
  <2>5. /\ a = "idle" => m = List!Null
        /\ a # "load"
        /\ a = "step" => m # List!Null
        /\ {m} \ {List!Null} \subseteq {t.n}
    OBVIOUS
  <2>6. /\ dispatch'[d].at = "idle" => dispatch'[d].n = List!Null
        /\ dispatch'[d].at = "load" => dispatch'[d].called = <<>>
        /\ dispatch'[d].at = "step" => dispatch'[d].n # List!Null
    BY <1>6, <2>5
  <2>7. CalledBy(d)' \cap Meets(NextOf', dispatch'[d].n) \subseteq (IF dispatch'[d].at = "step" THEN {dispatch'[d].n} ELSE {})
    BY <1>6, <1>10, <2>3
  <2>8. \A i, j \in DOMAIN dispatch'[d].called : i < j =>
           /\ dispatch'[d].called[i] # dispatch'[d].called[j]
           /\ {dispatch'[d].called[i], dispatch'[d].called[j]} \subseteq InList' => dispatch'[d].called[j] \in Meets(NextOf', dispatch'[d].called[i])
    BY <1>6, <1>8, <2>1 DEF Met
  <2>9. \A q \in CalledBy(d)' \cap InList', n \in Meets(NextOf', dispatch'[d].n) \cap InList' : n \in Meets(NextOf', q)
    BY <1>6, <1>8, <1>10, <2>2 DEF Met
  <2>10. CalledBy(d)' \cup dispatch'[d].due \cup ({dispatch'[d].n} \ {List!Null}) \subseteq Linked'
    BY <1>6, <1>8, <1>10, <2>4, <2>5
  <2> QED BY <2>6, <2>7, <2>8, <2>9, <2>10 DEF KeepsOrder, Met
<1> QED BY <1>5, <1>7, <1>13, <1>14, <1>15, WalkStep

(* The listener is passed over.                                            *)
LEMMA PassInv ==
    ASSUME ListInv, NEW d \in Walker, NEW t, t = dispatch[d],
           t.at = "visit", t.n # List!Null, ~ List!Called(d, t.n),
           UNCHANGED <<head, tail, size, current, node, adding>>,
           dispatch' = [dispatch EXCEPT ![d].at = "step"]
    PROVE  ListInv'
<1>1. ListTypeOK /\ Counters
  BY DEF ListInv
<1>2. /\ t \in WalkType /\ DueAreMet(d) /\ LateAreTold(d) /\ KeepsOrder(d)
      /\ t.n \in List!Node /\ t.snap \in Nat /\ node[t.n].counter \in Nat
  BY WalkFacts
<1>3. /\ dispatch'[d] = Passed(t)
      /\ \A e \in Walker \ {d} : dispatch'[e] = dispatch[e]
  BY <1>1 DEF Passed, ListTypeOK
<1>4. /\ dispatch'[d] \in WalkType /\ dispatch'[d].at = "step" /\ dispatch'[d].n = t.n
      /\ dispatch'[d].snap = t.snap /\ dispatch'[d].due = t.due
      /\ dispatch'[d].allowed = t.allowed /\ dispatch'[d].called = t.called
  BY <1>2, <1>3, WalkPassed
<1>5. dispatch' \in [Walker -> WalkType]
  BY <1>1, <1>3, <1>4 DEF ListTypeOK
<1>6. NextOf' = NextOf /\ InList' = InList /\ Linked' = Linked
  BY DEF NextOf, InList, Met, Linked
<1>7. CalledBy(d)' = CalledBy(d)
  BY <1>4 DEF CalledBy
<1>8. DueAreMet(d)'
  <2>1. t.n \in t.due \cap InList => t.snap = 0
    <3>1. node[t.n].counter = 0 \/ node[t.n].counter > t.snap
      BY <1>2 DEF List!Called, List!removed_counter
    <3> QED BY <1>1, <1>2, <3>1 DEF DueAreMet, Counters
  <2> QED BY <1>2, <1>4, <1>6, <1>7, <2>1 DEF DueAreMet, Met
<1>9. LateAreTold(d)'
  BY <1>2, <1>4, <1>6, <1>7 DEF LateAreTold, Late, Met
<1>10. KeepsOrder(d)'
  <2>1. CalledBy(d) \cap Met(t.n) = {}
    BY <1>2 DEF KeepsOrder
  <2> QED BY <1>2, <1>4, <1>6, <1>7, <2>1 DEF KeepsOrder, Met
<1> QED BY <1>3, <1>5, <1>8, <1>9, <1>10, WalkStep

(* It stands on a node, and calls it or passes it over.                    *)
LEMMA VisitInv == ASSUME ListInv, NEW d \in Walker, List!Visit(d) PROVE ListInv'
<1>1. PICK t : t = dispatch[d]
  OBVIOUS
<1>2. t.at = "visit" /\ t.n # List!Null /\ UNCHANGED <<head, tail, size, current, node, adding>>
  BY <1>1 DEF List!Visit
<1>3. CASE List!Called(d, t.n)
  <2>1. PICK more \in BOOLEAN :
           dispatch' = [dispatch EXCEPT ![d].called = Append(t.called, t.n),
                                        ![d].at = IF more THEN "step" ELSE "idle",
                                        ![d].n = IF more THEN t.n ELSE List!Null]
    BY <1>1, <1>3 DEF List!Visit
  <2>2. PICK a, m : /\ a = (IF more THEN "step" ELSE "idle")
                    /\ m = (IF more THEN t.n ELSE List!Null)
    OBVIOUS
  <2>3. a \in {"step", "idle"} /\ m = (IF a = "step" THEN t.n ELSE List!Null)
    BY <2>2
  <2>4. dispatch' = [dispatch EXCEPT ![d].called = Append(t.called, t.n), ![d].at = a, ![d].n = m]
    BY <2>1, <2>2
  <2> QED BY <1>1, <1>2, <1>3, <2>3, <2>4, CallInv
<1>4. CASE ~ List!Called(d, t.n)
  <2>1. dispatch' = [dispatch EXCEPT ![d].at = "step"]
    BY <1>1, <1>4 DEF List!Visit
  <2> QED BY <1>1, <1>2, <1>4, <2>1, PassInv
<1> QED BY <1>3, <1>4

(* It goes on to the next node: what it has ahead is the same without the  *)
(* one it stood on.                                                        *)
LEMMA StepInv == ASSUME ListInv, NEW d \in Walker, List!Step(d) PROVE ListInv'
<1>1. ListTypeOK /\ Apart /\ Ends
  BY DEF ListInv
<1>2. PICK t, m : t = dispatch[d] /\ m = node[t.n].next
  OBVIOUS
<1>3. /\ UNCHANGED <<head, tail, size, current, node, adding>> /\ t.at = "step"
      /\ dispatch' = [dispatch EXCEPT ![d].n = m, ![d].at = "visit"]
  BY <1>2 DEF List!Step
<1>4. /\ t \in WalkType /\ DueAreMet(d) /\ LateAreTold(d) /\ KeepsOrder(d)
      /\ t.n \in Linked /\ t.n \in List!Node /\ m \in Linked \cup {List!Null} /\ m \in List!Node \cup {List!Null}
  <2>1. t \in WalkType /\ DueAreMet(d) /\ LateAreTold(d) /\ KeepsOrder(d) /\ t.n \in Linked /\ Linked \subseteq List!Node
    BY <1>2, <1>3, WalkFacts DEF KeepsOrder
  <2> QED BY <1>1, <1>2, <2>1 DEF Apart
<1>5. t.n \notin Met(m) /\ Met(t.n) = {t.n} \cup Met(m)
  BY <1>1, <1>2, <1>4, MetFacts DEF Ends
<1>6. /\ dispatch'[d] = Moved(t, m)
      /\ \A e \in Walker \ {d} : dispatch'[e] = dispatch[e]
  BY <1>1, <1>2, <1>3 DEF Moved, ListTypeOK
<1>7. /\ dispatch'[d] \in WalkType /\ dispatch'[d].at = "visit" /\ dispatch'[d].n = m
      /\ dispatch'[d].snap = t.snap /\ dispatch'[d].due = t.due
      /\ dispatch'[d].allowed = t.allowed /\ dispatch'[d].called = t.called
  BY <1>4, <1>6, WalkMoved
<1>8. dispatch' \in [Walker -> WalkType]
  BY <1>1, <1>3, <1>6, <1>7 DEF ListTypeOK
<1>9. NextOf' = NextOf /\ InList' = InList /\ Linked' = Linked /\ CalledBy(d)' = CalledBy(d)
  BY <1>2, <1>3, <1>7 DEF NextOf, InList, Met, Linked, CalledBy
<1>10. UNCHANGED <<current, node, adding>>
  BY <1>3
<1>11. DueAreMet(d)'
  BY <1>2, <1>3, <1>4, <1>5, <1>7, <1>9, <1>10 DEF DueAreMet, Met
<1>12. LateAreTold(d)'
  BY <1>2, <1>3, <1>4, <1>5, <1>7, <1>9, <1>10 DEF LateAreTold, Late, Met
<1>13. KeepsOrder(d)'
  <2>1. CalledBy(d) \cap Met(m) = {}
    BY <1>2, <1>3, <1>4, <1>5 DEF KeepsOrder
  <2> QED BY <1>2, <1>4, <1>5, <1>7, <1>9, <2>1 DEF KeepsOrder, Met
<1> QED BY <1>3, <1>6, <1>8, <1>11, <1>12, <1>13, WalkStep

(* Every step of the list and of its dispatches.                           *)
LEMMA ListNextInv ==
    ASSUME Careful, ListInv, [List!Next]_(List!vars)
    PROVE  ListInv'
<1>1. ListTypeOK
  BY DEF ListInv
<1>2. ASSUME NEW n \in List!Node, List!Append_(n) \/ List!Prepend(n) PROVE ListInv'
  <2>1. PICK b \in InList \cup {List!Null, List!First} : List!Allocate(n, b)
    BY <1>2 DEF List!Append_, List!Prepend
  <2> QED BY <2>1, AllocInv
<1>3. ASSUME NEW n \in List!Node, NEW h \in List!Node, List!Insert(n, h) PROVE ListInv'
  <2>1. h \in InList
    BY <1>1, <1>3, ListWords DEF List!Insert, List!Usable
  <2>2. PICK b \in InList \cup {List!Null, List!First} : List!Allocate(n, b)
    BY <1>3, <2>1 DEF List!Insert
  <2> QED BY <2>2, AllocInv
<1>4. ASSUME NEW d \in Walker,
             List!Begin(d) \/ List!LoadCounter(d) \/ List!Visit(d) \/ List!Step(d) \/ List!End(d)
      PROVE  ListInv'
  BY <1>4, BeginInv, LoadCounterInv, VisitInv, StepInv
<1>5. CASE UNCHANGED List!vars
  <2>1. /\ head' = head /\ tail' = tail /\ size' = size /\ current' = current
        /\ node' = node /\ adding' = adding /\ dispatch' = dispatch
    BY <1>5 DEF List!vars
  <2>2. /\ NextOf' = NextOf /\ InList' = InList /\ Linked' = Linked
        /\ \A d \in Walker : CalledBy(d)' = CalledBy(d)
    BY <2>1 DEF NextOf, InList, Met, Linked, CalledBy
  <2> QED BY <2>1, <2>2 DEF ListInv, ListTypeOK, Apart, Ends, Whole, Adder, Counters, Walks,
                            DueAreMet, LateAreTold, Late, KeepsOrder, Met
<1> QED BY <1>2, <1>3, <1>4, <1>5, RemoveNodeInv, ClearInv, ResetInv, LinkInv DEF List!Next

(* Listeners are appended, prepended, inserted, removed and cleared, the   *)
(* counter wraps, and any number of dispatches walk along, in any order:   *)
(* the links stay whole, and each dispatch calls who was there and stays,  *)
(* no newcomer, nobody twice and in the order of the list (provided that a *)
(* handle is not used any more once its node is removed).                  *)
THEOREM DispatchStaysRight ==
    ASSUME Careful
    PROVE  ComponentsSpec => []DispatchIsRight
<1>1. ComponentsInit => ListInv
  BY ListInitInv DEF ComponentsInit
<1>2. ComponentsNext => [List!Next]_(List!vars)
  BY DEF ComponentsNext, List!vars, listVars
<1>3. UNCHANGED <<queueVars, listVars, dispVars, sendVars, socksVars, remoteVars, part>>
         => UNCHANGED List!vars
  BY DEF listVars, List!vars
<1>4. ListInv /\ [ComponentsNext]_<<queueVars, listVars, dispVars, sendVars, socksVars, remoteVars, part>>
         => ListInv'
  BY <1>2, <1>3, ListNextInv
<1> QED BY <1>1, <1>4, ListInvRight, PTL DEF ComponentsSpec

-----------------------------------------------------------------------------
(***************************************************************************)
(* The two maps of the event dispatcher tell the same listeners, for any   *)
(* number of events, names and listeners.                                  *)
(*                                                                         *)
(* MapsAgree is not inductive: that removing listeners by name from one    *)
(* list leaves the others alone needs that each listener is in the list of *)
(* the event it was added for (Added).  That filtering a list keeps what   *)
(* it should is a fact about ranks in a finite set.                        *)
(***************************************************************************)
(* The elements of a set of numbers by their rank.                         *)
Rank(S, i) == Cardinality(S \cap (1..i))

LEMMA RankIsBijective ==
    ASSUME NEW n \in Nat, NEW S \in SUBSET (1..n)
    PROVE  /\ IsFiniteSet(S) /\ Cardinality(S) \in Nat
           /\ \A i \in S : Rank(S, i) \in 1..Cardinality(S)
           /\ \A i, j \in S : Rank(S, i) = Rank(S, j) => i = j
           /\ \A k \in 1..Cardinality(S) : \E i \in S : Rank(S, i) = k
<1>1. IsFiniteSet(S) /\ Cardinality(S) \in Nat
  <2>1. IsFiniteSet(1..n)
    BY FS_Interval
  <2>2. IsFiniteSet(S)
    BY <2>1, FS_Subset
  <2> QED BY <2>2, FS_CardinalityType
<1>2. ASSUME NEW i \in S
      PROVE  /\ IsFiniteSet(S \cap (1..i)) /\ i \in S \cap (1..i)
             /\ Rank(S, i) \in 1..Cardinality(S)
  <2>1. i \in S \cap (1..i) /\ S \cap (1..i) \in SUBSET S
    OBVIOUS
  <2>2. /\ IsFiniteSet(S \cap (1..i)) /\ Rank(S, i) <= Cardinality(S)
        /\ Rank(S, i) \in Nat
    BY <1>1, <2>1, FS_Subset, FS_CardinalityType DEF Rank
  <2>3. Rank(S, i) # 0
    BY <2>1, <2>2, FS_EmptySet DEF Rank
  <2> QED BY <1>1, <2>1, <2>2, <2>3
<1>3. ASSUME NEW i \in S, NEW j \in S, i < j PROVE Rank(S, i) # Rank(S, j)
  <2>1. S \cap (1..i) \in SUBSET (S \cap (1..j)) /\ j \notin S \cap (1..i)
    BY <1>3
  <2>2. IsFiniteSet(S \cap (1..j)) /\ j \in S \cap (1..j)
    BY <1>2
  <2> QED BY <2>1, <2>2, FS_Subset DEF Rank
<1>4. ASSUME NEW i \in S, NEW j \in S, Rank(S, i) = Rank(S, j) PROVE i = j
  <2>1. i \in Nat /\ j \in Nat /\ ~(i < j) /\ ~(j < i)
    BY <1>3, <1>4
  <2> QED BY <2>1
<1> DEFINE rank == [i \in S |-> Rank(S, i)]
           K == 1..Cardinality(S)
<1>5. rank \in Injection(S, K)
  BY <1>2, <1>4 DEF Injection, IsInjective
<1>6. IsFiniteSet(K) /\ Cardinality(K) = Cardinality(S)
  BY <1>1, FS_Interval
<1>7. rank \in Surjection(S, K)
  BY <1>5, <1>6, FS_Injection
<1>8. \A k \in K : \E i \in S : Rank(S, i) = k
  BY <1>7 DEF Surjection
<1> QED BY <1>1, <1>2, <1>4, <1>8

(* What is in a list.                                                      *)
Elems(s) == {s[i] : i \in DOMAIN s}

(* What Removed leaves of a list s, as a function of s.                    *)
Staying(s, ns) == {i \in DOMAIN s : s[i] \notin ns}
Left(s, ns) ==
    [k \in 1..Cardinality(Staying(s, ns)) |->
        s[CHOOSE i \in Staying(s, ns) : Rank(Staying(s, ns), i) = k]]

LEMMA LeftIsRest ==
    ASSUME NEW T, NEW s \in Seq(T), IsInjective(s), NEW ns
    PROVE  /\ Left(s, ns) \in Seq(T) /\ IsInjective(Left(s, ns))
           /\ Elems(Left(s, ns)) = Elems(s) \ ns
           /\ Len(Left(s, ns)) = Len(s) - Cardinality(ns \cap Elems(s))
           /\ IsFiniteSet(ns \cap Elems(s))
<1> DEFINE n == Len(s)  S == Staying(s, ns)  m == Cardinality(S)  r == Left(s, ns)
           At(k) == CHOOSE i \in S : Rank(S, i) = k
<1>1. n \in Nat /\ DOMAIN s = 1..n /\ S \in SUBSET (1..n)
  BY LenProperties DEF Staying
<1>2. r = [k \in 1..m |-> s[At(k)]]
  BY DEF Left
<1>3. \A i \in S : s[i] \notin ns
  BY DEF Staying
<1>4. \A i \in 1..n : s[i] \notin ns => i \in S
  BY <1>1 DEF Staying
<1> HIDE DEF n, S, r
<1>5. /\ IsFiniteSet(S) /\ m \in Nat
      /\ \A i \in S : Rank(S, i) \in 1..m
      /\ \A i, j \in S : Rank(S, i) = Rank(S, j) => i = j
      /\ \A k \in 1..m : \E i \in S : Rank(S, i) = k
  BY <1>1, RankIsBijective
<1> HIDE DEF m
<1>6. ASSUME NEW k \in 1..m PROVE At(k) \in S /\ Rank(S, At(k)) = k
  BY <1>5
<1>7. ASSUME NEW i \in S PROVE \E k \in 1..m : At(k) = i
  <2>1. Rank(S, i) \in 1..m
    BY <1>5
  <2>2. At(Rank(S, i)) \in S /\ Rank(S, At(Rank(S, i))) = Rank(S, i)
    BY <1>6, <2>1
  <2>3. At(Rank(S, i)) = i
    BY <1>5, <2>2
  <2> QED BY <2>1, <2>3
<1> HIDE DEF At
<1>8. \A i \in 1..n : s[i] \in T
  BY <1>1, ElementOfSeq DEF n
<1>9. DOMAIN r = 1..m /\ r \in Seq(T) /\ Len(r) = m /\ \A k \in 1..m : r[k] = s[At(k)]
  <2>1. r \in [1..m -> T]
    BY <1>1, <1>2, <1>6, <1>8
  <2>2. r \in Seq(T)
    BY <1>5, <2>1, SeqDef
  <2> QED BY <1>2, <1>5, <2>1, <2>2, LenProperties
<1>10. IsInjective(r)
  <2>1. ASSUME NEW j \in 1..m, NEW k \in 1..m, s[At(j)] = s[At(k)] PROVE j = k
    <3>1. At(j) = At(k)
      BY <1>1, <1>6, <2>1 DEF IsInjective
    <3> QED BY <1>6, <3>1
  <2> QED BY <1>9, <2>1 DEF IsInjective
<1> DEFINE V == {s[i] : i \in DOMAIN s}
<1>11. {r[k] : k \in DOMAIN r} = V \ ns
  <2>1. ASSUME NEW k \in 1..m PROVE r[k] \in V \ ns
    BY <1>1, <1>3, <1>6, <1>9
  <2>2. ASSUME NEW x \in V \ ns PROVE \E k \in 1..m : r[k] = x
    <3>1. PICK i \in 1..n : s[i] = x
      BY <1>1
    <3>2. PICK k \in 1..m : At(k) = i
      BY <1>4, <1>7, <3>1
    <3> QED BY <1>9, <3>1, <3>2
  <2> QED BY <1>9, <2>1, <2>2
<1>12. m = n - Cardinality(ns \cap V) /\ IsFiniteSet(ns \cap V)
  <2> DEFINE O == (1..n) \ S
             f == [i \in O |-> s[i]]
  <2>1. IsFiniteSet(1..n) /\ Cardinality(1..n) = n
    BY <1>1, FS_Interval
  <2>2. (1..n) \cap S = S
    BY <1>1
  <2>3. IsFiniteSet(O) /\ Cardinality(O) = n - m
    <3>1. IsFiniteSet(O) /\ Cardinality(O) = Cardinality(1..n) - Cardinality((1..n) \cap S)
      BY <2>1, FS_Difference
    <3> QED BY <2>1, <2>2, <3>1 DEF m
  <2>4. f \in Bijection(O, ns \cap V)
    <3>1. \A i \in O : s[i] \in ns /\ s[i] \in V
      BY <1>1, <1>4
    <3>2. \A i, j \in O : s[i] = s[j] => i = j
      BY <1>1 DEF IsInjective
    <3>3. ASSUME NEW x \in ns \cap V PROVE \E i \in O : s[i] = x
      <4>1. PICK i \in 1..n : s[i] = x
        BY <1>1
      <4> QED BY <1>3, <4>1
    <3>4. f \in Injection(O, ns \cap V)
      BY <3>1, <3>2 DEF Injection, IsInjective
    <3>5. f \in Surjection(O, ns \cap V)
      BY <3>1, <3>3 DEF Surjection
    <3> QED BY <3>4, <3>5 DEF Bijection
  <2>5. Cardinality(ns \cap V) = n - m /\ IsFiniteSet(ns \cap V)
    BY <2>3, <2>4, FS_Bijection DEF ExistsBijection
  <2> QED BY <1>1, <1>5, <2>5
<1> QED BY <1>9, <1>10, <1>11, <1>12 DEF r, n, Elems

(* What InsertAt makes of a list.                                          *)
LEMMA OneInserted ==
    ASSUME NEW T, NEW s \in Seq(T), IsInjective(s), NEW e \in T, NEW i \in 1..Len(s) + 1,
           e \notin Elems(s)
    PROVE  LET r == Disp!InsertAt(s, i, e)
           IN  /\ r \in Seq(T) /\ IsInjective(r) /\ Len(r) = Len(s) + 1
               /\ Elems(r) = Elems(s) \cup {e}
<1> DEFINE n == Len(s)  p == SubSeq(s, 1, i - 1)  q == SubSeq(s, i, n)  r == Disp!InsertAt(s, i, e)
<1>1. n \in Nat /\ DOMAIN s = 1..n /\ i \in 1..n + 1 /\ \A j \in 1..n : s[j] \in T
  BY LenProperties
<1>2. /\ p \in Seq(T) /\ Len(p) = i - 1
      /\ \A j \in 1..(i - 1) : p[j] = s[j]
  BY <1>1, SubSeqProperties
<1>3. /\ q \in Seq(T) /\ Len(q) = n - i + 1
      /\ \A j \in 1..(n - i + 1) : q[j] = s[i + j - 1]
  BY <1>1, SubSeqProperties
<1>4. r = (p \o <<e>>) \o q
  BY DEF Disp!InsertAt
<1> HIDE DEF p, q, n, r
<1> DEFINE o == p \o <<e>>
<1>5. <<e>> \in Seq(T) /\ Len(<<e>>) = 1 /\ <<e>>[1] = e
  OBVIOUS
<1>6. /\ o \in Seq(T) /\ Len(o) = i
      /\ \A j \in 1..i : o[j] = IF j < i THEN s[j] ELSE e
  <2>1. /\ o \in Seq(T) /\ Len(o) = Len(p) + 1
        /\ \A j \in 1..(Len(p) + 1) : o[j] = IF j <= Len(p) THEN p[j] ELSE <<e>>[j - Len(p)]
    BY <1>2, <1>5, ConcatProperties
  <2>2. ASSUME NEW j \in 1..i PROVE o[j] = IF j < i THEN s[j] ELSE e
    <3>1. CASE j < i
      BY <1>1, <1>2, <2>1, <3>1
    <3>2. CASE j = i
      <4>1. ~(j <= Len(p)) /\ j - Len(p) = 1 /\ j \in 1..(Len(p) + 1)
        BY <1>1, <1>2, <3>2
      <4> QED BY <1>1, <1>5, <2>1, <3>2, <4>1
    <3>3. j < i \/ j = i
      BY <1>1
    <3> QED BY <3>1, <3>2, <3>3
  <2> QED BY <1>1, <1>2, <2>1, <2>2
<1> HIDE DEF o
<1>7. /\ r \in Seq(T) /\ Len(r) = n + 1 /\ DOMAIN r = 1..(n + 1)
      /\ \A j \in 1..(n + 1) : r[j] = IF j < i THEN s[j] ELSE IF j = i THEN e ELSE s[j - 1]
  <2>1. /\ r \in Seq(T) /\ Len(r) = Len(o) + Len(q)
        /\ \A j \in 1..(Len(o) + Len(q)) : r[j] = IF j <= Len(o) THEN o[j] ELSE q[j - Len(o)]
    <3>1. r = o \o q
      BY <1>4 DEF o
    <3> QED BY <1>3, <1>6, <3>1, ConcatProperties
  <2>2. Len(r) = n + 1 /\ DOMAIN r = 1..(n + 1)
    BY <1>1, <1>3, <1>6, <2>1, LenProperties
  <2>3. ASSUME NEW j \in 1..(n + 1)
        PROVE  r[j] = IF j < i THEN s[j] ELSE IF j = i THEN e ELSE s[j - 1]
    <3>1. CASE j <= i
      BY <1>1, <1>3, <1>6, <2>1, <3>1
    <3>2. CASE j > i
      <4>1. r[j] = q[j - i] /\ j - i \in 1..(n - i + 1)
        BY <1>1, <1>3, <1>6, <2>1, <3>2
      <4>2. q[j - i] = s[i + (j - i) - 1] /\ i + (j - i) - 1 = j - 1
        BY <1>1, <1>3, <4>1
      <4> QED BY <1>1, <3>2, <4>1, <4>2
    <3> QED BY <1>1, <3>1, <3>2
  <2> QED BY <2>1, <2>2, <2>3
<1> DEFINE V == {s[j] : j \in DOMAIN s}
           Was(j) == IF j < i THEN j ELSE j - 1
<1>8. /\ r[i] = e /\ i \in 1..(n + 1)
      /\ \A j \in 1..(n + 1) : j # i => Was(j) \in 1..n /\ r[j] = s[Was(j)]
      /\ \A j, k \in 1..(n + 1) : j # i /\ k # i /\ Was(j) = Was(k) => j = k
      /\ \A k \in 1..n : \E j \in 1..(n + 1) : j # i /\ Was(j) = k
  <2>1. ASSUME NEW j \in 1..(n + 1), j # i PROVE Was(j) \in 1..n /\ r[j] = s[Was(j)]
    BY <1>1, <1>7, <2>1
  <2>2. ASSUME NEW k \in 1..n PROVE \E j \in 1..(n + 1) : j # i /\ Was(j) = k
    <3>1. CASE k < i
      <4>1. k \in 1..(n + 1) /\ k # i /\ Was(k) = k
        BY <1>1, <3>1
      <4> QED BY <4>1
    <3>2. CASE k >= i
      <4>1. k + 1 \in 1..(n + 1) /\ k + 1 # i /\ Was(k + 1) = k
        BY <1>1, <3>2
      <4> QED BY <4>1
    <3> QED BY <1>1, <3>1, <3>2
  <2>3. ASSUME NEW j \in 1..(n + 1), NEW k \in 1..(n + 1), j # i, k # i, Was(j) = Was(k) PROVE j = k
    BY <1>1, <2>3
  <2> QED BY <1>1, <1>7, <2>1, <2>2, <2>3
<1> HIDE DEF Was
<1>9. IsInjective(r)
  <2>1. ASSUME NEW j \in 1..(n + 1), NEW k \in 1..(n + 1), r[j] = r[k], j # i, k # i PROVE j = k
    <3>1. s[Was(j)] = s[Was(k)] /\ Was(j) \in DOMAIN s /\ Was(k) \in DOMAIN s
      BY <1>1, <1>8, <2>1
    <3> QED BY <1>8, <2>1, <3>1 DEF IsInjective
  <2>2. \A j \in 1..(n + 1) : j # i => r[j] # e
    BY <1>1, <1>8 DEF Elems
  <2> QED BY <1>7, <1>8, <2>1, <2>2 DEF IsInjective
<1>10. {r[j] : j \in DOMAIN r} = V \cup {e}
  <2>1. ASSUME NEW j \in 1..(n + 1) PROVE r[j] \in V \cup {e}
    BY <1>1, <1>8
  <2>2. ASSUME NEW x \in V PROVE \E j \in 1..(n + 1) : r[j] = x
    <3>1. PICK k \in 1..n : s[k] = x
      BY <1>1
    <3>2. PICK j \in 1..(n + 1) : j # i /\ Was(j) = k
      BY <1>8
    <3> QED BY <1>8, <3>1, <3>2
  <2>3. {r[j] : j \in DOMAIN r} = {r[j] : j \in 1..(n + 1)} /\ e \in {r[j] : j \in 1..(n + 1)}
    BY <1>7, <1>8
  <2> HIDE DEF V
  <2> QED BY <2>1, <2>2, <2>3
<1> QED BY <1>7, <1>9, <1>10 DEF r, n, Elems
-----------------------------------------------------------------------------
Listeners(e) == Elems(listener_map[e])
Everyone == UNION {Listeners(e) : e \in Key}

DispTypeOK ==
    /\ listener_map \in [Key -> Seq(Nat)]
    /\ sizes \in [Key -> Nat]
    /\ born \in Seq([name : Name, e : Key])

(* A listener that is in a list is in that of the event it was added for.  *)
Added == \A e \in Key : \A n \in Listeners(e) : n \in DOMAIN born /\ born[n].e = e

(* What MapsAgree says, in the terms of this module.                       *)
Counted == \A e \in Key : sizes[e] = Len(listener_map[e]) /\ IsInjective(listener_map[e])
Named == name_map = {<<born[n].name, born[n].e, n>> : n \in Everyone}

DispInv == DispTypeOK /\ Added /\ Counted /\ Named

LEMMA ListenersAreListed == \A e : Disp!Listed(e) = Listeners(e)
  BY DEF Disp!Listed, Disp!ToSet, Listeners, Elems

LEMMA SameCardinality == \A S : Disp!Cardinality(S) = Cardinality(S)
  BY DEF Disp!Cardinality, Cardinality

LEMMA DispInvAgrees == DispInv => MapsAgree
<1> SUFFICES ASSUME DispInv PROVE MapsAgree
  OBVIOUS
<1>1. Everyone = UNION {Disp!Listed(e) : e \in Key}
  BY ListenersAreListed DEF Everyone
<1>2. \A s : Disp!IsInjective(s) = IsInjective(s)
  BY DEF Disp!IsInjective, IsInjective
<1> QED BY <1>1, <1>2 DEF MapsAgree, Disp!MapsAgree, DispInv, Counted, Named

LEMMA DispInitInv == Disp!Init => DispInv
<1> SUFFICES ASSUME Disp!Init PROVE DispInv
  OBVIOUS
<1>1. /\ listener_map = [e \in Key |-> <<>>] /\ sizes = [e \in Key |-> 0]
      /\ name_map = {} /\ born = <<>>
  BY DEF Disp!Init
<1>2. <<>> \in Seq(Nat) /\ Len(<<>>) = 0 /\ Elems(<<>>) = {} /\ IsInjective(<<>>)
  BY DEF IsInjective, Elems
<1>3. \A e \in Key : Listeners(e) = {}
  BY <1>1, <1>2 DEF Listeners
<1>4. Everyone = {}
  BY <1>3 DEF Everyone
<1>5. DispTypeOK
  BY <1>1, <1>2 DEF DispTypeOK
<1> QED BY <1>1, <1>2, <1>3, <1>4, <1>5 DEF DispInv, Added, Counted, Named

(* A listener more.                                                        *)
LEMMA OneIsAdded ==
    ASSUME DispInv, NEW name \in Name, NEW e \in Key, NEW i, Disp!AddAt(name, e, i)
    PROVE  DispInv'
<1>1. DispTypeOK /\ Added /\ Counted /\ Named
  BY DEF DispInv
<1>2. PICK m \in Nat : m = Len(born) + 1 /\ DOMAIN born = 1..(m - 1)
  <2>1. Len(born) \in Nat /\ DOMAIN born = 1..Len(born)
    BY <1>1, LenProperties DEF DispTypeOK
  <2>2. Len(born) + 1 \in Nat /\ (Len(born) + 1) - 1 = Len(born)
    BY <2>1
  <2> QED BY <2>1, <2>2
<1>3. /\ i \in 0..Len(listener_map[e])
      /\ listener_map' = [listener_map EXCEPT ![e] = Disp!InsertAt(@, i + 1, m)]
      /\ sizes' = [sizes EXCEPT ![e] = @ + 1]
      /\ name_map' = name_map \cup {<<name, e, m>>}
      /\ born' = Append(born, [name |-> name, e |-> e])
  BY <1>2 DEF Disp!AddAt, Disp!Added, Disp!New
<1>4. /\ born' \in Seq([name : Name, e : Key]) /\ DOMAIN born' = 1..m
      /\ born'[m] = [name |-> name, e |-> e] /\ \A n \in 1..(m - 1) : born'[n] = born[n]
  BY <1>1, <1>2, <1>3, AppendProperties, LenProperties DEF DispTypeOK
<1>5. listener_map[e] \in Seq(Nat) /\ IsInjective(listener_map[e]) /\ i + 1 \in 1..Len(listener_map[e]) + 1
  BY <1>1, <1>3, LenProperties DEF DispTypeOK, Counted
<1>6. \A k \in Key : m \notin Listeners(k)
  BY <1>1, <1>2 DEF Added
<1>7. LET r == Disp!InsertAt(listener_map[e], i + 1, m)
      IN  /\ r \in Seq(Nat) /\ IsInjective(r) /\ Len(r) = Len(listener_map[e]) + 1
          /\ Elems(r) = Listeners(e) \cup {m}
  <2>1. listener_map[e] \in Seq(Nat) /\ m \notin Elems(listener_map[e])
    BY <1>5, <1>6 DEF Listeners
  <2> QED BY <1>2, <1>5, <2>1, OneInserted DEF Listeners
<1>8. /\ listener_map' \in [Key -> Seq(Nat)]
      /\ listener_map'[e] = Disp!InsertAt(listener_map[e], i + 1, m)
      /\ \A k \in Key : k # e => listener_map'[k] = listener_map[k]
  BY <1>1, <1>3, <1>7 DEF DispTypeOK
<1>9. /\ Listeners(e)' = Listeners(e) \cup {m}
      /\ \A k \in Key : k # e => Listeners(k)' = Listeners(k)
  BY <1>7, <1>8 DEF Listeners
<1>10. Everyone' = Everyone \cup {m}
  BY <1>9 DEF Everyone
<1>11. DispTypeOK'
  BY <1>1, <1>3, <1>4, <1>8 DEF DispTypeOK
<1>12. Added'
  <2>1. ASSUME NEW k \in Key, NEW n \in Listeners(k) PROVE n \in 1..m /\ born'[n].e = k
    BY <1>1, <1>2, <1>4 DEF Added
  <2>2. m \in 1..m /\ born'[m].e = e
    BY <1>2, <1>4
  <2> QED BY <1>4, <1>9, <2>1, <2>2 DEF Added
<1>13. Counted'
  <2>1. sizes'[e] = Len(listener_map'[e]) /\ IsInjective(listener_map'[e])
    BY <1>1, <1>3, <1>7, <1>8 DEF Counted, DispTypeOK
  <2>2. \A k \in Key : k # e => sizes'[k] = Len(listener_map'[k]) /\ IsInjective(listener_map'[k])
    BY <1>1, <1>3, <1>8 DEF Counted, DispTypeOK
  <2> QED BY <2>1, <2>2 DEF Counted
<1>14. Named'
  <2>1. \A n \in Everyone : n \in 1..(m - 1)
    BY <1>1, <1>2 DEF Everyone, Added
  <2>2. \A n \in Everyone : <<born'[n].name, born'[n].e, n>> = <<born[n].name, born[n].e, n>>
    BY <1>4, <2>1
  <2>3. <<born'[m].name, born'[m].e, m>> = <<name, e, m>>
    BY <1>4
  <2> QED BY <1>1, <1>3, <1>10, <2>2, <2>3 DEF Named
<1> QED BY <1>11, <1>12, <1>13, <1>14 DEF DispInv

(* Some listeners less.                                                    *)
LEMMA RemovedIsLeft == \A e, ns : Disp!Removed(e, ns) = Left(listener_map[e], ns)
  BY DEF Disp!Removed, Disp!Staying, Disp!Cardinality, Cardinality, Left, Staying, Rank

LEMMA SomeLeave ==
    ASSUME DispInv, NEW ns, UNCHANGED born,
           listener_map' \in [Key -> Seq(Nat)], sizes' \in [Key -> Nat],
           \A e \in Key : \/ listener_map'[e] = Disp!Removed(e, ns)
                          \/ listener_map'[e] = listener_map[e] /\ ns \cap Listeners(e) = {},
           \A e \in Key : sizes'[e] = Len(listener_map'[e]),
           name_map' = {t \in name_map : t[3] \notin ns}
    PROVE  DispInv'
<1>1. DispTypeOK /\ Added /\ Counted /\ Named
  BY DEF DispInv
<1>2. DispTypeOK'
  BY <1>1 DEF DispTypeOK
<1>3. ASSUME NEW e \in Key
      PROVE  Listeners(e)' = Listeners(e) \ ns /\ IsInjective(listener_map'[e])
  <2>1. listener_map[e] \in Seq(Nat) /\ IsInjective(listener_map[e])
    BY <1>1 DEF DispTypeOK, Counted
  <2>2. CASE listener_map'[e] = Disp!Removed(e, ns)
    <3>1. listener_map'[e] = Left(listener_map[e], ns)
      BY <2>2, RemovedIsLeft
    <3>2. /\ Elems(Left(listener_map[e], ns)) = Elems(listener_map[e]) \ ns
          /\ IsInjective(Left(listener_map[e], ns))
      BY <2>1, LeftIsRest
    <3> QED BY <3>1, <3>2 DEF Listeners
  <2>3. CASE listener_map'[e] = listener_map[e] /\ ns \cap Listeners(e) = {}
    BY <2>1, <2>3 DEF Listeners
  <2> QED BY <2>2, <2>3
<1>4. Everyone' = Everyone \ ns
  BY <1>3 DEF Everyone
<1>5. Added'
  BY <1>1, <1>3 DEF Added
<1>6. Counted'
  BY <1>3 DEF Counted
<1>7. Named'
  <2>1. \A n : <<born[n].name, born[n].e, n>>[3] = n
    OBVIOUS
  <2>2. name_map' = {<<born[n].name, born[n].e, n>> : n \in Everyone \ ns}
    BY <1>1, <2>1 DEF Named
  <2> QED BY <1>4, <2>2 DEF Named
<1> QED BY <1>2, <1>5, <1>6, <1>7 DEF DispInv

LEMMA HandleIsRemoved ==
    ASSUME Careful, DispInv, NEW n, Disp!RemoveListener(n)
    PROVE  DispInv'
<1>1. DispTypeOK /\ Added /\ Counted /\ Named
  BY DEF DispInv
<1>2. n \in DOMAIN born /\ n \in Listeners(born[n].e) /\ born[n].e \in Key
  <2>1. n \in DOMAIN born /\ n \in Disp!Listed(born[n].e)
    BY DEF Disp!RemoveListener
  <2>2. born[n] \in [name : Name, e : Key]
    <3> DEFINE R == [name : Name, e : Key]
    <3>1. born \in Seq(R)
      BY <1>1 DEF DispTypeOK
    <3> HIDE DEF R
    <3>2. n \in 1..Len(born)
      BY <2>1, <3>1, LenProperties
    <3>3. born[n] \in R
      BY <3>1, <3>2, ElementOfSeq
    <3> QED BY <3>3 DEF R
  <2> QED BY <2>1, <2>2, ListenersAreListed
<1>3. PICK e \in Key : e = born[n].e
  BY <1>2
<1> DEFINE left == Disp!Removed(e, {n})
<1>4. /\ name_map' = name_map \ {<<born[n].name, e, n>>}
      /\ listener_map' = [listener_map EXCEPT ![e] = left]
      /\ sizes' = [sizes EXCEPT ![e] = IF listener_map[e] = <<>> \/ left = <<>> THEN 0 ELSE @ - 1]
      /\ UNCHANGED born
  BY <1>3 DEF Disp!RemoveListener
<1>5. left \in Seq(Nat) /\ Len(left) = Len(listener_map[e]) - 1
  <2>1. listener_map[e] \in Seq(Nat) /\ IsInjective(listener_map[e])
    BY <1>1 DEF DispTypeOK, Counted
  <2>2. {n} \cap Listeners(e) = {n}
    BY <1>2, <1>3
  <2>3. Cardinality({n}) = 1
    BY FS_Singleton
  <2>4. left = Left(listener_map[e], {n})
    BY RemovedIsLeft
  <2> HIDE DEF left
  <2> QED BY <2>1, <2>2, <2>3, <2>4, LeftIsRest DEF Listeners
<1> HIDE DEF left
<1>6. listener_map[e] # <<>>
  <2>1. Listeners(e) # {}
    BY <1>2, <1>3
  <2> QED BY <2>1 DEF Listeners, Elems
<1>7. /\ sizes' \in [Key -> Nat] /\ listener_map' \in [Key -> Seq(Nat)]
      /\ \A k \in Key : sizes'[k] = Len(listener_map'[k])
  <2>1. IF left = <<>> THEN Len(left) = 0 ELSE Len(left) = sizes[e] - 1
    <3>1. sizes[e] = Len(listener_map[e])
      BY <1>1, <1>3, <1>2 DEF Counted
    <3>2. left = <<>> => Len(left) = 0
      OBVIOUS
    <3> QED BY <1>5, <3>1, <3>2
  <2>2. Len(left) \in Nat
    BY <1>5, LenProperties
  <2> DEFINE z == IF listener_map[e] = <<>> \/ left = <<>> THEN 0 ELSE sizes[e] - 1
  <2>3. z = Len(left)
    BY <1>6, <2>1
  <2>4. sizes' = [sizes EXCEPT ![e] = z]
    BY <1>4
  <2> HIDE DEF z
  <2> QED BY <1>1, <1>4, <1>5, <2>2, <2>3, <2>4 DEF DispTypeOK, Counted
<1>8. \A k \in Key : \/ listener_map'[k] = Disp!Removed(k, {n})
                     \/ listener_map'[k] = listener_map[k] /\ {n} \cap Listeners(k) = {}
  <2>1. listener_map'[e] = Disp!Removed(e, {n})
    BY <1>1, <1>4 DEF DispTypeOK, left
  <2>2. ASSUME NEW k \in Key, k # e PROVE listener_map'[k] = listener_map[k] /\ n \notin Listeners(k)
    BY <1>1, <1>3, <1>4, <2>2 DEF DispTypeOK, Added
  <2> QED BY <2>1, <2>2
<1>9. name_map' = {t \in name_map : t[3] \notin {n}}
  <2>1. \A t \in name_map : t[3] = n <=> t = <<born[n].name, born[n].e, n>>
    BY <1>1 DEF Named
  <2> QED BY <1>3, <1>4, <2>1
<1> QED BY <1>4, <1>7, <1>8, <1>9, SomeLeave

LEMMA NamedAreRemoved ==
    ASSUME DispInv, NEW name \in Name, NEW es \in SUBSET Key, Disp!RemoveNamed(name, es)
    PROVE  DispInv'
<1>1. DispTypeOK /\ Added /\ Counted /\ Named
  BY DEF DispInv
<1> DEFINE ns == {t[3] : t \in {t \in name_map : t[1] = name /\ t[2] \in es}}
           left == [e \in Key |-> Disp!Removed(e, ns)]
           emptied == {e \in es : left[e] = <<>> /\ listener_map[e] # <<>>}
<1>2. /\ name_map' = {t \in name_map : ~(t[1] = name /\ t[2] \in es)}
      /\ listener_map' = left
      /\ sizes' = [e \in Key |-> IF e \in emptied THEN 0
                                 ELSE sizes[e] - Cardinality(ns \cap Listeners(e))]
      /\ UNCHANGED born
  BY ListenersAreListed, SameCardinality DEF Disp!RemoveNamed
<1>3. name_map' = {t \in name_map : t[3] \notin ns}
  <2>1. \A t, u \in name_map : t[3] = u[3] => t = u
    BY <1>1 DEF Named
  <2>2. ASSUME NEW t \in name_map PROVE t[3] \in ns <=> t[1] = name /\ t[2] \in es
    BY <2>1
  <2> HIDE DEF ns
  <2> QED BY <1>2, <2>2
<1> HIDE DEF ns
<1>4. ASSUME NEW e \in Key
      PROVE  left[e] \in Seq(Nat) /\ Len(left[e]) = sizes[e] - Cardinality(ns \cap Listeners(e))
  <2>1. /\ listener_map[e] \in Seq(Nat) /\ IsInjective(listener_map[e])
        /\ sizes[e] = Len(listener_map[e])
    BY <1>1 DEF DispTypeOK, Counted
  <2>2. left[e] = Left(listener_map[e], ns)
    BY RemovedIsLeft
  <2> HIDE DEF left
  <2> QED BY <2>1, <2>2, LeftIsRest DEF Listeners
<1>5. ASSUME NEW e \in Key PROVE sizes'[e] = Len(left[e]) /\ Len(left[e]) \in Nat
  <2>1. Len(left[e]) \in Nat /\ (left[e] = <<>> => Len(left[e]) = 0)
    BY <1>4, LenProperties
  <2>2. e \in emptied => left[e] = <<>>
    OBVIOUS
  <2>3. sizes'[e] = IF e \in emptied THEN 0 ELSE sizes[e] - Cardinality(ns \cap Listeners(e))
    BY <1>2
  <2> HIDE DEF left, emptied
  <2> QED BY <1>4, <2>1, <2>2, <2>3
<1>6. listener_map' \in [Key -> Seq(Nat)] /\ sizes' \in [Key -> Nat]
  <2>1. \A e \in Key : sizes'[e] \in Nat
    BY <1>5
  <2> HIDE DEF emptied
  <2>2. sizes' \in [Key -> Nat]
    BY <1>2, <2>1
  <2> QED BY <1>2, <1>4, <2>2
<1>7. \A e \in Key : listener_map'[e] = Disp!Removed(e, ns) /\ sizes'[e] = Len(listener_map'[e])
  BY <1>2, <1>5
<1> HIDE DEF left, emptied
<1> QED BY <1>2, <1>3, <1>6, <1>7, SomeLeave

LEMMA DispNextInv ==
    ASSUME Careful
    PROVE  DispInv /\ [Disp!Next]_(Disp!vars) => DispInv'
<1> SUFFICES ASSUME DispInv, [Disp!Next]_(Disp!vars) PROVE DispInv'
  OBVIOUS
<1>1. DispTypeOK /\ Added /\ Counted /\ Named
  BY DEF DispInv
<1>2. ASSUME NEW name \in Name, NEW e \in Key, NEW b,
             \/ Disp!AppendListener(name, e) \/ Disp!PrependListener(name, e)
             \/ Disp!InsertListenerIf(name, e) \/ Disp!InsertListener(name, e, b)
      PROVE  DispInv'
  <2>1. \E i : Disp!AddAt(name, e, i)
    BY <1>2 DEF Disp!AppendListener, Disp!PrependListener, Disp!InsertListenerIf, Disp!InsertListener
  <2> QED BY <2>1, OneIsAdded
<1>3. ASSUME NEW name \in Name, NEW e \in Key, Disp!RemoveNamed(name, {e}) \/ Disp!RemoveNamed(name, Key)
      PROVE  DispInv'
  BY <1>3, NamedAreRemoved
<1>4. ASSUME NEW n, Disp!RemoveListener(n) PROVE DispInv'
  BY <1>4, HandleIsRemoved
<1>5. CASE Disp!ClearListeners
  <2>1. /\ listener_map' = [e \in Key |-> <<>>] /\ sizes' = [e \in Key |-> 0]
        /\ name_map' = {} /\ UNCHANGED born
    BY <1>5 DEF Disp!ClearListeners
  <2>2. <<>> \in Seq(Nat) /\ Len(<<>>) = 0 /\ Elems(<<>>) = {} /\ IsInjective(<<>>)
    BY DEF IsInjective, Elems
  <2>3. \A e \in Key : Listeners(e)' = {}
    BY <2>1, <2>2 DEF Listeners
  <2>4. Everyone' = {}
    BY <2>3 DEF Everyone
  <2>5. DispTypeOK'
    BY <1>1, <2>1, <2>2 DEF DispTypeOK
  <2> QED BY <2>1, <2>2, <2>3, <2>4, <2>5 DEF DispInv, Added, Counted, Named
<1>6. CASE UNCHANGED <<listener_map, sizes, name_map, born>>
  BY <1>6 DEF DispInv, DispTypeOK, Added, Counted, Named, Everyone, Listeners
<1>7. CASE (\E e \in Key : Disp!Dispatch(e)) \/ Disp!Return \/ UNCHANGED Disp!vars
  BY <1>6, <1>7 DEF Disp!Dispatch, Disp!Return, Disp!vars
<1> QED BY <1>2, <1>3, <1>4, <1>5, <1>7 DEF Disp!Next

(* Listeners are added, removed by handle and by name, and cleared, in any *)
(* order and in the middle of a dispatch: a listener is in the list of its *)
(* event just when its name is known for it, once, and the counted sizes   *)
(* are the real ones (provided that what is in use is not removed).        *)
THEOREM MapsStayTrue ==
    ASSUME Careful
    PROVE  ComponentsSpec => []MapsAgree
<1>1. ComponentsInit => DispInv
  BY DispInitInv DEF ComponentsInit
<1>2. ComponentsNext => [Disp!Next]_(Disp!vars)
  BY DEF ComponentsNext, Disp!vars, dispVars
<1>3. UNCHANGED <<queueVars, listVars, dispVars, sendVars, socksVars, remoteVars, part>>
         => UNCHANGED Disp!vars
  BY DEF dispVars, Disp!vars
<1>4. DispInv /\ [ComponentsNext]_<<queueVars, listVars, dispVars, sendVars, socksVars, remoteVars, part>>
         => DispInv'
  BY <1>2, <1>3, DispNextInv
<1> QED BY <1>1, <1>4, DispInvAgrees, PTL DEF ComponentsSpec
=================================================================================
