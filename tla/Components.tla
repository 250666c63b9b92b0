------------------------------ MODULE Components ------------------------------
(***************************************************************************)
(* Model checking the components of the library, each of them on its own:  *)
(* a behaviour is of one part, the others stay in their initial state.     *)
(***************************************************************************)
EXTENDS EventQueue

CONSTANTS Walker, Modulus,                \* the list of listeners
          Key, Name,                      \* the event dispatcher
          MaxNode, Careful,               \* both of them
          Sender, Addr, Reuse,            \* the paths of a send
          Call_, SameId, SyncCall, KeyMoved,   \* remote calls
          MaxLife,                        \* both of them
          Method, Offer, Length, Octet    \* the negotiation with a proxy

ASSUME ListAssumption == MaxNode \in Nat /\ Modulus \in Nat \ {0, 1}

(* Method octets, and how many are offered; a name is no longer than an octet tells, as the code     *)
(* asserts of the host.                                                    *)
ASSUME SocksAssumption ==
    /\ Method \subseteq Nat /\ Offer \subseteq Nat
    /\ Octet \in Nat /\ Length \subseteq 0 .. Octet - 1

VARIABLES part,
          head, tail, size, current, node, adding, dispatch,
          listener_map, sizes, name_map, born, call,
          op, s_inbox, s_queue, writing, up, down, s_life, life_id, pool,
          option, to_proxy, from_proxy, step, len, addr, result, open, proxy,
          life, r_started, hasEcs, stage, reqs, timer, queue, r_born, answers, waiter,
          written, dangling

List == INSTANCE CallbackList WITH Dispatch <- Walker
Disp == INSTANCE EventDispatcher WITH Event <- Key, dispatch <- call
Send == INSTANCE SendPath WITH Thread <- Sender, inbox <- s_inbox, queue <- s_queue, life <- s_life
Socks == INSTANCE Socks5 WITH
            Methods <- UNION {[1 .. n -> Method] : n \in Offer}, Names <- Length,
            up <- to_proxy, down <- from_proxy, op <- step
Remote == INSTANCE Rdc WITH started <- r_started, born <- r_born

queueVars  == vars
listVars   == <<head, tail, size, current, node, adding, dispatch>>
dispVars   == <<listener_map, sizes, name_map, born, call>>
sendVars   == <<op, s_inbox, s_queue, writing, up, down, s_life, life_id, pool>>
socksVars  == <<option, to_proxy, from_proxy, step, len, addr, result, open, proxy>>
remoteVars == <<life, r_started, hasEcs, stage, reqs, timer, queue, r_born, answers, waiter,
                written, dangling>>

ComponentsInit ==
    /\ Init /\ List!Init /\ Disp!Init /\ Send!Init /\ Socks!Init /\ Remote!Init
    /\ part \in {"queue", "list", "dispatcher", "send", "socks5", "rdc"}
    /\ part = "list" \/ current = 0          \* one initial state is enough for the others
    /\ part = "send" \/ life_id = CHOOSE a \in Addr : TRUE
    /\ part = "socks5" \/ option = CHOOSE o \in Socks!Options : TRUE

ComponentsNext ==
    /\ UNCHANGED part
    /\ \/ /\ part = "queue" /\ Next
          /\ UNCHANGED <<listVars, dispVars, sendVars, socksVars, remoteVars>>
       \/ /\ part = "list" /\ List!Next
          /\ UNCHANGED <<queueVars, dispVars, sendVars, socksVars, remoteVars>>
       \/ /\ part = "dispatcher" /\ Disp!Next
          /\ UNCHANGED <<queueVars, listVars, sendVars, socksVars, remoteVars>>
       \/ /\ part = "send" /\ Send!Next
          /\ UNCHANGED <<queueVars, listVars, dispVars, socksVars, remoteVars>>
       \/ /\ part = "socks5" /\ Socks!Next
          /\ UNCHANGED <<queueVars, listVars, dispVars, sendVars, remoteVars>>
       \/ /\ part = "rdc" /\ Remote!Next
          /\ UNCHANGED <<queueVars, listVars, dispVars, sendVars, socksVars>>

ComponentsSpec ==
    /\ ComponentsInit
    /\ [][ComponentsNext]_<<queueVars, listVars, dispVars, sendVars, socksVars, remoteVars, part>>
    /\ Fairness

-----------------------------------------------------------------------------
(* The list of listeners is whole; a dispatch that listeners come to and   *)
(* leave from misses nobody, calls no newcomer, and keeps to the order.    *)
DispatchIsRight ==
    /\ List!ListIntact /\ List!NobodyIsMissed
    /\ List!NoNewcomer /\ List!CalledInOrder

(* A listener is in the list of its event just when it is in the list of   *)
(* its name.                                                               *)
MapsAgree == Disp!MapsAgree

(* A send goes out in the life it was submitted in or not at all, and who  *)
(* waits for its result is told it, once.                                  *)
SendsAreTold ==
    /\ Send!SentInItsLife
    /\ Send!ToldOnce /\ Send!NotForgotten /\ Send!NotStranded

(* The negotiation with a SOCKS5 proxy ends with one call of the handler,  *)
(* with a tunnel to the host that was meant if it says so, and with not an *)
(* octet too many or too few read from it.                                 *)
TunnelIsReal ==
    Socks!HandlerOnce /\ Socks!TunnelExists /\ Socks!FramingKept

(* A remote call is sent in the life it was made in, and answered once, by *)
(* its reply, its timer, its send or the stop.                             *)
CallsAreAnswered ==
    Remote!SentInItsLife /\ Remote!AnsweredOnce /\ Remote!NeverForgotten

(* Nothing waits for what does not come: every event begins in the end,    *)
(* and client and proxy never both wait for octets from the other.         *)
WaitsEnd ==
    /\ EveryEventRuns
    /\ [](part = "socks5" => Socks!NobodyWaits)
=============================================================================
