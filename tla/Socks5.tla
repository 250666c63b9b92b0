------------------------------- MODULE Socks5 -------------------------------
(***************************************************************************)
(* socks5_client.hpp: the coroutine by which a client asks a SOCKS5 proxy  *)
(* to connect it to its server, against a proxy that speaks the protocol   *)
(* (external) but decides freely: which offered method it wants, whether   *)
(* the password is right, which reply it gives, with which address type.   *)
(* The connect timeout, or a stop, may close the socket between any two    *)
(* steps: the operation under way, or the next one, then fails.            *)
(*                                                                         *)
(* The two directions of the connection are sequences of octets.  Octets   *)
(* that carry a name or an address are "x"; those that the protocol reads  *)
(* keep their value.  What the proxy relays from the target after its      *)
(* reply is "data": the coroutine must leave it for the session's reads.   *)
(***************************************************************************)
LOCAL INSTANCE Integers
LOCAL INSTANCE SequencesExt

CONSTANTS
    Methods,       \* the method lists an option<...> may be declared with
    Names,         \* the lengths of user name, password and host name tried
    Octet          \* one more than the greatest value of a length octet

Anonymous == 0  Gssapi == 1  Password == 2  NoAcceptable == 255
IPv4 == 1  Domain == 3  IPv6 == 4

VARIABLES
    option,        \* the socks5 option: methods, user, password; host_ of the target
    up, down,      \* octets on their way to the proxy and to the client
    op,            \* where the coroutine waits: its step, and whether the operation has ended
    len,           \* bytes: the size of the last read
    addr,          \* addr_type and addr_size of the reply
    result,        \* the error codes handler_ was called with
    open,          \* the socket is open
    proxy          \* the proxy: its stage, the method it chose, what it understood

vars == <<option, up, down, op, len, addr, result, open, proxy>>

-----------------------------------------------------------------------------
(* Octets *)

Text(n) == [i \in 1 .. n |-> "x"]
LengthOctet(n) == <<n % Octet>>

Greeting == <<5, Len(option.methods)>> \o option.methods
Credentials == <<1>> \o LengthOctet(option.user) \o Text(option.user)
                    \o LengthOctet(option.password) \o Text(option.password)
(* make_address decides the type: an address literal or else a name. *)
Request ==
    <<5, 1, 0, option.kind>>
      \o (CASE option.kind = Domain -> LengthOctet(option.host) \o Text(option.host)
            [] option.kind = IPv4   -> Text(4)
            [] option.kind = IPv6   -> Text(16))
      \o Text(2)

-----------------------------------------------------------------------------
(* option<method...>: the methods are its template arguments, and only one *)
(* of them, password, brings a user name and a password with it.           *)
Options ==
    { o \in [methods : Methods, user : Names, password : Names,
             host : Names \ {0}, kind : {IPv4, Domain, IPv6}] :
        /\ o.kind # Domain => o.host = 1
        /\ (\A i \in DOMAIN o.methods : o.methods[i] # Password) => o.user = 0 /\ o.password = 0 }

Init ==
    /\ option \in Options
    /\ up = Greeting /\ down = <<>>
    /\ op = [step |-> "greeting", ended |-> TRUE]
    /\ len = 0 /\ addr = [type |-> 0, size |-> 0]
    /\ result = <<>>
    /\ open = TRUE
    /\ proxy = [stage |-> "greeting", method |-> NoAcceptable, trusts |-> FALSE,
                host |-> 0, kind |-> 0, granted |-> FALSE]

(* An operation of n octets ends when they are there, or fails when the    *)
(* socket is closed by this side or by the proxy before that.              *)
ReadEnds ==
    /\ ~op.ended /\ open /\ Len(down) >= len
    /\ op' = [op EXCEPT !.ended = TRUE]
    /\ UNCHANGED <<option, up, down, len, addr, result, open, proxy>>

Read(step, n) == op' = [step |-> step, ended |-> FALSE] /\ len' = n
WriteThen(step, octets) ==
    /\ up' = (IF open THEN up \o octets ELSE up)
    /\ op' = [step |-> step, ended |-> TRUE] /\ len' = 0
Finish(ec) ==
    /\ result' = Append(result, ec)
    /\ op' = [step |-> "end", ended |-> FALSE] /\ len' = 0

(* Mutant: the coroutine goes on after an error. *)
Fails_GoesOn ==
    /\ ~open /\ op.step # "end"
    /\ result' = Append(result, "io_error")
    /\ op' = op /\ len' = len
    /\ UNCHANGED <<option, up, down, addr, open, proxy>>
(* "if (ec) goto end" after each write and each read. *)
Fails ==
    /\ ~open /\ op.step # "end"
    /\ \/ ~op.ended
       \/ op.ended /\ op.step \in {"greeting", "credentials", "request"}
    /\ Finish("io_error")
    /\ UNCHANGED <<option, up, down, addr, open, proxy>>

(* A write has been handed over: read the answer, two octets or five. *)
Written ==
    /\ open /\ op.ended /\ op.step \in {"greeting", "credentials", "request"}
    /\ \/ op.step = "greeting" /\ Read("method", 2)
       \/ op.step = "credentials" /\ Read("status", 2)
       \/ op.step = "request" /\ Read("reply", 5)
    /\ UNCHANGED <<option, up, down, addr, result, open, proxy>>

TakeOctets == down' = SubSeq(down, len + 1, Len(down))

(* Mutant: the password is not sent when the proxy asks for it. *)
HandleMethod_NoPassword ==
    /\ op.ended /\ op.step = "method" /\ TakeOctets
    /\ IF down[2] \in {Anonymous, Password} THEN WriteThen("request", Request) /\ UNCHANGED result
       ELSE Finish("no_acceptable_methods") /\ UNCHANGED up
    /\ UNCHANGED <<option, addr, open, proxy>>
(* The method the proxy selected; it is not compared with those offered. *)
HandleMethod ==
    /\ op.ended /\ op.step = "method" /\ TakeOctets
    /\ \/ /\ down[1] = 5 /\ down[2] = Anonymous
          /\ WriteThen("request", Request) /\ UNCHANGED result
       \/ /\ down[1] = 5 /\ down[2] = Password /\ option.user + option.password > 0
          /\ WriteThen("credentials", Credentials) /\ UNCHANGED result
       \/ /\ down[1] = 5 /\ down[2] = Password /\ option.user + option.password = 0
          /\ Finish("username_required") /\ UNCHANGED up
       \/ /\ down[1] = 5 /\ down[2] \notin {Anonymous, Password}
          /\ Finish(IF down[2] = Gssapi THEN "unsupported_method" ELSE "no_acceptable_methods")
          /\ UNCHANGED up
       \/ down[1] # 5 /\ Finish("unsupported_version") /\ UNCHANGED up
    /\ UNCHANGED <<option, addr, open, proxy>>

HandleStatus ==
    /\ op.ended /\ op.step = "status" /\ TakeOctets
    /\ \/ down[1] = 1 /\ down[2] = 0 /\ WriteThen("request", Request) /\ UNCHANGED result
       \/ /\ down[1] # 1 \/ down[2] # 0
          /\ Finish(IF down[1] # 1 THEN "unsupported_authentication_version"
                    ELSE "authentication_failed")
          /\ UNCHANGED up
    /\ UNCHANGED <<option, addr, open, proxy>>

(* Mutant: a reply's failure is not looked at. *)
HandleReply_AnyRep ==
    /\ op.ended /\ op.step = "reply" /\ TakeOctets
    /\ addr' = [type |-> down[4], size |-> down[5]]
    /\ Read("address", CASE down[4] = IPv4 -> 5 [] down[4] = IPv6 -> 17 [] OTHER -> down[5] + 2)
    /\ UNCHANGED <<option, up, result, open, proxy>>
(* Mutant: a name is read as if its first octet had been taken, like an address. *)
HandleReply_ShortName ==
    /\ op.ended /\ op.step = "reply" /\ TakeOctets
    /\ \/ /\ down[1] = 5 /\ down[2] = 0
          /\ addr' = [type |-> down[4], size |-> down[5]]
          /\ Read("address", CASE down[4] = IPv4 -> 5 [] down[4] = IPv6 -> 17 [] OTHER -> down[5] + 1)
          /\ UNCHANGED result
       \/ down[2] # 0 /\ Finish("refused") /\ UNCHANGED addr
    /\ UNCHANGED <<option, up, open, proxy>>
(* VER, REP, RSV, ATYP and one octet more: the length of a name, or the    *)
(* first octet of an address.  It decides how many octets are left.        *)
HandleReply ==
    /\ op.ended /\ op.step = "reply" /\ TakeOctets
    /\ \/ /\ down[1] = 5 /\ down[2] = 0 /\ down[4] \in {IPv4, Domain, IPv6}
          /\ addr' = [type |-> down[4], size |-> down[5]]
          /\ Read("address", CASE down[4] = IPv4   -> 4 + 2 - 1
                               [] down[4] = Domain -> down[5] + 2
                               [] down[4] = IPv6   -> 16 + 2 - 1)
          /\ UNCHANGED result
       \/ /\ down[1] # 5 \/ down[2] # 0 \/ down[4] \notin {IPv4, Domain, IPv6}
          /\ Finish(IF down[1] # 5 THEN "unsupported_version"
                    ELSE IF down[2] # 0 THEN "refused" ELSE "general_failure")
          /\ UNCHANGED addr
    /\ UNCHANGED <<option, up, open, proxy>>

HandleAddress ==
    /\ op.ended /\ op.step = "address" /\ TakeOctets
    /\ Finish("success")
    /\ UNCHANGED <<option, up, addr, open, proxy>>

(* _handle_connect_timeout, or a stop: the socket is closed. *)
CloseSocket ==
    /\ open /\ op.step # "end"
    /\ open' = FALSE
    /\ UNCHANGED <<option, up, down, op, len, addr, result, proxy>>

-----------------------------------------------------------------------------
(* The proxy (external): RFC 1928 and 1929, as the comments quote them.    *)
(* It takes a whole message from `up` when it is there, and answers.  A    *)
(* refusal closes the connection, which ends the client's reads.           *)

Has(n) == Len(up) >= n
TakeUp(n) == up' = SubSeq(up, n + 1, Len(up))

(* Without a method it accepts the proxy answers X'FF'.  *)
ProxyMethod ==
    /\ proxy.stage = "greeting" /\ open /\ Has(2) /\ Has(2 + up[2])
    /\ \E m \in { up[2 + i] : i \in 1 .. up[2] } \cup {NoAcceptable} :
          /\ proxy' = [proxy EXCEPT !.method = m,
                         !.stage = CASE m = Password -> "credentials"
                                     [] m = Anonymous -> "request"
                                     [] OTHER -> "gone"]
          /\ down' = down \o <<5, m>>
    /\ TakeUp(2 + up[2])
    /\ UNCHANGED <<option, op, len, addr, result, open>>

ProxyStatus ==
    /\ proxy.stage = "credentials" /\ open /\ Has(2) /\ Has(3 + up[2])
    /\ LET plen == up[3 + up[2]] IN
         /\ Has(3 + up[2] + plen)
         /\ \E good \in BOOLEAN :
              /\ down' = down \o <<1, IF good THEN 0 ELSE 1>>
              /\ proxy' = [proxy EXCEPT !.stage = IF good THEN "request" ELSE "gone",
                             !.trusts = good /\ up[2] = option.user /\ plen = option.password]
         /\ TakeUp(3 + up[2] + plen)
    /\ UNCHANGED <<option, op, len, addr, result, open>>

AddressOctets(atyp) ==
    CASE atyp = IPv4 -> {Text(4)} [] atyp = IPv6 -> {Text(16)}
      [] atyp = Domain -> { <<n>> \o Text(n) : n \in Names }

ProxyReply ==
    /\ proxy.stage = "request" /\ open /\ Has(5)
    /\ LET size == CASE up[4] = IPv4 -> 4 [] up[4] = IPv6 -> 16 [] OTHER -> up[5] + 1
       IN /\ Has(4 + size + 2)
          /\ TakeUp(4 + size + 2)
          /\ \E rep \in {0, 5}, atyp \in {IPv4, Domain, IPv6}, early \in {<<>>, <<"data">>} :
               \E octets \in AddressOctets(atyp) :
                 /\ down' = down \o <<5, rep, 0, atyp>> \o octets \o Text(2)
                                 \o (IF rep = 0 THEN early ELSE <<>>)
                 /\ proxy' = [proxy EXCEPT !.stage = IF rep = 0 THEN "relay" ELSE "gone",
                                !.granted = rep = 0, !.kind = up[4],
                                !.host = IF up[4] = Domain THEN up[5] ELSE 1]
    /\ UNCHANGED <<option, op, len, addr, result, open>>

Coroutine == ReadEnds \/ Fails \/ Written \/ HandleMethod \/ HandleStatus
               \/ HandleReply \/ HandleAddress
Proxy == ProxyMethod \/ ProxyStatus \/ ProxyReply
Next == Coroutine \/ Proxy \/ CloseSocket

Spec == Init /\ [][Next]_vars

-----------------------------------------------------------------------------
TypeOK ==
    /\ op.step \in {"greeting", "method", "credentials", "status", "request",
                    "reply", "address", "end"}
    /\ op.ended \in BOOLEAN /\ open \in BOOLEAN
    /\ len \in Nat
    /\ proxy.stage \in {"greeting", "credentials", "request", "relay", "gone"}

(* handler_ is called once, and only then is nothing outstanding: a chain  *)
(* called twice would give the connect event's guard back twice, a chain   *)
(* never called would hold the event queue for ever.                       *)
HandlerOnce == Len(result) = (IF op.step = "end" THEN 1 ELSE 0)

(* A tunnel reported to the client exists: the proxy has granted it, has   *)
(* authenticated the user if it asked to, and has understood the host the  *)
(* client meant and not a prefix of it.                                    *)
TunnelExists ==
    result = <<"success">> =>
      /\ proxy.granted
      /\ proxy.method = Password => proxy.trusts
      /\ proxy.kind = option.kind /\ proxy.host = option.host

(* The coroutine takes its replies from the stream octet for octet: when   *)
(* it succeeds, what is left is what the target sent, whole; a reply read  *)
(* too long would swallow it, one read too short would prefix it.          *)
FramingKept ==
    result = <<"success">> => down \in {<<>>, <<"data">>}

(* Nobody waits for octets that are not to come: until the handler has     *)
(* been called the coroutine or the proxy can move, without the timeout.   *)
NobodyWaits ==
    op.step # "end" => ENABLED (Coroutine \/ Proxy)
=============================================================================
