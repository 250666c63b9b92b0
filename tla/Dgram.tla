--------------------------------- MODULE Dgram ---------------------------------
(***************************************************************************)
(* Messages over a TCP stream with use_dgram: _tcp_send_dgram() puts a     *)
(* header in front of each, dgram_match_role() finds the end of a frame in *)
(* the linear buffer into which asio::async_read_until() reads whatever    *)
(* piece of the stream has arrived, and _tcp_dgram_fire_recv() hands on    *)
(* what is behind the header.                                              *)
(***************************************************************************)
EXTENDS Naturals, Sequences

CONSTANTS
    Short,          \* a payload below this has a header of one octet (254)
    Field,          \* digits of the length behind the octet Short (2)
    Field8,         \* ... and behind the octet Short + 1 (8)
    Payloads,       \* what is sent: octets
    Illegal,        \* what a faulty peer sends instead
    MaxSent,        \* bound: messages
    MinSize, ReadMin,       \* min_size of a buffer, asio's smallest read (512 both)
    MaxBuffer,      \* max_size() of the buffer
    Nothing         \* an octet of memory nobody wrote

Base == Short + 2
Octet == 0 .. Base - 1

(* Base to the n. *)
Power[n \in Nat] == IF n = 0 THEN 1 ELSE Base * Power[n - 1]
UintMax == Power[Field] - 1         \* numeric_limits<uint16_t>::max()

ASSUME SizeAssumption ==
    /\ Short \in Nat /\ Field \in Nat /\ Field8 \in Nat
    /\ MinSize \in Nat /\ ReadMin \in Nat /\ MaxBuffer \in Nat /\ MaxSent \in Nat

(* A size_t has the digits of the longest header. *)
ASSUME PayloadAssumption ==
    \A p \in Payloads : p \in Seq(Octet) /\ Len(p) < Power[Field8]

VARIABLES
    sent, fired,    \* the messages sent, and those given to on_recv
    stream,         \* octets on their way
    mem, rpos, wpos, cap,   \* the linear buffer: the vector, its positions, its capacity
    peer, conn      \* "up", "faulty" or "failed"; "up" or why it was disconnected

vars == <<sent, fired, stream, mem, rpos, wpos, cap, peer, conn>>

\* Little endian, n digits, and the number that has them.
Digits(v, n) == [i \in 1..n |-> (v \div Power[i - 1]) % Base]
ValueOf(s) == CHOOSE v \in 0 .. Power[Len(s)] - 1 : Digits(v, Len(s)) = s

(***************************************************************************)
(* Sending.                                                                *)
(***************************************************************************)
HeadOf_LongFull(size) ==               (* Mutant: < for <= at the largest length of two octets. *)
    CASE size < Short -> <<size>>
      [] size >= Short /\ size < UintMax -> <<Short>> \o Digits(size, Field)
      [] OTHER -> <<Short + 1>> \o Digits(size, Field8)

HeadOf(size) ==
    CASE size < Short -> <<size>>
      [] size >= Short /\ size <= UintMax -> <<Short>> \o Digits(size, Field)
      [] OTHER -> <<Short + 1>> \o Digits(size, Field8)

Frame(payload) == HeadOf(Len(payload)) \o payload

Send ==
    /\ peer = "up" /\ conn = "up"
    /\ Len(sent) < MaxSent
    /\ \E p \in Payloads :
          /\ sent' = Append(sent, p)
          /\ stream' = stream \o Frame(p)
    /\ UNCHANGED <<fired, mem, rpos, wpos, cap, peer, conn>>

\* The write fails halfway: no frame may follow, or it would be taken for the rest.
SendFails ==
    /\ peer = "up" /\ conn = "up"
    /\ Len(sent) < MaxSent
    /\ \E p \in Payloads : \E n \in 0..(Len(Frame(p)) - 1) :
          stream' = stream \o SubSeq(Frame(p), 1, n)
    /\ peer' = "failed"
    /\ UNCHANGED <<sent, fired, mem, rpos, wpos, cap, conn>>

SendIllegal ==
    /\ peer = "up" /\ conn = "up"
    /\ \E s \in Illegal : stream' = stream \o s
    /\ peer' = "faulty"
    /\ UNCHANGED <<sent, fired, mem, rpos, wpos, cap, conn>>

(***************************************************************************)
(* The buffer: prepare() makes room behind the input, commit() moves what  *)
(* was read there into it, consume() drops it from the front.              *)
(***************************************************************************)
Smallest(a, b) == IF a < b THEN a ELSE b
Largest(a, b) == IF a < b THEN b ELSE a

Resized(s, n) == [i \in 1..n |-> IF i <= Len(s) THEN s[i] ELSE Nothing]
Data == SubSeq(mem, rpos + 1, wpos)
Size == wpos - rpos

prepare_NotMoved(n) ==               (* Mutant: the positions are moved, the data is not. *)
    CASE n <= cap - wpos ->
            [mem |-> Resized(mem, wpos + n), rpos |-> rpos, wpos |-> wpos, cap |-> cap]
      [] n > cap - wpos /\ n <= cap - Size ->
            [mem |-> Resized(mem, Size + n), rpos |-> 0, wpos |-> Size, cap |-> cap]
      [] OTHER ->
            [mem |-> Resized(mem, wpos + n), rpos |-> rpos, wpos |-> wpos, cap |-> wpos + n]

prepare(n) ==
    LET new_size == Largest(Smallest(MaxBuffer, Largest(2 * cap, wpos + n)), MinSize)
    IN  CASE n <= cap - wpos ->
                [mem |-> Resized(mem, wpos + n), rpos |-> rpos, wpos |-> wpos, cap |-> cap]
          [] n > cap - wpos /\ n <= cap - Size ->
                [mem |-> Resized(Data, Size + n), rpos |-> 0, wpos |-> Size, cap |-> cap]
          [] OTHER ->
                [mem |-> Resized(mem, wpos + n), rpos |-> rpos, wpos |-> wpos,
                 cap |-> Largest(new_size, wpos + n)]

consume(n) ==
    IF n >= Size THEN wpos' = 0 /\ rpos' = 0 /\ mem' = <<>>
                 ELSE rpos' = rpos + n /\ UNCHANGED <<wpos, mem>>

(***************************************************************************)
(* dgram_match_role(): how many octets the first frame has, 0 when it is   *)
(* illegal, or Partial.                                                    *)
(***************************************************************************)
Partial == MaxBuffer + 1             \* more than the buffer can hold

Matched_OneMore(s) ==                (* Mutant: a long frame must not end where the data does. *)
    LET long(n, least) ==
            LET size == ValueOf(SubSeq(s, 2, n + 1))
            IN  CASE Len(s) - 1 < n -> Partial
                  [] Len(s) - 1 >= n /\ size < least -> 0
                  [] OTHER -> IF Len(s) - 1 - n <= size THEN Partial ELSE 1 + n + size
    IN  CASE s = <<>> -> Partial
          [] s # <<>> /\ s[1] < Short -> IF Len(s) - 1 < s[1] THEN Partial ELSE 1 + s[1]
          [] s # <<>> /\ s[1] = Short -> long(Field, Short)
          [] s # <<>> /\ s[1] > Short -> long(Field8, UintMax + 1)

Matched(s) ==
    LET long(n, least) ==
            LET size == ValueOf(SubSeq(s, 2, n + 1))
            IN  CASE Len(s) - 1 < n -> Partial
                  [] Len(s) - 1 >= n /\ size < least -> 0
                  [] OTHER -> IF Len(s) - 1 - n < size THEN Partial ELSE 1 + n + size
    IN  CASE s = <<>> -> Partial
          [] s # <<>> /\ s[1] < Short -> IF Len(s) - 1 < s[1] THEN Partial ELSE 1 + s[1]
          [] s # <<>> /\ s[1] = Short -> long(Field, Short)
          [] s # <<>> /\ s[1] > Short -> long(Field8, UintMax + 1)

\* _tcp_dgram_fire_recv(): the message without its header.
Message(s, n) ==
    SubSeq(s, CASE s[1] < Short -> 2 [] s[1] = Short -> 2 + Field [] OTHER -> 2 + Field8, n)

-----------------------------------------------------------------------------
Init ==
    /\ sent = <<>> /\ fired = <<>> /\ stream = <<>>
    /\ mem = <<>> /\ rpos = 0 /\ wpos = 0 /\ cap = 0
    /\ peer = "up" /\ conn = "up"

(* asio::async_read_until() when no frame is complete: it reads a piece of *)
(* what has arrived, unless the buffer is full.                            *)
Read ==
    /\ conn = "up"
    /\ Matched(Data) = Partial
    /\ Size < MaxBuffer
    /\ stream # <<>>
    /\ LET room == Smallest(Largest(ReadMin, cap - Size), MaxBuffer - Size)
           b == prepare(room)
       IN  \E n \in 1..Smallest(room, Len(stream)) :
              /\ mem' = [i \in 1..(b.wpos + n) |->
                            IF i <= b.wpos THEN b.mem[i] ELSE stream[i - b.wpos]]
              /\ wpos' = b.wpos + n
              /\ rpos' = b.rpos
              /\ cap' = b.cap
              /\ stream' = SubSeq(stream, n + 1, Len(stream))
    /\ UNCHANGED <<sent, fired, peer, conn>>

(* _tcp_handle_recv() without an error.                                    *)
Fire ==
    /\ conn = "up"
    /\ LET n == Matched(Data)
       IN  /\ n # Partial
           /\ IF n = 0
              THEN /\ conn' = "no_data"
                   /\ UNCHANGED <<fired, mem, rpos, wpos>>
              ELSE /\ fired' = Append(fired, Message(Data, n))
                   /\ consume(n)
                   /\ UNCHANGED conn
    /\ UNCHANGED <<sent, stream, cap, peer>>

(* ... and with one: the buffer is full without a frame, or the peer left. *)
ReadFails ==
    /\ conn = "up"
    /\ Matched(Data) = Partial
    /\ conn' = CASE Size >= MaxBuffer -> "not_found"
                 [] Size < MaxBuffer /\ stream = <<>> /\ peer # "up" -> "eof"
                 [] OTHER -> "up"
    /\ conn' # "up"
    /\ UNCHANGED <<sent, fired, stream, mem, rpos, wpos, cap, peer>>

Next == Send \/ SendFails \/ SendIllegal \/ Read \/ Fire \/ ReadFails

Spec == Init /\ [][Next]_vars

-----------------------------------------------------------------------------
(* on_recv sees the messages that were sent, whole, in order and nothing   *)
(* else, however the stream is cut; a frame that was cut off is not seen.  *)
FramesAreMessages ==
    peer # "faulty" => Len(fired) <= Len(sent) /\ fired = SubSeq(sent, 1, Len(fired))

(* Once all octets have arrived, and nobody has anything to do, every      *)
(* message has been seen: none waits for the next one to push it out.      *)
NothingStuck ==
    (conn = "up" /\ peer = "up" /\ stream = <<>> /\ Matched(Data) = Partial) => fired = sent

(* A peer is disconnected only for an illegal header, for a frame larger   *)
(* than the buffer, or because it left.                                    *)
LegalStaysUp ==
    /\ conn = "no_data" => peer = "faulty"
    /\ conn = "not_found" => peer = "faulty" \/ Len(fired) = Len(sent)
                               \/ Len(Frame(sent[Len(fired) + 1])) > MaxBuffer

(* Messages with their length in front arrive whole, in order, none waits  *)
(* for the next, and a peer that keeps to the format is not disconnected.  *)
StreamIsFramed == FramesAreMessages /\ NothingStuck /\ LegalStaysUp
=============================================================================
