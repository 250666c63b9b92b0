------------------------------- MODULE AesModes -------------------------------
(***************************************************************************)
(* The modes of util/aes.hpp: two objects with the same key, one of them   *)
(* enciphering and the other deciphering.  Each keeps its own Iv_, which   *)
(* goes on from call to call; what is between them may lose a message.     *)
(* The block cipher is Aes.tla's, here any permutation of the blocks.      *)
(***************************************************************************)
EXTENDS Naturals, SequencesExt

CONSTANTS
    BlockLen,       \* AES_BLOCKLEN
    Top,            \* the largest octet
    Cipher,         \* a permutation of the blocks
    Xor,            \* of two octets
    Messages,       \* what is sent: octets
    MaxSent         \* bound: messages

Octet == 0..Top
Blocks == [1..BlockLen -> Octet]

VARIABLES
    mode,           \* mode_ of both objects
    Iv,             \* Iv_ of either
    wire,           \* enciphered, not yet arrived
    sent, lost,     \* how many were sent; whether the one before was lost, or any
    used,           \* the counters enciphered by the sender
    last            \* the message deciphered last, in a sequence of one

vars == <<mode, Iv, wire, sent, lost, used, last>>

InvCipher(b) == CHOOSE c \in Blocks : Cipher[c] = b
XorWithIv(b, iv) == [i \in 1..BlockLen |-> Xor[b[i], iv[i]]]

(* The counter, with its carry.                                            *)
Increment_NoCarry(iv) ==             (* Mutant: an octet that overflows is the last one changed. *)
    [iv EXCEPT ![BlockLen] = (@ + 1) % (Top + 1)]

Increment(iv) ==
    LET free == {i \in 1..BlockLen : iv[i] # Top}
        last_free == Max({0} \cup free)
    IN  [i \in 1..BlockLen |-> CASE i < last_free -> iv[i]
                                 [] i = last_free -> iv[i] + 1
                                 [] i > last_free -> 0]

(* msg.resize() to whole blocks, and the zeros stripped after deciphering. *)
BlocksOf(msg) ==
    [k \in 1..((Len(msg) + BlockLen - 1) \div BlockLen) |->
        [i \in 1..BlockLen |-> LET n == (k - 1) * BlockLen + i
                               IN  IF n <= Len(msg) THEN msg[n] ELSE 0]]
Stripped(s) == SubSeq(s, 1, Max({0} \cup {i \in DOMAIN s : s[i] # 0}))
Text(blocks) == Stripped(FlattenSeq(blocks))

(***************************************************************************)
(* One block in each mode and direction: what becomes of it, and Iv_.      *)
(***************************************************************************)
EncryptBlock_KeepsIv(m, iv, b) ==    (* Mutant: "store Iv in ctx for next call" is forgotten. *)
    CASE m = "ecb" -> [out |-> Cipher[b], iv |-> iv]
      [] m = "cbc" -> [out |-> Cipher[XorWithIv(b, iv)], iv |-> iv]
      [] m = "ctr" -> [out |-> XorWithIv(b, Cipher[iv]), iv |-> Increment(iv)]

EncryptBlock(m, iv, b) ==
    CASE m = "ecb" -> [out |-> Cipher[b], iv |-> iv]
      [] m = "cbc" -> LET c == Cipher[XorWithIv(b, iv)] IN [out |-> c, iv |-> c]
      [] m = "ctr" -> [out |-> XorWithIv(b, Cipher[iv]), iv |-> Increment(iv)]

DecryptBlock_PlainIv(m, iv, b) ==    (* Mutant: the next Iv is read after the block was deciphered. *)
    CASE m = "ecb" -> [out |-> InvCipher(b), iv |-> iv]
      [] m = "cbc" -> LET p == XorWithIv(InvCipher(b), iv) IN [out |-> p, iv |-> p]
      [] m = "ctr" -> EncryptBlock(m, iv, b)

DecryptBlock(m, iv, b) ==
    CASE m = "ecb" -> [out |-> InvCipher(b), iv |-> iv]
      [] m = "cbc" -> [out |-> XorWithIv(InvCipher(b), iv), iv |-> b]
      [] m = "ctr" -> EncryptBlock(m, iv, b)

(* A message goes through block by block, in the direction `way`.          *)
Through(way, m, iv, blocks) ==
    FoldLeft(LAMBDA r, b : LET o == IF way = "encrypt" THEN EncryptBlock(m, r.iv, b)
                                                       ELSE DecryptBlock(m, r.iv, b)
                           IN  [out |-> Append(r.out, o.out), iv |-> o.iv],
             [out |-> <<>>, iv |-> iv], blocks)

-----------------------------------------------------------------------------
Init ==
    /\ mode \in {"ecb", "cbc", "ctr"}
    /\ \E iv \in {[i \in 1..BlockLen |-> 0], [i \in 1..BlockLen |-> Top]} :
          Iv = [sender |-> iv, receiver |-> iv]
    /\ wire = <<>>
    /\ sent = 0
    /\ lost = [before |-> FALSE, any |-> FALSE]
    /\ used = <<>>
    /\ last = <<>>

(* aes::encrypt(); an empty message is answered with nothing.              *)
Encrypt ==
    /\ sent < MaxSent
    /\ \E msg \in Messages \ {<<>>} :
          LET r == Through("encrypt", mode, Iv.sender, BlocksOf(msg))
          IN  /\ wire' = Append(wire, [plain |-> msg, cipher |-> r.out])
              /\ Iv' = [Iv EXCEPT !.sender = r.iv]
              /\ used' = IF mode = "ctr"
                         THEN used \o [i \in 1..Len(r.out) |->
                                  FoldLeft(LAMBDA iv, k : Increment(iv), Iv.sender,
                                           [k \in 1..(i - 1) |-> k])]
                         ELSE used
    /\ sent' = sent + 1
    /\ UNCHANGED <<mode, lost, last>>

(* aes::decrypt().                                                         *)
Decrypt ==
    /\ wire # <<>>
    /\ LET r == Through("decrypt", mode, Iv.receiver, Head(wire).cipher)
       IN  /\ Iv' = [Iv EXCEPT !.receiver = r.iv]
           /\ last' = <<[plain |-> Head(wire).plain, blocks |-> r.out, lost |-> lost]>>
    /\ wire' = Tail(wire)
    /\ lost' = [lost EXCEPT !.before = FALSE]
    /\ UNCHANGED <<mode, sent, used>>

Lose ==
    /\ wire # <<>>
    /\ wire' = Tail(wire)
    /\ lost' = [before |-> TRUE, any |-> TRUE]
    /\ UNCHANGED <<mode, Iv, sent, used, last>>

Next == Encrypt \/ Decrypt \/ Lose

Spec == Init /\ [][Next]_vars

-----------------------------------------------------------------------------
(* Two objects that saw the same messages read each other, however long    *)
(* the conversation.                                                       *)
InStepReads == \A d \in Range(last) : ~ d.lost.any => Text(d.blocks) = d.plain

(* A lost message costs ecb nothing and cbc the first block of the next    *)
(* one; the rest of it, and all that follows, is read.                     *)
LossIsLocal ==
    \A d \in Range(last) :
        /\ mode = "ecb" \/ (mode = "cbc" /\ ~ d.lost.before) => Text(d.blocks) = d.plain
        /\ mode = "cbc" => Text(Tail(d.blocks)) = Text(Tail(BlocksOf(d.plain)))

(* No counter is used for two blocks before all of them were.              *)
CountersDiffer ==
    Len(used) <= (Top + 1)^BlockLen => IsInjective(used)
=============================================================================
