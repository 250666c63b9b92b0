-------------------------------- MODULE Digest --------------------------------
(***************************************************************************)
(* How util/md5.hpp and util/sha1.hpp cut a message into blocks.  What the *)
(* rounds do with a block is abstract: the state a, b, c, d, e is the      *)
(* sequence of the blocks hashed so far.  A message is the numbers of its  *)
(* bytes, so that a byte out of place is seen.                             *)
(***************************************************************************)
EXTENDS Naturals, SequencesExt

CONSTANTS Block,          \* bytes of a block (64)
          LengthBytes,    \* bytes of the length at the end of the last block (8)
          LoMax,          \* bytes counted by ctx.lo before it carries into ctx.hi (2^29)
          MaxChunk, MaxMessage      \* bounds

(* The length, of two words at least, leaves room for the marker, and the  *)
(* blocks divide what ctx.lo counts.                                       *)
ASSUME BlockAssumption ==
    /\ Block \in Nat /\ LengthBytes \in 2..(Block - 1)
    /\ LoMax \in Nat \ {0} /\ LoMax % Block = 0
    /\ MaxChunk \in Nat /\ MaxMessage \in Nat

VARIABLES ctx,        \* MD5_CTX: [lo, hi, buffer, hashed]
          message,    \* the bytes given so far
          digest      \* what get_digest() returned, or NoDigest

digVars == <<ctx, message, digest>>

NoDigest == <<>>
Marker == "80"
Zero == "00"
Zeros(n) == [i \in 1..n |-> Zero]

(* memcpy() of data into the buffer; the rest keeps what an earlier block  *)
(* left there.                                                             *)
Copied(buffer, at, data) ==
    [i \in 1..Block |-> IF i - at \in DOMAIN data THEN data[i - at] ELSE buffer[i]]

BlocksOf(data) ==
    [k \in 1..(Len(data) \div Block) |-> SubSeq(data, (k - 1) * Block + 1, k * Block)]

(* body(): hashes whole blocks.                                            *)
body(c, data) == [c EXCEPT !.hashed = @ \o BlocksOf(data)]

(***************************************************************************)
(* MD5_Update(): counts; fills up a buffer in use and hashes it once it is *)
(* full, hashes whole blocks from the data, and keeps the rest.            *)
(***************************************************************************)
Counted(c, size) ==
    LET lo == (c.lo + size) % LoMax
    IN  [c EXCEPT !.lo = lo,
                  !.hi = @ + (IF lo < c.lo THEN 1 ELSE 0) + (size \div LoMax)]

WholeBlocks(c, data) ==
    LET whole == (Len(data) \div Block) * Block
        d == body(c, SubSeq(data, 1, whole))
    IN  [d EXCEPT !.buffer = Copied(@, 0, SubSeq(data, whole + 1, Len(data)))]

MD5_Update_Refill(c, data) ==        (* Mutant: the part copied into a buffer in use is hashed again. *)
    LET used == c.lo % Block
        available == Block - used
        n == Counted(c, Len(data))
        full == Copied(n.buffer, used, SubSeq(data, 1, available))
    IN  CASE used = 0 -> WholeBlocks(n, data)
          [] used > 0 /\ Len(data) < available ->
                [n EXCEPT !.buffer = Copied(@, used, data)]
          [] used > 0 /\ Len(data) >= available ->
                WholeBlocks(body([n EXCEPT !.buffer = full], full), data)

MD5_Update(c, data) ==
    LET used == c.lo % Block
        available == Block - used
        n == Counted(c, Len(data))
        full == Copied(n.buffer, used, SubSeq(data, 1, available))
    IN  CASE used = 0 -> WholeBlocks(n, data)
          [] used > 0 /\ Len(data) < available ->
                [n EXCEPT !.buffer = Copied(@, used, data)]
          [] used > 0 /\ Len(data) >= available ->
                WholeBlocks(body([n EXCEPT !.buffer = full], full),
                            SubSeq(data, available + 1, Len(data)))

(* MD5_Final(): the marker, zeros, and the number of bits in the last      *)
(* block; one more block when they do not fit.                             *)
LengthOf(c) == [i \in 1..LengthBytes |-> CASE i = 1 -> <<"lo", c.lo>>
                                     [] i = 2 -> <<"hi", c.hi>>
                                     [] OTHER -> Zero]

MD5_Final(c) ==
    LET used == (c.lo % Block) + 1
        marked == Copied(c.buffer, used - 1, <<Marker>>)
        full == Copied(marked, used, Zeros(Block - used))
        more == Block - used < LengthBytes
        d == IF more THEN body([c EXCEPT !.buffer = full], full)
             ELSE [c EXCEPT !.buffer = marked]
        from == IF more THEN 0 ELSE used
        last == Copied(d.buffer, from, Zeros(Block - from - LengthBytes) \o LengthOf(c))
    IN  body(d, last).hashed

(* sha1's calc(): whole blocks first, then the rest in w, where a bit is   *)
(* set behind the last byte; only the low word of the length is stored.    *)
calc_OneEarly(m) ==                  (* Mutant: the length needs a block of its own one byte too late. *)
    LET rest == SubSeq(m, (Len(m) \div Block) * Block + 1, Len(m))
        w == rest \o <<Marker>> \o Zeros(Block - Len(rest) - 1)
        own == Len(rest) > Block - LengthBytes
        length == [i \in 1..LengthBytes |-> IF i = 1 THEN <<"lo", Len(m) % LoMax>>
                                      ELSE IF i = 2 THEN <<"hi", 0>> ELSE Zero]
    IN  BlocksOf(m) \o (IF own THEN <<w>> ELSE <<>>)
            \o <<SubSeq(IF own THEN Zeros(Block) ELSE w, 1, Block - LengthBytes) \o length>>

calc(m) ==
    LET rest == SubSeq(m, (Len(m) \div Block) * Block + 1, Len(m))
        w == rest \o <<Marker>> \o Zeros(Block - Len(rest) - 1)
        own == Len(rest) >= Block - LengthBytes
        length == [i \in 1..LengthBytes |-> IF i = 1 THEN <<"lo", Len(m) % LoMax>>
                                      ELSE IF i = 2 THEN <<"hi", 0>> ELSE Zero]
    IN  BlocksOf(m) \o (IF own THEN <<w>> ELSE <<>>)
            \o <<SubSeq(IF own THEN Zeros(Block) ELSE w, 1, Block - LengthBytes) \o length>>

-----------------------------------------------------------------------------
DigestInit ==
    /\ ctx = [lo |-> 0, hi |-> 0, buffer |-> [i \in 1..Block |-> "old"], hashed |-> <<>>]
    /\ message = <<>>
    /\ digest = NoDigest

process_bytes(size) ==
    LET data == [i \in 1..size |-> Len(message) + i]
    IN  /\ digest = NoDigest
        /\ Len(message) + size <= MaxMessage
        /\ ctx' = MD5_Update(ctx, data)
        /\ message' = message \o data
        /\ UNCHANGED digest

(* The context is zeroed: the object is of no use any more, and a second   *)
(* str() is the digest of something else.                                  *)
get_digest ==
    /\ digest = NoDigest
    /\ digest' = MD5_Final(ctx)
    /\ ctx' = [lo |-> 0, hi |-> 0, buffer |-> Zeros(Block), hashed |-> <<Zero>>]
    /\ UNCHANGED message

DigestNext == (\E size \in 0..MaxChunk : process_bytes(size)) \/ get_digest

DigestSpec == DigestInit /\ [][DigestNext]_digVars

-----------------------------------------------------------------------------
(* RFC 1321 3.1 and 3.2: the message, a marker, as few zeros as fill up    *)
(* the last block but for the length, and the length in bytes.             *)
Padded(m, high) ==
    LET zeros == CHOOSE z \in 0..(Block - 1) : (Len(m) + 1 + z + LengthBytes) % Block = 0
        length == [i \in 1..LengthBytes |-> CASE i = 1 -> <<"lo", Len(m) % LoMax>>
                                        [] i = 2 -> <<"hi", high>>
                                        [] OTHER -> Zero]
    IN  BlocksOf(m \o <<Marker>> \o Zeros(zeros) \o length)

(* However a message is cut into chunks, the digest is that of the whole   *)
(* message, padded as the standard says, its length carried past lo; what  *)
(* an earlier block left in the buffer is nowhere in it.                   *)
ChunksDoNotMatter ==
    digest # NoDigest => digest = Padded(message, Len(message) \div LoMax)

(* SHA-1 pads every message shorter than its 32-bit count allows as the    *)
(* standard says, at every length of the last block.                       *)
Sha1Pads == Len(message) < LoMax => calc(message) = Padded(message, 0)

(* A digest does not depend on the pieces the message came in, and is      *)
(* padded to whole blocks.                                                 *)
DigestsAgree == ChunksDoNotMatter /\ Sha1Pads
=============================================================================
