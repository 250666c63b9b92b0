-------------------------------- MODULE Base64 --------------------------------
(***************************************************************************)
(* util/base64.hpp.  A character of the alphabet base64_chars is its       *)
(* index, 0 to 63; Pad is '=' and Other a character outside the alphabet.  *)
(***************************************************************************)
EXTENDS Naturals, SequencesExt

Pad == 64
Other == 65

(* find() of the terminating 0 in the alphabet is npos, cut to a byte.     *)
NotFound == 255

(* char_array_3 to char_array_4 and back.                                  *)
Sextets(a) == << a[1] \div 4,
                 (a[1] % 4) * 16 + a[2] \div 16,
                 (a[2] % 16) * 4 + a[3] \div 64,
                 a[3] % 64 >>

Octets(c) == << (c[1] * 4 + (c[2] % 64) \div 16) % 256,
                ((c[2] % 16) * 16 + (c[3] % 64) \div 4) % 256,
                ((c[3] % 4) * 64 + c[4]) % 256 >>

FilledUp(s, n, x) == [i \in 1..n |-> IF i <= Len(s) THEN s[i] ELSE x]

RECURSIVE encode(_)
encode(input) ==
    LET i == Len(input)
        four == Sextets(FilledUp(input, 3, 0))
    IN  CASE i >= 3 -> Sextets(SubSeq(input, 1, 3)) \o encode(SubSeq(input, 4, i))
          [] i \in 1..2 -> SubSeq(four, 1, i + 1) \o [k \in 1..(3 - i) |-> Pad]
          [] i = 0 -> <<>>

(* decode() reads up to the first character that is not of the alphabet.   *)
Readable(input) ==
    SubSeq(input, 1, SelectInSeq(Append(input, Pad), LAMBDA c : c \in {Pad, Other}) - 1)

RECURSIVE Decoded_KeepsAll(_)        (* Mutant: the unfinished group gives as many bytes as it has characters. *)
Decoded_KeepsAll(s) ==
    LET i == Len(s)
    IN  CASE i >= 4 -> Octets(SubSeq(s, 1, 4)) \o Decoded_KeepsAll(SubSeq(s, 5, i))
          [] i \in 1..3 -> SubSeq(Octets(FilledUp(s, 4, NotFound)), 1, i)
          [] i = 0 -> <<>>

RECURSIVE Decoded(_)
Decoded(s) ==
    LET i == Len(s)
    IN  CASE i >= 4 -> Octets(SubSeq(s, 1, 4)) \o Decoded(SubSeq(s, 5, i))
          [] i \in 1..3 -> SubSeq(Octets(FilledUp(s, 4, NotFound)), 1, i - 1)
          [] i = 0 -> <<>>

decode(input) == Decoded(Readable(input))

-----------------------------------------------------------------------------
(* RFC 4648: the bits of the octets, six at a time.                        *)
Bit(s, width, k) == (s[((k - 1) \div width) + 1] \div 2^(width - 1 - ((k - 1) % width))) % 2

SameBits(octets, text) ==
    \A k \in 1..(8 * Len(octets)) : Bit(octets, 8, k) = Bit(text, 6, k)

(* Encoding spells the octets' bits six at a time, padded to whole groups, *)
(* decoding gives them back, and what follows a padded text is not read.   *)
Base64RoundTrip(octets) ==
    LET text == encode(octets)
    IN  /\ Len(text) = 4 * ((Len(octets) + 2) \div 3)
        /\ SameBits(octets, text)
        /\ decode(text) = octets
        /\ decode(text \o <<Other, 0, 1>>) = octets
        /\ Len(octets) % 3 # 0 => decode(text \o text) = octets
=============================================================================
