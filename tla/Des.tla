--------------------------------- MODULE Des ---------------------------------
(***************************************************************************)
(* util/des.hpp.  A block, a key and a half of a block are sequences of    *)
(* bits, the most significant one first, as the tables count them.         *)
(***************************************************************************)
EXTENDS Naturals, SequencesExt

PC1 == <<
    57, 49, 41, 33, 25, 17, 9, 1, 58, 50, 42, 34, 26, 18, 10, 2, 59, 51, 43, 35, 27, 19, 11, 3, 60, 52, 44, 36,
    63, 55, 47, 39, 31, 23, 15, 7, 62, 54, 46, 38, 30, 22, 14, 6, 61, 53, 45, 37, 29, 21, 13, 5, 28, 20, 12, 4 >>

PC2 == <<
    14, 17, 11, 24, 1, 5, 3, 28, 15, 6, 21, 10, 23, 19, 12, 4, 26, 8, 16, 7, 27, 20, 13, 2,
    41, 52, 31, 37, 47, 55, 30, 40, 51, 45, 33, 48, 44, 49, 39, 56, 34, 53, 46, 42, 50, 36, 29, 32 >>

ITERATION_SHIFT == <<1, 1, 2, 2, 2, 2, 2, 2, 1, 2, 2, 2, 2, 2, 2, 1>>

IP == <<
    58, 50, 42, 34, 26, 18, 10, 2, 60, 52, 44, 36, 28, 20, 12, 4, 62, 54, 46, 38, 30, 22, 14, 6, 64, 56, 48, 40, 32, 24, 16, 8,
    57, 49, 41, 33, 25, 17, 9, 1, 59, 51, 43, 35, 27, 19, 11, 3, 61, 53, 45, 37, 29, 21, 13, 5, 63, 55, 47, 39, 31, 23, 15, 7 >>

FP == <<
    40, 8, 48, 16, 56, 24, 64, 32, 39, 7, 47, 15, 55, 23, 63, 31, 38, 6, 46, 14, 54, 22, 62, 30, 37, 5, 45, 13, 53, 21, 61, 29,
    36, 4, 44, 12, 52, 20, 60, 28, 35, 3, 43, 11, 51, 19, 59, 27, 34, 2, 42, 10, 50, 18, 58, 26, 33, 1, 41, 9, 49, 17, 57, 25 >>

EXPANSION == <<
    32, 1, 2, 3, 4, 5, 4, 5, 6, 7, 8, 9, 8, 9, 10, 11, 12, 13, 12, 13, 14, 15, 16, 17,
    16, 17, 18, 19, 20, 21, 20, 21, 22, 23, 24, 25, 24, 25, 26, 27, 28, 29, 28, 29, 30, 31, 32, 1 >>

PBOX == <<
    16, 7, 20, 21, 29, 12, 28, 17, 1, 15, 23, 26, 5, 18, 31, 10, 2, 8, 24, 14, 32, 27, 3, 9, 19, 13, 30, 6, 22, 11, 4, 25 >>

SBOX == <<
    <<14, 4, 13, 1, 2, 15, 11, 8, 3, 10, 6, 12, 5, 9, 0, 7, 0, 15, 7, 4, 14, 2, 13, 1, 10, 6, 12, 11, 9, 5, 3, 8,
      4, 1, 14, 8, 13, 6, 2, 11, 15, 12, 9, 7, 3, 10, 5, 0, 15, 12, 8, 2, 4, 9, 1, 7, 5, 11, 3, 14, 10, 0, 6, 13>>,
    <<15, 1, 8, 14, 6, 11, 3, 4, 9, 7, 2, 13, 12, 0, 5, 10, 3, 13, 4, 7, 15, 2, 8, 14, 12, 0, 1, 10, 6, 9, 11, 5,
      0, 14, 7, 11, 10, 4, 13, 1, 5, 8, 12, 6, 9, 3, 2, 15, 13, 8, 10, 1, 3, 15, 4, 2, 11, 6, 7, 12, 0, 5, 14, 9>>,
    <<10, 0, 9, 14, 6, 3, 15, 5, 1, 13, 12, 7, 11, 4, 2, 8, 13, 7, 0, 9, 3, 4, 6, 10, 2, 8, 5, 14, 12, 11, 15, 1,
      13, 6, 4, 9, 8, 15, 3, 0, 11, 1, 2, 12, 5, 10, 14, 7, 1, 10, 13, 0, 6, 9, 8, 7, 4, 15, 14, 3, 11, 5, 2, 12>>,
    <<7, 13, 14, 3, 0, 6, 9, 10, 1, 2, 8, 5, 11, 12, 4, 15, 13, 8, 11, 5, 6, 15, 0, 3, 4, 7, 2, 12, 1, 10, 14, 9,
      10, 6, 9, 0, 12, 11, 7, 13, 15, 1, 3, 14, 5, 2, 8, 4, 3, 15, 0, 6, 10, 1, 13, 8, 9, 4, 5, 11, 12, 7, 2, 14>>,
    <<2, 12, 4, 1, 7, 10, 11, 6, 8, 5, 3, 15, 13, 0, 14, 9, 14, 11, 2, 12, 4, 7, 13, 1, 5, 0, 15, 10, 3, 9, 8, 6,
      4, 2, 1, 11, 10, 13, 7, 8, 15, 9, 12, 5, 6, 3, 0, 14, 11, 8, 12, 7, 1, 14, 2, 13, 6, 15, 0, 9, 10, 4, 5, 3>>,
    <<12, 1, 10, 15, 9, 2, 6, 8, 0, 13, 3, 4, 14, 7, 5, 11, 10, 15, 4, 2, 7, 12, 9, 5, 6, 1, 13, 14, 0, 11, 3, 8,
      9, 14, 15, 5, 2, 8, 12, 3, 7, 0, 4, 10, 1, 13, 11, 6, 4, 3, 2, 12, 9, 5, 15, 10, 11, 14, 1, 7, 6, 0, 8, 13>>,
    <<4, 11, 2, 14, 15, 0, 8, 13, 3, 12, 9, 7, 5, 10, 6, 1, 13, 0, 11, 7, 4, 9, 1, 10, 14, 3, 5, 12, 2, 15, 8, 6,
      1, 4, 11, 13, 12, 3, 7, 14, 10, 15, 6, 8, 0, 5, 9, 2, 6, 11, 13, 8, 1, 4, 10, 7, 9, 5, 0, 15, 14, 2, 3, 12>>,
    <<13, 2, 8, 4, 6, 15, 11, 1, 10, 9, 3, 14, 5, 0, 12, 7, 1, 15, 13, 8, 10, 3, 7, 4, 12, 5, 6, 11, 0, 14, 9, 2,
      7, 11, 4, 1, 9, 12, 14, 2, 0, 6, 10, 13, 15, 3, 5, 8, 2, 1, 14, 7, 4, 10, 8, 13, 15, 12, 9, 0, 3, 5, 6, 11>> >>

(* TLC computes the elements of a sequence once if it is a concatenation.  *)
Once(s) == <<>> \o s

Permuted(bits, table) == Once([i \in DOMAIN table |-> bits[table[i]]])
XorBits(a, b) == Once([i \in DOMAIN a |-> (a[i] + b[i]) % 2])
Value(bits) == FoldLeft(LAMBDA v, b : 2 * v + b, 0, bits)
BitsOf(v, n) == [i \in 1..n |-> (v \div 2^(n - i)) % 2]
Rotated(bits, n) == SubSeq(bits, n + 1, Len(bits)) \o SubSeq(bits, 1, n)

(* keygen(): the halves C and D are rotated on and on.                     *)
Shifted(i) == FoldLeft(+, 0, SubSeq(ITERATION_SHIFT, 1, i))

keygen(key) ==
    LET c == Permuted(key, SubSeq(PC1, 1, 28))
        d == Permuted(key, SubSeq(PC1, 29, 56))
    IN  Once([i \in 1..16 |-> Permuted(Rotated(c, Shifted(i) % 28) \o Rotated(d, Shifted(i) % 28), PC2)])

(* The outer bits of six choose the row of an S-box, the others the column. *)
Substituted(six, box) ==
    BitsOf(SBOX[box][16 * Value(<<six[1], six[6]>>) + Value(SubSeq(six, 2, 5)) + 1], 4)

f(R, k) ==
    LET s_input == XorBits(Permuted(R, EXPANSION), k)
        s_output == FlattenSeq([i \in 1..8 |-> Substituted(SubSeq(s_input, 6 * i - 5, 6 * i), i)])
    IN  Permuted(s_output, PBOX)

do_des_SameOrder(block, sub_key, decrypting) ==   (* Mutant: the sub-keys are not taken backwards. *)
    LET b == Permuted(block, IP)
        round(x, k) == <<x[2], XorBits(x[1], f(x[2], k))>>
        x == FoldLeft(round, <<SubSeq(b, 1, 32), SubSeq(b, 33, 64)>>, sub_key)
    IN  Permuted(x[2] \o x[1], FP)

do_des(block, sub_key, decrypting) ==
    LET b == Permuted(block, IP)
        round(x, k) == <<x[2], XorBits(x[1], f(x[2], k))>>
        x == FoldLeft(round, <<SubSeq(b, 1, 32), SubSeq(b, 33, 64)>>,
                      IF decrypting THEN Reverse(sub_key) ELSE sub_key)
    IN  Permuted(x[2] \o x[1], FP)

(***************************************************************************)
(* Strings, of octets.  memcpy() makes the first octet the least           *)
(* significant one; the last block is moved up by what it was filled with, *)
(* and moved down after deciphering until its lowest octet is not zero.    *)
(* A block of zeros only would be moved down for ever.                     *)
(***************************************************************************)
Forever == "never returns"

Filled(s) == s \o [i \in 1..((8 - (Len(s) % 8)) % 8) |-> 0]
BlockAt(s, k) == FlattenSeq([i \in 1..8 |-> BitsOf(s[8 * k + 1 - i], 8)])
Octets(block) == [i \in 1..8 |-> Value(SubSeq(block, 65 - 8 * i, 72 - 8 * i))]
MovedUp(s, n) == [i \in 1..8 |-> IF i <= n THEN 0 ELSE s[i - n]]
MovedDown_NotAtAll(s, n) == s        (* Mutant: the last block is left where it is. *)
MovedDown(s, n) == [i \in 1..8 |-> IF i + n <= 8 THEN s[i + n] ELSE 0]

Key(key) == BlockAt([i \in 1..8 |-> IF i <= Len(key) THEN key[i] ELSE 0], 1)

encrypt(msg, key) ==
    LET s == Filled(msg)
        n == Len(s) \div 8
        last == MovedUp(SubSeq(s, Len(s) - 7, Len(s)), Len(s) - Len(msg))
        plain == SubSeq(s, 1, Len(s) - 8) \o last
        one(k) == Octets(do_des(BlockAt(plain, k), keygen(Key(key)), FALSE))
    IN  IF msg = <<>> THEN <<>> ELSE FlattenSeq([k \in 1..n |-> one(k)])

Stripped(s) == SubSeq(s, 1, Max({0} \cup {i \in DOMAIN s : s[i] # 0}))

decrypt(msg, key) ==
    LET n == Len(msg) \div 8
        one(k) == Octets(do_des(BlockAt(msg, k), keygen(Key(key)), TRUE))
        zeros == {i \in 0..7 : one(n)[i + 1] # 0}
        last == MovedDown(one(n), Min(zeros))
    IN  CASE msg = <<>> \/ Len(msg) % 8 # 0 -> <<>>
          [] n > 0 /\ Len(msg) % 8 = 0 /\ zeros = {} -> Forever
          [] OTHER -> Stripped(FlattenSeq([k \in 1..(n - 1) |-> one(k)]) \o last)

-----------------------------------------------------------------------------
Hex(s) == FlattenSeq([i \in DOMAIN s |-> BitsOf(s[i], 8)])

(* The cipher is DES: a published example, and deciphering undoes it.      *)
DesIsStandard ==
    LET key == keygen(Hex(<<19, 52, 87, 121, 155, 188, 223, 241>>))
        plain == Hex(<<1, 35, 69, 103, 137, 171, 205, 239>>)
        cipher == Hex(<<133, 232, 19, 84, 15, 10, 180, 5>>)
    IN  do_des(plain, key, FALSE) = cipher /\ do_des(cipher, key, TRUE) = plain

(* A message without zeros, of any length, comes back, and so does one     *)
(* with zeros in front of its last block's first printing octet or not at  *)
(* the ends of a block.                                                    *)
DesRoundTrip(msg, key) == decrypt(encrypt(msg, key), key) = msg
=============================================================================
