--------------------------------- MODULE Aes ---------------------------------
(***************************************************************************)
(* The block cipher of util/aes.hpp: key expansion and the rounds, on a    *)
(* block of 16 octets; state[i][j] is the octet 4 * i + j of the block,    *)
(* counted from 0.                                                         *)
(***************************************************************************)
EXTENDS Naturals, SequencesExt, Bitwise

Nb == 4

sbox == <<
    99, 124, 119, 123, 242, 107, 111, 197, 48, 1, 103, 43, 254, 215, 171, 118,
    202, 130, 201, 125, 250, 89, 71, 240, 173, 212, 162, 175, 156, 164, 114, 192,
    183, 253, 147, 38, 54, 63, 247, 204, 52, 165, 229, 241, 113, 216, 49, 21,
    4, 199, 35, 195, 24, 150, 5, 154, 7, 18, 128, 226, 235, 39, 178, 117,
    9, 131, 44, 26, 27, 110, 90, 160, 82, 59, 214, 179, 41, 227, 47, 132,
    83, 209, 0, 237, 32, 252, 177, 91, 106, 203, 190, 57, 74, 76, 88, 207,
    208, 239, 170, 251, 67, 77, 51, 133, 69, 249, 2, 127, 80, 60, 159, 168,
    81, 163, 64, 143, 146, 157, 56, 245, 188, 182, 218, 33, 16, 255, 243, 210,
    205, 12, 19, 236, 95, 151, 68, 23, 196, 167, 126, 61, 100, 93, 25, 115,
    96, 129, 79, 220, 34, 42, 144, 136, 70, 238, 184, 20, 222, 94, 11, 219,
    224, 50, 58, 10, 73, 6, 36, 92, 194, 211, 172, 98, 145, 149, 228, 121,
    231, 200, 55, 109, 141, 213, 78, 169, 108, 86, 244, 234, 101, 122, 174, 8,
    186, 120, 37, 46, 28, 166, 180, 198, 232, 221, 116, 31, 75, 189, 139, 138,
    112, 62, 181, 102, 72, 3, 246, 14, 97, 53, 87, 185, 134, 193, 29, 158,
    225, 248, 152, 17, 105, 217, 142, 148, 155, 30, 135, 233, 206, 85, 40, 223,
    140, 161, 137, 13, 191, 230, 66, 104, 65, 153, 45, 15, 176, 84, 187, 22 >>

rsbox == <<
    82, 9, 106, 213, 48, 54, 165, 56, 191, 64, 163, 158, 129, 243, 215, 251,
    124, 227, 57, 130, 155, 47, 255, 135, 52, 142, 67, 68, 196, 222, 233, 203,
    84, 123, 148, 50, 166, 194, 35, 61, 238, 76, 149, 11, 66, 250, 195, 78,
    8, 46, 161, 102, 40, 217, 36, 178, 118, 91, 162, 73, 109, 139, 209, 37,
    114, 248, 246, 100, 134, 104, 152, 22, 212, 164, 92, 204, 93, 101, 182, 146,
    108, 112, 72, 80, 253, 237, 185, 218, 94, 21, 70, 87, 167, 141, 157, 132,
    144, 216, 171, 0, 140, 188, 211, 10, 247, 228, 88, 5, 184, 179, 69, 6,
    208, 44, 30, 143, 202, 63, 15, 2, 193, 175, 189, 3, 1, 19, 138, 107,
    58, 145, 17, 65, 79, 103, 220, 234, 151, 242, 207, 206, 240, 180, 230, 115,
    150, 172, 116, 34, 231, 173, 53, 133, 226, 249, 55, 232, 28, 117, 223, 110,
    71, 241, 26, 113, 29, 41, 197, 137, 111, 183, 98, 14, 170, 24, 190, 27,
    252, 86, 62, 75, 198, 210, 121, 32, 154, 219, 192, 254, 120, 205, 90, 244,
    31, 221, 168, 51, 136, 7, 199, 49, 177, 18, 16, 89, 39, 128, 236, 95,
    96, 81, 127, 169, 25, 181, 74, 13, 45, 229, 122, 159, 147, 201, 156, 239,
    160, 224, 59, 77, 174, 42, 245, 176, 200, 235, 187, 60, 131, 83, 153, 97,
    23, 43, 4, 126, 186, 119, 214, 38, 225, 105, 20, 99, 85, 33, 12, 125 >>

Rcon == << 141, 1, 2, 4, 8, 16, 32, 64, 128, 27, 54 >>

Byte == 0..255
getSBoxValue(x) == sbox[x + 1]
getSBoxInvert(x) == rsbox[x + 1]

(* TLC computes the elements of a sequence once if it is a concatenation.  *)
Once(s) == <<>> \o s

XorBytes(a, b) == Once([i \in DOMAIN a |-> a[i] ^^ b[i]])

(* The key is cut or filled with zeros to 16, 24 or 32 octets.             *)
Resized(key, n) == [i \in 1..n |-> IF i <= Len(key) THEN key[i] ELSE 0]
init(key) == Resized(key, IF Len(key) <= 16 THEN 16 ELSE IF Len(key) <= 24 THEN 24 ELSE 32)
Nk(key) == Len(init(key)) \div 4
Nr(key) == Nk(key) + 6

(* The round keys, one word of four octets after the other.                *)
RotWord(w) == Tail(w) \o <<w[1]>>
SubWord(w) == Once([j \in 1..4 |-> getSBoxValue(w[j])])

NextWord_RotAgain(w, k, i) ==        (* Mutant: AES-256's extra word is rotated too. *)
    LET temp == w[i]
        rotated == SubWord(RotWord(temp))
    IN  XorBytes(w[i + 1 - k],
            CASE i % k = 0 -> [rotated EXCEPT ![1] = @ ^^ Rcon[(i \div k) + 1]]
              [] k = 8 /\ i % k = 4 -> rotated
              [] OTHER -> temp)

NextWord(w, k, i) ==
    LET temp == w[i]
        rotated == SubWord(RotWord(temp))
    IN  XorBytes(w[i + 1 - k],
            CASE i % k = 0 -> [rotated EXCEPT ![1] = @ ^^ Rcon[(i \div k) + 1]]
              [] k = 8 /\ i % k = 4 -> SubWord(temp)
              [] OTHER -> temp)

AddRoundKey(round, state, RoundKey) ==
    Once([n \in 1..16 |-> state[n] ^^ RoundKey[round * Nb + ((n - 1) \div 4) + 1][((n - 1) % 4) + 1]])

SubBytes(state) == Once([n \in 1..16 |-> getSBoxValue(state[n])])
InvSubBytes(state) == [n \in 1..16 |-> getSBoxInvert(state[n])]

(* Row j moves j columns: state[i][j] is taken from state[i + j][j].       *)
At(i, j) == 4 * (i % 4) + j + 1

ShiftRows(state) == [n \in 1..16 |-> LET j == (n - 1) % 4 IN state[At((n - 1) \div 4 + j, j)]]
InvShiftRows(state) ==
    [n \in 1..16 |-> LET j == (n - 1) % 4 IN state[At((n - 1) \div 4 + 4 - j, j)]]

xtime(x) == ((2 * x) % 256) ^^ ((x \div 128) * 27)

MixColumns(state) ==
    Once([n \in 1..16 |->
        LET i == (n - 1) \div 4
            j == (n - 1) % 4
            Tmp == ((state[At(i, 0)] ^^ state[At(i, 1)]) ^^ state[At(i, 2)]) ^^ state[At(i, 3)]
            Tm == xtime(state[At(i, j)] ^^ state[At(i, (j + 1) % 4)])
        IN  state[n] ^^ (Tm ^^ Tmp)])

Multiply(x, y) ==
    LET two == xtime(x)
        four == xtime(two)
        eight == xtime(four)
        bit(k) == (y \div k) % 2
    IN  ((bit(1) * x) ^^ (bit(2) * two)) ^^ ((bit(4) * four) ^^ (bit(8) * eight))

InvMixColumns(state) ==
    Once([n \in 1..16 |->
        LET i == (n - 1) \div 4
            j == (n - 1) % 4
            a(d) == state[At(i, (j + d) % 4)]
        IN  (Multiply(a(0), 14) ^^ Multiply(a(1), 11)) ^^ (Multiply(a(2), 13) ^^ Multiply(a(3), 9))])

-----------------------------------------------------------------------------
VARIABLES
    job,            \* the key, the block, and what is known of its cipher
    w,              \* the round keys expanded so far
    state, round,   \* the block on its way, and the round it is in
    doing           \* "Cipher", then "InvCipher", then "done"

vars == <<job, w, state, round, doing>>

CONSTANT Jobs

rounds == Nr(job.key)

Init ==
    /\ job \in Jobs
    /\ w = [i \in 1..Nk(job.key) |-> SubSeq(init(job.key), 4 * i - 3, 4 * i)]
    /\ state = job.plain
    /\ round = 0
    /\ doing = "Cipher"

(* KeyExpansion(), one word a step.                                        *)
KeyExpansion ==
    /\ Len(w) < Nb * (rounds + 1)
    /\ w' = Append(w, NextWord(w, Nk(job.key), Len(w)))
    /\ UNCHANGED <<job, state, round, doing>>

Expanded == Len(w) = Nb * (rounds + 1)

Cipher ==
    /\ Expanded
    /\ doing = "Cipher"
    /\ round <= rounds
    /\ state' = LET s == ShiftRows(SubBytes(state))
                IN  AddRoundKey(round,
                        CASE round = 0 -> state
                          [] round \in 1..(rounds - 1) -> MixColumns(s)
                          [] round = rounds -> s, w)
    /\ round' = round + 1
    /\ UNCHANGED <<job, w, doing>>

Turn ==
    /\ doing = "Cipher"
    /\ round > rounds
    /\ doing' = "InvCipher"
    /\ round' = rounds
    /\ UNCHANGED <<job, w, state>>

InvRound_MixFirst(s, r) ==           (* Mutant: the columns are unmixed too early. *)
    AddRoundKey(r, IF r = 0 THEN s ELSE InvMixColumns(s), w)

InvRound(s, r) ==
    LET t == AddRoundKey(r, s, w) IN IF r = 0 THEN t ELSE InvMixColumns(t)

InvCipher ==
    /\ doing = "InvCipher"
    /\ state' = IF round = rounds THEN AddRoundKey(round, state, w)
                ELSE InvRound(InvSubBytes(InvShiftRows(state)), round)
    /\ IF round = 0 THEN doing' = "done" /\ round' = 0
                    ELSE doing' = doing /\ round' = round - 1
    /\ UNCHANGED <<job, w>>

Next == KeyExpansion \/ Cipher \/ Turn \/ InvCipher

Spec == Init /\ [][Next]_vars

-----------------------------------------------------------------------------
(* A key of each of the three sizes enciphers the published examples as    *)
(* FIPS 197 says.                                                          *)
AesIsStandard == doing = "InvCipher" /\ round = rounds /\ "cipher" \in DOMAIN job => state = job.cipher

(* What is deciphered with the key it was enciphered with, whatever that   *)
(* was filled up to, is the block.                                         *)
AesUndoes == doing = "done" => state = job.plain
=============================================================================
