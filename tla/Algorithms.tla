------------------------------- MODULE Algorithms -------------------------------
(***************************************************************************)
(* Model checking the algorithms of the library, each on its own inputs:   *)
(* a behaviour is of one part, Dgram, Digest or another one, and the       *)
(* variables of the others do not move.  The parts that are functions take *)
(* one input, chosen at the start.                                         *)
(***************************************************************************)
EXTENDS Dgram, Digest, Integers, SequencesExt, TLC

VARIABLES part,
          input,                                        \* of strings, base64 and des
          file, store, comments, sets,                  \* the ini file
          m_state, m_codepoint, octets, u_complete,     \* utf8_validator
          a_job, w, a_state, round, doing,              \* aes
          mode, Iv, wire, m_sent, lost, used, last,     \* its modes
          v_job, in, pos, out, st, buf, status          \* codecvt

Words(S, lengths) == UNION {[1..n -> S] : n \in lengths}
Empty == <<>>

-----------------------------------------------------------------------------
(* 1 and 2 are a letter in its two cases, 3 another sign, 4 the blank.     *)
Str == INSTANCE Strings WITH
          Blank <- {4}, Lower <- <<1, 1, 3, 4>>, Upper <- <<2, 2, 3, 4>>, Npos <- 7

Texts == [s : Words(1..4, 0..4), t : Words(1..3, 0..2), r : {<<>>, <<1>>, <<3, 1>>}]

n == "\n"
c == "\r"
IniFiles == {
    <<>>,
    <<n>>,
    <<"a", n, "k", "=", " ", "x", "y">>,
    <<"k", "=", "x", c, n, ";", "k", c, n, "a", c, n, "l", " ", "=", "y", "x", " ", c, n, "b", n, "k", "=", n>>,
    <<";", " ", n, n, "a", n, "l", "=", "x", n, "b", n, " ", ";", "=", n, "k", "=", "x", "y", "x", n, "a", n,
      "k", "=", "y", n, " ", " ">> }

Ini == INSTANCE IniFile WITH
          Section <- {"a", "b"}, Global <- "", Key <- {"k", "l"},
          Values <- {<<>>, <<"x">>, <<"y", "x", "y", "y">>},
          Endl <- <<c, n>>, Files <- IniFiles, MaxSet <- 3

-----------------------------------------------------------------------------
B64 == INSTANCE Base64
Sextets == Words({0, 1, 63, 85, 128, 254, 255}, 0..4)

U8 == INSTANCE Utf8Validator WITH
          Octet <- {0, 127, 128, 143, 144, 159, 160, 191, 192, 193, 194, 223, 224, 225, 236, 237,
                    238, 239, 240, 241, 243, 244, 245, 255},
          MaxOctets <- 4

-----------------------------------------------------------------------------
(* FIPS 197, appendices B and C: key, plaintext and ciphertext.            *)
Vectors ==
    { [key |-> <<43, 126, 21, 22, 40, 174, 210, 166, 171, 247, 21, 136, 9, 207, 79, 60>>,
       plain |-> <<50, 67, 246, 168, 136, 90, 48, 141, 49, 49, 152, 162, 224, 55, 7, 52>>,
       cipher |-> <<57, 37, 132, 29, 2, 220, 9, 251, 220, 17, 133, 151, 25, 106, 11, 50>>] }
  \cup
    { [key |-> [i \in 1..k |-> i - 1], plain |-> [i \in 1..16 |-> 17 * (i - 1)],
       cipher |-> CASE k = 16 -> <<105, 196, 224, 216, 106, 123, 4, 48, 216, 205, 183, 128, 112, 180, 197, 90>>
                    [] k = 24 -> <<221, 169, 124, 164, 134, 76, 223, 224, 110, 175, 112, 160, 236, 13, 113, 145>>
                    [] k = 32 -> <<142, 162, 183, 202, 81, 103, 69, 191, 234, 252, 73, 144, 75, 73, 96, 137>>]
      : k \in {16, 24, 32} }

(* Keys of other lengths are filled up or cut off.                         *)
Filled == { [key |-> [i \in 1..k |-> (i * 91) % 256], plain |-> [i \in 1..16 |-> (i * 37 + k) % 256]]
            : k \in {0, 1, 17, 25, 40} }

Rijndael == INSTANCE Aes WITH Jobs <- Vectors \cup Filled, job <- a_job, state <- a_state

(* A cipher of 16 blocks of two digits, and the addition without carry.    *)
Toy == [b \in [1..2 -> 0..3] |-> LET v == (5 * (4 * b[1] + b[2]) + 3) % 16 IN <<v \div 4, v % 4>>]
Bit(a, k) == (a \div k) % 2
ToyXor == [a \in 0..3, b \in 0..3 |->
              2 * ((Bit(a, 2) + Bit(b, 2)) % 2) + ((Bit(a, 1) + Bit(b, 1)) % 2)]

Modes == INSTANCE AesModes WITH
            BlockLen <- 2, Top <- 3, Cipher <- Toy, Xor <- ToyXor, MaxSent <- 4, sent <- m_sent,
            Messages <- {<<>>, <<1>>, <<0, 2>>, <<3, 0, 3>>, <<1, 2, 3, 3, 2>>}

Crypt == INSTANCE Des
Secrets == [m : Words({1, 200}, 0..2)
                  \cup {[i \in 1..k |-> ((17 * i) % 255) + 1] : k \in 4..18}
                  \cup {<<5, 0, 0, 0, 0, 0, 0, 0, 9>>},
            k : {<<1, 2, 3, 4, 5, 6, 7, 8>>, <<255, 0, 17>>}]

-----------------------------------------------------------------------------
(* Characters of one to four octets, of one and of two units of UTF-16,    *)
(* and the byte order mark.                                                *)
Chars == {36, 2047, 8364, 1114111, 65279}
CharTexts == Words(Chars, 0..3)
Halves(x) == IF x < 65536 THEN <<x>> ELSE <<55296 + (x \div 1024) - 64, 56320 + (x % 1024)>>
Units(t) == FlattenSeq([i \in DOMAIN t |-> Halves(t[i])])

Stage(driver, facet, m) == [driver |-> driver, facet |-> facet, mode |-> m]
Job(stages, text, retry, m) ==
    [stages |-> stages, input |-> text, retry |-> retry, mode |-> m, middle |-> <<>>,
     first |-> stages[1].facet]

(* There and back, with each driver, facet and mode.                       *)
Rounds ==
    { Job(<<Stage(d[1], f, m), Stage(d[2], f, m)>>,
          IF f = "utf8_utf16" THEN Units(t) ELSE t, 0, m)
      : d \in {<<"to", "from">>, <<"put", "get">>},
        f \in {"utf8", "utf16", "utf8_utf16"},
        m \in {{}, {"consume"}, {"generate"}, {"consume", "generate"}, {"little"},
               {"little", "consume"}, {"little", "consume", "generate"}},
        t \in CharTexts }

(* The functions that try again: any octets, good or bad.                  *)
KnownLocally == (20013 :> <<214, 208>>) @@ (8364 :> <<128>>)
SomeOctets(lengths) == Words({36, 214, 208, 226, 130, 172, 255}, lengths)
Retries ==
    { Job(<<Stage("from", "utf8", {}), Stage("to", "local", {})>>, b, 1, {}) : b \in SomeOctets(0..4) }
    \cup { Job(<<Stage("from", "local", {}), Stage("to", "utf8", {})>>, b, 1, {}) : b \in SomeOctets(0..4) }
    \cup { Job(<<Stage("to", "local", {})>>, t, 1, {}) : t \in CharTexts }
    \cup { Job(<<Stage("from", "local", {})>>, t, 1, {}) : t \in SomeOctets(0..4) }
    \cup { Job(<<Stage("from", "utf8", {"consume"}), Stage("to", "local", {})>>,
               <<239, 187, 191>> \o b, 1, {"consume"}) : b \in SomeOctets(0..2) }

CvtJobs == Rounds \cup Retries
FirstJob == CHOOSE j \in Rounds : TRUE

Cvt == INSTANCE Codecvt WITH
          Jobs <- CvtJobs, ByteInc <- 8, ByteMax <- 16, WideInc <- 2, WideMax <- 4,
          Local <- KnownLocally, job <- v_job
One == INSTANCE Codecvt WITH
          Jobs <- {FirstJob}, ByteInc <- 8, ByteMax <- 16, WideInc <- 2, WideMax <- 4,
          Local <- KnownLocally, job <- v_job

-----------------------------------------------------------------------------
(* Payloads at each boundary of the header's length, one of them too large *)
(* for the buffer, and two illegal headers.                                *)
Payload(k) == [i \in 1..k |-> (i + k) % Base]
SomePayloads == {Payload(k) : k \in {0, 1, 2, 3, 4, 6}}
TooShort == {<<2, 1>>, <<3, 3, 0>>}

-----------------------------------------------------------------------------
iniVars   == <<file, store, comments, sets>>
u8Vars    == <<m_state, m_codepoint, octets, u_complete>>
aesVars   == <<a_job, w, a_state, round, doing>>
modeVars  == <<mode, Iv, wire, m_sent, lost, used, last>>
cvtVars   == <<v_job, in, pos, out, st, buf, status>>
allVars   == <<part, input, iniVars, digVars, u8Vars, aesVars, modeVars, vars, cvtVars>>

Pure == [strings |-> Texts, base64 |-> Sextets, des |-> Secrets]

(* One initial state is enough for the parts a behaviour is not of.        *)
AlgInit ==
    /\ part \in DOMAIN Pure \cup {"ini", "digest", "utf8", "aes", "modes", "dgram", "codecvt"}
    /\ Ini!Init /\ (part = "ini" \/ file = <<>>)
    /\ DigestInit
    /\ U8!Init
    /\ Rijndael!Init /\ (part = "aes" \/ a_job = CHOOSE j \in Vectors : TRUE)
    /\ Modes!Init /\ (part = "modes" \/ (mode = "ecb" /\ Iv.sender[1] = 0))
    /\ Init
    /\ IF part = "codecvt" THEN Cvt!Init ELSE One!Init
    /\ input \in (IF part \in DOMAIN Pure THEN Pure[part] ELSE {Empty})

AlgNext ==
    /\ UNCHANGED <<part, input>>
    /\ \/ part = "ini" /\ Ini!Next
          /\ UNCHANGED <<digVars, u8Vars, aesVars, modeVars, vars, cvtVars>>
       \/ part = "digest" /\ DigestNext
          /\ UNCHANGED <<iniVars, u8Vars, aesVars, modeVars, vars, cvtVars>>
       \/ part = "utf8" /\ U8!Next
          /\ UNCHANGED <<iniVars, digVars, aesVars, modeVars, vars, cvtVars>>
       \/ part = "aes" /\ Rijndael!Next
          /\ UNCHANGED <<iniVars, digVars, u8Vars, modeVars, vars, cvtVars>>
       \/ part = "modes" /\ Modes!Next
          /\ UNCHANGED <<iniVars, digVars, u8Vars, aesVars, vars, cvtVars>>
       \/ part = "dgram" /\ Next
          /\ UNCHANGED <<iniVars, digVars, u8Vars, aesVars, modeVars, cvtVars>>
       \/ part = "codecvt" /\ Cvt!Next
          /\ UNCHANGED <<iniVars, digVars, u8Vars, aesVars, modeVars, vars>>

AlgSpec == AlgInit /\ [][AlgNext]_allVars

-----------------------------------------------------------------------------
(* The string helpers do what their comments say, as the reference         *)
(* definitions of Strings put it; Base64 gives back what it was given.     *)
StringsAgree ==
    /\ part = "base64" => B64!Base64RoundTrip(input)
    /\ part = "strings" =>
      /\ Str!SplitJoins(input.s, input.t)
      /\ Str!ReplacesAgree(input.s, input.t, input.r)
      /\ Str!SearchesAgree(input.s, input.t)
      /\ Str!CaseIgnored(input.s, input.t)
      /\ Str!TrimsAgree(input.s)
      /\ Str!DuplicatesDrop(input.s, input.t)
      /\ Str!NamesHaveValues(input.s, Range(input.t), 4)

(* What was set is read back from the ini file, and the comments stay.     *)
SettingsAreKept == Ini!ReadsBack /\ Ini!CommentsStay

(* AES and DES are the standards' on their vectors and undo themselves;    *)
(* two objects in step read each other in every mode, a lost message does  *)
(* no more harm than the mode allows, and no counter comes twice.          *)
CiphersAgree ==
    /\ Rijndael!AesIsStandard /\ Rijndael!AesUndoes
    /\ Modes!InStepReads /\ Modes!LossIsLocal /\ Modes!CountersDiffer
    /\ part = "des" => Crypt!DesIsStandard /\ Crypt!DesRoundTrip(input.m, input.k)

(* Conversions: there and back is the identity, a bad text gives a prefix, *)
(* nothing throws out of a noexcept function, every call makes progress;   *)
(* the validator accepts just what is well formed.                         *)
TextsAgree ==
    /\ [](Cvt!RoundTrip /\ Cvt!NeverTerminates /\ Cvt!SpellsPrefix)
    /\ Cvt!EveryCallMoves
    /\ [](U8!TellsWellFormed /\ U8!CodePointRight)
=============================================================================
