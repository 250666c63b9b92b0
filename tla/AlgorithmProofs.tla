---------------------------- MODULE AlgorithmProofs ----------------------------
(***************************************************************************)
(* Dgram, for any payloads, any base of the digits and lengths of the      *)
(* header, and any buffer; and Digest, for any size of block, any length   *)
(* of a message and any chunks of it.                                      *)
(***************************************************************************)
EXTENDS Dgram, Digest, Integers, SequenceTheorems, WellFoundedInduction, TLAPS

-----------------------------------------------------------------------------
(***************************************************************************)
(* Numbers and their digits.  Induction is over sets of naturals.          *)
(***************************************************************************)
LEMMA LeastNatural ==
    ASSUME NEW T, T \subseteq Nat, T # {}
    PROVE  \E n \in T : \A m \in T : n <= m
<1> DEFINE R == OpToRel(<, Nat)
<1>1. IsWellFoundedOn(R, Nat)
  BY NatLessThanWellFounded
<1>2. \A y, x \in Nat : <<y, x>> \in R <=> y < x
  BY DEF OpToRel
<1> HIDE DEF R
<1>3. PICK x \in T : \A y \in T : ~ (<<y, x>> \in R)
  BY <1>1, WFMin
<1>4. ASSUME NEW y \in T PROVE x <= y
  <2>1. x \in Nat /\ y \in Nat /\ ~ (y < x)
    BY <1>2, <1>3
  <2> QED BY <2>1
<1> QED BY <1>4

LEMMA Induction ==
    ASSUME NEW S, 0 \in S, \A n \in Nat : n \in S => n + 1 \in S
    PROVE  Nat \subseteq S
<1> SUFFICES ASSUME Nat \ S # {} PROVE FALSE
  OBVIOUS
<1>1. PICK n \in Nat \ S : \A m \in Nat \ S : n <= m
  BY LeastNatural
<1>2. n - 1 \in Nat /\ n - 1 \in S
  BY <1>1
<1> QED BY <1>2, <1>1

(* The powers up to the n-th, as a table.                                  *)
Table(f, n) ==
    /\ f \in [0..n -> Nat \ {0}]
    /\ f[0] = 1
    /\ \A i \in 1..n : f[i] = Base * f[i - 1]

LEMMA BaseIs == Base \in Nat /\ Base >= 2
  BY SizeAssumption DEF Base

LEMMA TableExists == \A n \in Nat : \E f : Table(f, n)
<1> DEFINE S == {n \in Nat : \E f : Table(f, n)}
<1>1. 0 \in S
  <2>1. Table([i \in 0..0 |-> 1], 0)
    BY DEF Table
  <2> QED BY <2>1
<1>2. ASSUME NEW n \in Nat, n \in S PROVE n + 1 \in S
  <2>1. PICK f : Table(f, n)
    BY <1>2
  <2> DEFINE g == [i \in 0..(n + 1) |-> IF i <= n THEN f[i] ELSE Base * f[n]]
  <2>2. f[n] \in Nat \ {0}
    BY <2>1 DEF Table
  <2>3. Base * f[n] \in Nat \ {0}
    BY <2>2, BaseIs
  <2>4. g \in [0..(n + 1) -> Nat \ {0}]
    BY <2>1, <2>3 DEF Table
  <2>5. g[0] = 1
    BY <2>1 DEF Table
  <2>6. ASSUME NEW i \in 1..(n + 1) PROVE g[i] = Base * g[i - 1]
    <3>1. i - 1 \in 0..n
      OBVIOUS
    <3>2. g[i - 1] = f[i - 1]
      BY <3>1
    <3>3. CASE i <= n
      <4>1. g[i] = f[i] /\ i \in 1..n
        BY <3>3
      <4> HIDE DEF g
      <4> QED BY <4>1, <3>2, <2>1 DEF Table
    <3>4. CASE ~ (i <= n)
      <4>1. g[i] = Base * f[n] /\ i - 1 = n
        BY <3>4
      <4> HIDE DEF g
      <4> QED BY <4>1, <3>2
    <3> QED BY <3>3, <3>4
  <2> HIDE DEF g
  <2>7. Table(g, n + 1)
    BY <2>4, <2>5, <2>6 DEF Table
  <2> QED BY <2>7
<1> HIDE DEF S
<1>3. Nat \subseteq S
  BY <1>1, <1>2, Induction
<1> QED BY <1>3 DEF S

LEMMA TablesAgree ==
    ASSUME NEW n \in Nat, NEW m \in Nat, n <= m, NEW f, NEW g, Table(f, n), Table(g, m)
    PROVE  \A i \in 0..n : f[i] = g[i]
<1> DEFINE S == {i \in Nat : i <= n => f[i] = g[i]}
<1>1. 0 \in S
  BY DEF Table
<1>2. ASSUME NEW i \in Nat, i \in S PROVE i + 1 \in S
  <2> SUFFICES ASSUME i + 1 <= n PROVE f[i + 1] = g[i + 1]
    OBVIOUS
  <2>1. i + 1 \in 1..n /\ i + 1 \in 1..m /\ (i + 1) - 1 = i
    OBVIOUS
  <2>2. f[i] = g[i]
    BY <1>2
  <2>3. f[i + 1] = Base * f[i] /\ g[i + 1] = Base * g[i]
    BY <2>1 DEF Table
  <2> QED BY <2>2, <2>3
<1> HIDE DEF S
<1>3. Nat \subseteq S
  BY <1>1, <1>2, Induction
<1> QED BY <1>3 DEF S

LEMMA PowerIs ==
    /\ \A n \in Nat : Power[n] \in Nat \ {0}
    /\ Power[0] = 1
    /\ \A n \in Nat : Power[n + 1] = Base * Power[n]
<1> DEFINE F(n) == CHOOSE f : Table(f, n)
           G == [n \in Nat |-> F(n)[n]]
           Step(g) == [n \in Nat |-> IF n = 0 THEN 1 ELSE Base * g[n - 1]]
<1>1. \A n \in Nat : Table(F(n), n)
  BY TableExists
<1> HIDE DEF F
<1>2. G[0] = 1
  BY <1>1 DEF Table
<1>3. ASSUME NEW n \in Nat, n # 0 PROVE G[n] = Base * G[n - 1]
  <2>1. n - 1 \in Nat /\ n \in 1..n /\ n - 1 \in 0..(n - 1)
    BY <1>3
  <2>2. F(n)[n] = Base * F(n)[n - 1]
    BY <1>1, <2>1 DEF Table
  <2>3. Table(F(n - 1), n - 1) /\ Table(F(n), n) /\ n - 1 <= n
    BY <1>1, <2>1
  <2>4. \A i \in 0..(n - 1) : F(n - 1)[i] = F(n)[i]
    BY <2>1, <2>3, TablesAgree
  <2>5. F(n)[n - 1] = F(n - 1)[n - 1]
    BY <2>1, <2>4
  <2> QED BY <2>1, <2>2, <2>5
<1>4. G = Step(G)
  <2>1. \A n \in Nat : G[n] = Step(G)[n]
    BY <1>2, <1>3
  <2> QED BY <2>1
<1> HIDE DEF G
<1>5. Power = Step(Power)
  BY <1>4 DEF Power
<1>6. Power[0] = 1
  BY <1>5
<1>7. \A n \in Nat : Power[n + 1] = Base * Power[n]
  <2> TAKE n \in Nat
  <2>1. n + 1 \in Nat /\ n + 1 # 0 /\ (n + 1) - 1 = n
    OBVIOUS
  <2> QED BY <1>5, <2>1
<1> DEFINE S == {n \in Nat : Power[n] \in Nat \ {0}}
<1>8. 0 \in S
  BY <1>6
<1>9. ASSUME NEW n \in Nat, n \in S PROVE n + 1 \in S
  <2>1. Power[n + 1] = Base * Power[n]
    BY <1>7
  <2>2. Base * Power[n] \in Nat \ {0}
    BY <1>9, BaseIs
  <2> QED BY <2>1, <2>2
<1> HIDE DEF S
<1>10. Nat \subseteq S
  BY <1>8, <1>9, Induction
<1>11. \A n \in Nat : Power[n] \in Nat \ {0}
  BY <1>10 DEF S
<1> QED BY <1>6, <1>7, <1>11

(* Division.                                                               *)
LEMMA Division ==
    ASSUME NEW a \in Nat, NEW b \in Nat \ {0}
    PROVE  a \div b \in Nat /\ a % b \in 0..b - 1 /\ a = b * (a \div b) + (a % b)
  OBVIOUS

LEMMA QuotientIs ==
    ASSUME NEW a \in Nat, NEW b \in Nat \ {0}, NEW q \in Nat, NEW r \in 0..b - 1, a = b * q + r
    PROVE  a \div b = q
  OBVIOUS

LEMMA QuotientTwice ==
    ASSUME NEW a \in Nat, NEW b \in Nat \ {0}, NEW c \in Nat \ {0}
    PROVE  (a \div b) \div c = a \div (b * c)
<1> DEFINE q == a \div b   r == a % b   s == q \div c   t == q % c
<1>1. q \in Nat /\ r \in 0..b - 1 /\ a = b * q + r
  BY Division
<1>2. s \in Nat /\ t \in 0..c - 1 /\ q = c * s + t
  BY <1>1, Division
<1> HIDE DEF q, r, s, t
<1>3. b * c \in Nat \ {0}
  BY SMT
<1>4. b * t \in Nat /\ b * t <= b * (c - 1)
  BY <1>2
<1>5. b * (c - 1) = b * c - b
  BY SMT
<1>6. b * t + r \in 0..(b * c) - 1
  BY <1>1, <1>3, <1>4, <1>5
<1>7. a = (b * c) * s + (b * t + r)
  <2>1. b * q = b * (c * s) + b * t
    BY <1>2
  <2>2. b * (c * s) = (b * c) * s
    BY <1>2
  <2> QED BY <2>1, <2>2, <1>1, <1>2, <1>3, <1>4
<1>8. a \div (b * c) = s
  BY <1>2, <1>3, <1>6, <1>7, QuotientIs
<1> QED BY <1>8 DEF s, q

LEMMA QuotientIsLess ==
    ASSUME NEW a \in Nat, NEW b \in Nat \ {0}, NEW c \in Nat, a < b * c
    PROVE  a \div b < c
<1> DEFINE q == a \div b
<1>1. q \in Nat /\ a % b \in Nat /\ a = b * q + (a % b)
  BY Division
<1> HIDE DEF q
<1>2. SUFFICES ASSUME q >= c PROVE FALSE
  BY <1>1 DEF q
<1>3. b * q >= b * c
  BY <1>1, <1>2
<1> QED BY <1>1, <1>3

(* A number is known by its digits.                                        *)
Same(u, v, n) == \A i \in 1..n : (u \div Power[i - 1]) % Base = (v \div Power[i - 1]) % Base
Known(n) == \A u, v \in 0..Power[n] - 1 : Same(u, v, n) => u = v

LEMMA DigitsTell == \A n \in Nat : Known(n)
<1> DEFINE S == {n \in Nat : Known(n)}
<1>1. 0 \in S
  BY PowerIs DEF Known
<1>2. ASSUME NEW n \in Nat, Known(n), NEW u \in 0..Power[n + 1] - 1, NEW v \in 0..Power[n + 1] - 1,
             Same(u, v, n + 1)
      PROVE  u = v
  <2>1. Power[0] = 1 /\ Power[n] \in Nat \ {0} /\ Power[n + 1] = Base * Power[n]
        /\ Base \in Nat \ {0}
    BY PowerIs, BaseIs
  <2>2. u \in Nat /\ v \in Nat /\ u < Base * Power[n] /\ v < Base * Power[n]
    BY <2>1
  <2>3. u % Base = v % Base
    <3>1. 1 \in 1..n + 1 /\ 1 - 1 = 0
      OBVIOUS
    <3>2. (u \div Power[0]) % Base = (v \div Power[0]) % Base
      BY <1>2, <3>1 DEF Same
    <3>3. u \div 1 = u /\ v \div 1 = v
      BY <2>2
    <3> QED BY <2>1, <3>2, <3>3
  <2> DEFINE x == u \div Base   y == v \div Base
  <2>4. x \in 0..Power[n] - 1 /\ y \in 0..Power[n] - 1
    <3>1. x \in Nat /\ y \in Nat
      BY <2>1, <2>2, Division
    <3>2. x < Power[n] /\ y < Power[n]
      BY <2>1, <2>2, QuotientIsLess
    <3> QED BY <3>1, <3>2, <2>1
  <2>5. Same(x, y, n)
    <3> SUFFICES ASSUME NEW i \in 1..n
                 PROVE  (x \div Power[i - 1]) % Base = (y \div Power[i - 1]) % Base
      BY DEF Same
    <3>1. i - 1 \in Nat /\ i \in Nat /\ (i - 1) + 1 = i /\ i + 1 \in 1..n + 1 /\ (i + 1) - 1 = i
      OBVIOUS
    <3>2. Power[i - 1] \in Nat \ {0} /\ Power[i] = Base * Power[i - 1]
      BY <3>1, PowerIs
    <3>3. x \div Power[i - 1] = u \div Power[i] /\ y \div Power[i - 1] = v \div Power[i]
      BY <2>1, <2>2, <3>2, QuotientTwice
    <3>4. (u \div Power[i]) % Base = (v \div Power[i]) % Base
      BY <1>2, <3>1 DEF Same
    <3> HIDE DEF x, y
    <3> QED BY <3>3, <3>4
  <2> HIDE DEF x, y
  <2>6. x = y
    BY <1>2, <2>4, <2>5 DEF Known
  <2>7. u = Base * x + (u % Base) /\ v = Base * y + (v % Base)
    BY <2>1, <2>2, Division DEF x, y
  <2> QED BY <2>3, <2>6, <2>7
<1>3. \A n \in Nat : n \in S => n + 1 \in S
  BY <1>2 DEF Known
<1> HIDE DEF S
<1>4. Nat \subseteq S
  BY <1>1, <1>3, Induction
<1> QED BY <1>4 DEF S

LEMMA DigitsAre ==
    ASSUME NEW n \in Nat, NEW v \in Nat
    PROVE  Digits(v, n) \in Seq(Octet) /\ Len(Digits(v, n)) = n
<1>1. ASSUME NEW i \in 1..n PROVE (v \div Power[i - 1]) % Base \in Octet
  <2>1. Power[i - 1] \in Nat \ {0} /\ Base \in Nat \ {0}
    BY PowerIs, BaseIs
  <2>2. v \div Power[i - 1] \in Nat
    BY <2>1, Division
  <2> QED BY <2>1, <2>2, Division DEF Octet
<1>2. Digits(v, n) \in [1..n -> Octet]
  BY <1>1 DEF Digits
<1> HIDE DEF Digits
<1> QED BY <1>2

LEMMA ValueIs ==
    ASSUME NEW n \in Nat, NEW v \in 0..Power[n] - 1
    PROVE  ValueOf(Digits(v, n)) = v
<1>1. Power[n] \in Nat \ {0} /\ v \in Nat
  BY PowerIs
<1>2. Len(Digits(v, n)) = n
  BY <1>1, DigitsAre
<1>3. ASSUME NEW u \in 0..Power[n] - 1, Digits(u, n) = Digits(v, n) PROVE u = v
  <2>1. Same(u, v, n)
    <3> SUFFICES ASSUME NEW i \in 1..n
                 PROVE  (u \div Power[i - 1]) % Base = (v \div Power[i - 1]) % Base
      BY DEF Same
    <3>1. Digits(u, n)[i] = Digits(v, n)[i]
      BY <1>3
    <3> QED BY <3>1 DEF Digits
  <2> QED BY <2>1, DigitsTell DEF Known
<1> DEFINE s == Digits(v, n)
<1>4. s = Digits(v, n)
  OBVIOUS
<1> HIDE DEF s
<1>5. ValueOf(s) \in 0..Power[n] - 1 /\ Digits(ValueOf(s), n) = s
  BY <1>2, <1>4 DEF ValueOf
<1> QED BY <1>3, <1>4, <1>5

-----------------------------------------------------------------------------
(***************************************************************************)
(* A frame, and what dgram_match_role() makes of the beginning of one.     *)
(***************************************************************************)
(* Two sequences, one behind the other.                                    *)
LEMMA Joined ==
    ASSUME NEW s \in Seq(Octet), NEW t \in Seq(Octet)
    PROVE  /\ s \o t \in Seq(Octet) /\ Len(s \o t) = Len(s) + Len(t)
           /\ \A i \in 1 .. Len(s) : (s \o t)[i] = s[i]
           /\ \A i \in 1 .. Len(t) : (s \o t)[Len(s) + i] = t[i]
  BY ConcatProperties, LenProperties

LEMMA HeadedIs ==
    ASSUME NEW c \in Octet, NEW d \in Seq(Octet), NEW p \in Seq(Octet)
    PROVE  LET F == (<<c>> \o d) \o p
           IN  /\ F \in Seq(Octet)
               /\ Len(F) = 1 + Len(d) + Len(p)
               /\ F[1] = c
               /\ \A i \in 1..Len(d) : F[1 + i] = d[i]
               /\ \A i \in 1..Len(p) : F[1 + Len(d) + i] = p[i]
<1> DEFINE c1 == <<c>>
           h == c1 \o d
           F == h \o p
<1>1. c1 \in Seq(Octet) /\ Len(c1) = 1 /\ c1[1] = c
  OBVIOUS
<1> HIDE DEF c1
<1>2. /\ h \in Seq(Octet) /\ Len(h) = 1 + Len(d)
      /\ h[1] = c /\ \A i \in 1..Len(d) : h[1 + i] = d[i]
  <2>1. /\ h \in Seq(Octet) /\ Len(h) = Len(c1) + Len(d)
        /\ \A i \in 1..Len(c1) : h[i] = c1[i]
        /\ \A i \in 1..Len(d) : h[Len(c1) + i] = d[i]
    BY <1>1, Joined
  <2> HIDE DEF h
  <2> QED BY <1>1, <2>1
<1> HIDE DEF h
<1>3. /\ F \in Seq(Octet) /\ Len(F) = 1 + Len(d) + Len(p)
      /\ \A i \in 1..Len(h) : F[i] = h[i]
      /\ \A i \in 1..Len(p) : F[1 + Len(d) + i] = p[i]
  <2>1. /\ F \in Seq(Octet) /\ Len(F) = Len(h) + Len(p)
        /\ \A i \in 1..Len(h) : F[i] = h[i]
        /\ \A i \in 1..Len(p) : F[Len(h) + i] = p[i]
    BY <1>2, Joined
  <2> HIDE DEF F
  <2> QED BY <1>2, <2>1
<1> HIDE DEF F
<1>4. F[1] = c /\ \A i \in 1..Len(d) : F[1 + i] = d[i]
  BY <1>2, <1>3
<1>5. F = (<<c>> \o d) \o p
  BY DEF F, h, c1
<1> QED BY <1>3, <1>4, <1>5

(* The octet in front, and the digits behind it.                           *)
Lead(size) ==
    CASE size < Short -> size [] size >= Short /\ size <= UintMax -> Short [] OTHER -> Short + 1
Long(size) ==
    CASE size < Short -> 0 [] size >= Short /\ size <= UintMax -> Field [] OTHER -> Field8

FrameIsOf(F, p) ==
    /\ F \in Seq(Octet)
    /\ Len(F) = 1 + Long(Len(p)) + Len(p)
    /\ F[1] = Lead(Len(p))
    /\ Len(p) >= Short => \A i \in 1..Long(Len(p)) : F[1 + i] = Digits(Len(p), Long(Len(p)))[i]
    /\ \A i \in 1..Len(p) : F[1 + Long(Len(p)) + i] = p[i]

LEMMA FrameIs ==
    ASSUME NEW p \in Payloads
    PROVE  FrameIsOf(Frame(p), p) /\ p \in Seq(Octet) /\ Len(p) \in Nat
<1> DEFINE size == Len(p)
<1>1. p \in Seq(Octet) /\ size \in Nat /\ Short \in Nat /\ Field \in Nat /\ Field8 \in Nat
  BY PayloadAssumption, SizeAssumption
<1>2. Octet = 0..Short + 1 /\ UintMax \in Nat
  <2>1. Power[Field] \in Nat \ {0}
    BY <1>1, PowerIs
  <2> QED BY <1>1, <2>1 DEF Octet, Base, UintMax
<1>3. CASE size < Short
  <2>1. size \in Octet /\ <<>> \in Seq(Octet) /\ Len(<<>>) = 0
    BY <1>1, <1>2, <1>3
  <2>2. Lead(size) = size /\ Long(size) = 0
    BY <1>1, <1>3 DEF Lead, Long
  <2>3. Frame(p) = (<<size>> \o <<>>) \o p
    <3>1. <<size>> \o <<>> = <<size>>
      BY <2>1
    <3>2. HeadOf(size) = <<size>>
      BY <1>1, <1>3 DEF HeadOf
    <3> QED BY <3>1, <3>2 DEF Frame
  <2> HIDE DEF size
  <2>4. FrameIsOf(Frame(p), p)
    BY <1>1, <1>3, <2>1, <2>2, <2>3, HeadedIs DEF FrameIsOf, size
  <2> QED BY <2>4, <1>1
<1>4. ASSUME ~ (size < Short), NEW c \in Octet, NEW n \in Nat, HeadOf(size) = <<c>> \o Digits(size, n),
             Lead(size) = c, Long(size) = n
      PROVE  FrameIsOf(Frame(p), p)
  <2>1. Digits(size, n) \in Seq(Octet) /\ Len(Digits(size, n)) = n
    BY <1>1, DigitsAre
  <2>2. Frame(p) = (<<c>> \o Digits(size, n)) \o p
    BY <1>4 DEF Frame
  <2> DEFINE d == Digits(size, n)
  <2>3. d \in Seq(Octet) /\ Len(d) = n /\ Frame(p) = (<<c>> \o d) \o p
    BY <2>1, <2>2
  <2>4. Long(size) = n /\ Lead(size) = c /\ d = Digits(size, Long(size))
    BY <1>4
  <2> HIDE DEF d
  <2> QED BY <1>1, <2>3, <2>4, HeadedIs DEF FrameIsOf
<1>5. CASE size >= Short /\ size <= UintMax
  <2>1. Short \in Octet /\ ~ (size < Short)
    BY <1>1, <1>2, <1>5
  <2>2. HeadOf(size) = <<Short>> \o Digits(size, Field) /\ Lead(size) = Short /\ Long(size) = Field
    BY <2>1, <1>5 DEF HeadOf, Lead, Long
  <2> HIDE DEF size
  <2> QED BY <1>1, <1>4, <2>1, <2>2 DEF size
<1>6. CASE size > UintMax /\ size >= Short
  <2>1. Short + 1 \in Octet /\ ~ (size < Short) /\ ~ (size >= Short /\ size <= UintMax)
    BY <1>1, <1>2, <1>6
  <2>2. HeadOf(size) = <<Short + 1>> \o Digits(size, Field8) /\ Lead(size) = Short + 1 /\ Long(size) = Field8
    BY <2>1 DEF HeadOf, Lead, Long
  <2> HIDE DEF size
  <2> QED BY <1>1, <1>4, <2>1, <2>2 DEF size
<1> QED BY <1>1, <1>2, <1>3, <1>5, <1>6

(* s begins as the frame of p does.                                        *)
Begins(s, F) == \A i \in 1..Len(s) : i <= Len(F) => s[i] = F[i]

LEMMA MatchedIs ==
    ASSUME NEW p \in Payloads, NEW s \in Seq(Octet), Begins(s, Frame(p))
    PROVE  /\ Len(Frame(p)) \in Nat \ {0}
           /\ Matched(s) = IF Len(s) < Len(Frame(p)) THEN Partial ELSE Len(Frame(p))
<1> DEFINE F == Frame(p)  size == Len(p)  n == Long(Len(p))
<1>1. /\ F \in Seq(Octet) /\ size \in Nat /\ Len(F) = 1 + n + size /\ F[1] = Lead(size)
      /\ size >= Short => \A i \in 1..n : F[1 + i] = Digits(size, n)[i]
  BY FrameIs DEF FrameIsOf
<1>2. Short \in Nat /\ Field \in Nat /\ Field8 \in Nat /\ UintMax \in Nat /\ UintMax = Power[Field] - 1
      /\ size < Power[Field8] /\ Power[Field8] \in Nat /\ Power[Field] \in Nat
  <2>1. Power[Field] \in Nat \ {0} /\ Power[Field8] \in Nat
    BY SizeAssumption, PowerIs
  <2> QED BY <2>1, SizeAssumption, PayloadAssumption DEF UintMax
<1>3. n \in Nat /\ (size < Short => n = 0)
  BY <1>1, <1>2 DEF Long
<1>4. Begins(s, F)
  OBVIOUS
<1>5. CASE s = <<>>
  BY <1>1, <1>3, <1>5 DEF Matched
<1>6. ASSUME s # <<>> PROVE Len(s) \in Nat /\ Len(s) >= 1 /\ s[1] = Lead(size)
  <2>1. Len(s) \in Nat /\ Len(s) >= 1
    BY <1>6
  <2>2. s[1] = F[1]
    BY <1>1, <1>3, <1>4, <2>1 DEF Begins
  <2> QED BY <1>1, <2>1, <2>2
<1> HIDE DEF F, size, n
<1>7. ASSUME size >= Short, size < Power[n], s # <<>>, Len(s) - 1 >= n
      PROVE  ValueOf(SubSeq(s, 2, n + 1)) = size
  <2> DEFINE d == SubSeq(s, 2, n + 1)  g == Digits(size, n)
  <2>1. g \in Seq(Octet) /\ Len(g) = n
    BY <1>1, <1>3, DigitsAre
  <2>2. Len(s) \in Nat
    OBVIOUS
  <2>3. d \in Seq(Octet) /\ Len(d) = n /\ \A i \in 1..n : d[i] = s[1 + i]
    BY <1>3, <1>7, <2>2
  <2>4. \A i \in 1..n : g[i] = F[1 + i]
    BY <1>1, <1>7
  <2>5. ValueOf(g) = size
    <3>1. Power[n] \in Nat
      BY <1>3, PowerIs
    <3>2. size \in 0..Power[n] - 1
      BY <1>1, <1>7, <3>1
    <3> QED BY <1>3, <3>2, ValueIs
  <2> HIDE DEF d, g
  <2>6. \A i \in 1..n : s[1 + i] = F[1 + i]
    <3> TAKE i \in 1..n
    <3>1. 1 + i \in 1..Len(s) /\ 1 + i <= Len(F)
      BY <1>1, <1>3, <1>7, <2>2
    <3> QED BY <1>4, <3>1 DEF Begins
  <2>7. d = g
    BY <2>1, <2>3, <2>4, <2>6, SeqEqual
  <2> QED BY <2>5, <2>7 DEF d
<1>8. CASE s # <<>> /\ size < Short
  <2>1. Lead(size) = size
    BY <1>1, <1>2, <1>8 DEF Lead
  <2>2. s[1] = size /\ s[1] < Short /\ n = 0
    BY <1>3, <1>6, <1>8, <2>1
  <2>3. Matched(s) = IF Len(s) - 1 < s[1] THEN Partial ELSE 1 + s[1]
    BY <1>8, <2>2, <1>1, <1>2 DEF Matched
  <2>4. Matched(s) = IF Len(s) < Len(F) THEN Partial ELSE Len(F)
    BY <1>1, <1>6, <1>8, <2>2, <2>3
  <2> QED BY <1>1, <1>3, <2>4 DEF F
<1>9. CASE s # <<>> /\ size >= Short /\ size <= UintMax
  <2>1. Lead(size) = Short /\ n = Field
    BY <1>1, <1>2, <1>9 DEF Lead, Long, size, n
  <2>2. s[1] = Short /\ ~ (s[1] < Short) /\ ~ (s[1] > Short)
    BY <1>2, <1>6, <1>9, <2>1
  <2> DEFINE v == ValueOf(SubSeq(s, 2, Field + 1))
  <2>3. Matched(s) = CASE Len(s) - 1 < Field -> Partial
                      [] Len(s) - 1 >= Field /\ v < Short -> 0
                      [] OTHER -> IF Len(s) - 1 - Field < v THEN Partial ELSE 1 + Field + v
    BY <1>9, <2>2 DEF Matched
  <2>4. Len(s) - 1 >= Field => v = size
    <3>1. size < Power[n]
      BY <1>1, <1>2, <1>9, <2>1
    <3> QED BY <1>7, <1>9, <2>1, <3>1
  <2> HIDE DEF v
  <2>5. Matched(s) = IF Len(s) < Len(F) THEN Partial ELSE Len(F)
    <3>1. CASE Len(s) - 1 < Field
      BY <1>1, <1>2, <1>6, <1>9, <2>1, <2>3, <3>1
    <3>2. CASE Len(s) - 1 >= Field
      BY <1>1, <1>2, <1>6, <1>9, <2>1, <2>3, <2>4, <3>2
    <3> QED BY <1>2, <1>6, <1>9, <3>1, <3>2
  <2> QED BY <1>1, <1>3, <2>5 DEF F
<1>10. CASE s # <<>> /\ size >= Short /\ size > UintMax
  <2>1. Lead(size) = Short + 1 /\ n = Field8
    BY <1>1, <1>2, <1>10 DEF Lead, Long, size, n
  <2>2. s[1] = Short + 1 /\ ~ (s[1] < Short) /\ s[1] # Short /\ s[1] > Short
    BY <1>2, <1>6, <1>10, <2>1
  <2> DEFINE v == ValueOf(SubSeq(s, 2, Field8 + 1))
  <2>3. Matched(s) = CASE Len(s) - 1 < Field8 -> Partial
                      [] Len(s) - 1 >= Field8 /\ v < UintMax + 1 -> 0
                      [] OTHER -> IF Len(s) - 1 - Field8 < v THEN Partial ELSE 1 + Field8 + v
    BY <1>10, <2>2 DEF Matched
  <2>4. Len(s) - 1 >= Field8 => v = size
    <3>1. size < Power[n]
      BY <1>2, <2>1
    <3> QED BY <1>7, <1>10, <2>1, <3>1
  <2> HIDE DEF v
  <2>5. Matched(s) = IF Len(s) < Len(F) THEN Partial ELSE Len(F)
    <3>1. CASE Len(s) - 1 < Field8
      BY <1>1, <1>2, <1>6, <1>10, <2>1, <2>3, <3>1
    <3>2. CASE Len(s) - 1 >= Field8
      <4>1. v = size /\ UintMax \in Nat /\ size \in Nat /\ size > UintMax
        BY <1>1, <1>2, <1>10, <2>4, <3>2
      <4>2. ~ (Len(s) - 1 < Field8) /\ ~ (v < UintMax + 1)
        BY <1>2, <1>6, <1>10, <3>2, <4>1
      <4>3. Matched(s) = IF Len(s) - 1 - Field8 < size THEN Partial ELSE 1 + Field8 + size
        BY <2>3, <4>1, <4>2
      <4>4. Len(F) = 1 + Field8 + size
        BY <1>1, <2>1
      <4> QED BY <1>2, <1>6, <1>10, <4>1, <4>3, <4>4
    <3> QED BY <1>2, <1>6, <1>10, <3>1, <3>2
  <2> QED BY <1>1, <1>3, <2>5 DEF F
<1> QED BY <1>1, <1>2, <1>5, <1>8, <1>9, <1>10

LEMMA MessageIs ==
    ASSUME NEW p \in Payloads, NEW s \in Seq(Octet), Begins(s, Frame(p)), Len(s) >= Len(Frame(p))
    PROVE  Message(s, Len(Frame(p))) = p
<1> DEFINE F == Frame(p)  size == Len(p)  n == Long(Len(p))
<1>1. /\ F \in Seq(Octet) /\ size \in Nat /\ Len(F) = 1 + n + size /\ F[1] = Lead(size)
      /\ \A i \in 1..size : F[1 + n + i] = p[i]
      /\ p \in Seq(Octet)
  BY FrameIs DEF FrameIsOf
<1>2. Short \in Nat /\ Field \in Nat /\ Field8 \in Nat /\ UintMax \in Nat
  <2>1. Power[Field] \in Nat \ {0}
    BY SizeAssumption, PowerIs
  <2> QED BY <2>1, SizeAssumption DEF UintMax
<1>3. n \in Nat
  BY <1>1, <1>2 DEF Long
<1>4. Begins(s, F) /\ Len(s) \in Nat /\ Len(s) >= Len(F)
  OBVIOUS
<1> HIDE DEF F
<1>5. s[1] = Lead(size)
  BY <1>1, <1>3, <1>4 DEF Begins
<1>6. (CASE s[1] < Short -> 2 [] s[1] = Short -> 2 + Field [] OTHER -> 2 + Field8) = 2 + n
  <2>1. CASE size < Short
    <3>1. Lead(size) = size /\ Long(size) = 0
      BY <1>1, <1>2, <2>1 DEF Lead, Long
    <3>2. s[1] = size /\ n = 0
      BY <1>5, <3>1
    <3> HIDE DEF n
    <3> QED BY <1>1, <1>2, <2>1, <3>2
  <2>2. CASE size >= Short /\ size <= UintMax
    <3>1. Lead(size) = Short /\ Long(size) = Field
      BY <1>1, <1>2, <2>2 DEF Lead, Long
    <3>2. s[1] = Short /\ n = Field
      BY <1>5, <3>1
    <3> HIDE DEF n
    <3> QED BY <1>1, <1>2, <2>2, <3>2
  <2>3. CASE size >= Short /\ size > UintMax
    <3>1. Lead(size) = Short + 1 /\ Long(size) = Field8
      BY <1>1, <1>2, <2>3 DEF Lead, Long
    <3>2. s[1] = Short + 1 /\ n = Field8
      BY <1>5, <3>1
    <3> HIDE DEF n
    <3> QED BY <1>1, <1>2, <2>3, <3>2
  <2> QED BY <1>1, <1>2, <2>1, <2>2, <2>3
<1>7. Message(s, Len(F)) = SubSeq(s, 2 + n, Len(F))
  BY <1>6 DEF Message
<1> HIDE DEF n, size
<1> DEFINE q == SubSeq(s, 2 + n, Len(F))
<1>b. Len(s) \in Nat /\ Len(F) \in Nat /\ Len(F) <= Len(s) /\ \A i \in 1..Len(s) : s[i] \in Octet
  BY <1>1, <1>3, <1>4
<1>c. q = [i \in 1..size |-> s[1 + n + i]]
  <2>1. q = [i \in 1..(Len(F) - (2 + n) + 1) |-> s[i + (2 + n) - 1]]
    BY <1>3, <1>b
  <2>2. Len(F) - (2 + n) + 1 = size /\ \A i \in 1..size : i + (2 + n) - 1 = 1 + n + i
    BY <1>1, <1>3
  <2> QED BY <2>1, <2>2
<1> HIDE DEF q
<1>8. q \in Seq(Octet) /\ Len(q) = size /\ \A i \in 1..size : q[i] = s[1 + n + i]
  <2>1. \A i \in 1..size : s[1 + n + i] \in Octet
    <3> TAKE i \in 1..size
    <3>1. 1 + n + i \in 1..Len(s)
      BY <1>1, <1>3, <1>b
    <3> QED BY <1>b, <3>1
  <2>2. q \in [1..size -> Octet]
    BY <1>c, <2>1
  <2>3. q \in Seq(Octet) /\ Len(q) = size
    BY <1>1, <2>2, SeqDef
  <2> QED BY <1>c, <2>3
<1>9. \A i \in 1..size : s[1 + n + i] = p[i]
  <2> TAKE i \in 1..size
  <2>1. 1 + n + i \in 1..Len(s) /\ 1 + n + i <= Len(F)
    BY <1>1, <1>3, <1>4
  <2>2. s[1 + n + i] = F[1 + n + i]
    BY <1>4, <2>1 DEF Begins
  <2> QED BY <1>1, <2>2
<1>10. q = p
  BY <1>1, <1>8, <1>9 DEF size
<1> QED BY <1>7, <1>10 DEF q, F

-----------------------------------------------------------------------------
(***************************************************************************)
(* FramesAreMessages is not inductive.  What is under way, in the buffer   *)
(* and on the wire, is the frames of the messages that were sent and have  *)
(* not been fired, one behind the other: there are places at[i], counted   *)
(* from the first octet that was ever sent, at which the i-th frame ends   *)
(* (Marks), and between two of them the frame stands (Holds).  Behind the  *)
(* last of them is nothing, or the beginning of a frame whose write failed *)
(* (Remains).  A peer that sends something else is promised nothing.       *)
(***************************************************************************)
Pending == Data \o stream
Unfired == Len(fired) + 1 .. Len(sent)

BufferOK ==
    /\ sent \in Seq(Payloads) /\ fired \in Seq(Payloads)
    /\ stream \in Seq(Octet) /\ mem \in Seq(Octet)
    /\ wpos = Len(mem) /\ rpos \in 0..wpos /\ wpos - rpos <= MaxBuffer /\ cap \in Nat
    /\ peer \in {"up", "failed"} /\ conn \in {"up", "not_found", "eof"}

Marks(at) ==
    /\ at \in [0..Len(sent) -> Nat]
    /\ \A i \in 1..Len(sent) : at[i] = at[i - 1] + Len(Frame(sent[i]))
    /\ \A i, j \in 0..Len(sent) : i <= j => at[i] <= at[j]

(* Where the i-th frame begins in what is under way, and the rest.         *)
Begin(at, i) == at[i - 1] - at[Len(fired)]
Rest(at) == Len(Pending) - (at[Len(sent)] - at[Len(fired)])

Holds(at) ==
    \A i \in Unfired : \A x \in 1..Len(Frame(sent[i])) :
        Pending[Begin(at, i) + x] = Frame(sent[i])[x]

Remains(at) ==
    /\ Rest(at) >= 0
    /\ peer = "up" => Rest(at) = 0
    /\ peer = "failed" => \E p \in Payloads :
          /\ Rest(at) < Len(Frame(p))
          /\ \A x \in 1..Rest(at) : Pending[at[Len(sent)] - at[Len(fired)] + x] = Frame(p)[x]

Framed(at) == Marks(at) /\ Holds(at) /\ Remains(at)

FrameInv ==
    peer # "faulty" => /\ BufferOK /\ FramesAreMessages /\ LegalStaysUp
                       /\ \E at : Framed(at)

-----------------------------------------------------------------------------
LEMMA SuffixIs ==
    ASSUME NEW s \in Seq(Octet), NEW r \in 0..Len(s)
    PROVE  /\ SubSeq(s, r + 1, Len(s)) \in Seq(Octet)
           /\ Len(SubSeq(s, r + 1, Len(s))) = Len(s) - r
           /\ \A i \in 1..(Len(s) - r) : SubSeq(s, r + 1, Len(s))[i] = s[r + i]
<1>1. Len(s) \in Nat
  OBVIOUS
<1> QED BY <1>1

LEMMA PendingIs ==
    ASSUME BufferOK
    PROVE  /\ Data \in Seq(Octet) /\ Len(Data) = Size /\ Size \in 0..MaxBuffer
           /\ \A i \in 1..Size : Data[i] = mem[rpos + i]
           /\ Pending \in Seq(Octet) /\ Len(Pending) = Size + Len(stream)
           /\ \A i \in 1..Size : Pending[i] = Data[i]
           /\ \A i \in 1..Len(stream) : Pending[Size + i] = stream[i]
<1>1. /\ stream \in Seq(Octet) /\ mem \in Seq(Octet) /\ Len(mem) = wpos /\ rpos \in 0..Len(mem)
      /\ Size = wpos - rpos /\ wpos - rpos <= MaxBuffer /\ MaxBuffer \in Nat
  BY SizeAssumption DEF BufferOK, Size
<1>2. Data = SubSeq(mem, rpos + 1, wpos) /\ Pending = Data \o stream
  BY DEF Data, Pending
<1>3. Size \in 0..MaxBuffer
  <2>1. Len(mem) \in Nat
    BY <1>1
  <2> QED BY <1>1, <2>1
<1>4. Size = Len(mem) - rpos /\ Data = SubSeq(mem, rpos + 1, Len(mem))
  BY <1>1, <1>2
<1>5. /\ Data \in Seq(Octet) /\ Len(Data) = Size
      /\ \A i \in 1..Size : Data[i] = mem[rpos + i]
  BY <1>1, <1>4, SuffixIs
<1>6. /\ Pending \in Seq(Octet) /\ Len(Pending) = Len(Data) + Len(stream)
      /\ \A i \in 1..Len(Data) : Pending[i] = Data[i]
      /\ \A i \in 1..Len(stream) : Pending[Len(Data) + i] = stream[i]
  <2>1. stream \in Seq(Octet) /\ Data \in Seq(Octet) /\ Pending = Data \o stream
    BY <1>1, <1>2, <1>5
  <2> QED BY <2>1, Joined
<1> QED BY <1>3, <1>5, <1>6

(* ... and after a step.                                                   *)
LEMMA PendingBecomes ==
    ASSUME BufferOK'
    PROVE  /\ Data' \in Seq(Octet) /\ Len(Data') = Size' /\ Size' \in 0..MaxBuffer
           /\ \A i \in 1..Size' : Data'[i] = mem'[rpos' + i]
           /\ Pending' \in Seq(Octet) /\ Len(Pending') = Size' + Len(stream')
           /\ \A i \in 1..Size' : Pending'[i] = Data'[i]
           /\ \A i \in 1..Len(stream') : Pending'[Size' + i] = stream'[i]
<1>1. /\ stream' \in Seq(Octet) /\ mem' \in Seq(Octet) /\ Len(mem') = wpos' /\ rpos' \in 0..Len(mem')
      /\ Size' = wpos' - rpos' /\ wpos' - rpos' <= MaxBuffer /\ MaxBuffer \in Nat
  BY SizeAssumption DEF BufferOK, Size
<1>2. Data' = SubSeq(mem', rpos' + 1, wpos') /\ Pending' = Data' \o stream'
  BY DEF Data, Pending
<1>3. Size' \in 0..MaxBuffer
  <2>1. Len(mem') \in Nat
    BY <1>1
  <2> QED BY <1>1, <2>1
<1>4. Size' = Len(mem') - rpos' /\ Data' = SubSeq(mem', rpos' + 1, Len(mem'))
  BY <1>1, <1>2
<1>5. /\ Data' \in Seq(Octet) /\ Len(Data') = Size'
      /\ \A i \in 1..Size' : Data'[i] = mem'[rpos' + i]
  BY <1>1, <1>4, SuffixIs
<1>6. /\ Pending' \in Seq(Octet) /\ Len(Pending') = Len(Data') + Len(stream')
      /\ \A i \in 1..Len(Data') : Pending'[i] = Data'[i]
      /\ \A i \in 1..Len(stream') : Pending'[Len(Data') + i] = stream'[i]
  <2>1. stream' \in Seq(Octet) /\ Data' \in Seq(Octet) /\ Pending' = Data' \o stream'
    BY <1>1, <1>2, <1>5
  <2> QED BY <2>1, Joined
<1> QED BY <1>3, <1>5, <1>6

LEMMA FrameLength ==
    ASSUME NEW p \in Payloads
    PROVE  Frame(p) \in Seq(Octet) /\ Len(Frame(p)) \in Nat \ {0}
<1>1. Frame(p) \in Seq(Octet) /\ Len(Frame(p)) = 1 + Long(Len(p)) + Len(p) /\ Len(p) \in Nat
  BY FrameIs DEF FrameIsOf
<1>2. Long(Len(p)) \in Nat
  BY SizeAssumption DEF Long
<1> QED BY <1>1, <1>2

(* What dgram_match_role() finds, as long as the peer keeps to the format. *)
NextFrame == Len(Frame(sent[Len(fired) + 1]))

LEMMA MatchedNow ==
    ASSUME BufferOK, FramesAreMessages, NEW at, Framed(at)
    PROVE  \/ /\ Len(fired) < Len(sent) /\ NextFrame \in Nat \ {0}
              /\ Matched(Data) = IF Size < NextFrame THEN Partial ELSE NextFrame
              /\ sent[Len(fired) + 1] \in Payloads
              /\ Begins(Data, Frame(sent[Len(fired) + 1]))
              /\ peer = "up" \/ peer = "failed"
              /\ Size + Len(stream) >= NextFrame
           \/ /\ Len(fired) = Len(sent)
              /\ Matched(Data) = Partial
              /\ peer = "up" => Size + Len(stream) = 0
<1> DEFINE f == Len(fired)  m == Len(sent)
<1>1. f \in Nat /\ m \in Nat /\ f <= m /\ sent \in Seq(Payloads) /\ Len(stream) \in Nat
  BY DEF BufferOK, FramesAreMessages
<1>2. /\ at \in [0..m -> Nat]
      /\ \A i \in 1..m : at[i] = at[i - 1] + Len(Frame(sent[i]))
      /\ \A i, j \in 0..m : i <= j => at[i] <= at[j]
  BY DEF Framed, Marks
<1>3. /\ Data \in Seq(Octet) /\ Len(Data) = Size /\ Size \in 0..MaxBuffer
      /\ Len(Pending) = Size + Len(stream) /\ \A i \in 1..Size : Pending[i] = Data[i]
  BY PendingIs
<1> HIDE DEF f, m
<1>4. CASE f < m
  <2>1. f + 1 \in 1..m /\ f \in 0..m /\ f + 1 \in 0..m /\ m \in 0..m /\ (f + 1) - 1 = f
    BY <1>1, <1>4
  <2> DEFINE p == sent[f + 1]
  <2>2. p \in Payloads
    BY <1>1, <2>1 DEF m
  <2>3. Len(Frame(p)) \in Nat \ {0}
    BY <2>2, FrameLength
  <2>4. at[f] \in Nat /\ at[f + 1] = at[f] + Len(Frame(p)) /\ at[m] \in Nat /\ at[f + 1] <= at[m]
    BY <1>1, <1>2, <1>4, <2>1
  <2>5. \A x \in 1..Len(Frame(p)) : Pending[x] = Frame(p)[x]
    <3>1. f + 1 \in Unfired
      BY <1>1, <1>4, <2>1 DEF Unfired, f, m
    <3>2. Begin(at, f + 1) = 0
      BY <2>1, <2>4 DEF Begin, f
    <3> QED BY <3>1, <3>2 DEF Framed, Holds
  <2>6. Begins(Data, Frame(p))
    <3> SUFFICES ASSUME NEW i \in 1..Size, i <= Len(Frame(p)) PROVE Data[i] = Frame(p)[i]
      BY <1>3 DEF Begins
    <3>1. i \in 1..Len(Frame(p))
      BY <1>3, <2>3
    <3> QED BY <1>3, <2>5, <3>1
  <2>7. Matched(Data) = IF Len(Data) < Len(Frame(p)) THEN Partial ELSE Len(Frame(p))
    BY <1>3, <2>2, <2>6, MatchedIs
  <2>8. Size + Len(stream) >= Len(Frame(p))
    <3>1. Rest(at) >= 0
      BY DEF Framed, Remains
    <3>2. Rest(at) = Size + Len(stream) - (at[m] - at[f])
      <4>1. Rest(at) = Len(Pending) - (at[m] - at[f])
        BY Zenon DEF Rest, f, m
      <4>2. Len(Pending) = Size + Len(stream) /\ Size \in Nat /\ Len(stream) \in Nat
        BY <1>1, <1>3
      <4> DEFINE k == at[m] - at[f]
      <4>3. k \in Int /\ Rest(at) = Len(Pending) - k
        BY <2>4, <4>1
      <4> HIDE DEF k
      <4>4. Rest(at) = Size + Len(stream) - k
        BY <4>2, <4>3
      <4> QED BY <4>4 DEF k
    <3> QED BY <1>1, <1>3, <2>3, <2>4, <3>1, <3>2
  <2>9. NextFrame = Len(Frame(p))
    BY DEF NextFrame, f
  <2>10. peer = "up" \/ peer = "failed"
    BY DEF BufferOK
  <2> QED BY <1>3, <1>4, <2>2, <2>3, <2>6, <2>7, <2>8, <2>9, <2>10 DEF f, m
<1>5. CASE f = m
  <2>1. Rest(at) = Size + Len(stream) - (at[m] - at[f]) /\ at[m] \in Nat /\ at[f] = at[m]
    <3>1. at[m] \in Nat /\ at[f] = at[m]
      <4>1. m \in 0..m
        BY <1>1
      <4>2. at \in [0..m -> Nat]
        BY <1>2
      <4> QED BY <1>5, <4>1, <4>2
    <3>2. Rest(at) = Size + Len(stream) - (at[m] - at[f])
      <4>1. Rest(at) = Len(Pending) - (at[m] - at[f])
        BY Zenon DEF Rest, f, m
      <4>2. Len(Pending) = Size + Len(stream) /\ Size \in Nat /\ Len(stream) \in Nat
        BY <1>1, <1>3
      <4> DEFINE k == at[m] - at[f]
      <4>3. k \in Int /\ Rest(at) = Len(Pending) - k
        BY <3>1, <4>1
      <4> HIDE DEF k
      <4>4. Rest(at) = Size + Len(stream) - k
        BY <4>2, <4>3
      <4> QED BY <4>4 DEF k
    <3> QED BY <3>1, <3>2
  <2>2. Rest(at) = Size + Len(stream)
    BY <1>1, <1>3, <2>1
  <2>3. peer = "up" => Size + Len(stream) = 0
    BY <2>2 DEF Framed, Remains
  <2>4. Matched(Data) = Partial
    <3>1. CASE peer = "up"
      <4>1. Len(Data) = 0
        BY <1>1, <1>3, <2>3, <3>1
      <4>2. Data = <<>>
        BY <1>3, <4>1
      <4> QED BY <4>2 DEF Matched
    <3>2. CASE peer = "failed"
      <4>1. PICK p \in Payloads :
               /\ Rest(at) < Len(Frame(p))
               /\ \A x \in 1..Rest(at) : Pending[at[Len(sent)] - at[Len(fired)] + x] = Frame(p)[x]
        BY <3>2 DEF Framed, Remains
      <4>2. Len(Frame(p)) \in Nat
        BY FrameLength
      <4>3. Len(Data) < Len(Frame(p))
        BY <1>1, <1>3, <2>2, <4>1, <4>2
      <4>4. Begins(Data, Frame(p))
        <5> SUFFICES ASSUME NEW i \in 1..Size PROVE Data[i] = Frame(p)[i]
          BY <1>3 DEF Begins
        <5>1. i \in 1..Rest(at)
          BY <1>1, <1>3, <2>2
        <5>2. at[Len(sent)] - at[Len(fired)] + i = i
          BY <1>5, <2>1 DEF f, m
        <5>3. Pending[i] = Frame(p)[i]
          BY <4>1, <5>1, <5>2
        <5> QED BY <1>3, <5>3
      <4> QED BY <1>3, <4>3, <4>4, MatchedIs
    <3> QED BY <3>1, <3>2 DEF BufferOK
  <2> QED BY <1>5, <2>3, <2>4 DEF f, m
<1> QED BY <1>1, <1>4, <1>5

-----------------------------------------------------------------------------
(***************************************************************************)
(* The steps.                                                              *)
(***************************************************************************)
LEMMA InitFramed == Init => FrameInv
<1> SUFFICES ASSUME Init PROVE FrameInv
  OBVIOUS
<1>1. BufferOK
  BY SizeAssumption DEF Init, BufferOK
<1>2. FramesAreMessages
  BY DEF Init, FramesAreMessages
<1>3. LegalStaysUp
  BY DEF Init, LegalStaysUp
<1>4. Framed([i \in 0..0 |-> 0])
  <2> DEFINE at == [i \in 0..0 |-> 0]
  <2>1. sent = <<>> /\ fired = <<>> /\ Len(sent) = 0 /\ Len(fired) = 0 /\ at[0] = 0 /\ at \in [0..0 -> Nat]
        /\ stream = <<>> /\ wpos = 0 /\ rpos = 0 /\ peer = "up"
    BY DEF Init
  <2>2. Len(Pending) = 0
    BY <1>1, <2>1, PendingIs DEF Size
  <2> HIDE DEF at
  <2>3. Marks(at)
    BY <2>1 DEF Marks
  <2>4. Unfired = {}
    BY <2>1 DEF Unfired
  <2>5. Rest(at) = 0
    BY <2>1, <2>2 DEF Rest
  <2> QED BY <2>1, <2>3, <2>4, <2>5 DEF Framed, Holds, Remains, at
<1> QED BY <1>1, <1>2, <1>3, <1>4 DEF FrameInv

(* The wire gets longer at its end.                                        *)
LEMMA WireGrows ==
    ASSUME BufferOK, NEW e \in Seq(Octet), stream' = stream \o e, UNCHANGED <<mem, rpos, wpos, cap, conn>>,
           fired' \in Seq(Payloads), sent' \in Seq(Payloads), peer' \in {"up", "failed"}
    PROVE  /\ BufferOK'
           /\ Len(Pending') = Len(Pending) + Len(e) /\ Len(Pending) \in Nat /\ Len(e) \in Nat
           /\ \A i \in 1..Len(Pending) : Pending'[i] = Pending[i]
           /\ \A i \in 1..Len(e) : Pending'[Len(Pending) + i] = e[i]
<1>1. /\ stream \in Seq(Octet) /\ stream' \in Seq(Octet) /\ Len(stream') = Len(stream) + Len(e)
      /\ \A i \in 1..Len(stream) : stream'[i] = stream[i]
      /\ \A i \in 1..Len(e) : stream'[Len(stream) + i] = e[i]
  <2>1. stream \in Seq(Octet) /\ stream' = stream \o e
    BY DEF BufferOK
  <2> QED BY <2>1, Joined
<1>2. BufferOK'
  BY <1>1 DEF BufferOK
<1>3. Data' = Data /\ Size' = Size
  BY DEF Data, Size
<1>4. /\ Size \in Nat /\ Len(Pending) = Size + Len(stream) /\ \A i \in 1..Size : Pending[i] = Data[i]
      /\ \A i \in 1..Len(stream) : Pending[Size + i] = stream[i]
  BY PendingIs
<1>5. /\ Len(Pending') = Size + Len(stream') /\ \A i \in 1..Size : Pending'[i] = Data[i]
      /\ \A i \in 1..Len(stream') : Pending'[Size + i] = stream'[i]
  BY <1>2, <1>3, PendingBecomes
<1> DEFINE P == Pending  Q == Pending'
<1>6. Len(stream) \in Nat /\ Len(e) \in Nat
  BY <1>1
<1> HIDE DEF P, Q
<1>7. \A i \in 1..Len(P) : Q[i] = P[i]
  <2> TAKE i \in 1..Len(P)
  <2>1. CASE i <= Size
    <3>1. i \in 1..Size
      BY <1>4, <1>6, <2>1 DEF P
    <3>2. P[i] = Data[i]
      BY <1>4, <3>1 DEF P
    <3>3. Q[i] = Data[i]
      BY <1>5, <3>1 DEF Q
    <3> QED BY <3>2, <3>3
  <2>2. CASE ~ (i <= Size)
    <3>1. i - Size \in 1..Len(stream) /\ i - Size \in 1..Len(stream') /\ Size + (i - Size) = i
      BY <1>1, <1>4, <1>6, <2>2 DEF P
    <3>2. Pending[Size + (i - Size)] = stream[i - Size]
      BY <1>4, <3>1
    <3>3. Pending'[Size + (i - Size)] = stream'[i - Size]
      BY <1>5, <3>1
    <3> QED BY <1>1, <3>1, <3>2, <3>3 DEF P, Q
  <2> QED BY <2>1, <2>2
<1>8. \A i \in 1..Len(e) : Q[Len(P) + i] = e[i]
  <2> TAKE i \in 1..Len(e)
  <2>1. Len(stream) + i \in 1..Len(stream') /\ Size + (Len(stream) + i) = Len(P) + i
    BY <1>1, <1>4, <1>6 DEF P
  <2>2. Pending'[Size + (Len(stream) + i)] = stream'[Len(stream) + i]
    BY <1>5, <2>1
  <2> QED BY <1>1, <2>1, <2>2 DEF Q
<1> QED BY <1>1, <1>2, <1>4, <1>5, <1>6, <1>7, <1>8 DEF P, Q

(* The frames that have not been fired lie within what is under way.       *)
LEMMA MarksAre ==
    ASSUME BufferOK, FramesAreMessages, NEW at, Framed(at)
    PROVE  /\ Len(fired) \in Nat /\ Len(sent) \in Nat /\ Len(fired) <= Len(sent)
           /\ Len(Pending) \in Nat
           /\ at \in [0..Len(sent) -> Nat] /\ at[Len(fired)] <= at[Len(sent)]
           /\ at[Len(fired)] \in Nat /\ at[Len(sent)] \in Nat
           /\ at[Len(sent)] - at[Len(fired)] + Rest(at) = Len(Pending) /\ Rest(at) \in Nat
<1>1. Len(fired) \in Nat /\ Len(sent) \in Nat /\ Len(fired) <= Len(sent) /\ Len(Pending) \in Nat
  <2>1. Len(Pending) \in Nat
    BY PendingIs
  <2> QED BY <2>1 DEF BufferOK, FramesAreMessages
<1>2. at \in [0..Len(sent) -> Nat] /\ \A i, j \in 0..Len(sent) : i <= j => at[i] <= at[j]
  BY DEF Framed, Marks
<1>3. Len(fired) \in 0..Len(sent) /\ Len(sent) \in 0..Len(sent)
  BY <1>1
<1>4. at[Len(fired)] \in Nat /\ at[Len(sent)] \in Nat /\ at[Len(fired)] <= at[Len(sent)]
  BY <1>1, <1>2, <1>3
<1>5. Rest(at) >= 0
  BY DEF Framed, Remains
<1>6. Rest(at) = Len(Pending) - (at[Len(sent)] - at[Len(fired)])
  BY DEF Rest
<1>7. at[Len(sent)] - at[Len(fired)] + Rest(at) = Len(Pending) /\ Rest(at) \in Nat
  BY <1>1, <1>4, <1>5, <1>6
<1> QED BY <1>1, <1>2, <1>4, <1>7

LEMMA Inside ==
    ASSUME BufferOK, FramesAreMessages, NEW at, Framed(at), NEW i \in Unfired,
           NEW x \in 1..Len(Frame(sent[i]))
    PROVE  /\ sent[i] \in Payloads /\ i \in 1..Len(sent) /\ i - 1 \in Len(fired)..Len(sent) /\ i \in Nat
           /\ at[i - 1] \in Nat /\ at[i] \in Nat /\ at[Len(fired)] <= at[i - 1]
           /\ at[i] = at[i - 1] + Len(Frame(sent[i])) /\ at[i] <= at[Len(sent)]
           /\ Begin(at, i) + x \in 1..(at[Len(sent)] - at[Len(fired)])
           /\ Begin(at, i) + x \in 1..Len(Pending)
           /\ Pending[Begin(at, i) + x] = Frame(sent[i])[x]
<1> DEFINE f == Len(fired)  m == Len(sent)
<1>1. /\ f \in Nat /\ m \in Nat /\ f <= m /\ Len(Pending) \in Nat /\ Rest(at) \in Nat
      /\ at[f] \in Nat /\ at[m] \in Nat /\ at[m] - at[f] + Rest(at) = Len(Pending)
  BY MarksAre
<1>2. i \in f + 1 .. m
  BY DEF Unfired
<1>3. sent[i] \in Payloads
  BY <1>1, <1>2 DEF BufferOK
<1>4. Len(Frame(sent[i])) \in Nat
  BY <1>3, FrameLength
<1>5. Begin(at, i) = at[i - 1] - at[f]
  BY DEF Begin
<1>6. Pending[Begin(at, i) + x] = Frame(sent[i])[x]
  BY DEF Framed, Holds
<1>7. /\ at \in [0..m -> Nat]
      /\ \A k \in 1..m : at[k] = at[k - 1] + Len(Frame(sent[k]))
      /\ \A k, j \in 0..m : k <= j => at[k] <= at[j]
  BY DEF Framed, Marks
<1> HIDE DEF f, m
<1>8. /\ i \in Nat /\ i \in 1..m /\ i \in 0..m /\ i - 1 \in 0..m /\ i - 1 \in f..m /\ f \in 0..m /\ m \in 0..m
      /\ f <= i - 1 /\ i <= m
  BY <1>1, <1>2
<1>9. at[i - 1] \in Nat /\ at[i] \in Nat /\ at[i] = at[i - 1] + Len(Frame(sent[i]))
      /\ at[f] <= at[i - 1] /\ at[i] <= at[m]
  BY <1>7, <1>8
<1>10. x \in Nat /\ 1 <= x /\ x <= Len(Frame(sent[i]))
  BY <1>4
<1>11. Begin(at, i) + x \in 1..(at[m] - at[f]) /\ Begin(at, i) + x \in 1..Len(Pending)
  <2> DEFINE a == at[f]  b == at[i - 1]  c == at[i]  d == at[m]  k == Len(Frame(sent[i]))  r == Rest(at)
  <2>1. /\ a \in Nat /\ b \in Nat /\ c \in Nat /\ d \in Nat /\ k \in Nat /\ r \in Nat
        /\ c = b + k /\ a <= b /\ c <= d /\ x \in Nat /\ 1 <= x /\ x <= k
    BY <1>1, <1>4, <1>9, <1>10
  <2>2. Begin(at, i) = b - a /\ Len(Pending) = d - a + r
    BY <1>1, <1>5
  <2> HIDE DEF a, b, c, d, k, r
  <2>3. b - a + x \in 1..(d - a) /\ b - a + x \in 1..(d - a + r)
    BY <2>1
  <2> QED BY <2>2, <2>3 DEF a, d
<1> QED BY <1>3, <1>6, <1>8, <1>9, <1>11 DEF f, m

(* A message more.                                                         *)
LEMMA SendKeeps ==
    ASSUME BufferOK, FramesAreMessages, conn = "up", NEW at, Framed(at), Send
    PROVE  BufferOK' /\ FramesAreMessages' /\ LegalStaysUp' /\ \E b : Framed(b)'
<1> DEFINE f == Len(fired)  m == Len(sent)
<1>1. PICK p \in Payloads : sent' = Append(sent, p) /\ stream' = stream \o Frame(p)
  BY DEF Send
<1>2. peer = "up" /\ peer' = "up" /\ conn' = "up" /\ fired' = fired /\ UNCHANGED <<mem, rpos, wpos, cap, conn>>
  BY DEF Send
<1>3. sent \in Seq(Payloads) /\ fired \in Seq(Payloads)
  BY DEF BufferOK
<1>4. /\ sent' \in Seq(Payloads) /\ Len(sent') = m + 1 /\ m \in Nat
      /\ \A i \in 1..m : sent'[i] = sent[i]
      /\ sent'[m + 1] = p
  BY <1>1, <1>3
<1>5. Frame(p) \in Seq(Octet) /\ Len(Frame(p)) \in Nat \ {0}
  BY FrameLength
<1> DEFINE L == Len(Frame(p))
<1>6. /\ BufferOK' /\ Len(Pending') = Len(Pending) + L /\ Len(Pending) \in Nat
      /\ \A i \in 1..Len(Pending) : Pending'[i] = Pending[i]
      /\ \A i \in 1..L : Pending'[Len(Pending) + i] = Frame(p)[i]
  BY <1>1, <1>2, <1>3, <1>4, <1>5, WireGrows
<1>7. /\ f \in Nat /\ f <= m /\ at \in [0..m -> Nat] /\ at[f] \in Nat /\ at[m] \in Nat /\ at[f] <= at[m]
      /\ at[m] - at[f] = Len(Pending)
  <2>1. Rest(at) = 0
    BY <1>2 DEF Framed, Remains
  <2> QED BY <2>1, MarksAre
<1>8. FramesAreMessages'
  <2>1. fired = SubSeq(sent, 1, f) /\ f <= m
    BY <1>2 DEF FramesAreMessages, BufferOK
  <2> DEFINE q == SubSeq(sent', 1, f)
  <2>2. q \in Seq(Payloads) /\ Len(q) = f /\ \A i \in 1..f : q[i] = sent'[i]
    BY <1>4, <1>7
  <2>3. \A i \in 1..f : fired[i] = sent[i]
    BY <1>3, <1>4, <1>7, <2>1
  <2>4. \A i \in 1..f : sent'[i] = sent[i]
    BY <1>4, <1>7
  <2> HIDE DEF q
  <2>5. q = fired
    BY <1>3, <2>2, <2>3, <2>4, SeqEqual
  <2> QED BY <1>2, <1>4, <1>7, <2>5 DEF FramesAreMessages, q
<1>9. LegalStaysUp'
  BY <1>2 DEF LegalStaysUp
<1>10. PICK b : b = [i \in 0..(m + 1) |-> IF i <= m THEN at[i] ELSE at[m] + L]
  OBVIOUS
<1> HIDE DEF L
<1>11. /\ b \in [0..(m + 1) -> Nat] /\ \A i \in 0..m : b[i] = at[i]
       /\ b[m + 1] = at[m] + L /\ L \in Nat
  BY <1>4, <1>5, <1>7, <1>10 DEF L
<1>12. Marks(b)'
  <2>1. \A i \in 1..m : at[i] = at[i - 1] + Len(Frame(sent[i]))
    BY DEF Framed, Marks
  <2>2. \A i, j \in 0..m : i <= j => at[i] <= at[j]
    BY DEF Framed, Marks
  <2>3. ASSUME NEW i \in 1..m + 1 PROVE b[i] = b[i - 1] + Len(Frame(sent'[i]))
    <3>1. CASE i \in 1..m
      <4>1. i \in 0..m /\ i - 1 \in 0..m
        BY <1>4, <3>1
      <4>2. b[i] = at[i] /\ b[i - 1] = at[i - 1] /\ sent'[i] = sent[i]
        BY <1>4, <1>11, <3>1, <4>1
      <4> QED BY <2>1, <3>1, <4>2
    <3>2. CASE i = m + 1
      <4>1. m \in 0..m /\ i - 1 = m
        BY <1>4, <3>2
      <4>2. b[i] = at[m] + L /\ b[i - 1] = at[m] /\ sent'[i] = p
        BY <1>4, <1>11, <3>2, <4>1
      <4>3. Len(Frame(sent'[i])) = L
        BY <4>2 DEF L
      <4> QED BY <4>2, <4>3
    <3> QED BY <1>4, <3>1, <3>2
  <2>4. ASSUME NEW i \in 0..m + 1, NEW j \in 0..m + 1, i <= j PROVE b[i] <= b[j]
    <3>1. CASE j \in 0..m
      <4>1. i \in 0..m
        BY <1>4, <2>4, <3>1
      <4> QED BY <1>11, <2>2, <2>4, <3>1, <4>1
    <3>2. CASE j = m + 1 /\ i \in 0..m
      <4>1. m \in 0..m /\ i <= m
        BY <1>4, <3>2
      <4>2. at[i] <= at[m] /\ at[i] \in Nat
        BY <1>7, <2>2, <3>2, <4>1
      <4> QED BY <1>7, <1>11, <3>2, <4>2
    <3>3. CASE j = m + 1 /\ i = m + 1
      BY <1>11, <1>7, <3>3
    <3> QED BY <1>4, <2>4, <3>1, <3>2, <3>3
  <2> QED BY <1>4, <1>11, <2>3, <2>4 DEF Marks
<1>13. Holds(b)'
  <2> SUFFICES ASSUME NEW i \in Unfired', NEW x \in 1..Len(Frame(sent'[i]))
               PROVE  Pending'[(b[i - 1] - b[f]) + x] = Frame(sent'[i])[x]
    BY <1>2 DEF Holds, Begin
  <2>1. i \in f + 1 .. m + 1
    BY <1>2, <1>4 DEF Unfired
  <2>2. f \in 0..m /\ b[f] = at[f]
    BY <1>4, <1>7, <1>11
  <2>3. CASE i \in f + 1 .. m
    <3>1. i \in 1..m /\ i - 1 \in 0..m /\ i \in Unfired
      BY <1>4, <1>7, <2>3 DEF Unfired
    <3>2. sent'[i] = sent[i] /\ b[i - 1] = at[i - 1]
      BY <1>4, <1>11, <3>1
    <3>3. x \in 1..Len(Frame(sent[i]))
      BY <3>2
    <3>4. /\ Begin(at, i) + x \in 1..Len(Pending)
          /\ Pending[Begin(at, i) + x] = Frame(sent[i])[x]
      BY <3>1, <3>3, Inside
    <3>5. Begin(at, i) = b[i - 1] - b[f]
      BY <2>2, <3>2 DEF Begin
    <3> QED BY <1>6, <3>2, <3>4, <3>5
  <2>4. CASE i = m + 1
    <3>1. m \in 0..m /\ i - 1 = m
      BY <1>4, <2>4
    <3>2. b[i - 1] - b[f] = Len(Pending) /\ sent'[i] = p
      <4>1. b[i - 1] = at[m] /\ sent'[i] = p
        BY <1>4, <1>11, <2>4, <3>1
      <4> QED BY <1>7, <2>2, <4>1
    <3>3. x \in 1..L
      BY <3>2 DEF L
    <3> QED BY <1>6, <3>2, <3>3
  <2> QED BY <1>4, <1>7, <2>1, <2>3, <2>4
<1>14. Remains(b)'
  <2>1. f \in 0..m /\ b[f] = at[f] /\ b[m + 1] = at[m] + L
    BY <1>4, <1>7, <1>11
  <2>2. Rest(b)' = Len(Pending') - (b[m + 1] - b[f])
    BY <1>2, <1>4 DEF Rest
  <2>3. Rest(b)' = 0
    BY <1>6, <1>7, <1>11, <2>1, <2>2 DEF L
  <2> QED BY <1>2, <2>3 DEF Remains
<1> QED BY <1>6, <1>8, <1>9, <1>12, <1>13, <1>14 DEF Framed

(* A beginning of one, and nothing more.                                   *)
LEMMA SendFailsKeeps ==
    ASSUME BufferOK, FramesAreMessages, conn = "up", NEW at, Framed(at), SendFails
    PROVE  BufferOK' /\ FramesAreMessages' /\ LegalStaysUp' /\ \E b : Framed(b)'
<1>0. PICK p \in Payloads : \E n \in 0..(Len(Frame(p)) - 1) : stream' = stream \o SubSeq(Frame(p), 1, n)
  BY DEF SendFails
<1>1. PICK n \in 0..(Len(Frame(p)) - 1) : stream' = stream \o SubSeq(Frame(p), 1, n)
  BY <1>0
<1>2. peer = "up" /\ peer' = "failed" /\ UNCHANGED <<sent, fired, mem, rpos, wpos, cap, conn>>
  BY DEF SendFails
<1> DEFINE e == SubSeq(Frame(p), 1, n)
<1>3. Frame(p) \in Seq(Octet) /\ Len(Frame(p)) \in Nat \ {0} /\ n \in Nat /\ n < Len(Frame(p))
  BY FrameLength
<1>4. e \in Seq(Octet) /\ Len(e) = n /\ \A i \in 1..n : e[i] = Frame(p)[i]
  BY <1>3
<1>5. stream' = stream \o e
  BY <1>1
<1> HIDE DEF e
<1>6. sent' \in Seq(Payloads) /\ fired' \in Seq(Payloads) /\ peer' \in {"up", "failed"}
  BY <1>2 DEF BufferOK
<1>7. /\ BufferOK' /\ Len(Pending') = Len(Pending) + n /\ Len(Pending) \in Nat
      /\ \A i \in 1..Len(Pending) : Pending'[i] = Pending[i]
      /\ \A i \in 1..n : Pending'[Len(Pending) + i] = e[i]
  BY <1>2, <1>4, <1>5, <1>6, WireGrows
<1>8. FramesAreMessages' /\ LegalStaysUp'
  BY <1>2 DEF FramesAreMessages, LegalStaysUp, BufferOK
<1>9. Marks(at)'
  BY <1>2 DEF Framed, Marks
<1>10. Holds(at)'
  <2> SUFFICES ASSUME NEW i \in Unfired, NEW x \in 1..Len(Frame(sent[i]))
               PROVE  Pending'[Begin(at, i) + x] = Frame(sent[i])[x]
    BY <1>2 DEF Holds, Begin, Unfired
  <2>1. /\ Begin(at, i) + x \in 1..Len(Pending)
        /\ Pending[Begin(at, i) + x] = Frame(sent[i])[x]
    BY Inside
  <2> QED BY <1>7, <2>1
<1>11. Remains(at)'
  <2>1. Rest(at) = 0
    BY <1>2 DEF Framed, Remains
  <2>2. at[Len(sent)] - at[Len(fired)] = Len(Pending)
    BY <2>1, MarksAre
  <2>3. Rest(at)' = n
    <3>1. Rest(at)' = Len(Pending') - (at[Len(sent)] - at[Len(fired)])
      BY <1>2 DEF Rest
    <3>2. at[Len(sent)] \in Nat /\ at[Len(fired)] \in Nat
      BY MarksAre
    <3>3. Len(Pending') = Len(Pending) + n /\ Len(Pending) \in Nat
      BY <1>7
    <3> QED BY <1>3, <2>2, <3>1, <3>2, <3>3
  <2>4. \A x \in 1..n : Pending'[at[Len(sent)] - at[Len(fired)] + x] = Frame(p)[x]
    BY <1>4, <1>7, <2>2
  <2>5. (\A x \in 1..Rest(at) : Pending[at[Len(sent)] - at[Len(fired)] + x] = Frame(p)[x])'
    BY <1>2, <2>3, <2>4
  <2> QED BY <1>2, <1>3, <2>3, <2>5 DEF Remains
<1> QED BY <1>7, <1>8, <1>9, <1>10, <1>11 DEF Framed

-----------------------------------------------------------------------------
(* consume() drops n octets from the front.                                *)
LEMMA Consumed ==
    ASSUME BufferOK, NEW n \in 1..Size, consume(n), UNCHANGED <<sent, stream, cap, peer, conn>>,
           fired' \in Seq(Payloads)
    PROVE  /\ BufferOK' /\ Len(Pending) \in Nat /\ n <= Len(Pending)
           /\ Len(Pending') = Len(Pending) - n
           /\ \A i \in 1..Len(Pending') : Pending'[i] = Pending[n + i]
<1>1. /\ Data \in Seq(Octet) /\ Len(Data) = Size /\ Size \in 0..MaxBuffer
      /\ \A i \in 1..Size : Data[i] = mem[rpos + i]
      /\ Len(Pending) = Size + Len(stream)
      /\ \A i \in 1..Size : Pending[i] = Data[i]
      /\ \A i \in 1..Len(stream) : Pending[Size + i] = stream[i]
  BY PendingIs
<1>2. /\ mem \in Seq(Octet) /\ Len(mem) \in Nat /\ wpos = Len(mem) /\ rpos \in 0..wpos /\ Size = wpos - rpos
      /\ stream \in Seq(Octet) /\ Len(stream) \in Nat /\ MaxBuffer \in Nat
      /\ Size \in Nat /\ n \in Nat /\ 1 <= n /\ n <= Size
  <2>1. /\ mem \in Seq(Octet) /\ Len(mem) \in Nat /\ wpos = Len(mem) /\ rpos \in 0..wpos /\ Size = wpos - rpos
        /\ stream \in Seq(Octet) /\ Len(stream) \in Nat /\ MaxBuffer \in Nat
    BY SizeAssumption DEF BufferOK, Size
  <2> QED BY <1>1, <2>1
<1>3. BufferOK' /\ Size' = Size - n /\ (n # Size => rpos' = rpos + n /\ mem' = mem)
  <2>1. CASE n >= Size
    <3>1. wpos' = 0 /\ rpos' = 0 /\ mem' = <<>> /\ n = Size
      BY <1>2, <2>1 DEF consume
    <3>2. BufferOK'
      BY <1>2, <3>1 DEF BufferOK
    <3> QED BY <1>2, <3>1, <3>2 DEF Size
  <2>2. CASE ~ (n >= Size)
    <3>1. rpos' = rpos + n /\ wpos' = wpos /\ mem' = mem
      BY <2>2 DEF consume
    <3>2. rpos' \in 0..wpos' /\ wpos' - rpos' <= MaxBuffer /\ wpos' - rpos' = Size - n
      BY <1>1, <1>2, <2>2, <3>1
    <3>3. BufferOK'
      BY <1>2, <3>1, <3>2 DEF BufferOK
    <3> QED BY <3>1, <3>2, <3>3 DEF Size
  <2> QED BY <2>1, <2>2
<1>4. /\ Len(Pending') = Size' + Len(stream)
      /\ \A i \in 1..Size' : Data'[i] = mem'[rpos' + i]
      /\ \A i \in 1..Size' : Pending'[i] = Data'[i]
      /\ \A i \in 1..Len(stream) : Pending'[Size' + i] = stream[i]
  BY <1>3, PendingBecomes
<1>5. ASSUME NEW i \in 1..Len(Pending') PROVE Pending'[i] = Pending[n + i]
  <2>1. i \in Nat /\ 1 <= i /\ i <= (Size - n) + Len(stream)
    BY <1>2, <1>3, <1>4
  <2>2. CASE i <= Size - n
    <3>1. i \in 1..Size' /\ n + i \in 1..Size /\ n # Size /\ (rpos + n) + i = rpos + (n + i)
      BY <1>2, <1>3, <2>1, <2>2
    <3>2. Pending'[i] = mem'[rpos' + i]
      BY <1>4, <3>1
    <3>3. Pending[n + i] = mem[rpos + (n + i)]
      BY <1>1, <3>1
    <3> QED BY <1>3, <3>1, <3>2, <3>3
  <2>3. CASE ~ (i <= Size - n)
    <3> DEFINE k == i - (Size - n)
    <3>1. k \in 1..Len(stream) /\ Size' + k = i /\ Size + k = n + i
      BY <1>2, <1>3, <2>1, <2>3
    <3> HIDE DEF k
    <3>2. Pending'[Size' + k] = stream[k] /\ Pending[Size + k] = stream[k]
      BY <1>1, <1>4, <3>1
    <3> QED BY <3>1, <3>2
  <2> QED BY <2>2, <2>3
<1>6. Len(Pending') = Len(Pending) - n /\ Len(Pending) \in Nat /\ n <= Len(Pending)
  BY <1>1, <1>2, <1>3, <1>4
<1> QED BY <1>3, <1>5, <1>6

LEMMA Shift ==
    ASSUME NEW a \in Nat, NEW c \in Nat, NEW l \in Nat, NEW d \in Nat, d = c + l, d <= a,
           NEW x \in Nat, 1 <= x, NEW n \in Nat, (a - c) + x <= n
    PROVE  l + ((a - d) + x) = (a - c) + x /\ (a - d) + x \in 1..(n - l)
  OBVIOUS

(* What is fired is the next message, whole.                               *)
LEMMA FireKeeps ==
    ASSUME BufferOK, FramesAreMessages, conn = "up", NEW at, Framed(at), Fire
    PROVE  BufferOK' /\ FramesAreMessages' /\ LegalStaysUp' /\ \E b : Framed(b)'
<1> DEFINE f == Len(fired)  m == Len(sent)  p == sent[f + 1]
<1>1. Matched(Data) # Partial
  BY DEF Fire
<1>2. /\ f < m /\ NextFrame \in Nat \ {0} /\ p \in Payloads /\ Begins(Data, Frame(p))
      /\ Matched(Data) = NextFrame /\ ~ (Size < NextFrame) /\ NextFrame = Len(Frame(p))
  BY <1>1, MatchedNow DEF NextFrame
<1>3. Data \in Seq(Octet) /\ Len(Data) = Size /\ Size \in Nat
  <2>1. MaxBuffer \in Nat
    BY SizeAssumption
  <2> QED BY <2>1, PendingIs
<1> DEFINE L == NextFrame
<1>4. Message(Data, L) = p
  BY <1>2, <1>3, MessageIs
<1>5. fired' = Append(fired, p) /\ consume(L) /\ UNCHANGED <<sent, stream, cap, peer, conn>>
  BY <1>2, <1>4 DEF Fire
<1>6. /\ f \in Nat /\ m \in Nat /\ fired \in Seq(Payloads) /\ sent \in Seq(Payloads)
      /\ fired' \in Seq(Payloads) /\ Len(fired') = f + 1
      /\ \A i \in 1..f : fired'[i] = fired[i]
      /\ fired'[f + 1] = p
  <2>1. fired \in Seq(Payloads) /\ sent \in Seq(Payloads)
    BY DEF BufferOK
  <2> QED BY <1>2, <1>5, <2>1
<1> HIDE DEF L, p
<1>7. L \in 1..Size
  BY <1>2, <1>3 DEF L
<1>8. /\ BufferOK' /\ Len(Pending) \in Nat /\ L <= Len(Pending)
      /\ Len(Pending') = Len(Pending) - L
      /\ \A i \in 1..Len(Pending') : Pending'[i] = Pending[L + i]
  BY <1>5, <1>6, <1>7, Consumed
<1>9. FramesAreMessages'
  <2> DEFINE q == SubSeq(sent, 1, f + 1)
  <2>1. q \in Seq(Payloads) /\ Len(q) = f + 1 /\ \A i \in 1..f + 1 : q[i] = sent[i]
    BY <1>2, <1>6
  <2>2. \A i \in 1..f : fired[i] = sent[i]
    <3>1. fired = SubSeq(sent, 1, f)
      BY <1>2 DEF FramesAreMessages, BufferOK
    <3> QED BY <1>2, <1>6, <3>1
  <2> HIDE DEF q
  <2>3. \A i \in 1..f + 1 : fired'[i] = q[i]
    BY <1>6, <2>1, <2>2 DEF p
  <2>4. fired' = q
    BY <1>6, <2>1, <2>3, SeqEqual
  <2> QED BY <1>2, <1>5, <1>6, <2>4 DEF FramesAreMessages, q
<1>10. LegalStaysUp'
  BY <1>5 DEF LegalStaysUp
<1>11. Marks(at)'
  BY <1>5 DEF Framed, Marks
<1>12. /\ at \in [0..m -> Nat] /\ at[f] \in Nat /\ at[m] \in Nat /\ at[f + 1] = at[f] + L /\ at[f + 1] \in Nat
       /\ at[f + 1] <= at[m] /\ at[m] - at[f] + Rest(at) = Len(Pending) /\ Rest(at) \in Nat
       /\ L \in Nat
  <2>1. f \in 0..m /\ m \in 0..m /\ f + 1 \in 1..m /\ (f + 1) - 1 = f /\ f + 1 \in 0..m /\ f + 1 <= m
    BY <1>2, <1>6
  <2>2. at[f + 1] = at[f] + L
    BY <2>1, <1>2 DEF Framed, Marks, L, p
  <2>3. at[f + 1] <= at[m]
    BY <2>1 DEF Framed, Marks
  <2>4. L \in Nat
    BY <1>2 DEF L
  <2> QED BY <2>1, <2>2, <2>3, <2>4, MarksAre
<1>13. Holds(at)'
  <2> SUFFICES ASSUME NEW i \in Unfired', NEW x \in 1..Len(Frame(sent[i]))
               PROVE  Pending'[(at[i - 1] - at[f + 1]) + x] = Frame(sent[i])[x]
    BY <1>5, <1>6 DEF Holds, Begin
  <2>1. i \in f + 2 .. m
    BY <1>5, <1>6 DEF Unfired
  <2>2. i \in Unfired /\ i - 1 \in 0..m /\ f + 1 \in 0..m /\ f + 1 <= i - 1
    BY <1>2, <1>6, <2>1 DEF Unfired
  <2>3. /\ Begin(at, i) + x \in 1..(at[m] - at[f])
        /\ Begin(at, i) + x \in 1..Len(Pending)
        /\ Pending[Begin(at, i) + x] = Frame(sent[i])[x]
        /\ at[i - 1] \in Nat /\ sent[i] \in Payloads
    BY <2>2, Inside
  <2>4. at[f + 1] <= at[i - 1]
    BY <2>2 DEF Framed, Marks
  <2>5. Begin(at, i) = at[i - 1] - at[f]
    BY DEF Begin
  <2>6. x \in Nat /\ 1 <= x
    <3>1. Len(Frame(sent[i])) \in Nat
      BY <2>3, FrameLength
    <3> QED BY <3>1
  <2> DEFINE y == (at[i - 1] - at[f + 1]) + x
  <2>7. L + y = Begin(at, i) + x /\ y \in 1..Len(Pending')
    <3>1. (at[i - 1] - at[f]) + x <= Len(Pending)
      BY <1>8, <2>3, <2>5
    <3>2. L + y = (at[i - 1] - at[f]) + x /\ y \in 1..(Len(Pending) - L)
      BY <1>8, <1>12, <2>3, <2>4, <2>6, <3>1, Shift
    <3> QED BY <1>8, <2>5, <3>2
  <2> HIDE DEF y
  <2>8. Pending'[y] = Pending[L + y]
    BY <1>8, <2>7
  <2> QED BY <2>3, <2>7, <2>8 DEF y
<1>14. Remains(at)'
  <2>1. Rest(at)' = Rest(at) /\ Rest(at) >= 0
    <3>1. Rest(at)' = Len(Pending') - (at[m] - at[f + 1])
      BY <1>5, <1>6 DEF Rest
    <3>2. Len(Pending') = Len(Pending) - L /\ Len(Pending) \in Nat
      BY <1>8
    <3> DEFINE a == at[f]  b == at[f + 1]  d == at[m]  r == Rest(at)  n == Len(Pending)
    <3>3. a \in Nat /\ d \in Nat /\ b = a + L /\ r \in Nat /\ L \in Nat /\ d - a + r = n
      BY <1>12
    <3>4. Rest(at)' = (n - L) - (d - b)
      BY <3>1, <3>2
    <3> HIDE DEF a, b, d, r, n
    <3>5. (n - L) - (d - b) = r /\ r >= 0
      BY <3>3
    <3> QED BY <3>4, <3>5 DEF r
  <2>2. ASSUME NEW x \in 1..Rest(at)
        PROVE  Pending'[at[m] - at[f + 1] + x] = Pending[at[m] - at[f] + x]
    <3> DEFINE y == at[m] - at[f + 1] + x
    <3>1. L + y = at[m] - at[f] + x /\ y \in 1..Len(Pending')
      <4>1. x \in Nat /\ 1 <= x /\ (at[m] - at[f]) + x <= Len(Pending)
        BY <1>12
      <4>2. L + y = at[m] - at[f] + x /\ y \in 1..(Len(Pending) - L)
        BY <1>8, <1>12, <4>1, Shift
      <4> QED BY <1>8, <4>2
    <3> HIDE DEF y
    <3>2. Pending'[y] = Pending[L + y]
      BY <1>8, <3>1
    <3> QED BY <3>1, <3>2 DEF y
  <2>3. CASE peer = "up"
    BY <1>5, <2>1, <2>3 DEF Framed, Remains
  <2>4. CASE peer = "failed"
    <3>1. PICK g \in Payloads :
             /\ Rest(at) < Len(Frame(g))
             /\ \A x \in 1..Rest(at) : Pending[at[m] - at[f] + x] = Frame(g)[x]
      BY <2>4 DEF Framed, Remains
    <3>2. \A x \in 1..Rest(at) : Pending'[at[m] - at[f + 1] + x] = Frame(g)[x]
      BY <2>2, <3>1
    <3>3. (\A x \in 1..Rest(at) : Pending[at[Len(sent)] - at[Len(fired)] + x] = Frame(g)[x])'
      BY <1>5, <1>6, <2>1, <3>2
    <3>4. Rest(at)' >= 0 /\ peer' = "failed" /\ Rest(at)' < Len(Frame(g))
      BY <1>5, <2>1, <2>4, <3>1
    <3> QED BY <3>3, <3>4 DEF Remains
  <2> QED BY <2>3, <2>4 DEF BufferOK
<1> QED BY <1>8, <1>9, <1>10, <1>11, <1>13, <1>14 DEF Framed

-----------------------------------------------------------------------------
LEMMA ResizedIs ==
    ASSUME NEW s \in Seq(Octet), NEW k \in Nat, Len(s) <= k
    PROVE  \A i \in 1..Len(s) : Resized(s, k)[i] = s[i] /\ Resized(s, k)[i] \in Octet
<1>1. Len(s) \in Nat
  OBVIOUS
<1> TAKE i \in 1..Len(s)
<1>2. i \in 1..k /\ i <= Len(s)
  BY <1>1
<1>3. Resized(s, k)[i] = s[i]
  BY <1>2 DEF Resized
<1> QED BY <1>3

(* prepare() may move the data to the front, and keeps it.                 *)
LEMMA PrepareKeeps ==
    ASSUME BufferOK, NEW n \in Nat, NEW b, b = prepare(n)
    PROVE  /\ b.rpos \in Nat /\ b.wpos \in Nat /\ b.rpos <= b.wpos /\ b.wpos - b.rpos = Size /\ b.cap \in Nat
           /\ \A i \in 1..b.wpos : b.mem[i] \in Octet
           /\ \A i \in 1..Size : b.mem[b.rpos + i] = Data[i]
<1>1. /\ mem \in Seq(Octet) /\ Len(mem) \in Nat /\ wpos = Len(mem) /\ wpos \in Nat /\ rpos \in Nat /\ rpos <= wpos
      /\ Size = wpos - rpos /\ Size \in Nat /\ cap \in Nat /\ MaxBuffer \in Nat /\ MinSize \in Nat
  <2>1. mem \in Seq(Octet) /\ Len(mem) \in Nat /\ wpos = Len(mem) /\ rpos \in 0..wpos /\ cap \in Nat
    BY DEF BufferOK
  <2> QED BY <2>1, SizeAssumption DEF Size
<1>2. Data \in Seq(Octet) /\ Len(Data) = Size /\ \A i \in 1..Size : Data[i] = mem[rpos + i]
  BY PendingIs
<1>3. ASSUME b.mem = Resized(mem, wpos + n), b.rpos = rpos, b.wpos = wpos
      PROVE  /\ \A i \in 1..b.wpos : b.mem[i] \in Octet
             /\ \A i \in 1..Size : b.mem[b.rpos + i] = Data[i]
  <2>1. \A i \in 1..wpos : b.mem[i] = mem[i] /\ b.mem[i] \in Octet
    BY <1>1, <1>3, ResizedIs
  <2>2. ASSUME NEW i \in 1..Size PROVE b.mem[b.rpos + i] = Data[i]
    <3>1. rpos + i \in 1..wpos
      BY <1>1
    <3> QED BY <1>2, <1>3, <2>1, <3>1
  <2> QED BY <1>3, <2>1, <2>2
<1>4. CASE n <= cap - wpos
  <2>1. b = [mem |-> Resized(mem, wpos + n), rpos |-> rpos, wpos |-> wpos, cap |-> cap]
    BY <1>1, <1>4 DEF prepare
  <2>2. b.mem = Resized(mem, wpos + n) /\ b.rpos = rpos /\ b.wpos = wpos /\ b.cap = cap
    BY <2>1
  <2>3. /\ \A i \in 1..b.wpos : b.mem[i] \in Octet
        /\ \A i \in 1..Size : b.mem[b.rpos + i] = Data[i]
    BY <1>3, <2>2
  <2> QED BY <1>1, <2>2, <2>3
<1>5. CASE n > cap - wpos /\ n <= cap - Size
  <2>1. b = [mem |-> Resized(Data, Size + n), rpos |-> 0, wpos |-> Size, cap |-> cap]
    BY <1>1, <1>5 DEF prepare
  <2>2. \A i \in 1..Size : b.mem[i] = Data[i] /\ b.mem[i] \in Octet
    <3>1. Size + n \in Nat /\ Len(Data) <= Size + n
      BY <1>1, <1>2
    <3>2. \A i \in 1..Len(Data) : Resized(Data, Size + n)[i] = Data[i] /\ Resized(Data, Size + n)[i] \in Octet
      BY <1>2, <3>1, ResizedIs
    <3> QED BY <1>2, <2>1, <3>2
  <2>3. b.rpos = 0 /\ b.wpos = Size /\ b.cap = cap
    BY <2>1
  <2>4. \A i \in 1..Size : b.rpos + i = i
    BY <2>3
  <2>5. \A i \in 1..b.wpos : b.mem[i] \in Octet
    BY <2>2, <2>3
  <2>6. \A i \in 1..Size : b.mem[b.rpos + i] = Data[i]
    BY <2>2, <2>4
  <2>7. b.wpos - b.rpos = Size /\ b.rpos <= b.wpos
    BY <1>1, <2>3
  <2> QED BY <1>1, <2>3, <2>5, <2>6, <2>7
<1>6. CASE n > cap - wpos /\ ~ (n <= cap - Size)
  <2> DEFINE new_size == Largest(Smallest(MaxBuffer, Largest(2 * cap, wpos + n)), MinSize)
             c == Largest(new_size, wpos + n)
  <2>1. b = [mem |-> Resized(mem, wpos + n), rpos |-> rpos, wpos |-> wpos, cap |-> c]
    BY <1>1, <1>6 DEF prepare
  <2>2. c \in Nat
    <3>1. new_size \in Nat
      BY <1>1 DEF Largest, Smallest
    <3> HIDE DEF new_size
    <3> QED BY <1>1, <3>1 DEF Largest
  <2> HIDE DEF c
  <2>3. b.mem = Resized(mem, wpos + n) /\ b.rpos = rpos /\ b.wpos = wpos /\ b.cap = c
    BY <2>1
  <2>4. /\ \A i \in 1..b.wpos : b.mem[i] \in Octet
        /\ \A i \in 1..Size : b.mem[b.rpos + i] = Data[i]
    BY <1>3, <2>3
  <2> QED BY <1>1, <2>2, <2>3, <2>4
<1>7. \/ n <= cap - wpos
      \/ n > cap - wpos /\ n <= cap - Size
      \/ n > cap - wpos /\ ~ (n <= cap - Size)
  BY <1>1
<1> QED BY <1>4, <1>5, <1>6, <1>7

(* What is under way is the same whether it has been read or not.          *)
LEMMA ReadMoves ==
    ASSUME BufferOK, conn = "up", Read
    PROVE  BufferOK' /\ Pending' = Pending
<1> DEFINE room == Smallest(Largest(ReadMin, cap - Size), MaxBuffer - Size)
<1>1. PICK b : b = prepare(room)
  OBVIOUS
<1>2. PICK n \in 1..Smallest(room, Len(stream)) :
         /\ mem' = [i \in 1..(b.wpos + n) |-> IF i <= b.wpos THEN b.mem[i] ELSE stream[i - b.wpos]]
         /\ wpos' = b.wpos + n
         /\ rpos' = b.rpos
         /\ cap' = b.cap
         /\ stream' = SubSeq(stream, n + 1, Len(stream))
  BY <1>1 DEF Read
<1>3. UNCHANGED <<sent, fired, peer, conn>>
  BY DEF Read
<1>4. /\ stream \in Seq(Octet) /\ Len(stream) \in Nat /\ Size \in 0..MaxBuffer /\ MaxBuffer \in Nat /\ Size \in Nat
      /\ cap \in Nat /\ ReadMin \in Nat
  <2>1. Size \in 0..MaxBuffer
    BY PendingIs
  <2>2. MaxBuffer \in Nat /\ ReadMin \in Nat
    BY SizeAssumption
  <2> QED BY <2>1, <2>2 DEF BufferOK
<1>5. room \in Int /\ room <= MaxBuffer - Size
  BY <1>4 DEF Smallest, Largest
<1> HIDE DEF room
<1>6. n \in Nat /\ 1 <= n /\ n <= room /\ n <= Len(stream) /\ room \in Nat
  BY <1>2, <1>4, <1>5 DEF Smallest
<1>7. /\ b.rpos \in Nat /\ b.wpos \in Nat /\ b.rpos <= b.wpos /\ b.wpos - b.rpos = Size /\ b.cap \in Nat
      /\ \A i \in 1..b.wpos : b.mem[i] \in Octet
      /\ \A i \in 1..Size : b.mem[b.rpos + i] = Data[i]
  BY <1>1, <1>6, PrepareKeeps
<1> DEFINE w == b.wpos  r == b.rpos
<1>8. /\ mem' \in Seq(Octet) /\ Len(mem') = w + n
      /\ \A i \in 1..w : mem'[i] = b.mem[i]
      /\ \A i \in 1..n : mem'[w + i] = stream[i]
  <2>1. ASSUME NEW i \in 1..(w + n)
        PROVE  (IF i <= w THEN b.mem[i] ELSE stream[i - w]) \in Octet
    <3>1. CASE i <= w
      <4>1. i \in 1..w
        BY <1>6, <1>7, <3>1
      <4> QED BY <1>7, <3>1, <4>1
    <3>2. CASE ~ (i <= w)
      <4>1. i - w \in 1..Len(stream)
        BY <1>4, <1>6, <1>7, <3>2
      <4> QED BY <1>4, <3>2, <4>1
    <3> QED BY <3>1, <3>2
  <2>2. mem' \in [1..(w + n) -> Octet] /\ w + n \in Nat
    BY <1>2, <1>6, <1>7, <2>1
  <2>3. mem' \in Seq(Octet) /\ Len(mem') = w + n
    BY <2>2
  <2>4. ASSUME NEW i \in 1..w PROVE mem'[i] = b.mem[i]
    <3>1. i \in 1..(w + n) /\ i <= w
      BY <1>6, <1>7
    <3> QED BY <1>2, <3>1
  <2>5. ASSUME NEW i \in 1..n PROVE mem'[w + i] = stream[i]
    <3>1. w + i \in 1..(w + n) /\ ~ (w + i <= w) /\ (w + i) - w = i
      BY <1>6, <1>7
    <3> QED BY <1>2, <3>1
  <2> QED BY <2>3, <2>4, <2>5
<1>9. stream' \in Seq(Octet) /\ Len(stream') = Len(stream) - n
      /\ \A i \in 1..(Len(stream) - n) : stream'[i] = stream[n + i]
  <2>1. n \in 0..Len(stream)
    BY <1>4, <1>6
  <2> QED BY <1>2, <1>4, <2>1, SuffixIs
<1>10. wpos' = w + n /\ rpos' = r /\ cap' = b.cap /\ w \in Nat /\ r \in Nat /\ r <= w /\ w - r = Size
  BY <1>2, <1>7
<1>11. BufferOK'
  <2>1. wpos' = Len(mem') /\ rpos' \in 0..wpos' /\ wpos' - rpos' <= MaxBuffer
    BY <1>4, <1>5, <1>6, <1>8, <1>10
  <2>2. cap' \in Nat
    BY <1>7, <1>10
  <2>3. sent' \in Seq(Payloads) /\ fired' \in Seq(Payloads) /\ peer' \in {"up", "failed"}
        /\ conn' \in {"up", "not_found", "eof"}
    BY <1>3 DEF BufferOK
  <2> QED BY <1>8, <1>9, <2>1, <2>2, <2>3 DEF BufferOK
<1>12. /\ Size' = Size + n
       /\ \A i \in 1..Size' : Data'[i] = mem'[rpos' + i]
       /\ Pending' \in Seq(Octet) /\ Len(Pending') = Size' + Len(stream')
       /\ \A i \in 1..Size' : Pending'[i] = Data'[i]
       /\ \A i \in 1..Len(stream') : Pending'[Size' + i] = stream'[i]
  <2>1. Size' = Size + n
    BY <1>4, <1>6, <1>10 DEF Size
  <2> QED BY <1>11, <2>1, PendingBecomes
<1>13. /\ Pending \in Seq(Octet) /\ Len(Pending) = Size + Len(stream)
       /\ \A i \in 1..Size : Pending[i] = Data[i]
       /\ \A i \in 1..Len(stream) : Pending[Size + i] = stream[i]
  BY PendingIs
<1> HIDE DEF w, r
<1>14. Len(Pending') = Len(Pending)
  BY <1>4, <1>6, <1>9, <1>12, <1>13
<1>15. ASSUME NEW i \in 1..Len(Pending) PROVE Pending'[i] = Pending[i]
  <2>1. i \in Nat /\ 1 <= i /\ i <= Size + Len(stream)
    BY <1>4, <1>13
  <2>2. CASE i <= Size
    <3>1. i \in 1..Size /\ i \in 1..Size' /\ r + i \in 1..w
      BY <1>4, <1>6, <1>10, <1>12, <2>1, <2>2
    <3>2. Pending'[i] = mem'[r + i]
      BY <1>10, <1>12, <3>1
    <3>3. mem'[r + i] = b.mem[r + i]
      BY <1>8, <3>1
    <3>4. b.mem[r + i] = Data[i]
      BY <1>7, <3>1 DEF r
    <3> QED BY <1>13, <3>1, <3>2, <3>3, <3>4
  <2>3. CASE ~ (i <= Size) /\ i <= Size + n
    <3> DEFINE k == i - Size
    <3>1. k \in 1..n /\ k \in 1..Len(stream) /\ Size + k = i /\ r + i = w + k /\ i \in 1..Size'
      BY <1>4, <1>6, <1>10, <1>12, <2>1, <2>3
    <3> HIDE DEF k
    <3>2. Pending'[i] = mem'[r + i]
      BY <1>10, <1>12, <3>1
    <3>3. mem'[w + k] = stream[k]
      BY <1>8, <3>1
    <3>4. Pending[Size + k] = stream[k]
      BY <1>13, <3>1
    <3> QED BY <3>1, <3>2, <3>3, <3>4
  <2>4. CASE ~ (i <= Size + n)
    <3> DEFINE k == i - (Size + n)
    <3>1. k \in 1..(Len(stream) - n) /\ n + k \in 1..Len(stream) /\ Size + (n + k) = i /\ Size' + k = i
          /\ k \in 1..Len(stream')
      BY <1>4, <1>6, <1>9, <1>12, <2>1, <2>4
    <3> HIDE DEF k
    <3>2. Pending'[Size' + k] = stream'[k]
      BY <1>12, <3>1
    <3>3. stream'[k] = stream[n + k]
      BY <1>9, <3>1
    <3>4. Pending[Size + (n + k)] = stream[n + k]
      BY <1>13, <3>1
    <3> QED BY <3>1, <3>2, <3>3, <3>4
  <2> QED BY <2>2, <2>3, <2>4
<1>16. Pending' = Pending
  BY <1>12, <1>13, <1>14, <1>15, SeqEqual
<1> QED BY <1>11, <1>16

LEMMA ReadKeeps ==
    ASSUME BufferOK, FramesAreMessages, LegalStaysUp, conn = "up", NEW at, Framed(at), Read
    PROVE  BufferOK' /\ FramesAreMessages' /\ LegalStaysUp' /\ \E b : Framed(b)'
<1>1. BufferOK' /\ Pending' = Pending
  BY ReadMoves
<1>2. UNCHANGED <<sent, fired, peer, conn>>
  BY DEF Read
<1>3. FramesAreMessages' /\ LegalStaysUp'
  BY <1>2 DEF FramesAreMessages, LegalStaysUp
<1>4. Marks(at)'
  BY <1>2 DEF Framed, Marks
<1>5. Holds(at)'
  BY <1>1, <1>2 DEF Framed, Holds, Begin, Unfired
<1>6. Rest(at)' = Rest(at)
  BY <1>1, <1>2 DEF Rest
<1>7. Remains(at)'
  <2>1. CASE peer = "up"
    BY <1>2, <1>6, <2>1 DEF Framed, Remains
  <2>2. CASE peer = "failed"
    <3>1. PICK p \in Payloads :
             /\ Rest(at) < Len(Frame(p))
             /\ \A x \in 1..Rest(at) : Pending[at[Len(sent)] - at[Len(fired)] + x] = Frame(p)[x]
      BY <2>2 DEF Framed, Remains
    <3>2. (\A x \in 1..Rest(at) : Pending[at[Len(sent)] - at[Len(fired)] + x] = Frame(p)[x])'
      BY <1>1, <1>2, <1>6, <3>1
    <3>3. Rest(at)' >= 0 /\ peer' = "failed" /\ Rest(at)' < Len(Frame(p))
      BY <1>2, <1>6, <2>2, <3>1 DEF Framed, Remains
    <3> QED BY <3>2, <3>3 DEF Remains
  <2> QED BY <2>1, <2>2 DEF BufferOK
<1> QED BY <1>1, <1>3, <1>4, <1>5, <1>7 DEF Framed

(* Who keeps to the format is disconnected for leaving, or for a frame     *)
(* that no buffer holds.                                                   *)
LEMMA ReadFailsKeeps ==
    ASSUME BufferOK, FramesAreMessages, LegalStaysUp, conn = "up", NEW at, Framed(at), ReadFails
    PROVE  BufferOK' /\ FramesAreMessages' /\ LegalStaysUp' /\ \E b : Framed(b)'
<1>1. /\ Matched(Data) = Partial
      /\ (conn' = "not_found" /\ Size >= MaxBuffer) \/ conn' = "eof"
  BY DEF ReadFails
<1>2. UNCHANGED <<sent, fired, stream, mem, rpos, wpos, cap, peer>>
  BY DEF ReadFails
<1>3. BufferOK' /\ FramesAreMessages'
  BY <1>1, <1>2 DEF BufferOK, FramesAreMessages
<1>4. Pending' = Pending
  BY <1>2 DEF Pending, Data
<1>5. Framed(at)'
  BY <1>2, <1>4 DEF Framed, Marks, Holds, Remains, Rest, Begin, Unfired
<1>6. LegalStaysUp'
  <2>1. CASE conn' = "eof"
    BY <2>1 DEF LegalStaysUp
  <2>2. CASE conn' = "not_found" /\ Size >= MaxBuffer
    <3>1. Size \in 0..MaxBuffer /\ MaxBuffer \in Nat
      BY PendingIs, SizeAssumption
    <3>2. CASE Len(fired) = Len(sent)
      BY <1>2, <2>2, <3>2 DEF LegalStaysUp
    <3>3. CASE Len(fired) # Len(sent)
      <4>1. NextFrame \in Nat \ {0} /\ Matched(Data) = IF Size < NextFrame THEN Partial ELSE NextFrame
        BY <3>3, MatchedNow
      <4>2. Size < NextFrame
        BY <1>1, <3>1, <4>1 DEF Partial
      <4>3. Len(Frame(sent[Len(fired) + 1])) > MaxBuffer
        BY <2>2, <3>1, <4>1, <4>2 DEF NextFrame
      <4> QED BY <1>2, <2>2, <4>3 DEF LegalStaysUp
    <3> QED BY <3>2, <3>3
  <2> QED BY <1>1, <2>1, <2>2
<1> QED BY <1>3, <1>5, <1>6

-----------------------------------------------------------------------------
LEMMA NextFramed == FrameInv /\ [Next]_vars => FrameInv'
<1> SUFFICES ASSUME FrameInv, [Next]_vars, peer' # "faulty"
             PROVE  BufferOK' /\ FramesAreMessages' /\ LegalStaysUp' /\ \E b : Framed(b)'
  BY DEF FrameInv
<1>1. peer # "faulty"
  BY DEF Next, vars, Send, SendFails, SendIllegal, Read, Fire, ReadFails
<1>2. BufferOK /\ FramesAreMessages /\ LegalStaysUp
  BY <1>1 DEF FrameInv
<1>3. PICK at : Framed(at)
  BY <1>1 DEF FrameInv
<1>4. CASE UNCHANGED vars
  <2>1. UNCHANGED <<sent, fired, stream, mem, rpos, wpos, cap, peer, conn>>
    BY <1>4 DEF vars
  <2>2. BufferOK' /\ FramesAreMessages' /\ LegalStaysUp'
    BY <1>2, <2>1 DEF BufferOK, FramesAreMessages, LegalStaysUp
  <2>3. Pending' = Pending
    BY <2>1 DEF Pending, Data
  <2>4. Framed(at)'
    BY <1>3, <2>1, <2>3 DEF Framed, Marks, Holds, Remains, Rest, Begin, Unfired
  <2> QED BY <2>2, <2>4
<1>5. CASE Send
  BY <1>2, <1>3, <1>5, SendKeeps DEF Send
<1>6. CASE SendFails
  BY <1>2, <1>3, <1>6, SendFailsKeeps DEF SendFails
<1>7. CASE SendIllegal
  BY <1>7 DEF SendIllegal
<1>8. CASE Read
  BY <1>2, <1>3, <1>8, ReadKeeps DEF Read
<1>9. CASE Fire
  BY <1>2, <1>3, <1>9, FireKeeps DEF Fire
<1>10. CASE ReadFails
  BY <1>2, <1>3, <1>10, ReadFailsKeeps DEF ReadFails
<1> QED BY <1>4, <1>5, <1>6, <1>7, <1>8, <1>9, <1>10 DEF Next

LEMMA FramesTell == FrameInv => FramesAreMessages /\ NothingStuck /\ LegalStaysUp
<1> SUFFICES ASSUME FrameInv PROVE FramesAreMessages /\ NothingStuck /\ LegalStaysUp
  OBVIOUS
<1>1. CASE peer = "faulty"
  BY <1>1 DEF FramesAreMessages, NothingStuck, LegalStaysUp
<1>2. CASE peer # "faulty"
  <2>1. BufferOK /\ FramesAreMessages /\ LegalStaysUp
    BY <1>2 DEF FrameInv
  <2>2. PICK at : Framed(at)
    BY <1>2 DEF FrameInv
  <2>3. ASSUME conn = "up", peer = "up", stream = <<>>, Matched(Data) = Partial PROVE fired = sent
    <3>1. Size \in 0..MaxBuffer /\ MaxBuffer \in Nat /\ Len(stream) = 0
      BY <2>1, <2>3, PendingIs, SizeAssumption
    <3>2. Len(fired) = Len(sent)
      <4>1. SUFFICES ASSUME Len(fired) # Len(sent) PROVE FALSE
        OBVIOUS
      <4>2. /\ NextFrame \in Nat \ {0} /\ Size + Len(stream) >= NextFrame
            /\ Matched(Data) = IF Size < NextFrame THEN Partial ELSE NextFrame
        BY <2>1, <2>2, <4>1, MatchedNow
      <4> QED BY <2>3, <3>1, <4>2 DEF Partial
    <3>3. fired = SubSeq(sent, 1, Len(sent)) /\ sent \in Seq(Payloads)
      BY <1>2, <2>1, <3>2 DEF FramesAreMessages, BufferOK
    <3> QED BY <3>3
  <2> QED BY <2>1, <2>3 DEF NothingStuck
<1> QED BY <1>1, <1>2

(* However the stream is cut into pieces, and whatever the payloads, the   *)
(* digits of a length and the buffer are: on_recv sees what was sent, and  *)
(* of a frame that was cut off nothing (_tcp_dgram_fire_recv);             *)
(* async_read_until() does not wait for octets that are already there; and *)
(* dgram_match_role() calls no legal header illegal, while the buffer is   *)
(* full only of a frame that is larger than it.                            *)
THEOREM MessagesAreWhole == Spec => []StreamIsFramed
<1>1. FrameInv => StreamIsFramed
  BY FramesTell DEF StreamIsFramed
<1> QED BY <1>1, InitFramed, NextFramed, PTL DEF Spec

-----------------------------------------------------------------------------
(***************************************************************************)
(* Blocks.  Messages and buffers are of symbols: bytes, the marker, zeros, *)
(* the words of the length, and what a buffer held at first.               *)
(***************************************************************************)
Symbol == Nat \cup {Marker, Zero, "old"} \cup ({"lo", "hi"} \X Nat)
Blocks == [1..Block -> Symbol]

LEMMA BlockIs == Block \in Nat \ {0} /\ Block > 2 /\ LengthBytes \in Nat
  BY BlockAssumption

LEMMA RemainderIs ==
    ASSUME NEW a \in Nat, NEW b \in Nat \ {0}, NEW q \in Nat, NEW r \in 0..b - 1, a = b * q + r
    PROVE  a \div b = q /\ a % b = r
<1>1. a \div b = q
  BY QuotientIs
<1> QED BY <1>1, Division

(* The k-th block is behind k - 1 whole ones.                              *)
LEMMA Behind ==
    ASSUME NEW n \in Nat, NEW k \in 1..(n \div Block), NEW j \in 1..Block
    PROVE  /\ (k - 1) * Block \in Nat /\ k * Block = (k - 1) * Block + Block
           /\ k * Block <= n /\ (k - 1) * Block + j \in 1..n
<1> DEFINE q == n \div Block  p == (k - 1) * Block  r == (q - k) * Block
<1>1. q \in Nat /\ n % Block \in Nat /\ n = Block * q + (n % Block)
  BY BlockIs, Division
<1> HIDE DEF q
<1>2. k \in Nat \ {0} /\ k <= q /\ k - 1 \in Nat /\ q - k \in Nat
  BY <1>1 DEF q
<1>3. p \in Nat /\ r \in Nat
  BY <1>1, <1>2, BlockIs
<1>4. k * Block = p + Block /\ Block * q = k * Block + r
  BY <1>1, <1>2, BlockIs
<1>5. k * Block <= n
  BY <1>1, <1>3, <1>4, BlockIs
<1> HIDE DEF p, r
<1>6. p + j \in 1..n
  BY <1>3, <1>4, <1>5, BlockIs
<1> QED BY <1>3, <1>4, <1>5, <1>6 DEF p

LEMMA BlocksAre ==
    ASSUME NEW m \in Seq(Symbol)
    PROVE  /\ BlocksOf(m) \in Seq(Blocks) /\ Len(BlocksOf(m)) = Len(m) \div Block
           /\ Len(m) \div Block \in Nat
           /\ \A k \in 1..(Len(m) \div Block) : \A j \in 1..Block :
                 BlocksOf(m)[k][j] = m[(k - 1) * Block + j]
<1> DEFINE q == Len(m) \div Block
<1>1. Len(m) \in Nat /\ q \in Nat
  BY BlockIs, Division, LenProperties
<1>2. ASSUME NEW k \in 1..q
      PROVE  /\ SubSeq(m, (k - 1) * Block + 1, k * Block) \in Blocks
             /\ \A j \in 1..Block : SubSeq(m, (k - 1) * Block + 1, k * Block)[j] = m[(k - 1) * Block + j]
  <2> DEFINE p == (k - 1) * Block
             s == SubSeq(m, p + 1, k * Block)
  <2>1. /\ p \in Nat /\ k * Block = p + Block /\ k * Block <= Len(m)
        /\ \A j \in 1..Block : p + j \in 1..Len(m)
    BY <1>1, BlockIs, Behind
  <2> HIDE DEF p, q
  <2>2. s = [j \in 1..Block |-> m[p + j]]
    <3>1. s = SubSeq(m, p + 1, p + Block)
      BY <2>1
    <3>2. /\ p + 1 \in Int /\ p + Block \in Int /\ p + 1 >= 1 /\ p + Block <= Len(m)
          /\ (p + Block) - (p + 1) + 1 = Block
      BY <2>1, BlockIs
    <3>3. SubSeq(m, p + 1, p + Block) = [j \in 1..Block |-> m[j + (p + 1) - 1]]
      BY <1>1, <3>2, BlockIs
    <3>4. \A j \in 1..Block : j + (p + 1) - 1 = p + j
      BY <2>1, BlockIs
    <3> QED BY <3>1, <3>3, <3>4
  <2>3. \A j \in 1..Block : m[p + j] \in Symbol
    BY <2>1
  <2> HIDE DEF s
  <2>4. s \in Blocks /\ \A j \in 1..Block : s[j] = m[p + j]
    BY <2>2, <2>3 DEF Blocks
  <2> QED BY <2>4 DEF p, s
<1>3. BlocksOf(m) = [k \in 1..q |-> SubSeq(m, (k - 1) * Block + 1, k * Block)]
  BY DEF BlocksOf
<1> HIDE DEF q
<1>4. BlocksOf(m) \in [1..q -> Blocks]
  BY <1>2, <1>3
<1>5. BlocksOf(m) \in Seq(Blocks) /\ Len(BlocksOf(m)) = q
  BY <1>1, <1>4, SeqDef
<1>6. \A k \in 1..q : \A j \in 1..Block : BlocksOf(m)[k][j] = m[(k - 1) * Block + j]
  BY <1>2, <1>3
<1> QED BY <1>1, <1>5, <1>6 DEF q

(* They are all that is in it.                                             *)
LEMMA BlocksEqual ==
    ASSUME NEW m \in Seq(Symbol), NEW s \in Seq(Blocks), Len(s) = Len(m) \div Block,
           \A k \in 1..Len(s) : \A j \in 1..Block : s[k][j] = m[(k - 1) * Block + j]
    PROVE  BlocksOf(m) = s
<1> DEFINE t == BlocksOf(m)
<1>1. /\ t \in Seq(Blocks) /\ Len(t) = Len(s)
      /\ \A k \in 1..Len(s) : \A j \in 1..Block : t[k][j] = m[(k - 1) * Block + j]
  BY BlocksAre
<1> HIDE DEF t
<1>2. ASSUME NEW k \in 1..Len(s) PROVE t[k] = s[k]
  <2>1. t[k] \in Blocks /\ s[k] \in Blocks
    BY <1>1
  <2>2. \A j \in 1..Block : t[k][j] = s[k][j]
    BY <1>1
  <2>3. t[k] = [j \in 1..Block |-> t[k][j]] /\ s[k] = [j \in 1..Block |-> s[k][j]]
    BY <2>1 DEF Blocks
  <2> DEFINE x == t[k]  y == s[k]
  <2>4. x = [j \in 1..Block |-> x[j]] /\ y = [j \in 1..Block |-> y[j]] /\ \A j \in 1..Block : x[j] = y[j]
    BY <2>2, <2>3
  <2> HIDE DEF x, y
  <2>5. x = y
    BY <2>4
  <2> QED BY <2>5 DEF x, y
<1> QED BY <1>1, <1>2, SeqEqual DEF t

LEMMA LengthIs ==
    ASSUME NEW m \in Seq(Symbol)
    PROVE  /\ Len(m) \in Nat /\ Len(m) \div Block \in Nat /\ Len(m) % Block \in 0..(Block - 1)
           /\ Len(m) = Block * (Len(m) \div Block) + (Len(m) % Block)
<1>1. Len(m) \in Nat
  BY LenProperties
<1> QED BY <1>1, BlockIs, Division

LEMMA JoinedIs ==
    ASSUME NEW S, NEW s \in Seq(S), NEW t \in Seq(S)
    PROVE  /\ s \o t \in Seq(S) /\ Len(s \o t) = Len(s) + Len(t)
           /\ \A i \in 1..Len(s) : (s \o t)[i] = s[i]
           /\ \A i \in 1..Len(t) : (s \o t)[Len(s) + i] = t[i]
<1>1. Len(s) \in Nat /\ Len(t) \in Nat
  BY LenProperties
<1>2. /\ s \o t \in Seq(S) /\ Len(s \o t) = Len(s) + Len(t)
      /\ \A i \in 1..(Len(s) + Len(t)) : (s \o t)[i] = IF i <= Len(s) THEN s[i] ELSE t[i - Len(s)]
  BY <1>1, ConcatProperties
<1>3. ASSUME NEW i \in 1..Len(s) PROVE (s \o t)[i] = s[i]
  BY <1>1, <1>2
<1>4. ASSUME NEW i \in 1..Len(t) PROVE (s \o t)[Len(s) + i] = t[i]
  <2>1. /\ Len(s) + i \in 1..(Len(s) + Len(t)) /\ ~ (Len(s) + i <= Len(s))
        /\ (Len(s) + i) - Len(s) = i
    BY <1>1
  <2> QED BY <1>2, <2>1
<1> QED BY <1>2, <1>3, <1>4

(* The l-th block after q others.                                          *)
LEMMA After ==
    ASSUME NEW q \in Nat, NEW l \in Nat, NEW j \in Int
    PROVE  ((q + l) - 1) * Block + j = Block * q + ((l - 1) * Block + j)
<1>1. ((q + l) - 1) * Block = Block * q + (l - 1) * Block
  BY BlockIs
<1> QED BY <1>1, BlockIs

LEMMA Together ==
    ASSUME NEW q \in Nat, NEW n \in Nat, NEW r \in 0..(Block - 1), NEW a, a = Block * q + (Block * n + r)
    PROVE  a \div Block = q + n /\ a % Block = r
<1>1. Block * q \in Nat /\ Block * n \in Nat /\ Block * (q + n) = Block * q + Block * n
  BY BlockIs
<1>2. a \in Nat /\ a = Block * (q + n) + r /\ q + n \in Nat
  BY <1>1, BlockIs
<1> QED BY <1>2, BlockIs, RemainderIs

(* Blocks s behind those of m.                                             *)
SameTo(e, m, n) == \A i \in 1..n : e[i] = m[i]
LaidAt(s, e, w) == \A k \in 1..Len(s) : \A j \in 1..Block : s[k][j] = e[w + ((k - 1) * Block + j)]

LEMMA BlocksMore ==
    ASSUME NEW m \in Seq(Symbol), NEW e \in Seq(Symbol), NEW s \in Seq(Blocks),
           NEW q, q = Len(m) \div Block, Len(e) \div Block = q + Len(s),
           SameTo(e, m, Block * q), LaidAt(s, e, Block * q)
    PROVE  BlocksOf(e) = BlocksOf(m) \o s
<1> DEFINE x == BlocksOf(m)  y == x \o s
<1>1. q \in Nat /\ Block * q \in Nat /\ Len(s) \in Nat
  BY BlockIs, LengthIs, LenProperties
<1>2. /\ x \in Seq(Blocks) /\ Len(x) = q
      /\ \A k \in 1..q : \A j \in 1..Block : x[k][j] = m[(k - 1) * Block + j]
  BY BlocksAre
<1>3. \A k \in 1..q : \A j \in 1..Block : (k - 1) * Block + j \in 1..(Block * q)
  <2>1. (Block * q) \div Block = q
    BY <1>1, BlockIs, QuotientIs
  <2> QED BY <1>1, <2>1, Behind
<1> HIDE DEF x
<1>4. /\ y \in Seq(Blocks) /\ Len(y) = q + Len(s)
      /\ \A k \in 1..q : y[k] = x[k]
      /\ \A k \in 1..Len(s) : y[q + k] = s[k]
  <2>1. x \in Seq(Blocks)
    BY <1>2
  <2>2. /\ x \o s \in Seq(Blocks) /\ Len(x \o s) = Len(x) + Len(s)
        /\ \A i \in 1..Len(x) : (x \o s)[i] = x[i]
        /\ \A i \in 1..Len(s) : (x \o s)[Len(x) + i] = s[i]
    BY <2>1, JoinedIs
  <2>3. Len(x) = q
    BY <1>2
  <2> QED BY <2>2, <2>3
<1> HIDE DEF y
<1>5. ASSUME NEW k \in 1..(q + Len(s)), NEW j \in 1..Block
      PROVE  y[k][j] = e[(k - 1) * Block + j]
  <2>1. CASE k <= q
    <3>1. k \in 1..q
      BY <1>1, <2>1
    <3>2. y[k] = x[k] /\ x[k][j] = m[(k - 1) * Block + j]
      BY <1>2, <1>4, <3>1
    <3>3. e[(k - 1) * Block + j] = m[(k - 1) * Block + j]
      BY <1>3, <3>1 DEF SameTo
    <3> QED BY <3>2, <3>3
  <2>2. CASE k > q
    <3> DEFINE l == k - q
    <3>1. l \in 1..Len(s) /\ l \in Nat /\ k = q + l
      BY <1>1, <2>2
    <3> HIDE DEF l
    <3>2. ((q + l) - 1) * Block + j = Block * q + ((l - 1) * Block + j)
      BY <1>1, <3>1, BlockIs, After
    <3>3. y[q + l] = s[l] /\ s[l][j] = e[Block * q + ((l - 1) * Block + j)]
      BY <1>4, <3>1 DEF LaidAt
    <3> QED BY <3>1, <3>2, <3>3
  <2>3. k <= q \/ k > q
    BY <1>1
  <2> QED BY <2>1, <2>2, <2>3
<1>6. Len(y) = Len(e) \div Block /\ \A k \in 1..Len(y) : \A j \in 1..Block : y[k][j] = e[(k - 1) * Block + j]
  BY <1>4, <1>5
<1>7. BlocksOf(e) = y
  BY <1>4, <1>6, BlocksEqual
<1> QED BY <1>7 DEF x, y

(* Blocks before and after a whole number of them.                         *)
LEMMA BlocksJoin ==
    ASSUME NEW m \in Seq(Symbol), NEW d \in Seq(Symbol), Len(m) % Block = 0
    PROVE  /\ BlocksOf(m \o d) = BlocksOf(m) \o BlocksOf(d)
           /\ Len(m \o d) % Block = Len(d) % Block
           /\ Block * (Len(m \o d) \div Block) = Len(m) + Block * (Len(d) \div Block)
<1> DEFINE q == Len(m) \div Block  n == Len(d) \div Block  r == Len(d) % Block
           y == BlocksOf(d)  e == m \o d
<1>1. q \in Nat /\ Block * q \in Nat /\ Len(m) = Block * q
  BY BlockIs, LengthIs
<1>2. Len(d) \in Nat /\ n \in Nat /\ Block * n \in Nat /\ r \in 0..(Block - 1) /\ Len(d) = Block * n + r
  BY BlockIs, LengthIs
<1>3. /\ e \in Seq(Symbol) /\ Len(e) = Len(m) + Len(d)
      /\ \A i \in 1..Len(m) : e[i] = m[i]
      /\ \A i \in 1..Len(d) : e[Len(m) + i] = d[i]
  BY JoinedIs
<1>4. /\ y \in Seq(Blocks) /\ Len(y) = n
      /\ \A k \in 1..n : \A j \in 1..Block : y[k][j] = d[(k - 1) * Block + j]
  BY BlocksAre
<1>5. \A k \in 1..n : \A j \in 1..Block : (k - 1) * Block + j \in 1..Len(d)
  BY <1>2, Behind
<1>6. q = Len(m) \div Block
  OBVIOUS
<1> HIDE DEF q, n, r, y, e
<1>7. Len(e) \div Block = q + n /\ Len(e) % Block = r
  BY <1>1, <1>2, <1>3, Together
<1>8. ASSUME NEW k \in 1..n, NEW j \in 1..Block
      PROVE  y[k][j] = e[Block * q + ((k - 1) * Block + j)]
  <2> DEFINE p == (k - 1) * Block + j
  <2>1. p \in 1..Len(d) /\ y[k][j] = d[p]
    BY <1>4, <1>5
  <2> HIDE DEF p
  <2>2. e[Block * q + p] = d[p]
    BY <1>1, <1>3, <2>1
  <2> QED BY <2>1, <2>2 DEF p
<1>9. BlocksOf(e) = BlocksOf(m) \o y
  <2>1. SameTo(e, m, Block * q)
    BY <1>1, <1>3 DEF SameTo
  <2>2. Len(e) \div Block = q + Len(y) /\ LaidAt(y, e, Block * q)
    BY <1>4, <1>7, <1>8 DEF LaidAt
  <2> QED BY <1>3, <1>4, <1>6, <2>1, <2>2, BlocksMore
<1>10. Block * (q + n) = Len(m) + Block * n
  BY <1>1, <1>2, BlockIs
<1> QED BY <1>7, <1>9, <1>10 DEF e, y, r, n

(* Less than a block makes none.                                           *)
LEMMA BlocksShort ==
    ASSUME NEW m \in Seq(Symbol), NEW d \in Seq(Symbol), (Len(m) % Block) + Len(d) < Block
    PROVE  /\ BlocksOf(m \o d) = BlocksOf(m)
           /\ Len(m \o d) \div Block = Len(m) \div Block
           /\ Len(m \o d) % Block = (Len(m) % Block) + Len(d)
<1> DEFINE q == Len(m) \div Block  r == Len(m) % Block  e == m \o d
<1>1. q \in Nat /\ r \in 0..(Block - 1) /\ Len(m) \in Nat /\ Len(m) = Block * q + r
  BY LengthIs
<1>2. Len(d) \in Nat /\ r + Len(d) < Block
  BY LengthIs
<1>3. /\ e \in Seq(Symbol) /\ Len(e) = Len(m) + Len(d)
      /\ \A i \in 1..Len(m) : e[i] = m[i]
  BY JoinedIs
<1>4. q = Len(m) \div Block
  OBVIOUS
<1> HIDE DEF q, r, e
<1>5. Len(e) \div Block = q /\ Len(e) % Block = r + Len(d)
  <2> DEFINE a == Len(e)  b == r + Len(d)
  <2>1. Block * q \in Nat /\ a = Block * q + b /\ b \in 0..(Block - 1)
    BY <1>1, <1>2, <1>3, BlockIs
  <2>2. a \in Nat
    BY <1>3, LengthIs
  <2> HIDE DEF a, b
  <2>3. a \div Block = q /\ a % Block = b
    BY <1>1, <2>1, <2>2, BlockIs, RemainderIs
  <2> QED BY <2>3 DEF a, b
<1>6. BlocksOf(e) = BlocksOf(m) \o <<>>
  <2>1. <<>> \in Seq(Blocks) /\ Len(<<>>) = 0
    BY EmptySeq
  <2>2. SameTo(e, m, Block * q)
    <3>1. Block * q \in Nat /\ Block * q <= Len(m)
      BY <1>1, BlockIs
    <3> QED BY <1>1, <1>3, <3>1 DEF SameTo
  <2>3. Len(e) \div Block = q + Len(<<>>)
    BY <1>1, <1>5, <2>1
  <2>4. LaidAt(<<>>, e, Block * q)
    BY <2>1 DEF LaidAt
  <2> QED BY <1>3, <1>4, <2>1, <2>2, <2>3, <2>4, BlocksMore
<1>7. BlocksOf(m) \o <<>> = BlocksOf(m)
  BY BlocksAre, ConcatEmptySeq
<1> QED BY <1>5, <1>6, <1>7 DEF e, q, r

-----------------------------------------------------------------------------
(***************************************************************************)
(* The whole blocks of a message, and the rest behind them.                *)
(***************************************************************************)
Ends(m) == (Len(m) \div Block) * Block
Whole(m) == SubSeq(m, 1, Ends(m))
Residue(m) == SubSeq(m, Ends(m) + 1, Len(m))

LEMMA PiecesAre ==
    ASSUME NEW m \in Seq(Symbol), NEW n \in 0..Len(m)
    PROVE  /\ SubSeq(m, 1, n) \in Seq(Symbol) /\ Len(SubSeq(m, 1, n)) = n
           /\ \A i \in 1..n : SubSeq(m, 1, n)[i] = m[i]
           /\ SubSeq(m, n + 1, Len(m)) \in Seq(Symbol) /\ Len(SubSeq(m, n + 1, Len(m))) = Len(m) - n
           /\ \A i \in 1..(Len(m) - n) : SubSeq(m, n + 1, Len(m))[i] = m[n + i]
           /\ m = SubSeq(m, 1, n) \o SubSeq(m, n + 1, Len(m))
<1>1. Len(m) \in Nat
  BY LengthIs
<1> DEFINE s == SubSeq(m, 1, n)  t == SubSeq(m, n + 1, Len(m))
<1>2. s = [i \in 1..n |-> m[i]]
  BY <1>1
<1>3. \A i \in 1..n : m[i] \in Symbol
  BY <1>1
<1>4. t = [i \in 1..(Len(m) - n) |-> m[n + i]]
  <2>1. t = [i \in 1..(Len(m) - (n + 1) + 1) |-> m[i + (n + 1) - 1]]
    BY <1>1
  <2>2. Len(m) - (n + 1) + 1 = Len(m) - n /\ \A i \in 1..(Len(m) - n) : i + (n + 1) - 1 = n + i
    BY <1>1
  <2> QED BY <2>1, <2>2
<1>5. \A i \in 1..(Len(m) - n) : m[n + i] \in Symbol
  BY <1>1
<1> HIDE DEF s, t
<1>6. s \in [1..n -> Symbol] /\ t \in [1..(Len(m) - n) -> Symbol]
  BY <1>2, <1>3, <1>4, <1>5
<1>7. n \in Nat /\ Len(m) - n \in Nat
  BY <1>1
<1>8. s \in Seq(Symbol) /\ Len(s) = n /\ t \in Seq(Symbol) /\ Len(t) = Len(m) - n
  BY <1>6, <1>7, SeqDef
<1>9. /\ \A i \in 1..n : s[i] = m[i]
      /\ \A i \in 1..(Len(m) - n) : t[i] = m[n + i]
  BY <1>2, <1>4
<1>10. m = s \o t
  <2>1. /\ s \o t \in Seq(Symbol) /\ Len(s \o t) = Len(m)
        /\ \A i \in 1..n : (s \o t)[i] = s[i]
        /\ \A i \in 1..(Len(m) - n) : (s \o t)[n + i] = t[i]
    BY <1>1, <1>7, <1>8, JoinedIs
  <2> DEFINE e == s \o t
  <2> HIDE DEF e
  <2>2. ASSUME NEW i \in 1..Len(m) PROVE e[i] = m[i]
    <3>1. CASE i <= n
      BY <1>9, <2>1, <3>1 DEF e
    <3>2. CASE i > n
      <4>1. i - n \in 1..(Len(m) - n) /\ n + (i - n) = i
        BY <1>1, <3>2
      <4>2. e[n + (i - n)] = t[i - n] /\ t[i - n] = m[n + (i - n)]
        BY <1>9, <2>1, <4>1 DEF e
      <4> QED BY <4>1, <4>2
    <3> QED BY <1>1, <1>7, <3>1, <3>2
  <2>3. e \in Seq(Symbol) /\ Len(e) = Len(m)
    BY <2>1 DEF e
  <2>4. e = m
    BY <2>2, <2>3, SeqEqual
  <2> QED BY <2>4 DEF e
<1> QED BY <1>8, <1>9, <1>10 DEF s, t

LEMMA EndsIs ==
    ASSUME NEW m \in Seq(Symbol)
    PROVE  /\ Ends(m) \in 0..Len(m) /\ Ends(m) = Block * (Len(m) \div Block)
           /\ Len(m) - Ends(m) = Len(m) % Block
<1> DEFINE q == Len(m) \div Block  r == Len(m) % Block
<1>1. Len(m) \in Nat /\ q \in Nat /\ r \in 0..(Block - 1) /\ Len(m) = Block * q + r
  BY LengthIs
<1>2. Ends(m) = q * Block
  BY DEF Ends
<1> HIDE DEF q, r
<1>3. q * Block = Block * q /\ Block * q \in Nat
  BY <1>1, BlockIs
<1> QED BY <1>1, <1>2, <1>3 DEF q, r

LEMMA WholeIs ==
    ASSUME NEW m \in Seq(Symbol)
    PROVE  /\ Whole(m) \in Seq(Symbol) /\ Len(Whole(m)) = Ends(m) /\ Ends(m) % Block = 0
           /\ Residue(m) \in Seq(Symbol) /\ Len(Residue(m)) = Len(m) % Block
           /\ \A i \in 1..(Len(m) % Block) : Residue(m)[i] = m[Ends(m) + i]
           /\ m = Whole(m) \o Residue(m)
           /\ BlocksOf(Whole(m)) = BlocksOf(m)
<1> DEFINE x == Whole(m)  y == Residue(m)  b == Ends(m)  q == Len(m) \div Block  r == Len(m) % Block
<1>1. b \in 0..Len(m) /\ b = Block * q /\ Len(m) - b = r
  BY EndsIs
<1>2. q \in Nat /\ r \in 0..(Block - 1)
  BY LengthIs
<1>3. /\ x \in Seq(Symbol) /\ Len(x) = b /\ y \in Seq(Symbol) /\ Len(y) = Len(m) - b
      /\ \A i \in 1..(Len(m) - b) : y[i] = m[b + i]
      /\ m = x \o y
  BY <1>1, PiecesAre DEF Whole, Residue
<1> HIDE DEF q, r, b, x, y
<1>4. b % Block = 0
  <2>1. b = Block * q + 0 /\ b \in Nat
    BY <1>1, <1>2, BlockIs, LengthIs
  <2> QED BY <1>2, <2>1, BlockIs, RemainderIs
<1>5. BlocksOf(m) = BlocksOf(x)
  <2>1. (Len(x) % Block) + Len(y) < Block
    BY <1>1, <1>2, <1>3, <1>4, BlockIs
  <2>2. BlocksOf(x \o y) = BlocksOf(x)
    BY <1>3, <2>1, BlocksShort
  <2> QED BY <1>3, <2>2
<1>6. Len(y) = r /\ \A i \in 1..r : y[i] = m[b + i]
  BY <1>1, <1>3
<1> QED BY <1>3, <1>4, <1>5, <1>6 DEF x, y, b, r

LEMMA CopiedIs ==
    ASSUME NEW buffer \in Blocks, NEW at \in Nat, NEW d \in Seq(Symbol)
    PROVE  /\ Copied(buffer, at, d) \in Blocks
           /\ \A i \in 1..Block :
                 /\ i <= at => Copied(buffer, at, d)[i] = buffer[i]
                 /\ i > at /\ i <= at + Len(d) => Copied(buffer, at, d)[i] = d[i - at]
                 /\ i > at + Len(d) => Copied(buffer, at, d)[i] = buffer[i]
<1>1. Len(d) \in Nat /\ DOMAIN d = 1..Len(d) /\ \A i \in 1..Len(d) : d[i] \in Symbol
  BY LengthIs
<1>2. \A i \in 1..Block : buffer[i] \in Symbol
  BY DEF Blocks
<1> DEFINE c == Copied(buffer, at, d)
<1>3. c = [i \in 1..Block |-> IF i - at \in 1..Len(d) THEN d[i - at] ELSE buffer[i]]
  BY <1>1 DEF Copied
<1> HIDE DEF c
<1>4. c \in [1..Block -> Symbol]
  BY <1>1, <1>2, <1>3
<1>5. ASSUME NEW i \in 1..Block
      PROVE  /\ i <= at => c[i] = buffer[i]
             /\ i > at /\ i <= at + Len(d) => c[i] = d[i - at]
             /\ i > at + Len(d) => c[i] = buffer[i]
  BY <1>1, <1>3, BlockIs
<1> QED BY <1>4, <1>5 DEF c, Blocks

LEMMA BlockOfOne ==
    ASSUME NEW b \in Blocks
    PROVE  b \in Seq(Symbol) /\ Len(b) = Block /\ BlocksOf(b) = <<b>>
<1>1. b \in Seq(Symbol) /\ Len(b) = Block
  BY BlockIs, SeqDef DEF Blocks
<1>2. Block \div Block = 1
  BY BlockIs, QuotientIs
<1>3. <<b>> \in Seq(Blocks) /\ Len(<<b>>) = 1 /\ <<b>>[1] = b
  OBVIOUS
<1>4. \A k \in 1..Len(<<b>>) : \A j \in 1..Block : <<b>>[k][j] = b[(k - 1) * Block + j]
  BY <1>3, BlockIs
<1> QED BY <1>1, <1>2, <1>3, <1>4, BlocksEqual

-----------------------------------------------------------------------------
(***************************************************************************)
(* The context of a message: its length, the blocks hashed and the rest,   *)
(* which is in the buffer.                                                 *)
(***************************************************************************)
Contexts == [lo : Nat, hi : Nat, buffer : Blocks, hashed : Seq(Blocks)]

HasCounted(c, m) == c.lo = Len(m) % LoMax /\ c.hi = Len(m) \div LoMax
HasRest(c, m) == \A i \in 1..(Len(m) % Block) : c.buffer[i] = m[Ends(m) + i]
HasHashed(c, m) == c.hashed = BlocksOf(m) /\ HasRest(c, m)
HoldsMessage(c, m) == c \in Contexts /\ HasCounted(c, m) /\ HasHashed(c, m)

LEMMA FieldsAre ==
    ASSUME NEW c \in Contexts
    PROVE  c.lo \in Nat /\ c.hi \in Nat /\ c.buffer \in Blocks /\ c.hashed \in Seq(Blocks)
  BY DEF Contexts

LEMMA SetBuffer ==
    ASSUME NEW c \in Contexts, NEW b \in Blocks, NEW n, n = [c EXCEPT !.buffer = b]
    PROVE  n \in Contexts /\ n.lo = c.lo /\ n.hi = c.hi /\ n.buffer = b /\ n.hashed = c.hashed
  BY DEF Contexts

LEMMA SetHashed ==
    ASSUME NEW c \in Contexts, NEW s \in Seq(Blocks), NEW n, n = [c EXCEPT !.hashed = s]
    PROVE  n \in Contexts /\ n.lo = c.lo /\ n.hi = c.hi /\ n.buffer = c.buffer /\ n.hashed = s
  BY DEF Contexts

(* lo and hi carry.                                                        *)
LEMMA CountedIs ==
    ASSUME NEW c \in Contexts, NEW m \in Seq(Symbol), NEW d \in Seq(Symbol), HasCounted(c, m)
    PROVE  /\ Counted(c, Len(d)) \in Contexts /\ HasCounted(Counted(c, Len(d)), m \o d)
           /\ Counted(c, Len(d)).buffer = c.buffer /\ Counted(c, Len(d)).hashed = c.hashed
<1> DEFINE n == Len(m)  s == Len(d)  h == n \div LoMax  l == n % LoMax
           a == s \div LoMax  b == s % LoMax  t == Len(m \o d)
           lo == (c.lo + s) % LoMax
           hi == c.hi + (IF lo < c.lo THEN 1 ELSE 0) + a
<1>1. LoMax \in Nat \ {0}
  BY BlockAssumption
<1>2. n \in Nat /\ s \in Nat /\ t = n + s
  BY LengthIs, JoinedIs
<1> HIDE DEF n, s, t
<1>3. /\ h \in Nat /\ l \in 0..(LoMax - 1) /\ n = LoMax * h + l
      /\ a \in Nat /\ b \in 0..(LoMax - 1) /\ s = LoMax * a + b
  BY <1>1, <1>2, Division
<1>4. c.lo = l /\ c.hi = h
  BY DEF HasCounted, n
<1>5. Counted(c, s) = [c EXCEPT !.lo = lo, !.hi = hi]
  BY DEF Counted
<1> HIDE DEF h, l, a, b
<1>6. lo \in Nat /\ hi \in Nat /\ t % LoMax = lo /\ t \div LoMax = hi
  <2>1. LoMax * h \in Nat /\ LoMax * a \in Nat /\ LoMax * (h + a) = LoMax * h + LoMax * a
        /\ LoMax * (h + a + 1) = LoMax * h + LoMax * a + LoMax /\ LoMax * (a + 1) = LoMax * a + LoMax
    BY <1>1, <1>3
  <2>2. c.lo + s \in Nat /\ c.lo + s = LoMax * a + (l + b) /\ t \in Nat
    BY <1>1, <1>2, <1>3, <1>4, <2>1
  <2>3. CASE l + b < LoMax
    <3>1. l + b \in 0..(LoMax - 1) /\ t = LoMax * (h + a) + (l + b) /\ h + a \in Nat
      BY <1>1, <1>2, <1>3, <2>1, <2>3
    <3>2. t \div LoMax = h + a /\ t % LoMax = l + b
      BY <1>1, <2>2, <3>1, RemainderIs
    <3>3. lo = l + b
      BY <1>1, <1>3, <2>2, <3>1, RemainderIs
    <3> HIDE DEF lo
    <3>4. hi = h + a
      BY <1>3, <1>4, <3>3
    <3> QED BY <1>3, <3>1, <3>2, <3>3, <3>4
  <2>4. CASE ~ (l + b < LoMax)
    <3> DEFINE r == l + b - LoMax
    <3>1. r \in 0..(LoMax - 1) /\ t = LoMax * (h + a + 1) + r /\ h + a + 1 \in Nat /\ a + 1 \in Nat
          /\ c.lo + s = LoMax * (a + 1) + r /\ r < l
      BY <1>1, <1>2, <1>3, <2>1, <2>2, <2>4
    <3> HIDE DEF r
    <3>2. t \div LoMax = h + a + 1 /\ t % LoMax = r
      BY <1>1, <2>2, <3>1, RemainderIs
    <3>3. lo = r
      BY <1>1, <2>2, <3>1, RemainderIs
    <3> HIDE DEF lo
    <3>4. hi = h + a + 1
      BY <1>3, <1>4, <3>1, <3>3
    <3> QED BY <3>1, <3>2, <3>3, <3>4
  <2> QED BY <2>3, <2>4
<1> HIDE DEF lo, hi
<1>7. /\ Counted(c, s) \in Contexts /\ Counted(c, s).lo = lo /\ Counted(c, s).hi = hi
      /\ Counted(c, s).buffer = c.buffer /\ Counted(c, s).hashed = c.hashed
  BY <1>5, <1>6 DEF Contexts
<1> QED BY <1>6, <1>7 DEF HasCounted, s, t

(* What lo tells of the buffer: a block divides LoMax.                     *)
LEMMA UsedIs ==
    ASSUME NEW n \in Nat
    PROVE  (n % LoMax) % Block = n % Block
<1> DEFINE h == n \div LoMax  l == n % LoMax  t == LoMax \div Block  u == l \div Block  v == l % Block
<1>1. LoMax \in Nat \ {0}
  BY BlockAssumption
<1>2. h \in Nat /\ l \in Nat /\ n = LoMax * h + l
  BY <1>1, Division
<1>3. t \in Nat /\ LoMax = Block * t
  BY <1>1, BlockAssumption, BlockIs, Division
<1> HIDE DEF h, l, t
<1>4. u \in Nat /\ v \in 0..(Block - 1) /\ l = Block * u + v
  BY <1>2, BlockIs, Division
<1> HIDE DEF u, v
<1>5. t * h \in Nat /\ LoMax * h = Block * (t * h)
  BY <1>2, <1>3, BlockIs
<1>6. n % Block = v
  BY <1>2, <1>4, <1>5, Together
<1> QED BY <1>6 DEF v, l

(* body() hashes whole blocks behind those hashed.                         *)
LEMMA BodyIs ==
    ASSUME NEW c \in Contexts, NEW d \in Seq(Symbol)
    PROVE  /\ body(c, d) \in Contexts /\ body(c, d).lo = c.lo /\ body(c, d).hi = c.hi
           /\ body(c, d).buffer = c.buffer /\ body(c, d).hashed = c.hashed \o BlocksOf(d)
<1> DEFINE s == c.hashed \o BlocksOf(d)
<1>1. s \in Seq(Blocks)
  <2>1. c.hashed \in Seq(Blocks) /\ BlocksOf(d) \in Seq(Blocks)
    BY FieldsAre, BlocksAre
  <2> QED BY <2>1, JoinedIs
<1>2. body(c, d) = [c EXCEPT !.hashed = s]
  BY DEF body
<1> HIDE DEF s
<1>3. /\ body(c, d) \in Contexts /\ body(c, d).lo = c.lo /\ body(c, d).hi = c.hi
      /\ body(c, d).buffer = c.buffer /\ body(c, d).hashed = s
  BY <1>1, <1>2, SetHashed
<1> QED BY <1>3 DEF s

LEMMA WholeBlocksAre ==
    ASSUME NEW c \in Contexts, NEW m \in Seq(Symbol), NEW d \in Seq(Symbol),
           Len(m) % Block = 0, c.hashed = BlocksOf(m)
    PROVE  /\ WholeBlocks(c, d) \in Contexts /\ HasHashed(WholeBlocks(c, d), m \o d)
           /\ WholeBlocks(c, d).lo = c.lo /\ WholeBlocks(c, d).hi = c.hi
<1> DEFINE e == m \o d  p == body(c, Whole(d))  x == Copied(p.buffer, 0, Residue(d))
           n == WholeBlocks(c, d)  r == Len(d) % Block
<1>1. n = [p EXCEPT !.buffer = x]
  BY DEF WholeBlocks, Whole, Residue, Ends
<1>2. /\ Whole(d) \in Seq(Symbol) /\ Residue(d) \in Seq(Symbol) /\ Len(Residue(d)) = r
      /\ \A i \in 1..r : Residue(d)[i] = d[Ends(d) + i]
      /\ BlocksOf(Whole(d)) = BlocksOf(d)
  BY WholeIs
<1>3. p \in Contexts /\ p.lo = c.lo /\ p.hi = c.hi /\ p.hashed = BlocksOf(m) \o BlocksOf(d)
  <2>1. Whole(d) \in Seq(Symbol)
    BY <1>2
  <2>2. p \in Contexts /\ p.lo = c.lo /\ p.hi = c.hi /\ p.hashed = c.hashed \o BlocksOf(Whole(d))
    BY <2>1, BodyIs
  <2> QED BY <1>2, <2>2
<1>4. /\ e \in Seq(Symbol) /\ Len(d) \in Nat /\ r \in 0..(Block - 1)
      /\ \A i \in 1..Len(d) : e[Len(m) + i] = d[i]
  BY JoinedIs, LengthIs
<1>5. BlocksOf(e) = BlocksOf(m) \o BlocksOf(d) /\ Len(e) % Block = r /\ Ends(e) = Len(m) + Ends(d)
  <2>1. /\ BlocksOf(e) = BlocksOf(m) \o BlocksOf(d) /\ Len(e) % Block = r
        /\ Block * (Len(e) \div Block) = Len(m) + Block * (Len(d) \div Block)
    BY BlocksJoin
  <2>2. Ends(e) = Block * (Len(e) \div Block) /\ Ends(d) = Block * (Len(d) \div Block)
    BY <1>4, EndsIs
  <2> QED BY <2>1, <2>2
<1>6. Ends(d) \in Nat /\ Len(d) = Ends(d) + r /\ Len(m) \in Nat
  BY <1>4, EndsIs, LengthIs
<1> HIDE DEF p, n, r, e
<1>7. x \in Blocks /\ \A i \in 1..r : x[i] = Residue(d)[i]
  <2>1. p.buffer \in Blocks
    BY <1>3, FieldsAre
  <2> DEFINE b == p.buffer  y == Residue(d)
  <2>a. b \in Blocks /\ y \in Seq(Symbol) /\ 0 \in Nat
    BY <1>2, <2>1
  <2> HIDE DEF b, y
  <2>b. /\ Copied(b, 0, y) \in Blocks
        /\ \A i \in 1..Block : i > 0 /\ i <= 0 + Len(y) => Copied(b, 0, y)[i] = y[i - 0]
    BY <2>a, CopiedIs
  <2>2. /\ x \in Blocks
        /\ \A i \in 1..Block : i > 0 /\ i <= 0 + Len(Residue(d)) => x[i] = Residue(d)[i - 0]
    BY <2>b DEF b, y
  <2> HIDE DEF x
  <2>3. ASSUME NEW i \in 1..r PROVE x[i] = Residue(d)[i]
    <3>1. i \in 1..Block /\ i > 0 /\ i <= 0 + Len(Residue(d)) /\ i - 0 = i
      BY <1>2, <1>4, BlockIs
    <3> QED BY <2>2, <3>1
  <2> QED BY <2>2, <2>3
<1> HIDE DEF x
<1>8. n \in Contexts /\ n.lo = c.lo /\ n.hi = c.hi /\ n.buffer = x /\ n.hashed = BlocksOf(e)
  <2>1. n \in Contexts /\ n.lo = p.lo /\ n.hi = p.hi /\ n.buffer = x /\ n.hashed = p.hashed
    BY <1>1, <1>3, <1>7, SetBuffer
  <2> QED BY <1>3, <1>5, <2>1
<1>9. ASSUME NEW i \in 1..(Len(e) % Block) PROVE n.buffer[i] = e[Ends(e) + i]
  <2>1. i \in 1..r
    BY <1>5
  <2>2. n.buffer[i] = d[Ends(d) + i]
    BY <1>2, <1>7, <1>8, <2>1
  <2>3. Ends(d) + i \in 1..Len(d) /\ Ends(e) + i = Len(m) + (Ends(d) + i)
    BY <1>4, <1>5, <1>6, <2>1
  <2>4. e[Len(m) + (Ends(d) + i)] = d[Ends(d) + i]
    BY <1>4, <2>3
  <2> QED BY <2>2, <2>3, <2>4
<1> QED BY <1>8, <1>9 DEF HasHashed, HasRest, n, e

(***************************************************************************)
(* MD5_Update(), in each of its three cases.                               *)
(***************************************************************************)
LEMMA KeepsRest ==
    ASSUME NEW c \in Contexts, NEW m \in Seq(Symbol), NEW d \in Seq(Symbol), HasHashed(c, m),
           NEW r, r = Len(m) % Block, r + Len(d) < Block,
           NEW n, n = [c EXCEPT !.buffer = Copied(c.buffer, r, d)]
    PROVE  n \in Contexts /\ n.lo = c.lo /\ n.hi = c.hi /\ HasHashed(n, m \o d)
<1> DEFINE x == Copied(c.buffer, r, d)  e == m \o d
<1>1. r \in 0..(Block - 1) /\ Len(d) \in Nat /\ Len(m) \in Nat /\ c.buffer \in Blocks
  BY LengthIs, FieldsAre
<1>2. /\ x \in Blocks
      /\ \A i \in 1..Block :
            /\ i <= r => x[i] = c.buffer[i]
            /\ i > r /\ i <= r + Len(d) => x[i] = d[i - r]
  BY <1>1, CopiedIs
<1> HIDE DEF x
<1>3. n \in Contexts /\ n.lo = c.lo /\ n.hi = c.hi /\ n.buffer = x /\ n.hashed = c.hashed
  BY <1>2, SetBuffer DEF x
<1>4. /\ e \in Seq(Symbol) /\ Len(e) = Len(m) + Len(d)
      /\ \A i \in 1..Len(m) : e[i] = m[i]
      /\ \A i \in 1..Len(d) : e[Len(m) + i] = d[i]
  BY JoinedIs
<1>5. BlocksOf(e) = BlocksOf(m) /\ Len(e) \div Block = Len(m) \div Block /\ Len(e) % Block = r + Len(d)
  BY BlocksShort
<1> HIDE DEF e
<1>6. Ends(e) = Ends(m) /\ Ends(m) \in Nat /\ Len(m) = Ends(m) + r
  <2>1. Ends(e) = Ends(m)
    BY <1>5 DEF Ends
  <2> QED BY <1>1, <2>1, EndsIs
<1>7. ASSUME NEW i \in 1..(r + Len(d)) PROVE x[i] = e[Ends(m) + i]
  <2>1. i \in 1..Block
    BY <1>1, BlockIs
  <2>2. CASE i <= r
    <3>1. x[i] = c.buffer[i] /\ i \in 1..r
      BY <1>1, <1>2, <2>1, <2>2
    <3>2. c.buffer[i] = m[Ends(m) + i]
      BY <3>1 DEF HasHashed, HasRest
    <3>3. Ends(m) + i \in 1..Len(m)
      BY <1>1, <1>6, <3>1
    <3> QED BY <1>4, <3>1, <3>2, <3>3
  <2>3. CASE i > r
    <3>1. i - r \in 1..Len(d) /\ Ends(m) + i = Len(m) + (i - r)
      BY <1>1, <1>6, <2>3
    <3>2. x[i] = d[i - r]
      BY <1>1, <1>2, <2>1, <2>3
    <3>3. e[Len(m) + (i - r)] = d[i - r]
      BY <1>4, <3>1
    <3> QED BY <3>1, <3>2, <3>3
  <2> QED BY <1>1, <2>2, <2>3
<1>8. HasRest(n, e)
  BY <1>3, <1>5, <1>6, <1>7 DEF HasRest
<1>9. n.hashed = BlocksOf(e)
  BY <1>3, <1>5 DEF HasHashed
<1> QED BY <1>3, <1>8, <1>9 DEF HasHashed, e

(* The buffer filled up is the next block.                                 *)
Fits(m, d) == (Len(m) % Block) + Len(d) = Block
Joint(c, m, d) == Copied(c.buffer, Len(m) % Block, d)

LEMMA FillsUp ==
    ASSUME NEW c \in Contexts, NEW m \in Seq(Symbol), NEW d \in Seq(Symbol), HasHashed(c, m), Fits(m, d)
    PROVE  /\ Joint(c, m, d) \in Blocks /\ Len(m \o d) % Block = 0
           /\ BlocksOf(m \o d) = BlocksOf(m) \o <<Joint(c, m, d)>>
<1> DEFINE e == m \o d  q == Len(m) \div Block  b == Ends(m)  r == Len(m) % Block
           full == Joint(c, m, d)
<1>a. r + Len(d) = Block
  BY DEF Fits
<1>1. r \in 0..(Block - 1) /\ Len(d) \in Nat /\ Len(m) \in Nat /\ c.buffer \in Blocks /\ q \in Nat
  BY LengthIs, FieldsAre
<1>2. /\ full \in Blocks
      /\ \A i \in 1..Block :
            /\ i <= r => full[i] = c.buffer[i]
            /\ i > r /\ i <= r + Len(d) => full[i] = d[i - r]
  <2> DEFINE x == Copied(c.buffer, r, d)
  <2> HIDE DEF full
  <2>1. r \in Nat
    BY <1>1
  <2> HIDE DEF r
  <2>2. /\ x \in Blocks
        /\ \A i \in 1..Block :
              /\ i <= r => x[i] = c.buffer[i]
              /\ i > r /\ i <= r + Len(d) => x[i] = d[i - r]
    <3> DEFINE y == c.buffer
    <3>1. y \in Blocks /\ d \in Seq(Symbol)
      BY <1>1
    <3> HIDE DEF y
    <3>2. /\ Copied(y, r, d) \in Blocks
          /\ \A i \in 1..Block :
                /\ i <= r => Copied(y, r, d)[i] = y[i]
                /\ i > r /\ i <= r + Len(d) => Copied(y, r, d)[i] = d[i - r]
      BY <2>1, <3>1, CopiedIs
    <3> QED BY <3>2 DEF y
  <2>3. full = x
    BY DEF full, Joint, r
  <2> HIDE DEF x
  <2> QED BY <2>2, <2>3
<1>3. /\ e \in Seq(Symbol) /\ Len(e) = Len(m) + Len(d)
      /\ \A i \in 1..Len(m) : e[i] = m[i]
      /\ \A i \in 1..Len(d) : e[Len(m) + i] = d[i]
  BY JoinedIs
<1>4. b \in Nat /\ Len(m) = b + r
  BY <1>1, EndsIs
<1>b. b = Block * q
  BY EndsIs
<1>5. \A i \in 1..r : c.buffer[i] = m[b + i]
  BY DEF HasHashed, HasRest
<1>6. q = Len(m) \div Block
  OBVIOUS
<1> HIDE DEF e, q, b, r, full
<1>7. Len(e) \div Block = q + 1 /\ Len(e) % Block = 0
  <2> DEFINE a == Len(e)  p == q + 1
  <2>1. Block * p = Block * q + Block /\ p \in Nat
    BY <1>1, BlockIs
  <2>2. a = b + Block
    <3>1. a = Len(m) + Len(d)
      BY <1>3
    <3>2. Len(d) = Block - r /\ Len(m) = b + r /\ r \in Nat /\ b \in Nat /\ Block \in Nat
      BY <1>a, <1>1, <1>4, BlockIs
    <3> HIDE DEF a
    <3> QED BY <3>1, <3>2
  <2> HIDE DEF a, p
  <2> DEFINE z == 0
  <2>3. a = Block * p + z /\ a \in Nat /\ z \in 0..(Block - 1)
    BY <1>4, <1>b, <2>1, <2>2, BlockIs
  <2> HIDE DEF z
  <2>4. a \div Block = p /\ a % Block = z
    BY <2>1, <2>3, BlockIs, RemainderIs
  <2> QED BY <2>4 DEF a, p, z
<1>8. ASSUME NEW i \in 1..Block PROVE full[i] = e[b + i]
  <2>1. CASE i <= r
    <3>1. i \in 1..r /\ b + i \in 1..Len(m)
      BY <1>1, <1>4, <2>1
    <3>2. full[i] = c.buffer[i] /\ c.buffer[i] = m[b + i]
      BY <1>2, <1>5, <2>1, <3>1
    <3> QED BY <1>3, <3>1, <3>2
  <2>2. CASE i > r
    <3>1. i - r \in 1..Len(d) /\ b + i = Len(m) + (i - r) /\ i <= r + Len(d)
      BY <1>a, <1>1, <1>4, <2>2, BlockIs
    <3>2. full[i] = d[i - r]
      BY <1>2, <2>2, <3>1
    <3>3. e[Len(m) + (i - r)] = d[i - r]
      BY <1>3, <3>1
    <3> QED BY <3>1, <3>2, <3>3
  <2> QED BY <1>1, <2>1, <2>2, BlockIs
<1>9. BlocksOf(e) = BlocksOf(m) \o <<full>>
  <2> DEFINE s == <<full>>
  <2>1. s \in Seq(Blocks) /\ Len(s) = 1 /\ s[1] = full
    BY <1>2
  <2> HIDE DEF s
  <2>2. LaidAt(s, e, Block * q)
    <3>1. ASSUME NEW k \in 1..Len(s), NEW j \in 1..Block
          PROVE  s[k][j] = e[Block * q + ((k - 1) * Block + j)]
      <4>1. k = 1 /\ (1 - 1) * Block + j = j
        BY <2>1, BlockIs
      <4> QED BY <1>b, <1>8, <2>1, <4>1
    <3> QED BY <3>1 DEF LaidAt
  <2>3. SameTo(e, m, Block * q)
    BY <1>1, <1>3, <1>4, <1>b DEF SameTo
  <2>4. Len(e) \div Block = q + Len(s)
    BY <1>7, <2>1
  <2>5. BlocksOf(e) = BlocksOf(m) \o s
    BY <1>3, <1>6, <2>1, <2>2, <2>3, <2>4, BlocksMore
  <2> QED BY <2>5 DEF s
<1> QED BY <1>2, <1>7, <1>9 DEF e, full

LEMMA UpdateHolds ==
    ASSUME NEW c, NEW m \in Seq(Symbol), NEW d \in Seq(Symbol), HoldsMessage(c, m)
    PROVE  HoldsMessage(MD5_Update(c, d), m \o d)
<1> DEFINE n == Counted(c, Len(d))  u == MD5_Update(c, d)  r == Len(m) % Block  v == Block - r
<1>1. c \in Contexts /\ HasCounted(c, m) /\ HasHashed(c, m)
  BY DEF HoldsMessage
<1>2. n \in Contexts /\ HasCounted(n, m \o d) /\ n.buffer = c.buffer /\ n.hashed = c.hashed
  BY <1>1, CountedIs
<1> HIDE DEF n
<1>3. HasHashed(n, m)
  BY <1>1, <1>2 DEF HasHashed, HasRest
<1>4. c.lo % Block = r
  BY <1>1, LengthIs, UsedIs DEF HasCounted
<1>5. r \in 0..(Block - 1) /\ v \in 1..Block /\ r + v = Block /\ Len(d) \in Nat
  <2>1. r \in 0..(Block - 1) /\ Len(d) \in Nat
    BY LengthIs
  <2> HIDE DEF r
  <2> QED BY <2>1, BlockIs
<1>6. /\ r = 0 => u = WholeBlocks(n, d)
      /\ r > 0 /\ Len(d) < v => u = [n EXCEPT !.buffer = Copied(n.buffer, r, d)]
      /\ r > 0 /\ Len(d) >= v =>
            u = WholeBlocks(body([n EXCEPT !.buffer = Copied(n.buffer, r, SubSeq(d, 1, v))],
                                 Copied(n.buffer, r, SubSeq(d, 1, v))),
                            SubSeq(d, v + 1, Len(d)))
  <2> DEFINE k == c.lo % Block  w == Block - k  x == Copied(n.buffer, k, SubSeq(d, 1, w))
             one == WholeBlocks(n, d)
             two == [n EXCEPT !.buffer = Copied(n.buffer, k, d)]
             three == WholeBlocks(body([n EXCEPT !.buffer = x], x), SubSeq(d, w + 1, Len(d)))
  <2>1. u = CASE k = 0 -> one [] k > 0 /\ Len(d) < w -> two [] k > 0 /\ Len(d) >= w -> three
    BY DEF MD5_Update, n
  <2>2. k = r /\ w = v
    BY <1>4
  <2> HIDE DEF k, w, one, two, three, r, v, u
  <2>3. /\ k = 0 => u = one
        /\ k > 0 /\ Len(d) < w => u = two
        /\ k > 0 /\ Len(d) >= w => u = three
    BY <1>5, <2>1, <2>2
  <2>4. /\ r = 0 => u = one
        /\ r > 0 /\ Len(d) < v => u = two
        /\ r > 0 /\ Len(d) >= v => u = three
    BY <2>2, <2>3
  <2>5. /\ two = [n EXCEPT !.buffer = Copied(n.buffer, r, d)]
        /\ three = WholeBlocks(body([n EXCEPT !.buffer = Copied(n.buffer, r, SubSeq(d, 1, v))],
                                     Copied(n.buffer, r, SubSeq(d, 1, v))),
                                SubSeq(d, v + 1, Len(d)))
    BY <2>2, Zenon DEF two, three
  <2> QED BY <2>4, <2>5, Zenon DEF one
<1>7. r = Len(m) % Block
  OBVIOUS
<1> HIDE DEF u, r, v
<1>8. u \in Contexts /\ u.lo = n.lo /\ u.hi = n.hi /\ HasHashed(u, m \o d)
  <2>1. CASE r = 0
    <3>1. n.hashed = BlocksOf(m)
      BY <1>3 DEF HasHashed
    <3> QED BY <1>2, <1>6, <1>7, <2>1, <3>1, WholeBlocksAre
  <2>2. CASE r > 0 /\ Len(d) < v
    <3>1. r + Len(d) < Block
      BY <1>5, <2>2, BlockIs
    <3> QED BY <1>2, <1>3, <1>6, <1>7, <2>2, <3>1, KeepsRest
  <2>3. CASE r > 0 /\ Len(d) >= v
    <3> DEFINE x == SubSeq(d, 1, v)  y == SubSeq(d, v + 1, Len(d))
               full == Copied(n.buffer, r, x)
               f == [n EXCEPT !.buffer = full]
               b == body(f, full)
    <3>1. u = WholeBlocks(b, y)
      BY <1>6, <2>3
    <3>2. x \in Seq(Symbol) /\ Len(x) = v /\ y \in Seq(Symbol) /\ d = x \o y
      <4>1. v \in 0..Len(d)
        BY <1>5, <2>3
      <4> QED BY <4>1, PiecesAre
    <3>3. f = [n EXCEPT !.buffer = full] /\ full = Copied(n.buffer, r, x) /\ b = body(f, full)
      OBVIOUS
    <3> HIDE DEF x, y, full, f, b
    <3>4. full \in Blocks /\ Len(m \o x) % Block = 0 /\ BlocksOf(m \o x) = BlocksOf(m) \o <<full>>
      <4>1. Fits(m, x) /\ full = Joint(n, m, x)
        BY <1>5, <1>7, <3>2, <3>3 DEF Fits, Joint
      <4> QED BY <1>2, <1>3, <3>2, <4>1, FillsUp
    <3>5. full \in Seq(Symbol) /\ BlocksOf(full) = <<full>>
      BY <3>4, BlockOfOne
    <3>6. f \in Contexts /\ f.lo = n.lo /\ f.hi = n.hi /\ f.hashed = n.hashed
      BY <1>2, <3>3, <3>4, SetBuffer
    <3>7. b \in Contexts /\ b.lo = n.lo /\ b.hi = n.hi /\ b.hashed = BlocksOf(m) \o <<full>>
      <4>1. n.hashed = BlocksOf(m)
        BY <1>3 DEF HasHashed
      <4>2. /\ b \in Contexts /\ b.lo = f.lo /\ b.hi = f.hi /\ b.hashed = f.hashed \o BlocksOf(full)
        BY <3>3, <3>5, <3>6, BodyIs
      <4> QED BY <3>5, <3>6, <4>1, <4>2
    <3>8. m \o x \in Seq(Symbol)
      BY <3>2, JoinedIs
    <3>9. u \in Contexts /\ u.lo = b.lo /\ u.hi = b.hi /\ HasHashed(u, (m \o x) \o y)
      BY <3>1, <3>2, <3>4, <3>7, <3>8, WholeBlocksAre
    <3>10. (m \o x) \o y = m \o d
      BY <3>2, ConcatAssociative
    <3> QED BY <3>7, <3>9, <3>10
  <2> QED BY <1>5, <2>1, <2>2, <2>3
<1>9. HasCounted(u, m \o d)
  BY <1>2, <1>8 DEF HasCounted
<1> QED BY <1>8, <1>9 DEF HoldsMessage, u

-----------------------------------------------------------------------------
(***************************************************************************)
(* The end of a padded message: the rest, the marker, zeros and the        *)
(* length, in one block or in two.                                         *)
(***************************************************************************)
Words(low, high) == [i \in 1..LengthBytes |-> CASE i = 1 -> <<"lo", low>>
                                              [] i = 2 -> <<"hi", high>>
                                              [] OTHER -> Zero]

LEMMA WordsAre ==
    ASSUME NEW low \in Nat, NEW high \in Nat
    PROVE  /\ Words(low, high) \in Seq(Symbol) /\ Len(Words(low, high)) = LengthBytes
           /\ Words(low, high)[1] = <<"lo", low>> /\ Words(low, high)[2] = <<"hi", high>>
           /\ \A i \in 3..LengthBytes : Words(low, high)[i] = Zero
<1> DEFINE l == Words(low, high)  x == <<"lo", low>>  y == <<"hi", high>>
<1>1. LengthBytes \in Nat /\ LengthBytes >= 2
  BY BlockAssumption
<1>2. x \in Symbol /\ y \in Symbol /\ Zero \in Symbol
  BY DEF Symbol
<1>3. l = [i \in 1..LengthBytes |-> CASE i = 1 -> x [] i = 2 -> y [] OTHER -> Zero]
  BY DEF Words
<1> HIDE DEF l, x, y
<1>4. l[1] = x /\ l[2] = y /\ \A i \in 3..LengthBytes : l[i] = Zero
  BY <1>1, <1>3
<1>5. \A i \in 1..LengthBytes : i = 1 \/ i = 2 \/ i \in 3..LengthBytes
  BY <1>1
<1>6. l \in [1..LengthBytes -> Symbol]
  BY <1>2, <1>3, <1>4, <1>5
<1>7. l \in Seq(Symbol) /\ Len(l) = LengthBytes
  BY <1>1, <1>6, SeqDef
<1> QED BY <1>4, <1>7 DEF l, x, y

LEMMA ZerosIs ==
    ASSUME NEW n \in Nat
    PROVE  Zeros(n) \in Seq(Symbol) /\ Len(Zeros(n)) = n /\ \A i \in 1..n : Zeros(n)[i] = Zero
<1>1. Zero \in Symbol
  BY DEF Symbol
<1>2. Zeros(n) = [i \in 1..n |-> Zero]
  BY DEF Zeros
<1>3. Zeros(n) \in [1..n -> Symbol]
  BY <1>1, <1>2
<1> QED BY <1>2, <1>3, SeqDef

LEMMA MarkerIs == <<Marker>> \in Seq(Symbol) /\ Len(<<Marker>>) = 1 /\ <<Marker>>[1] = Marker
<1>1. Marker \in Symbol
  BY DEF Symbol
<1> HIDE DEF Symbol
<1> QED BY <1>1

(* The zeros are those that fill up the last block, and no others do.      *)
InOne(m) == (Len(m) % Block) + 1 + LengthBytes <= Block
Gap(m) == (IF InOne(m) THEN Block ELSE 2 * Block) - ((Len(m) % Block) + 1 + LengthBytes)

LEMMA GapIs ==
    ASSUME NEW m \in Seq(Symbol)
    PROVE  /\ Gap(m) \in 0..(Block - 1)
           /\ InOne(m) => (Len(m) % Block) + 1 + Gap(m) = Block - LengthBytes
           /\ ~ InOne(m) => (Len(m) % Block) + 1 + Gap(m) = 2 * Block - LengthBytes
<1> DEFINE r == Len(m) % Block
<1>1. r \in 0..(Block - 1)
  BY LengthIs
<1>2. Block \in Nat /\ LengthBytes \in Nat /\ LengthBytes >= 2 /\ LengthBytes <= Block - 1
  BY BlockAssumption
<1>3. InOne(m) <=> r + 1 + LengthBytes <= Block
  BY DEF InOne
<1>4. Gap(m) = (IF InOne(m) THEN Block ELSE 2 * Block) - (r + 1 + LengthBytes)
  BY DEF Gap
<1> HIDE DEF r
<1>5. CASE InOne(m)
  BY <1>1, <1>2, <1>3, <1>4, <1>5 DEF r
<1>6. CASE ~ InOne(m)
  BY <1>1, <1>2, <1>3, <1>4, <1>6 DEF r
<1> QED BY <1>5, <1>6

LEMMA Near ==
    ASSUME NEW x \in Nat, NEW y \in Nat, Block * x < Block * y + Block, Block * y < Block * x + Block
    PROVE  x = y
<1>1. CASE x >= y + 1
  <2>1. PICK t \in Nat : x = y + 1 + t
    <3>1. x - (y + 1) \in Nat /\ x = y + 1 + (x - (y + 1))
      BY <1>1
    <3> QED BY <3>1
  <2>2. Block * x = Block * y + Block + Block * t /\ Block * t \in Nat
    BY <2>1, BlockIs
  <2>3. Block * y \in Nat
    BY BlockIs
  <2> QED BY <2>2, <2>3, BlockIs
<1>2. CASE y >= x + 1
  <2>1. PICK t \in Nat : y = x + 1 + t
    <3>1. y - (x + 1) \in Nat /\ y = x + 1 + (y - (x + 1))
      BY <1>2
    <3> QED BY <3>1
  <2>2. Block * y = Block * x + Block + Block * t /\ Block * t \in Nat
    BY <2>1, BlockIs
  <2>3. Block * x \in Nat
    BY BlockIs
  <2> QED BY <2>2, <2>3, BlockIs
<1> QED BY <1>1, <1>2

LEMMA GapFills ==
    ASSUME NEW m \in Seq(Symbol)
    PROVE  (CHOOSE z \in 0..(Block - 1) : (Len(m) + 1 + z + LengthBytes) % Block = 0) = Gap(m)
<1> DEFINE q == Len(m) \div Block  r == Len(m) % Block  g == Gap(m)
           a(z) == Len(m) + 1 + z + LengthBytes
<1>1. q \in Nat /\ r \in 0..(Block - 1) /\ Len(m) = Block * q + r /\ Len(m) \in Nat
  BY LengthIs
<1>2. Block \in Nat \ {0} /\ LengthBytes \in Nat
  BY BlockIs
<1>3. g \in 0..(Block - 1) /\ (r + 1 + g = Block - LengthBytes \/ r + 1 + g = 2 * Block - LengthBytes)
  BY GapIs
<1> HIDE DEF q, r, g
<1>4. a(g) % Block = 0
  <2>1. Block * q \in Nat /\ Block * (q + 1) = Block * q + Block /\ Block * (q + 2) = Block * q + 2 * Block
    BY <1>1, <1>2
  <2>2. a(g) \in Nat /\ (a(g) = Block * (q + 1) \/ a(g) = Block * (q + 2))
    BY <1>1, <1>2, <1>3, <2>1
  <2> DEFINE p == IF a(g) = Block * (q + 1) THEN q + 1 ELSE q + 2  z == 0  b == a(g)
  <2>3. b = Block * p + z /\ p \in Nat /\ b \in Nat /\ z \in 0..(Block - 1)
    BY <1>1, <1>2, <2>1, <2>2
  <2> HIDE DEF p, z, b
  <2>4. b % Block = z
    BY <1>2, <2>3, RemainderIs
  <2> QED BY <2>4 DEF z, b
<1>5. ASSUME NEW z \in 0..(Block - 1), a(z) % Block = 0 PROVE z = g
  <2>1. a(z) \in Nat /\ a(g) \in Nat
    BY <1>1, <1>2, <1>3
  <2> DEFINE b == a(z)  c == a(g)  x == b \div Block  y == c \div Block
  <2>2. b % Block = 0 /\ c % Block = 0 /\ b \in Nat /\ c \in Nat
    BY <1>4, <1>5, <2>1
  <2>3. b - c = z - g /\ z \in Nat /\ g \in Nat /\ z < Block /\ g < Block
    BY <1>1, <1>2, <1>3
  <2> HIDE DEF b, c
  <2>4. b = Block * x /\ x \in Nat
    BY <1>2, <2>2, Division
  <2>5. c = Block * y /\ y \in Nat
    BY <1>2, <2>2, Division
  <2> HIDE DEF x, y
  <2>6. Block * x < Block * y + Block /\ Block * y < Block * x + Block
    BY <1>2, <2>2, <2>3, <2>4, <2>5
  <2>7. x = y
    BY <2>4, <2>5, <2>6, Near
  <2> QED BY <2>2, <2>3, <2>4, <2>5, <2>7
<1>6. g \in 0..(Block - 1) /\ (Len(m) + 1 + g + LengthBytes) % Block = 0
  BY <1>3, <1>4
<1>7. \A z \in 0..(Block - 1) : (Len(m) + 1 + z + LengthBytes) % Block = 0 => z = g
  BY <1>5
<1>8. (CHOOSE z \in 0..(Block - 1) : (Len(m) + 1 + z + LengthBytes) % Block = 0) = g
  BY <1>6, <1>7, Zenon
<1> QED BY <1>8 DEF g

(* The padded message behind its whole blocks, and its blocks.             *)
Closing(m, high) == <<Marker>> \o Zeros(Gap(m)) \o Words(Len(m) % LoMax, high)

LEMMA CountIs ==
    ASSUME NEW n \in Nat
    PROVE  n \div LoMax \in Nat /\ n % LoMax \in Nat
<1>1. LoMax \in Nat \ {0}
  BY BlockAssumption
<1> QED BY <1>1, Division

LEMMA ClosingIs ==
    ASSUME NEW m \in Seq(Symbol), NEW high \in Nat
    PROVE  /\ Closing(m, high) \in Seq(Symbol) /\ Len(Closing(m, high)) = 1 + Gap(m) + LengthBytes
           /\ Closing(m, high)[1] = Marker
           /\ \A i \in 1..Gap(m) : Closing(m, high)[1 + i] = Zero
           /\ \A i \in 1..LengthBytes :
                 Closing(m, high)[1 + Gap(m) + i] = Words(Len(m) % LoMax, high)[i]
           /\ Padded(m, high) = BlocksOf(m \o Closing(m, high))
<1> DEFINE g == Gap(m)  z == Zeros(g)  l == Words(Len(m) % LoMax, high)  k == <<Marker>>
           t == k \o z  c == t \o l
<1>1. g \in Nat /\ LengthBytes \in Nat
  BY GapIs, BlockIs
<1>2. z \in Seq(Symbol) /\ Len(z) = g /\ \A i \in 1..g : z[i] = Zero
  BY <1>1, ZerosIs
<1>3. l \in Seq(Symbol) /\ Len(l) = LengthBytes
  BY LengthIs, CountIs, WordsAre
<1>4. k \in Seq(Symbol) /\ Len(k) = 1 /\ k[1] = Marker
  BY MarkerIs
<1> HIDE DEF g, z, l, k
<1>5. /\ t \in Seq(Symbol) /\ Len(t) = 1 + g /\ t[1] = Marker
      /\ \A i \in 1..g : t[1 + i] = Zero
  <2>1. /\ t \in Seq(Symbol) /\ Len(t) = Len(k) + Len(z)
        /\ \A i \in 1..Len(k) : t[i] = k[i]
        /\ \A i \in 1..Len(z) : t[Len(k) + i] = z[i]
    <3>1. k \in Seq(Symbol) /\ z \in Seq(Symbol)
      BY <1>2, <1>4
    <3> QED BY <3>1, JoinedIs
  <2> HIDE DEF t
  <2> QED BY <1>2, <1>4, <2>1
<1> HIDE DEF t
<1>6. /\ c \in Seq(Symbol) /\ Len(c) = Len(t) + Len(l)
      /\ \A i \in 1..Len(t) : c[i] = t[i]
      /\ \A i \in 1..Len(l) : c[Len(t) + i] = l[i]
  <2>1. t \in Seq(Symbol) /\ l \in Seq(Symbol)
    BY <1>3, <1>5
  <2> QED BY <2>1, JoinedIs
<1>7. c = Closing(m, high)
  BY DEF Closing, t, k, z, l, g
<1>8. Padded(m, high) = BlocksOf(m \o c)
  <2> DEFINE zeros == CHOOSE x \in 0..(Block - 1) : (Len(m) + 1 + x + LengthBytes) % Block = 0
  <2>1. zeros = g
    BY GapFills DEF g
  <2>2. Padded(m, high) = BlocksOf(m \o k \o Zeros(zeros) \o l)
    BY Zenon DEF Padded, Words, k, l
  <2>3. Zeros(zeros) = z
    BY <2>1 DEF z
  <2> HIDE DEF zeros
  <2>4. ((m \o k) \o z) \o l = m \o c
    <3>1. (m \o k) \o z = m \o t
      BY <1>2, <1>4, ConcatAssociative DEF t
    <3>2. (m \o t) \o l = m \o (t \o l)
      BY <1>3, <1>5, ConcatAssociative
    <3> QED BY <3>1, <3>2
  <2> QED BY <2>2, <2>3, <2>4
<1> HIDE DEF c
<1>9. /\ c[1] = Marker /\ Len(c) = 1 + g + LengthBytes
      /\ \A i \in 1..g : c[1 + i] = Zero
      /\ \A i \in 1..LengthBytes : c[1 + g + i] = l[i]
  <2>1. c[1] = t[1]
    BY <1>1, <1>5, <1>6
  <2>2. ASSUME NEW i \in 1..g PROVE c[1 + i] = Zero
    <3>1. 1 + i \in 1..Len(t)
      BY <1>1, <1>5
    <3> QED BY <1>5, <1>6, <3>1
  <2> QED BY <1>3, <1>5, <1>6, <2>1, <2>2
<1> QED BY <1>6, <1>7, <1>8, <1>9 DEF g, l

(* What stands at each place behind the whole blocks.                      *)
PlacesAre(e, m, high, n) ==
    \A i \in 1..n :
        LET r == Len(m) % Block
        IN  /\ i <= r => e[Ends(m) + i] = m[Ends(m) + i]
            /\ i = r + 1 => e[Ends(m) + i] = Marker
            /\ i > r + 1 /\ i <= n - LengthBytes => e[Ends(m) + i] = Zero
            /\ i > n - LengthBytes => e[Ends(m) + i] = Words(Len(m) % LoMax, high)[i - (n - LengthBytes)]

LEMMA EndIs ==
    ASSUME NEW m \in Seq(Symbol), NEW high \in Nat
    PROVE  LET e == m \o Closing(m, high)
               n == IF InOne(m) THEN Block ELSE 2 * Block
           IN  /\ e \in Seq(Symbol) /\ Len(e) = Ends(m) + n
               /\ SameTo(e, m, Ends(m)) /\ PlacesAre(e, m, high, n)
<1> DEFINE c == Closing(m, high)  e == m \o c  b == Ends(m)  r == Len(m) % Block  g == Gap(m)
           n == IF InOne(m) THEN Block ELSE 2 * Block  l == Words(Len(m) % LoMax, high)
<1>1. Block \in Nat /\ LengthBytes \in Nat /\ LengthBytes < Block
  BY BlockAssumption
<1>2. b \in Nat /\ r \in 0..(Block - 1) /\ Len(m) = b + r /\ Len(m) \in Nat
  BY LengthIs, EndsIs
<1>3. g \in Nat /\ r + 1 + g = n - LengthBytes /\ n \in Nat
  <2>1. /\ g \in Nat
        /\ InOne(m) => r + 1 + g = Block - LengthBytes
        /\ ~ InOne(m) => r + 1 + g = 2 * Block - LengthBytes
    BY <1>1, GapIs
  <2> HIDE DEF r, g
  <2> QED BY <1>1, <2>1
<1>4. /\ c \in Seq(Symbol) /\ Len(c) = 1 + g + LengthBytes /\ c[1] = Marker
      /\ \A i \in 1..g : c[1 + i] = Zero
      /\ \A i \in 1..LengthBytes : c[1 + g + i] = l[i]
  BY ClosingIs
<1> HIDE DEF c, n, g, r, b, l
<1>5. /\ e \in Seq(Symbol) /\ Len(e) = Len(m) + Len(c)
      /\ \A i \in 1..Len(m) : e[i] = m[i]
      /\ \A i \in 1..Len(c) : e[Len(m) + i] = c[i]
  <2>1. c \in Seq(Symbol)
    BY <1>4
  <2> QED BY <2>1, JoinedIs
<1> HIDE DEF e
<1>6. Len(e) = b + n
  <2>1. Len(e) = Len(m) + Len(c) /\ Len(m) = b + r /\ Len(c) = 1 + g + LengthBytes
    BY <1>2, <1>4, <1>5
  <2>2. b \in Nat /\ r \in Nat /\ g \in Nat /\ LengthBytes \in Nat /\ n \in Nat /\ r + 1 + g = n - LengthBytes
    BY <1>1, <1>2, <1>3
  <2> QED BY <2>1, <2>2
<1>7. SameTo(e, m, b)
  BY <1>2, <1>5 DEF SameTo
<1>8. ASSUME NEW i \in 1..n
      PROVE  /\ i <= r => e[b + i] = m[b + i]
             /\ i = r + 1 => e[b + i] = Marker
             /\ i > r + 1 /\ i <= n - LengthBytes => e[b + i] = Zero
             /\ i > n - LengthBytes => e[b + i] = l[i - (n - LengthBytes)]
  <2>1. ASSUME i <= r PROVE e[b + i] = m[b + i]
    <3>1. b + i \in 1..Len(m)
      BY <1>2, <1>3, <2>1
    <3> QED BY <1>5, <3>1
  <2>2. ASSUME i > r PROVE i - r \in 1..Len(c) /\ e[b + i] = c[i - r]
    <3>1. i - r \in 1..Len(c) /\ b + i = Len(m) + (i - r)
      BY <1>1, <1>2, <1>3, <1>4, <2>2
    <3>2. e[Len(m) + (i - r)] = c[i - r]
      BY <1>5, <3>1
    <3> QED BY <3>1, <3>2
  <2>3. ASSUME i = r + 1 PROVE e[b + i] = Marker
    <3>1. i > r /\ i - r = 1
      BY <1>2, <2>3
    <3> QED BY <1>4, <2>2, <3>1
  <2>4. ASSUME i > r + 1, i <= n - LengthBytes PROVE e[b + i] = Zero
    <3> DEFINE j == i - r - 1
    <3>1. i > r /\ i - r = 1 + j /\ j \in 1..g
      BY <1>1, <1>2, <1>3, <2>4
    <3> HIDE DEF j
    <3> QED BY <1>4, <2>2, <3>1
  <2>5. ASSUME i > n - LengthBytes PROVE e[b + i] = l[i - (n - LengthBytes)]
    <3> DEFINE j == i - (n - LengthBytes)
    <3>1. i > r /\ i - r = 1 + g + j /\ j \in 1..LengthBytes
      BY <1>1, <1>2, <1>3, <2>5
    <3> HIDE DEF j
    <3>2. e[b + i] = l[j]
      BY <1>4, <2>2, <3>1
    <3> QED BY <3>2 DEF j
  <2> QED BY <2>1, <2>3, <2>4, <2>5
<1>9. PlacesAre(e, m, high, n)
  BY <1>8, Zenon DEF PlacesAre, b, r, l
<1> QED BY <1>5, <1>6, <1>7, <1>9 DEF e, c, b, n

(* The blocks of it: what is in the last one, or in the last two.          *)
LastIs(x, from, m, high) ==
    \A j \in 1..Block :
        /\ j > from /\ j <= Block - LengthBytes => x[j] = Zero
        /\ j > Block - LengthBytes => x[j] = Words(Len(m) % LoMax, high)[j - (Block - LengthBytes)]
RestIs(x, m) ==
    \A j \in 1..Block :
        LET r == Len(m) % Block
        IN  /\ j <= r => x[j] = m[Ends(m) + j]
            /\ j = r + 1 => x[j] = Marker

LEMMA PaddedOne ==
    ASSUME NEW m \in Seq(Symbol), NEW high \in Nat, InOne(m), NEW x \in Blocks,
           RestIs(x, m), LastIs(x, (Len(m) % Block) + 1, m, high)
    PROVE  Padded(m, high) = BlocksOf(m) \o <<x>>
<1> DEFINE e == m \o Closing(m, high)  b == Ends(m)  r == Len(m) % Block  q == Len(m) \div Block
           l == Words(Len(m) % LoMax, high)  s == <<x>>
<1>1. Block \in Nat \ {0} /\ LengthBytes \in Nat /\ LengthBytes < Block
  BY BlockAssumption
<1>2. b \in Nat /\ r \in 0..(Block - 1) /\ q \in Nat /\ b = Block * q
  BY LengthIs, EndsIs
<1>3. /\ e \in Seq(Symbol) /\ Len(e) = b + Block
      /\ SameTo(e, m, b) /\ PlacesAre(e, m, high, Block)
  BY EndIs
<1>4. r + 1 + LengthBytes <= Block
  BY DEF InOne
<1>5. Padded(m, high) = BlocksOf(e)
  BY ClosingIs
<1>6. q = Len(m) \div Block
  OBVIOUS
<1>7. \A i \in 1..Block :
         /\ i <= r => e[b + i] = m[b + i]
         /\ i = r + 1 => e[b + i] = Marker
         /\ i > r + 1 /\ i <= Block - LengthBytes => e[b + i] = Zero
         /\ i > Block - LengthBytes => e[b + i] = l[i - (Block - LengthBytes)]
  BY <1>3 DEF PlacesAre
<1>8. \A i \in 1..Block :
         /\ i <= r => x[i] = m[b + i]
         /\ i = r + 1 => x[i] = Marker
         /\ i > r + 1 /\ i <= Block - LengthBytes => x[i] = Zero
         /\ i > Block - LengthBytes => x[i] = l[i - (Block - LengthBytes)]
  BY DEF RestIs, LastIs
<1> HIDE DEF e, b, r, q, l
<1>9. ASSUME NEW i \in 1..Block PROVE x[i] = e[b + i]
  <2>1. i <= r \/ i = r + 1 \/ (i > r + 1 /\ i <= Block - LengthBytes) \/ i > Block - LengthBytes
    BY <1>1, <1>2
  <2> QED BY <1>7, <1>8, <2>1
<1>10. s \in Seq(Blocks) /\ Len(s) = 1 /\ s[1] = x
  OBVIOUS
<1> HIDE DEF s
<1>11. LaidAt(s, e, b)
  <2>1. ASSUME NEW k \in 1..Len(s), NEW j \in 1..Block
        PROVE  s[k][j] = e[b + ((k - 1) * Block + j)]
    <3>1. k = 1 /\ (1 - 1) * Block + j = j
      BY <1>1, <1>10
    <3> QED BY <1>9, <1>10, <3>1
  <2> QED BY <2>1 DEF LaidAt
<1>12. Len(e) \div Block = q + Len(s)
  <2> DEFINE a == Len(e)  p == q + 1  z == 0
  <2>1. Block * p = Block * q + Block /\ p \in Nat
    BY <1>1, <1>2
  <2>2. a = Block * p + z /\ a \in Nat /\ z \in 0..(Block - 1)
    BY <1>1, <1>2, <1>3, <2>1
  <2> HIDE DEF a, p, z
  <2>3. a \div Block = p
    BY <1>1, <2>1, <2>2, RemainderIs
  <2> QED BY <1>10, <2>3 DEF a, p
<1>13. BlocksOf(e) = BlocksOf(m) \o s
  BY <1>2, <1>3, <1>6, <1>10, <1>11, <1>12, BlocksMore
<1> QED BY <1>5, <1>13 DEF s

LEMMA PaddedTwo ==
    ASSUME NEW m \in Seq(Symbol), NEW high \in Nat, ~ InOne(m), NEW x \in Blocks, NEW y \in Blocks,
           RestIs(x, m), \A j \in 1..Block : j > (Len(m) % Block) + 1 => x[j] = Zero,
           LastIs(y, 0, m, high)
    PROVE  Padded(m, high) = BlocksOf(m) \o <<x, y>>
<1> DEFINE e == m \o Closing(m, high)  b == Ends(m)  r == Len(m) % Block  q == Len(m) \div Block
           l == Words(Len(m) % LoMax, high)  s == <<x, y>>
<1>1. Block \in Nat \ {0} /\ LengthBytes \in Nat /\ LengthBytes < Block
  BY BlockAssumption
<1>2. b \in Nat /\ r \in 0..(Block - 1) /\ q \in Nat /\ b = Block * q
  BY LengthIs, EndsIs
<1>3. /\ e \in Seq(Symbol) /\ Len(e) = b + 2 * Block
      /\ SameTo(e, m, b) /\ PlacesAre(e, m, high, 2 * Block)
  BY EndIs
<1>4. r + 1 + LengthBytes > Block
  <2>1. ~ (r + 1 + LengthBytes <= Block)
    BY DEF InOne
  <2> QED BY <1>1, <1>2, <2>1
<1>5. Padded(m, high) = BlocksOf(e)
  BY ClosingIs
<1>6. q = Len(m) \div Block
  OBVIOUS
<1>7. \A i \in 1..(2 * Block) :
         /\ i <= r => e[b + i] = m[b + i]
         /\ i = r + 1 => e[b + i] = Marker
         /\ i > r + 1 /\ i <= 2 * Block - LengthBytes => e[b + i] = Zero
         /\ i > 2 * Block - LengthBytes => e[b + i] = l[i - (2 * Block - LengthBytes)]
  BY <1>3 DEF PlacesAre
<1>8. \A i \in 1..Block :
         /\ i <= r => x[i] = m[b + i]
         /\ i = r + 1 => x[i] = Marker
         /\ i > r + 1 => x[i] = Zero
  BY DEF RestIs
<1>9. \A i \in 1..Block :
         /\ i > 0 /\ i <= Block - LengthBytes => y[i] = Zero
         /\ i > Block - LengthBytes => y[i] = l[i - (Block - LengthBytes)]
  BY DEF LastIs
<1> HIDE DEF e, b, r, q, l
<1>10. ASSUME NEW i \in 1..Block PROVE x[i] = e[b + i]
  <2>1. i \in 1..(2 * Block) /\ i <= 2 * Block - LengthBytes
    BY <1>1
  <2>2. i <= r \/ i = r + 1 \/ i > r + 1
    BY <1>1, <1>2
  <2> QED BY <1>7, <1>8, <2>1, <2>2
<1>11. ASSUME NEW i \in 1..Block PROVE y[i] = e[b + (Block + i)]
  <2> DEFINE h == Block + i
  <2>1. /\ h \in 1..(2 * Block) /\ h > r + 1
        /\ h <= 2 * Block - LengthBytes <=> i <= Block - LengthBytes
        /\ h - (2 * Block - LengthBytes) = i - (Block - LengthBytes)
    <3>1. r < Block /\ i >= 1 /\ i <= Block /\ r \in Nat /\ i \in Nat
      BY <1>1, <1>2
    <3> QED BY <1>1, <3>1
  <2> HIDE DEF h
  <2>2. CASE i <= Block - LengthBytes
    <3>1. e[b + h] = Zero /\ y[i] = Zero
      BY <1>1, <1>7, <1>9, <2>1, <2>2
    <3> QED BY <3>1 DEF h
  <2>3. CASE i > Block - LengthBytes
    <3>1. h > 2 * Block - LengthBytes
      BY <1>1, <2>1, <2>3
    <3>2. e[b + h] = l[h - (2 * Block - LengthBytes)] /\ y[i] = l[i - (Block - LengthBytes)]
      BY <1>7, <1>9, <2>1, <2>3, <3>1
    <3> QED BY <2>1, <3>2 DEF h
  <2> QED BY <1>1, <2>2, <2>3
<1>12. s \in Seq(Blocks) /\ Len(s) = 2 /\ s[1] = x /\ s[2] = y
  OBVIOUS
<1> HIDE DEF s
<1>13. LaidAt(s, e, b)
  <2>1. ASSUME NEW k \in 1..Len(s), NEW j \in 1..Block
        PROVE  s[k][j] = e[b + ((k - 1) * Block + j)]
    <3>1. (k = 1 \/ k = 2) /\ (1 - 1) * Block + j = j /\ (2 - 1) * Block + j = Block + j
      BY <1>1, <1>12
    <3> QED BY <1>10, <1>11, <1>12, <3>1
  <2> QED BY <2>1 DEF LaidAt
<1>14. Len(e) \div Block = q + Len(s)
  <2> DEFINE a == Len(e)  p == q + 2  z == 0
  <2>1. Block * p = Block * q + 2 * Block /\ p \in Nat
    BY <1>1, <1>2
  <2>2. a = Block * p + z /\ a \in Nat /\ z \in 0..(Block - 1)
    BY <1>1, <1>2, <1>3, <2>1
  <2> HIDE DEF a, p, z
  <2>3. a \div Block = p
    BY <1>1, <2>1, <2>2, RemainderIs
  <2> QED BY <1>12, <2>3 DEF a, p
<1>15. BlocksOf(e) = BlocksOf(m) \o s
  BY <1>2, <1>3, <1>6, <1>12, <1>13, <1>14, BlocksMore
<1> QED BY <1>5, <1>15 DEF s

-----------------------------------------------------------------------------
(***************************************************************************)
(* MD5_Final() and calc() end a message that way.                          *)
(***************************************************************************)
IsLength(l) == l \in Seq(Symbol) /\ Len(l) = LengthBytes

LEMMA PairIs ==
    ASSUME NEW a \in Blocks, NEW b \in Blocks
    PROVE  <<a>> \o <<b>> = <<a, b>>
<1> DEFINE x == <<a>>  y == <<b>>  e == x \o y  p == <<a, b>>
<1>1. x \in Seq(Blocks) /\ y \in Seq(Blocks)
  OBVIOUS
<1>2. Len(x) = 1 /\ x[1] = a /\ Len(y) = 1 /\ y[1] = b
  OBVIOUS
<1>3. p \in Seq(Blocks) /\ Len(p) = 2 /\ p[1] = a /\ p[2] = b
  OBVIOUS
<1> HIDE DEF x, y, p
<1>4. /\ e \in Seq(Blocks) /\ Len(e) = Len(x) + Len(y)
      /\ \A i \in 1..Len(x) : e[i] = x[i]
      /\ \A i \in 1..Len(y) : e[Len(x) + i] = y[i]
  BY <1>1, JoinedIs
<1> HIDE DEF e
<1>5. Len(e) = 2 /\ e[1] = a /\ e[2] = b
  BY <1>2, <1>4
<1>6. \A i \in 1..Len(e) : e[i] = p[i]
  BY <1>3, <1>5
<1>7. e = p
  BY <1>3, <1>4, <1>5, <1>6, SeqEqual
<1> QED BY <1>7 DEF e, x, y, p

LEMMA EndPart ==
    ASSUME NEW b \in Blocks, NEW from \in 0..(Block - LengthBytes), NEW l, IsLength(l)
    PROVE  LET x == Copied(b, from, Zeros(Block - from - LengthBytes) \o l)
           IN  /\ x \in Blocks
               /\ \A j \in 1..Block :
                     /\ j <= from => x[j] = b[j]
                     /\ j > from /\ j <= Block - LengthBytes => x[j] = Zero
                     /\ j > Block - LengthBytes => x[j] = l[j - (Block - LengthBytes)]
<1> DEFINE n == Block - from - LengthBytes  z == Zeros(n)  d == z \o l  x == Copied(b, from, d)
<1>1. Block \in Nat \ {0} /\ LengthBytes \in Nat /\ LengthBytes < Block
  BY BlockAssumption
<1>2. n \in Nat /\ from \in Nat /\ from + n = Block - LengthBytes
  BY <1>1
<1> HIDE DEF n
<1>3. z \in Seq(Symbol) /\ Len(z) = n /\ \A i \in 1..n : z[i] = Zero
  BY <1>2, ZerosIs
<1> HIDE DEF z
<1>4. /\ d \in Seq(Symbol) /\ Len(d) = n + LengthBytes
      /\ \A i \in 1..n : d[i] = Zero
      /\ \A i \in 1..LengthBytes : d[n + i] = l[i]
  <2>1. z \in Seq(Symbol) /\ l \in Seq(Symbol)
    BY <1>3 DEF IsLength
  <2>2. /\ d \in Seq(Symbol) /\ Len(d) = Len(z) + Len(l)
        /\ \A i \in 1..Len(z) : d[i] = z[i]
        /\ \A i \in 1..Len(l) : d[Len(z) + i] = l[i]
    BY <2>1, JoinedIs
  <2>3. Len(l) = LengthBytes
    BY DEF IsLength
  <2> HIDE DEF d
  <2> QED BY <1>3, <2>2, <2>3
<1> HIDE DEF d
<1>5. /\ x \in Blocks
      /\ \A j \in 1..Block :
            /\ j <= from => x[j] = b[j]
            /\ j > from /\ j <= from + Len(d) => x[j] = d[j - from]
  <2>1. d \in Seq(Symbol)
    BY <1>4
  <2> QED BY <1>2, <2>1, CopiedIs
<1> HIDE DEF x
<1>6. ASSUME NEW j \in 1..Block
      PROVE  /\ j > from /\ j <= Block - LengthBytes => x[j] = Zero
             /\ j > Block - LengthBytes => x[j] = l[j - (Block - LengthBytes)]
  <2>1. ASSUME j > from PROVE x[j] = d[j - from]
    <3>1. j <= from + Len(d)
      BY <1>1, <1>2, <1>4
    <3> QED BY <1>5, <2>1, <3>1
  <2>2. ASSUME j > from, j <= Block - LengthBytes PROVE x[j] = Zero
    <3>1. j - from \in 1..n
      BY <1>1, <1>2, <2>2
    <3> QED BY <1>4, <2>1, <2>2, <3>1
  <2>3. ASSUME j > Block - LengthBytes PROVE x[j] = l[j - (Block - LengthBytes)]
    <3> DEFINE i == j - (Block - LengthBytes)
    <3>1. j > from /\ i \in 1..LengthBytes /\ j - from = n + i
      BY <1>1, <1>2, <2>3
    <3> HIDE DEF i
    <3>2. x[j] = l[i]
      BY <1>4, <2>1, <3>1
    <3> QED BY <3>2 DEF i
  <2> QED BY <2>2, <2>3
<1> QED BY <1>5, <1>6 DEF x, d, z, n

LEMMA FinalIs ==
    ASSUME NEW c, NEW m \in Seq(Symbol), HoldsMessage(c, m)
    PROVE  MD5_Final(c) = Padded(m, Len(m) \div LoMax)
<1> DEFINE r == Len(m) % Block  high == Len(m) \div LoMax  l == Words(Len(m) % LoMax, high)
           used == r + 1
           marked == Copied(c.buffer, r, <<Marker>>)
           full == Copied(marked, used, Zeros(Block - used))
           own == Copied(marked, used, Zeros(Block - used - LengthBytes) \o l)
           last == Copied(full, 0, Zeros(Block - LengthBytes) \o l)
           one == body([c EXCEPT !.buffer = marked], own)
           filled == body([c EXCEPT !.buffer = full], full)
           two == body(filled, last)
<1>1. Block \in Nat \ {0} /\ LengthBytes \in Nat /\ LengthBytes < Block
  BY BlockAssumption
<1>2. c \in Contexts /\ c.lo = Len(m) % LoMax /\ c.hi = high
      /\ c.hashed = BlocksOf(m) /\ \A i \in 1..r : c.buffer[i] = m[Ends(m) + i]
  BY DEF HoldsMessage, HasCounted, HasHashed, HasRest
<1>3. r \in 0..(Block - 1) /\ used \in 1..Block /\ Len(m) \in Nat
  <2>1. r \in 0..(Block - 1) /\ Len(m) \in Nat
    BY LengthIs
  <2> HIDE DEF r
  <2> QED BY <1>1, <2>1
<1>4. high \in Nat /\ Len(m) % LoMax \in Nat
  BY <1>3, CountIs
<1>5. IsLength(l)
  BY <1>4, WordsAre DEF IsLength
<1>6. c.lo % Block = r
  BY <1>2, <1>3, UsedIs
<1>7. LengthOf(c) = l
  BY <1>2 DEF LengthOf, Words
<1>8. MD5_Final(c) = IF Block - used < LengthBytes THEN two.hashed ELSE one.hashed
  <2> DEFINE k == (c.lo % Block) + 1
             ma == Copied(c.buffer, k - 1, <<Marker>>)
             fu == Copied(ma, k, Zeros(Block - k))
             more == Block - k < LengthBytes
             d == IF more THEN body([c EXCEPT !.buffer = fu], fu) ELSE [c EXCEPT !.buffer = ma]
             from == IF more THEN 0 ELSE k
             la == Copied(d.buffer, from, Zeros(Block - from - LengthBytes) \o LengthOf(c))
  <2>1. MD5_Final(c) = body(d, la).hashed
    BY Zenon DEF MD5_Final
  <2>2. k = used
    BY <1>6
  <2>3. k - 1 = r /\ Block - 0 - LengthBytes = Block - LengthBytes
    <3> HIDE DEF k
    <3>1. k - 1 = r
      BY <1>3, <2>2
    <3>2. Block - 0 - LengthBytes = Block - LengthBytes
      BY <1>1
    <3> QED BY <3>1, <3>2
  <2> HIDE DEF k
  <2>4. ma = marked
    BY <2>3, Zenon
  <2> HIDE DEF ma
  <2>5. fu = full
    BY <2>2, <2>4, Zenon
  <2> HIDE DEF fu
  <2>6. CASE more
    <3>1. d = filled /\ from = 0
      BY <2>5, <2>6
    <3>2. d.buffer = full
      <4>1. marked \in Blocks
        <5>1. c.buffer \in Blocks /\ r \in Nat
          BY <1>2, <1>3, FieldsAre
        <5> QED BY <5>1, MarkerIs, CopiedIs
      <4>2. full \in Blocks
        <5>1. Block - used \in Nat /\ used \in Nat
          <6> HIDE DEF used
          <6> QED BY <1>1, <1>3
        <5>2. Zeros(Block - used) \in Seq(Symbol)
          BY <5>1, ZerosIs
        <5> HIDE DEF marked, used
        <5> QED BY <4>1, <5>1, <5>2, CopiedIs
      <4> HIDE DEF full, d, marked
      <4> DEFINE f == [c EXCEPT !.buffer = full]
      <4>3. f \in Contexts /\ f.buffer = full
        BY <1>2, <4>2, SetBuffer
      <4> HIDE DEF f
      <4>4. full \in Seq(Symbol)
        BY <4>2, BlockOfOne
      <4>5. body(f, full).buffer = f.buffer
        BY <4>3, <4>4, BodyIs
      <4> QED BY <3>1, <4>3, <4>5 DEF f
    <3>3. la = last
      BY <1>7, <2>3, <3>1, <3>2, Zenon
    <3> HIDE DEF d, la, filled, last
    <3>4. MD5_Final(c) = two.hashed
      BY <2>1, <3>1, <3>3
    <3>5. Block - used < LengthBytes
      BY <2>2, <2>6
    <3> QED BY <3>4, <3>5
  <2>7. CASE ~ more
    <3>1. d = [c EXCEPT !.buffer = marked] /\ from = used
      BY <2>2, <2>4, <2>7, Zenon
    <3>2. d.buffer = marked
      <4>1. marked \in Blocks
        <5>1. c.buffer \in Blocks /\ r \in Nat
          BY <1>2, <1>3, FieldsAre
        <5> QED BY <5>1, MarkerIs, CopiedIs
      <4> HIDE DEF marked, d
      <4> QED BY <1>2, <3>1, <4>1, SetBuffer
    <3>3. la = own
      BY <1>7, <3>1, <3>2, Zenon
    <3> HIDE DEF d, la, own, marked
    <3>4. MD5_Final(c) = one.hashed
      BY <2>1, <3>1, <3>3
    <3>5. ~ (Block - used < LengthBytes)
      BY <2>2, <2>7
    <3> QED BY <3>4, <3>5
  <2> QED BY <2>6, <2>7
<1>9. /\ marked \in Blocks
      /\ \A j \in 1..Block : j <= r => marked[j] = m[Ends(m) + j]
      /\ marked[used] = Marker
  <2> DEFINE b == c.buffer  k == <<Marker>>
  <2>1. b \in Blocks /\ r \in Nat /\ k \in Seq(Symbol)
    BY <1>2, <1>3, FieldsAre, MarkerIs
  <2>2. Len(k) = 1 /\ k[1] = Marker
    BY MarkerIs
  <2> HIDE DEF k, b, r
  <2>3. /\ marked \in Blocks
        /\ \A j \in 1..Block :
              /\ j <= r => marked[j] = b[j]
              /\ j > r /\ j <= r + Len(k) => marked[j] = k[j - r]
    BY <2>1, CopiedIs DEF b, k
  <2> HIDE DEF marked
  <2>4. ASSUME NEW j \in 1..Block, j <= r PROVE marked[j] = m[Ends(m) + j]
    <3>1. j \in 1..r
      BY <1>1, <1>3, <2>4
    <3> QED BY <1>2, <2>3, <2>4, <3>1 DEF b
  <2>5. marked[used] = Marker
    <3>1. used \in 1..Block /\ used > r /\ used <= r + Len(k) /\ used - r = 1
      BY <1>3, <2>2
    <3> QED BY <2>2, <2>3, <3>1
  <2> QED BY <2>3, <2>4, <2>5
<1> HIDE DEF marked
<1>10. /\ full \in Blocks
       /\ \A j \in 1..Block : j <= used => full[j] = marked[j]
       /\ \A j \in 1..Block : j > used => full[j] = Zero
  <2> DEFINE n == Block - used  z == Zeros(n)
  <2>1. n \in Nat /\ used \in Nat /\ used + n = Block
    <3> HIDE DEF used
    <3> QED BY <1>1, <1>3
  <2> HIDE DEF n
  <2>2. z \in Seq(Symbol)
    BY <2>1, ZerosIs
  <2>3. Len(z) = n /\ \A i \in 1..n : z[i] = Zero
    BY <2>1, ZerosIs
  <2> HIDE DEF z, used
  <2>4. /\ full \in Blocks
        /\ \A j \in 1..Block :
              /\ j <= used => full[j] = marked[j]
              /\ j > used /\ j <= used + Len(z) => full[j] = z[j - used]
    BY <1>9, <2>1, <2>2, CopiedIs DEF z, n
  <2> HIDE DEF full
  <2>5. ASSUME NEW j \in 1..Block, j > used PROVE full[j] = Zero
    <3>1. j - used \in 1..n /\ j <= used + Len(z)
      BY <1>1, <2>1, <2>3, <2>5
    <3> QED BY <2>3, <2>4, <2>5, <3>1
  <2> QED BY <2>4, <2>5
<1> HIDE DEF full
<1>11. InOne(m) <=> ~ (Block - used < LengthBytes)
  BY <1>1, <1>3 DEF InOne
<1>12. r = Len(m) % Block /\ used = r + 1
  OBVIOUS
<1>13. CASE InOne(m)
  <2>1. used \in 0..(Block - LengthBytes)
    BY <1>1, <1>3, <1>11, <1>13
  <2> HIDE DEF used, r, l, high
  <2>2. /\ own \in Blocks
        /\ \A j \in 1..Block :
              /\ j <= used => own[j] = marked[j]
              /\ j > used /\ j <= Block - LengthBytes => own[j] = Zero
              /\ j > Block - LengthBytes => own[j] = l[j - (Block - LengthBytes)]
    BY <1>5, <1>9, <2>1, EndPart
  <2> HIDE DEF own
  <2>3. RestIs(own, m)
    <3>1. ASSUME NEW j \in 1..Block
          PROVE  (j <= r => own[j] = m[Ends(m) + j]) /\ (j = r + 1 => own[j] = Marker)
      <4>1. j <= r => j <= used
        BY <1>1, <1>3, <1>12
      <4> QED BY <1>1, <1>3, <1>9, <1>12, <2>2, <4>1
    <3> QED BY <1>12, <3>1 DEF RestIs
  <2>4. LastIs(own, (Len(m) % Block) + 1, m, high)
    BY <1>12, <2>2 DEF LastIs, l
  <2>5. Padded(m, high) = BlocksOf(m) \o <<own>>
    BY <1>4, <1>13, <2>2, <2>3, <2>4, PaddedOne
  <2> DEFINE f == [c EXCEPT !.buffer = marked]
  <2>6. f \in Contexts /\ f.hashed = BlocksOf(m)
    BY <1>2, <1>9, SetBuffer
  <2>7. own \in Seq(Symbol) /\ BlocksOf(own) = <<own>>
    BY <2>2, BlockOfOne
  <2> HIDE DEF f
  <2>8. body(f, own).hashed = BlocksOf(m) \o <<own>>
    <3>1. body(f, own).hashed = f.hashed \o BlocksOf(own)
      BY <2>6, <2>7, BodyIs
    <3> QED BY <2>6, <2>7, <3>1
  <2>9. one = body(f, own)
    BY DEF f
  <2> HIDE DEF one, two
  <2>10. MD5_Final(c) = one.hashed
    BY <1>8, <1>11, <1>13
  <2> QED BY <2>5, <2>8, <2>9, <2>10 DEF high
<1>14. CASE ~ InOne(m)
  <2> HIDE DEF used, r, l, high
  <2>1. 0 \in 0..(Block - LengthBytes) /\ Block - 0 - LengthBytes = Block - LengthBytes
    BY <1>1
  <2>2. /\ last \in Blocks
        /\ \A j \in 1..Block :
              /\ j > 0 /\ j <= Block - LengthBytes => last[j] = Zero
              /\ j > Block - LengthBytes => last[j] = l[j - (Block - LengthBytes)]
    <3> DEFINE x == Copied(full, 0, Zeros(Block - 0 - LengthBytes) \o l)
    <3>1. /\ x \in Blocks
          /\ \A j \in 1..Block :
                /\ j > 0 /\ j <= Block - LengthBytes => x[j] = Zero
                /\ j > Block - LengthBytes => x[j] = l[j - (Block - LengthBytes)]
      BY <1>5, <1>10, <2>1, EndPart
    <3>2. last = x
      BY <2>1, Zenon
    <3> HIDE DEF x, last
    <3> QED BY <3>1, <3>2
  <2> HIDE DEF last
  <2>3. RestIs(full, m)
    <3>1. ASSUME NEW j \in 1..Block
          PROVE  (j <= r => full[j] = m[Ends(m) + j]) /\ (j = r + 1 => full[j] = Marker)
      <4>1. j <= r => j <= used
        BY <1>1, <1>3, <1>12
      <4> QED BY <1>1, <1>3, <1>9, <1>10, <1>12, <4>1
    <3> QED BY <1>12, <3>1 DEF RestIs
  <2>4. LastIs(last, 0, m, high)
    BY <2>2 DEF LastIs, l
  <2>5. \A j \in 1..Block : j > (Len(m) % Block) + 1 => full[j] = Zero
    BY <1>10, <1>12
  <2>6. Padded(m, high) = BlocksOf(m) \o <<full, last>>
    BY <1>4, <1>10, <1>14, <2>2, <2>3, <2>4, <2>5, PaddedTwo
  <2> DEFINE f == [c EXCEPT !.buffer = full]
  <2>7. f \in Contexts /\ f.hashed = BlocksOf(m)
    BY <1>2, <1>10, SetBuffer
  <2>8. full \in Seq(Symbol) /\ BlocksOf(full) = <<full>> /\ last \in Seq(Symbol) /\ BlocksOf(last) = <<last>>
    BY <1>10, <2>2, BlockOfOne
  <2>9. filled = body(f, full)
    BY DEF f
  <2> HIDE DEF f, filled
  <2>10. filled \in Contexts /\ filled.hashed = BlocksOf(m) \o <<full>>
    <3>1. body(f, full) \in Contexts /\ body(f, full).hashed = f.hashed \o BlocksOf(full)
      BY <2>7, <2>8, BodyIs
    <3> QED BY <2>7, <2>8, <2>9, <3>1
  <2>11. two.hashed = (BlocksOf(m) \o <<full>>) \o <<last>>
    <3>1. two.hashed = filled.hashed \o BlocksOf(last)
      BY <2>8, <2>10, BodyIs
    <3> HIDE DEF two
    <3> QED BY <2>8, <2>10, <3>1
  <2> HIDE DEF one, two
  <2>12. MD5_Final(c) = two.hashed
    BY <1>8, <1>11, <1>14
  <2>13. (BlocksOf(m) \o <<full>>) \o <<last>> = BlocksOf(m) \o <<full, last>>
    <3>1. <<full>> \in Seq(Blocks) /\ <<last>> \in Seq(Blocks) /\ BlocksOf(m) \in Seq(Blocks)
      BY <1>10, <2>2, BlocksAre
    <3>2. (BlocksOf(m) \o <<full>>) \o <<last>> = BlocksOf(m) \o (<<full>> \o <<last>>)
      BY <3>1, ConcatAssociative
    <3>3. <<full>> \o <<last>> = <<full, last>>
      BY <1>10, <2>2, PairIs
    <3> QED BY <3>2, <3>3
  <2> QED BY <2>6, <2>11, <2>12, <2>13 DEF high
<1> QED BY <1>13, <1>14

(* SHA-1's count has no high word: a message is shorter than LoMax.        *)
LEMMA CalcIs ==
    ASSUME NEW m \in Seq(Symbol)
    PROVE  calc(m) = Padded(m, 0)
<1> DEFINE r == Len(m) % Block  l == Words(Len(m) % LoMax, 0)  rest == Residue(m)  used == r + 1
           z == Zeros(Block - used)
           w == rest \o <<Marker>> \o z
           own == Len(rest) >= Block - LengthBytes
           base == IF own THEN Zeros(Block) ELSE w
           last == SubSeq(base, 1, Block - LengthBytes) \o l
<1>1. Block \in Nat \ {0} /\ LengthBytes \in Nat /\ LengthBytes < Block
  BY BlockAssumption
<1>2. r \in 0..(Block - 1) /\ used \in 1..Block /\ Len(m) \in Nat
  <2>1. r \in 0..(Block - 1) /\ Len(m) \in Nat
    BY LengthIs
  <2> HIDE DEF r
  <2> QED BY <1>1, <2>1
<1>3. IsLength(l)
  <2>1. Len(m) % LoMax \in Nat /\ 0 \in Nat
    BY <1>2, CountIs
  <2> QED BY <2>1, WordsAre DEF IsLength
<1>4. rest \in Seq(Symbol) /\ Len(rest) = r /\ \A i \in 1..r : rest[i] = m[Ends(m) + i]
  BY WholeIs
<1>5. calc(m) = BlocksOf(m) \o (IF own THEN <<w>> ELSE <<>>) \o <<last>>
  <2> DEFINE w1 == rest \o <<Marker>> \o Zeros(Block - Len(rest) - 1)
             length == [i \in 1..LengthBytes |-> IF i = 1 THEN <<"lo", Len(m) % LoMax>>
                                                ELSE IF i = 2 THEN <<"hi", 0>> ELSE Zero]
  <2>1. calc(m) = BlocksOf(m) \o (IF own THEN <<w1>> ELSE <<>>)
                     \o <<SubSeq(IF own THEN Zeros(Block) ELSE w1, 1, Block - LengthBytes) \o length>>
    BY Zenon DEF calc, Residue, Ends
  <2>2. length = l
    <3>1. \A i \in 1..LengthBytes :
            (IF i = 1 THEN <<"lo", Len(m) % LoMax>> ELSE IF i = 2 THEN <<"hi", 0>> ELSE Zero)
              = (CASE i = 1 -> <<"lo", Len(m) % LoMax>> [] i = 2 -> <<"hi", 0>> [] OTHER -> Zero)
      OBVIOUS
    <3> QED BY <3>1, Zenon DEF Words
  <2>3. Block - Len(rest) - 1 = Block - used
    <3> HIDE DEF r, rest
    <3> QED BY <1>1, <1>2, <1>4
  <2>4. w1 = w
    BY <2>3, Zenon
  <2> HIDE DEF length, w1, l, own, w
  <2> QED BY <2>1, <2>2, <2>4, Zenon
<1>6. InOne(m) <=> ~ own
  BY <1>1, <1>2, <1>4 DEF InOne
<1>7. r = Len(m) % Block /\ used = r + 1 /\ Block - used \in Nat
  BY <1>1, <1>2
<1>8. /\ w \in Blocks
      /\ \A j \in 1..Block : j <= r => w[j] = m[Ends(m) + j]
      /\ w[used] = Marker
      /\ \A j \in 1..Block : j > used => w[j] = Zero
  <2> HIDE DEF r, rest
  <2> DEFINE k == <<Marker>>  t == rest \o k
  <2>1. rest \in Seq(Symbol) /\ k \in Seq(Symbol) /\ z \in Seq(Symbol)
    BY <1>4, <1>7, MarkerIs, ZerosIs
  <2>2. Len(k) = 1 /\ k[1] = Marker /\ Len(z) = Block - used /\ \A i \in 1..(Block - used) : z[i] = Zero
    BY <1>7, MarkerIs, ZerosIs
  <2> HIDE DEF k, z, used
  <2>3. /\ t \in Seq(Symbol) /\ Len(t) = Len(rest) + Len(k)
        /\ \A i \in 1..Len(rest) : t[i] = rest[i]
        /\ \A i \in 1..Len(k) : t[Len(rest) + i] = k[i]
    BY <2>1, JoinedIs
  <2>4. w = t \o z
    BY DEF k
  <2> HIDE DEF t, w
  <2>5. t \in Seq(Symbol)
    BY <2>3
  <2>6. /\ t \o z \in Seq(Symbol) /\ Len(t \o z) = Len(t) + Len(z)
        /\ \A i \in 1..Len(t) : (t \o z)[i] = t[i]
        /\ \A i \in 1..Len(z) : (t \o z)[Len(t) + i] = z[i]
    BY <2>1, <2>5, JoinedIs
  <2>7. Len(t) = used /\ t[used] = Marker /\ \A i \in 1..r : t[i] = m[Ends(m) + i]
    <3>1. Len(t) = used
      BY <1>2, <1>4, <1>7, <2>2, <2>3
    <3>2. t[Len(rest) + 1] = k[1] /\ Len(rest) + 1 = used
      BY <1>2, <1>4, <1>7, <2>2, <2>3
    <3>3. \A i \in 1..r : t[i] = m[Ends(m) + i]
      BY <1>4, <2>3
    <3> QED BY <2>2, <3>1, <3>2, <3>3
  <2>8. w \in Seq(Symbol) /\ Len(w) = Block
    BY <1>1, <1>2, <2>2, <2>4, <2>6, <2>7
  <2>9. w \in Blocks
    BY <1>1, <2>8 DEF Blocks
  <2>10. ASSUME NEW j \in 1..Block, j <= r PROVE w[j] = m[Ends(m) + j]
    <3>1. j \in 1..r /\ j \in 1..Len(t)
      BY <1>1, <1>2, <1>7, <2>7, <2>10
    <3> QED BY <2>4, <2>6, <2>7, <3>1
  <2>11. w[used] = Marker
    BY <1>2, <2>4, <2>6, <2>7
  <2>12. ASSUME NEW j \in 1..Block, j > used PROVE w[j] = Zero
    <3>1. j - used \in 1..(Block - used) /\ Len(t) + (j - used) = j
      BY <1>1, <1>2, <2>7, <2>12
    <3>2. (t \o z)[Len(t) + (j - used)] = z[j - used]
      BY <2>2, <2>6, <3>1
    <3> QED BY <2>2, <2>4, <3>1, <3>2
  <2> QED BY <2>9, <2>10, <2>11, <2>12
<1> HIDE DEF w, l, rest, r, used
<1>9. base \in Blocks
  <2>1. Zeros(Block) \in Blocks
    BY <1>1, ZerosIs DEF Blocks
  <2> QED BY <1>8, <2>1
<1>10. /\ last \in Blocks
       /\ \A j \in 1..Block :
             /\ j <= Block - LengthBytes => last[j] = base[j]
             /\ j > Block - LengthBytes => last[j] = l[j - (Block - LengthBytes)]
  <2> HIDE DEF base
  <2> DEFINE n == Block - LengthBytes  s == SubSeq(base, 1, n)
  <2>1. base \in Seq(Symbol) /\ Len(base) = Block
    BY <1>9, BlockOfOne
  <2>2. n \in 0..Len(base) /\ n \in Nat
    BY <1>1, <2>1
  <2>3. s \in Seq(Symbol) /\ Len(s) = n /\ \A i \in 1..n : s[i] = base[i]
    BY <2>1, <2>2, PiecesAre
  <2>4. s \in Seq(Symbol) /\ l \in Seq(Symbol)
    BY <1>3, <2>3 DEF IsLength
  <2>5. Len(l) = LengthBytes
    BY <1>3 DEF IsLength
  <2>6. last = s \o l
    OBVIOUS
  <2> HIDE DEF s, last
  <2>7. /\ s \o l \in Seq(Symbol) /\ Len(s \o l) = Len(s) + Len(l)
        /\ \A i \in 1..Len(s) : (s \o l)[i] = s[i]
        /\ \A i \in 1..Len(l) : (s \o l)[Len(s) + i] = l[i]
    BY <2>4, JoinedIs
  <2>8. last \in Seq(Symbol) /\ Len(last) = Block
    BY <1>1, <2>3, <2>5, <2>6, <2>7
  <2>9. last \in Blocks
    BY <1>1, <2>8 DEF Blocks
  <2>10. ASSUME NEW j \in 1..Block, j <= n PROVE last[j] = base[j]
    <3>1. j \in 1..n
      BY <2>2, <2>10
    <3> QED BY <2>3, <2>6, <2>7, <3>1
  <2>11. ASSUME NEW j \in 1..Block, j > n PROVE last[j] = l[j - n]
    <3>1. j - n \in 1..LengthBytes /\ n + (j - n) = j
      BY <1>1, <2>2, <2>11
    <3>2. (s \o l)[Len(s) + (j - n)] = l[j - n]
      BY <2>5, <2>7, <3>1
    <3> QED BY <2>3, <2>6, <3>1, <3>2
  <2> QED BY <2>9, <2>10, <2>11
<1> HIDE DEF last
<1>11. /\ BlocksOf(m) \in Seq(Blocks) /\ <<last>> \in Seq(Blocks) /\ <<w>> \in Seq(Blocks)
  BY <1>8, <1>10, BlocksAre
<1>12. CASE InOne(m)
  <2>1. ~ own
    BY <1>6, <1>12
  <2>2. base = w
    BY <2>1
  <2> HIDE DEF own, base
  <2>3. used <= Block - LengthBytes
    BY <1>1, <1>2, <1>7, <1>12 DEF InOne
  <2>4. RestIs(last, m)
    <3>1. ASSUME NEW j \in 1..Block
          PROVE  (j <= r => last[j] = m[Ends(m) + j]) /\ (j = r + 1 => last[j] = Marker)
      <4>1. j <= r + 1 => j <= Block - LengthBytes
        BY <1>1, <1>2, <1>7, <2>3
      <4> QED BY <1>1, <1>2, <1>7, <1>8, <1>10, <2>2, <4>1
    <3> QED BY <1>7, <3>1 DEF RestIs
  <2>5. LastIs(last, (Len(m) % Block) + 1, m, 0)
    BY <1>7, <1>8, <1>10, <2>2 DEF LastIs, l
  <2>6. Padded(m, 0) = BlocksOf(m) \o <<last>>
    BY <1>10, <1>12, <2>4, <2>5, PaddedOne
  <2>7. calc(m) = BlocksOf(m) \o <<>> \o <<last>>
    BY <1>5, <2>1
  <2>8. BlocksOf(m) \o <<>> = BlocksOf(m)
    BY BlocksAre, ConcatEmptySeq
  <2> QED BY <2>6, <2>7, <2>8
<1>13. CASE ~ InOne(m)
  <2>1. own
    BY <1>6, <1>13
  <2>2. base = Zeros(Block)
    BY <2>1
  <2>3. calc(m) = BlocksOf(m) \o <<w>> \o <<last>>
    BY <1>5, <2>1
  <2> HIDE DEF own, base
  <2>4. RestIs(w, m)
    <3>1. ASSUME NEW j \in 1..Block
          PROVE  (j <= r => w[j] = m[Ends(m) + j]) /\ (j = r + 1 => w[j] = Marker)
      BY <1>7, <1>8
    <3> QED BY <1>7, <3>1 DEF RestIs
  <2>5. \A j \in 1..Block : j > (Len(m) % Block) + 1 => w[j] = Zero
    BY <1>7, <1>8
  <2>6. LastIs(last, 0, m, 0)
    <3>1. \A j \in 1..Block : base[j] = Zero
      BY <1>1, <2>2, ZerosIs
    <3> QED BY <1>10, <3>1 DEF LastIs, l
  <2>7. Padded(m, 0) = BlocksOf(m) \o <<w, last>>
    BY <1>8, <1>10, <1>13, <2>4, <2>5, <2>6, PaddedTwo
  <2>8. (BlocksOf(m) \o <<w>>) \o <<last>> = BlocksOf(m) \o (<<w>> \o <<last>>)
    BY <1>11, ConcatAssociative
  <2>9. <<w>> \o <<last>> = <<w, last>>
    BY <1>8, <1>10, PairIs
  <2> QED BY <2>3, <2>7, <2>8, <2>9
<1> QED BY <1>12, <1>13

LEMMA PaddedSome ==
    ASSUME NEW m \in Seq(Symbol), NEW high \in Nat
    PROVE  Padded(m, high) # <<>>
<1> DEFINE e == m \o Closing(m, high)  n == IF InOne(m) THEN Block ELSE 2 * Block
<1>1. e \in Seq(Symbol) /\ Len(e) = Ends(m) + n
  BY EndIs
<1>2. Block \in Nat \ {0} /\ Ends(m) \in Nat
  BY BlockIs, EndsIs, LengthIs
<1>3. n \in Nat /\ n >= Block
  BY <1>2
<1> HIDE DEF e, n
<1>4. Len(e) >= Block /\ Len(e) \in Nat
  BY <1>1, <1>2, <1>3
<1>5. Len(e) \div Block # 0
  <2> DEFINE q == Len(e) \div Block  r == Len(e) % Block
  <2>1. q \in Nat /\ r \in 0..(Block - 1) /\ Len(e) = Block * q + r
    BY <1>1, LengthIs
  <2> HIDE DEF q, r
  <2>2. ASSUME q = 0 PROVE FALSE
    <3>1. Block * q = 0
      BY <1>2, <2>2
    <3> QED BY <1>2, <1>4, <2>1, <3>1
  <2> QED BY <2>2 DEF q
<1>6. BlocksOf(e) \in Seq(Blocks) /\ Len(BlocksOf(e)) # 0
  BY <1>1, <1>5, BlocksAre
<1>7. Padded(m, high) = BlocksOf(e)
  BY ClosingIs DEF e
<1> QED BY <1>6, <1>7, EmptySeq

-----------------------------------------------------------------------------
(***************************************************************************)
(* The context holds the message until its digest is read.                 *)
(***************************************************************************)
DigestInv ==
    /\ message \in Seq(Symbol)
    /\ digest = NoDigest => HoldsMessage(ctx, message)
    /\ ChunksDoNotMatter

LEMMA DigestStarts == DigestInit => DigestInv
<1> SUFFICES ASSUME DigestInit PROVE DigestInv
  OBVIOUS
<1>1. /\ message = <<>> /\ digest = NoDigest
      /\ ctx = [lo |-> 0, hi |-> 0, buffer |-> [i \in 1..Block |-> "old"], hashed |-> <<>>]
  BY DEF DigestInit
<1>2. message \in Seq(Symbol) /\ Len(message) = 0
  BY <1>1, EmptySeq
<1>3. ctx \in Contexts
  <2>1. "old" \in Symbol
    BY DEF Symbol
  <2>2. [i \in 1..Block |-> "old"] \in Blocks
    BY <2>1 DEF Blocks
  <2>3. <<>> \in Seq(Blocks)
    BY EmptySeq
  <2> QED BY <1>1, <2>2, <2>3 DEF Contexts
<1> DEFINE n == Len(message)  z == 0
<1>4. n = z /\ z \in Nat
  BY <1>2
<1>5. z \div Block = 0 /\ z % Block = 0 /\ z \div LoMax = 0 /\ z % LoMax = 0
  <2>1. Block \in Nat \ {0} /\ LoMax \in Nat \ {0}
    BY BlockIs, BlockAssumption
  <2>2. z = Block * 0 + 0 /\ z = LoMax * 0 + 0
    BY <2>1
  <2>3. z \div Block = 0 /\ z % Block = 0
    BY <2>1
  <2>4. z \div LoMax = 0 /\ z % LoMax = 0
    BY <2>1
  <2> QED BY <2>3, <2>4
<1> HIDE DEF n, z
<1>6. BlocksOf(message) = <<>>
  <2>1. BlocksOf(message) \in Seq(Blocks) /\ Len(BlocksOf(message)) = n \div Block
    BY <1>2, BlocksAre DEF n
  <2>2. Len(BlocksOf(message)) = 0
    BY <1>4, <1>5, <2>1
  <2> QED BY <2>1, <2>2, EmptySeq
<1>7. HasCounted(ctx, message)
  BY <1>1, <1>4, <1>5 DEF HasCounted, n
<1>8. HasHashed(ctx, message)
  <2>1. 1..(n % Block) = {}
    BY <1>4, <1>5
  <2>2. HasRest(ctx, message)
    BY <2>1 DEF HasRest, n
  <2>3. ctx.hashed = <<>>
    BY <1>1
  <2> QED BY <1>6, <2>2, <2>3 DEF HasHashed
<1> QED BY <1>1, <1>2, <1>3, <1>7, <1>8 DEF DigestInv, HoldsMessage, ChunksDoNotMatter

LEMMA DigestSteps == DigestInv /\ [DigestNext]_digVars => DigestInv'
<1> SUFFICES ASSUME DigestInv, [DigestNext]_digVars PROVE DigestInv'
  OBVIOUS
<1>1. message \in Seq(Symbol) /\ (digest = NoDigest => HoldsMessage(ctx, message)) /\ ChunksDoNotMatter
  BY DEF DigestInv
<1>2. ASSUME NEW size \in 0..MaxChunk, process_bytes(size) PROVE DigestInv'
  <2> DEFINE data == [i \in 1..size |-> Len(message) + i]
  <2>1. /\ digest = NoDigest /\ digest' = NoDigest
        /\ ctx' = MD5_Update(ctx, data) /\ message' = message \o data
    BY <1>2, Zenon DEF process_bytes
  <2>2. data \in Seq(Symbol)
    <3>1. size \in Nat /\ Len(message) \in Nat
      BY <1>1, BlockAssumption, LengthIs
    <3>2. data \in Seq(Nat)
      BY <3>1, SeqDef
    <3>3. Nat \subseteq Symbol
      BY DEF Symbol
    <3>4. \A i \in 1..size : Len(message) + i \in Symbol
      BY <3>1, <3>3
    <3>5. data \in [1..size -> Symbol]
      BY <3>4
    <3> HIDE DEF data
    <3> QED BY <3>1, <3>5, SeqDef
  <2> HIDE DEF data
  <2>3. message \o data \in Seq(Symbol)
    BY <1>1, <2>2, JoinedIs
  <2>4. HoldsMessage(MD5_Update(ctx, data), message \o data)
    BY <1>1, <2>1, <2>2, UpdateHolds
  <2>5. message' \in Seq(Symbol)
    BY <2>1, <2>3
  <2>6. HoldsMessage(ctx, message)'
    <3>1. HoldsMessage(ctx', message')
      BY <2>1, <2>4
    <3> QED BY <3>1
  <2>7. ChunksDoNotMatter'
    BY <2>1 DEF ChunksDoNotMatter
  <2> QED BY <2>5, <2>6, <2>7 DEF DigestInv
<1>3. ASSUME get_digest PROVE DigestInv'
  <2>1. digest = NoDigest /\ digest' = MD5_Final(ctx) /\ message' = message
    BY <1>3 DEF get_digest
  <2>2. digest' = Padded(message, Len(message) \div LoMax)
    BY <1>1, <2>1, FinalIs
  <2>3. digest' # NoDigest
    BY <1>1, <2>2, PaddedSome, LengthIs, CountIs DEF NoDigest
  <2>4. ChunksDoNotMatter'
    BY <2>1, <2>2 DEF ChunksDoNotMatter
  <2> QED BY <1>1, <2>1, <2>3, <2>4 DEF DigestInv
<1>4. CASE UNCHANGED digVars
  <2>1. ctx' = ctx /\ message' = message /\ digest' = digest
    BY <1>4 DEF digVars
  <2>2. (digest = NoDigest => HoldsMessage(ctx, message))'
    BY <1>1, <2>1
  <2>3. ChunksDoNotMatter'
    BY <1>1, <2>1 DEF ChunksDoNotMatter
  <2> QED BY <1>1, <2>1, <2>2, <2>3 DEF DigestInv
<1> QED BY <1>2, <1>3, <1>4 DEF DigestNext

LEMMA DigestTells == DigestInv => DigestsAgree
<1> SUFFICES ASSUME DigestInv PROVE DigestsAgree
  OBVIOUS
<1>1. message \in Seq(Symbol) /\ ChunksDoNotMatter
  BY DEF DigestInv
<1>2. calc(message) = Padded(message, 0)
  BY <1>1, CalcIs
<1> QED BY <1>1, <1>2 DEF DigestsAgree, Sha1Pads

(* The digest of a message does not depend on the pieces it came in, and   *)
(* the padding is the standard's, for every size of block, every length    *)
(* and every count: MD5_Update(), MD5_Final() and SHA-1's calc().          *)
THEOREM DigestIsRight == DigestSpec => []DigestsAgree
<1>1. DigestSpec => []DigestInv
  BY DigestStarts, DigestSteps, PTL DEF DigestSpec
<1> QED BY <1>1, DigestTells, PTL
=============================================================================
