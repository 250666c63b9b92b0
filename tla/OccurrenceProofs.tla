--------------------------- MODULE OccurrenceProofs ---------------------------
(***************************************************************************)
(* What an element added at the end of a sequence, or taken from its       *)
(* front, changes in how often something occurs.                           *)
(***************************************************************************)
EXTENDS Occurrences, SequenceTheorems, TLAPS

LEMMA AppendOccurs ==
    ASSUME NEW T, NEW q \in Seq(T), NEW e \in T
    PROVE  /\ Append(q, e) \in Seq(T) /\ Append(q, e) # <<>>
           /\ Head(Append(q, e)) = IF q = <<>> THEN e ELSE Head(q)
           /\ \A S : Never(Append(q, e), S) <=> Never(q, S) /\ e \notin S
           /\ \A S : e \notin S => (Once(Append(q, e), S) <=> Once(q, S))
           /\ \A S : e \in S => (Once(Append(q, e), S) <=> Never(q, S))
  <1> DEFINE p == Append(q, e)
  <1>1. /\ p \in Seq(T) /\ p # <<>> /\ Len(q) \in Nat /\ Len(p) = Len(q) + 1
        /\ DOMAIN q = 1..Len(q) /\ DOMAIN p = 1..(Len(q) + 1)
        /\ \A i \in 1..Len(q) : p[i] = q[i]
        /\ p[Len(q) + 1] = e
    BY AppendProperties
  <1>2. Head(p) = IF q = <<>> THEN e ELSE Head(q)
    BY HeadTailAppend
  <1> HIDE DEF p
  <1>4. ASSUME NEW S PROVE Never(p, S) <=> Never(q, S) /\ e \notin S
    BY <1>1 DEF Never
  <1>5. ASSUME NEW S, e \notin S PROVE Once(p, S) <=> Once(q, S)
    <2>1. \A i \in DOMAIN p : p[i] \in S => i \in DOMAIN q /\ q[i] \in S
      BY <1>1, <1>5
    <2>2. \A i \in DOMAIN q : i \in DOMAIN p /\ p[i] = q[i]
      BY <1>1
    <2>3. Once(q, S) => Once(p, S)
      BY <2>1, <2>2 DEF Once
    <2>4. Once(p, S) => Once(q, S)
      BY <2>1, <2>2 DEF Once
    <2> QED
      BY <2>3, <2>4
  <1>6. ASSUME NEW S, e \in S PROVE Once(p, S) <=> Never(q, S)
    <2>1. Never(q, S) => Once(p, S)
      BY <1>1, <1>6 DEF Once, Never
    <2>2. Once(p, S) => Never(q, S)
      BY <1>1, <1>6 DEF Once, Never
    <2> QED
      BY <2>1, <2>2
  <1> QED
    BY <1>1, <1>2, <1>4, <1>5, <1>6 DEF p

LEMMA TailOccurs ==
    ASSUME NEW T, NEW q \in Seq(T), q # <<>>
    PROVE  /\ Head(q) \in T /\ Tail(q) \in Seq(T)
           /\ Len(q) = 1 <=> Tail(q) = <<>>
           /\ \A S : Never(q, S) <=> Head(q) \notin S /\ Never(Tail(q), S)
           /\ \A S : Head(q) \notin S => (Once(q, S) <=> Once(Tail(q), S))
           /\ \A S : Head(q) \in S => (Once(q, S) <=> Never(Tail(q), S))
  <1> DEFINE p == Tail(q)  h == Head(q)
  <1>1. /\ p \in Seq(T) /\ Len(p) \in Nat /\ Len(q) = Len(p) + 1
        /\ DOMAIN q = 1..(Len(p) + 1) /\ DOMAIN p = 1..Len(p)
        /\ \A i \in 1..Len(p) : p[i] = q[i + 1]
        /\ q[1] = h /\ h \in T
    BY HeadTailProperties, LenProperties
  <1>2. Len(q) = 1 <=> p = <<>>
    BY <1>1
  <1> HIDE DEF p, h
  <1>3. \A i \in 1..(Len(p) + 1) : i = 1 \/ (i - 1 \in 1..Len(p) /\ q[i] = p[i - 1])
    BY <1>1
  <1>5. ASSUME NEW S PROVE Never(q, S) <=> h \notin S /\ Never(p, S)
    <2>1. Never(q, S) => h \notin S
      BY <1>1 DEF Never
    <2>2. ASSUME Never(q, S) PROVE Never(p, S)
      <3>1. \A i \in 1..Len(p) : i + 1 \in 1..(Len(p) + 1)
        BY <1>1
      <3> QED
        BY <1>1, <2>2, <3>1 DEF Never
    <2>3. h \notin S /\ Never(p, S) => Never(q, S)
      BY <1>1, <1>3 DEF Never
    <2> QED
      BY <2>1, <2>2, <2>3
  <1>6. ASSUME NEW S, h \notin S PROVE Once(q, S) <=> Once(p, S)
    <2>1. ASSUME NEW i \in DOMAIN q, q[i] \in S, \A j \in DOMAIN q : q[j] \in S => j = i
          PROVE  Once(p, S)
      <3>1. i - 1 \in DOMAIN p /\ p[i - 1] \in S
        BY <1>1, <1>3, <1>6, <2>1
      <3>2. ASSUME NEW j \in DOMAIN p, p[j] \in S PROVE j = i - 1
        <4>1. j + 1 \in DOMAIN q /\ q[j + 1] \in S
          BY <1>1, <3>2
        <4> QED
          BY <1>1, <2>1, <4>1
      <3> QED
        BY <3>1, <3>2 DEF Once
    <2>2. ASSUME NEW i \in DOMAIN p, p[i] \in S, \A j \in DOMAIN p : p[j] \in S => j = i
          PROVE  Once(q, S)
      <3>1. i + 1 \in DOMAIN q /\ q[i + 1] \in S
        BY <1>1, <2>2
      <3>2. ASSUME NEW j \in DOMAIN q, q[j] \in S PROVE j = i + 1
        <4>1. j - 1 \in DOMAIN p /\ p[j - 1] \in S
          BY <1>1, <1>3, <1>6, <3>2
        <4> QED
          BY <1>1, <2>2, <4>1
      <3> QED
        BY <3>1, <3>2 DEF Once
    <2> QED
      BY <2>1, <2>2 DEF Once
  <1>7. ASSUME NEW S, h \in S PROVE Once(q, S) <=> Never(p, S)
    <2>1. 1 \in DOMAIN q /\ q[1] \in S
      BY <1>1, <1>7
    <2>2. ASSUME Once(q, S), NEW i \in DOMAIN p PROVE p[i] \notin S
      <3>1. i + 1 \in DOMAIN q /\ q[i + 1] = p[i] /\ i + 1 # 1
        BY <1>1
      <3> QED
        BY <2>1, <2>2, <3>1 DEF Once
    <2>3. ASSUME Never(p, S) PROVE Once(q, S)
      <3>1. \A j \in DOMAIN q : q[j] \in S => j = 1
        BY <1>1, <1>3, <2>3 DEF Never
      <3> QED
        BY <2>1, <3>1 DEF Once
    <2> QED
      BY <2>2, <2>3 DEF Never
  <1> QED
    BY <1>1, <1>2, <1>5, <1>6, <1>7 DEF p, h

(* A sequence and what comes after it.                                     *)
LEMMA ConcatOccurs ==
    ASSUME NEW T, NEW q \in Seq(T), NEW r \in Seq(T)
    PROVE  /\ q \o r \in Seq(T)
           /\ \A S : Never(q \o r, S) <=> Never(q, S) /\ Never(r, S)
           /\ \A S : Once(q \o r, S) <=> \/ Once(q, S) /\ Never(r, S)
                                         \/ Never(q, S) /\ Once(r, S)
  <1> DEFINE p == q \o r
  <1>1. /\ p \in Seq(T) /\ Len(q) \in Nat /\ Len(r) \in Nat
        /\ DOMAIN p = 1..(Len(q) + Len(r)) /\ DOMAIN q = 1..Len(q) /\ DOMAIN r = 1..Len(r)
        /\ \A i \in 1..Len(q) : p[i] = q[i]
        /\ \A i \in 1..Len(r) : p[Len(q) + i] = r[i]
    BY ConcatProperties, LenProperties
  <1> HIDE DEF p
  <1>2. /\ \A i \in DOMAIN q : i \in DOMAIN p /\ p[i] = q[i]
        /\ \A i \in DOMAIN r : Len(q) + i \in DOMAIN p /\ p[Len(q) + i] = r[i]
        /\ \A i \in DOMAIN p : \/ i \in DOMAIN q /\ p[i] = q[i]
                               \/ \E j \in DOMAIN r : i = Len(q) + j /\ p[i] = r[j]
        /\ \A i \in DOMAIN q, j \in DOMAIN r : i # Len(q) + j
    <2>1. ASSUME NEW i \in DOMAIN p, i \notin DOMAIN q
          PROVE  \E j \in DOMAIN r : i = Len(q) + j /\ p[i] = r[j]
      <3>1. i - Len(q) \in DOMAIN r /\ i = Len(q) + (i - Len(q))
        BY <1>1, <2>1
      <3> QED
        BY <1>1, <3>1
    <2> QED
      BY <1>1, <2>1
  <1>3. ASSUME NEW S PROVE Never(p, S) <=> Never(q, S) /\ Never(r, S)
    <2>1. Never(p, S) => Never(q, S) /\ Never(r, S)
      BY <1>2 DEF Never
    <2>2. Never(q, S) /\ Never(r, S) => Never(p, S)
      BY <1>2 DEF Never
    <2> QED
      BY <2>1, <2>2
  <1>4. ASSUME NEW S, Once(p, S)
        PROVE  (Once(q, S) /\ Never(r, S)) \/ (Never(q, S) /\ Once(r, S))
    <2>1. PICK i \in DOMAIN p : p[i] \in S /\ \A j \in DOMAIN p : p[j] \in S => j = i
      BY <1>4 DEF Once
    <2>2. CASE i \in DOMAIN q
      <3>1. q[i] \in S /\ \A j \in DOMAIN q : q[j] \in S => j = i
        BY <1>2, <2>1, <2>2
      <3>2. \A j \in DOMAIN r : r[j] \notin S
        BY <1>2, <2>1, <2>2
      <3> QED
        BY <2>2, <3>1, <3>2 DEF Once, Never
    <2>3. CASE i \notin DOMAIN q
      <3>1. PICK k \in DOMAIN r : i = Len(q) + k /\ p[i] = r[k]
        BY <1>2, <2>1, <2>3
      <3>2. \A j \in DOMAIN r : r[j] \in S => j = k
        BY <1>1, <1>2, <2>1, <3>1
      <3>3. \A j \in DOMAIN q : q[j] \notin S
        BY <1>2, <2>1, <2>3
      <3> QED
        BY <2>1, <3>1, <3>2, <3>3 DEF Once, Never
    <2> QED
      BY <2>2, <2>3
  <1>5. ASSUME NEW S, Once(q, S), Never(r, S) PROVE Once(p, S)
    <2>1. PICK i \in DOMAIN q : q[i] \in S /\ \A j \in DOMAIN q : q[j] \in S => j = i
      BY <1>5 DEF Once
    <2>2. i \in DOMAIN p /\ p[i] \in S
      BY <1>2, <2>1
    <2>3. \A j \in DOMAIN p : p[j] \in S => j = i
      BY <1>2, <1>5, <2>1 DEF Never
    <2> QED
      BY <2>2, <2>3 DEF Once
  <1>6. ASSUME NEW S, Never(q, S), Once(r, S) PROVE Once(p, S)
    <2>1. PICK k \in DOMAIN r : r[k] \in S /\ \A j \in DOMAIN r : r[j] \in S => j = k
      BY <1>6 DEF Once
    <2>2. Len(q) + k \in DOMAIN p /\ p[Len(q) + k] \in S
      BY <1>2, <2>1
    <2>3. \A j \in DOMAIN p : p[j] \in S => j = Len(q) + k
      BY <1>2, <1>6, <2>1 DEF Never
    <2> QED
      BY <2>2, <2>3 DEF Once
  <1> QED
    BY <1>1, <1>3, <1>4, <1>5, <1>6 DEF p

(* Sequences that agree, position by position, on what is in a set.        *)
LEMMA SameOccurs ==
    ASSUME NEW p, NEW q, NEW S, DOMAIN p = DOMAIN q, \A i \in DOMAIN q : p[i] \in S <=> q[i] \in S
    PROVE  (Never(p, S) <=> Never(q, S)) /\ (Once(p, S) <=> Once(q, S))
  BY DEF Never, Once

LEMMA EmptyOccurs == \A S : Never(<<>>, S) /\ ~Once(<<>>, S)
  BY DEF Never, Once

LEMMA OnceIsNotNever == \A q, S : Once(q, S) => ~Never(q, S)
  BY DEF Never, Once

(* The two handlers that stop() posts.                                     *)
LEMMA PostTwo ==
    ASSUME NEW T, NEW v \in Seq(T), NEW a \in T, NEW b \in T
    PROVE  v \o <<a, b>> = Append(Append(v, a), b)
  <1>1. <<a, b>> = Append(<<a>>, b) /\ <<a>> \in Seq(T) /\ <<b>> \in Seq(T)
    OBVIOUS
  <1>2. <<a, b>> = <<a>> \o <<b>>
    BY <1>1, AppendIsConcat
  <1>3. v \o (<<a>> \o <<b>>) = (v \o <<a>>) \o <<b>>
    BY <1>1, ConcatAssociative
  <1>4. Append(v, a) = v \o <<a>> /\ Append(v, a) \in Seq(T)
    BY AppendIsConcat, AppendProperties
  <1>5. Append(Append(v, a), b) = Append(v, a) \o <<b>>
    BY <1>4, AppendIsConcat
  <1> QED
    BY <1>2, <1>3, <1>4, <1>5

(* What _done_connect posts.                                               *)
LEMMA PostThree ==
    ASSUME NEW T, NEW v \in Seq(T), NEW a \in T, NEW b \in T, NEW c \in T
    PROVE  v \o <<a, b, c>> = Append(Append(Append(v, a), b), c)
  <1>1. <<a, b, c>> = Append(<<a, b>>, c) /\ <<a, b>> \in Seq(T) /\ <<c>> \in Seq(T)
    OBVIOUS
  <1>2. <<a, b, c>> = <<a, b>> \o <<c>>
    BY <1>1, AppendIsConcat
  <1>3. v \o (<<a, b>> \o <<c>>) = (v \o <<a, b>>) \o <<c>>
    BY <1>1, ConcatAssociative
  <1>4. v \o <<a, b>> = Append(Append(v, a), b) /\ v \o <<a, b>> \in Seq(T)
    BY <1>1, PostTwo, ConcatProperties
  <1>5. Append(v \o <<a, b>>, c) = (v \o <<a, b>>) \o <<c>>
    BY <1>4, AppendIsConcat
  <1> QED
    BY <1>2, <1>3, <1>4, <1>5
=============================================================================
