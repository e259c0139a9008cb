----------------------------- MODULE OrderProofs -----------------------------
(***************************************************************************)
(* Theorems about the components whose state is numbers in order: the rows  *)
(* of the panes and the threads' read cursors (Threads), the positions in   *)
(* the text of a connection (Handshake).  For any number of rows, any page, *)
(* any length of the queue; any connect script, text and cut of it into     *)
(* chunks.                                                                  *)
(***************************************************************************)
EXTENDS ThreadsProps, HandshakeProps, SequenceTheorems, FiniteSetTheorems,
        WellFoundedInduction, TLAPS

-----------------------------------------------------------------------------
(* Minima and maxima *)

\* A set of numbers has a least one: < is well-founded.
LEMMA LeastExists ==
    ASSUME NEW T \in SUBSET Nat, T # {}
    PROVE  \E x \in T : \A y \in T : x <= y
<1> DEFINE R == OpToRel(<, Nat)
<1>1. IsWellFoundedOn(R, Nat)
    BY NatLessThanWellFounded, Zenon
<1>2. \A x, y \in Nat : x < y => <<x, y>> \in R
    BY DEF OpToRel
<1> HIDE DEF R
<1>3. PICK x \in T : \A y \in T : ~(<<y, x>> \in R)
    BY <1>1, WFMin, Zenon
<1>4. ASSUME NEW y \in T PROVE x <= y
  <2>1. ~(y < x)
    <3>1. x \in Nat /\ y \in Nat
      OBVIOUS
    <3>. QED
      BY <1>2, <1>3, <3>1, Zenon
  <2>. QED
    BY <2>1
<1>. QED
    BY <1>4

LEMMA MinFacts ==
    ASSUME NEW S \in SUBSET Nat, S # {}
    PROVE  Min(S) \in S /\ \A y \in S : Min(S) <= y
BY LeastExists DEF Min

\* A set of numbers with a bound has a greatest one, and Max is it.
LEMMA MaxFacts ==
    ASSUME NEW n \in Nat, NEW S \in SUBSET (0 .. n), S # {}
    PROVE  Max(S) \in S /\ \A y \in S : Max(S) >= y
<1> DEFINE T == {n - x : x \in S}
<1>1. T # {}
    OBVIOUS
<1>2. \A x \in S : n - x \in Nat
    OBVIOUS
<1>3. T \in SUBSET Nat
    BY <1>2
<1>4. PICK z \in T : \A y \in T : z <= y
    BY <1>1, <1>3, LeastExists, Zenon
<1>5. PICK x \in S : z = n - x
    OBVIOUS
<1>6. ASSUME NEW y \in S PROVE x >= y
  <2>1. z <= n - y
    BY <1>4
  <2>. QED
    BY <1>5, <2>1
<1>. QED
    BY <1>6 DEF Max

-----------------------------------------------------------------------------
(* Sets in ascending order *)

LEMMA RankFacts ==
    ASSUME NEW S \in SUBSET Nat, IsFiniteSet(S)
    PROVE  /\ Cardinality(S) \in Nat
           /\ \A x \in S : Rank(S, x) \in 0 .. Cardinality(S) - 1
           /\ \A x, y \in S : x < y => Rank(S, x) < Rank(S, y)
<1> DEFINE L(x) == {y \in S : y < x}
<1>1. Cardinality(S) \in Nat
    BY FS_CardinalityType
<1>2. \A x \in S : L(x) \in SUBSET S /\ x \notin L(x) /\ Rank(S, x) = Cardinality(L(x))
    BY DEF Rank
<1>3. \A x, y \in S : x < y => L(x) \union {x} \in SUBSET L(y)
  <2> SUFFICES ASSUME NEW x \in S, NEW y \in S, x < y
               PROVE  L(x) \union {x} \in SUBSET L(y)
    OBVIOUS
  <2>1. \A z \in S : z < x => z < y
    OBVIOUS
  <2>. QED
    BY <2>1
<1> HIDE DEF L
<1>4. ASSUME NEW x \in S
      PROVE  /\ Rank(S, x) \in Nat /\ IsFiniteSet(L(x)) /\ IsFiniteSet(L(x) \union {x})
             /\ Cardinality(L(x) \union {x}) = Rank(S, x) + 1
  <2>1. IsFiniteSet(L(x))
    BY <1>2, FS_Subset
  <2>. QED
    BY <1>2, <2>1, FS_AddElement, FS_CardinalityType
<1>5. ASSUME NEW x \in S PROVE Rank(S, x) < Cardinality(S)
  <2>1. L(x) \union {x} \in SUBSET S
    BY <1>2
  <2>2. Cardinality(L(x) \union {x}) <= Cardinality(S)
    BY <2>1, FS_Subset
  <2>. QED
    BY <1>1, <1>4, <2>2
<1>6. ASSUME NEW x \in S, NEW y \in S, x < y PROVE Rank(S, x) < Rank(S, y)
  <2>1. Cardinality(L(x) \union {x}) <= Cardinality(L(y))
    BY <1>3, <1>4, <1>6, FS_Subset
  <2>2. Cardinality(L(x) \union {x}) = Rank(S, x) + 1 /\ Rank(S, x) \in Nat
    BY <1>4
  <2>3. Cardinality(L(y)) = Rank(S, y) /\ Rank(S, y) \in Nat
    BY <1>2, <1>4
  <2>. QED
    BY <2>1, <2>2, <2>3
<1>7. \A x \in S : Rank(S, x) \in Nat /\ Rank(S, x) < Cardinality(S)
    BY <1>4, <1>5
<1>. QED
    BY <1>1, <1>6, <1>7

Increasing(s) == \A i, j \in DOMAIN s : i < j => s[i] < s[j]

LEMMA AscendingFacts ==
    ASSUME NEW S \in SUBSET Nat, IsFiniteSet(S)
    PROVE  /\ Cardinality(S) \in Nat
           /\ Ascending(S) \in [1 .. Cardinality(S) -> S]
           /\ Ascending(S) \in Seq(S) /\ Len(Ascending(S)) = Cardinality(S)
           /\ DOMAIN Ascending(S) = 1 .. Cardinality(S)
           /\ Increasing(Ascending(S))
           /\ \A x \in S : \E i \in 1 .. Cardinality(S) : Ascending(S)[i] = x
<1> DEFINE n == Cardinality(S)
           r == [x \in S |-> Rank(S, x)]
           a == Ascending(S)
<1>1. /\ n \in Nat /\ \A x \in S : Rank(S, x) \in 0 .. n - 1
      /\ \A x, y \in S : x < y => Rank(S, x) < Rank(S, y)
    BY RankFacts
<1>2. \A x, y \in S : Rank(S, x) = Rank(S, y) => x = y
  <2>1. \A x \in S : x \in Nat /\ Rank(S, x) \in Nat
    BY <1>1
  <2>. QED
    BY <1>1, <2>1
<1>3. r \in Injection(S, 0 .. n - 1)
    BY <1>1, <1>2 DEF Injection, IsInjective
<1>4. IsFiniteSet(0 .. n - 1) /\ Cardinality(0 .. n - 1) = n
    BY <1>1, FS_Interval
<1>5. r \in Surjection(S, 0 .. n - 1)
    BY <1>3, <1>4, FS_Injection
<1>6. \A k \in 0 .. n - 1 : \E x \in S : Rank(S, x) = k
    BY <1>5 DEF Surjection
<1>7. \A i \in 1 .. n : a[i] \in S /\ Rank(S, a[i]) = i - 1
  <2> SUFFICES ASSUME NEW i \in 1 .. n
               PROVE  a[i] \in S /\ Rank(S, a[i]) = i - 1
    OBVIOUS
  <2>1. i - 1 \in 0 .. n - 1
    BY <1>1
  <2>2. \E x \in S : Rank(S, x) = i - 1
    BY <1>6, <2>1
  <2>3. a[i] = CHOOSE x \in S : Rank(S, x) = i - 1
    BY DEF Ascending
  <2>. QED
    BY <2>2, <2>3
<1>8. a \in [1 .. n -> S] /\ DOMAIN a = 1 .. n
    BY <1>7 DEF Ascending
<1>9. a \in Seq(S) /\ Len(a) = n
    BY <1>1, <1>8, SeqDef
<1>10. Increasing(a)
  <2> SUFFICES ASSUME NEW i \in 1 .. n, NEW j \in 1 .. n, i < j
               PROVE  a[i] < a[j]
    BY <1>8 DEF Increasing
  <2>1. /\ a[i] \in S /\ a[j] \in S /\ a[i] \in Nat /\ a[j] \in Nat
        /\ Rank(S, a[i]) < Rank(S, a[j])
    <3>1. i \in Int /\ j \in Int
      BY <1>1
    <3>2. a[i] \in S /\ Rank(S, a[i]) = i - 1 /\ a[j] \in S /\ Rank(S, a[j]) = j - 1
      BY <1>7
    <3>3. \A x \in S : x \in Nat
      OBVIOUS
    <3> HIDE DEF a, n
    <3>4. a[i] \in Nat /\ a[j] \in Nat
      BY <3>2, <3>3
    <3>5. i - 1 < j - 1
      BY <3>1
    <3>. QED
      BY <3>2, <3>4, <3>5
  <2>2. ~(a[j] < a[i]) /\ a[i] # a[j]
    <3>1. Rank(S, a[i]) \in Nat /\ Rank(S, a[j]) \in Nat
      BY <1>1, <2>1
    <3>2. a[j] < a[i] => Rank(S, a[j]) < Rank(S, a[i])
      BY <1>1, <2>1
    <3> HIDE DEF a
    <3>. QED
      BY <2>1, <3>1, <3>2
  <2> HIDE DEF a
  <2>. QED
    BY <2>1, <2>2
<1>11. \A x \in S : \E i \in 1 .. n : a[i] = x
  <2> SUFFICES ASSUME NEW x \in S
               PROVE  \E i \in 1 .. n : a[i] = x
    OBVIOUS
  <2>1. Rank(S, x) + 1 \in 1 .. n /\ Rank(S, x) \in Nat
    BY <1>1
  <2>2. Rank(S, a[Rank(S, x) + 1]) = Rank(S, x) /\ a[Rank(S, x) + 1] \in S
    BY <1>7, <2>1
  <2>. QED
    BY <1>2, <2>1, <2>2
<1>. QED
    BY <1>1, <1>8, <1>9, <1>10, <1>11

-----------------------------------------------------------------------------
(* Induction, over the members of a set *)

LEMMA InductionOverSet ==
    ASSUME NEW S, 0 \in S, \A n \in Nat : n \in S => n + 1 \in S
    PROVE  \A n \in Nat : n \in S
<1> SUFFICES ASSUME NEW m \in Nat, m \notin S
             PROVE  FALSE
    OBVIOUS
<1> DEFINE T == {n \in Nat : n \notin S}
<1>1. T \in SUBSET Nat /\ T # {}
    OBVIOUS
<1>2. PICK x \in T : \A y \in T : x <= y
    BY <1>1, LeastExists
<1>3. x # 0 /\ x \in Nat
    OBVIOUS
<1>4. x - 1 \in Nat /\ ~(x <= x - 1)
    BY <1>3
<1>5. x - 1 \in S
    BY <1>2, <1>4
<1>6. (x - 1) + 1 \in S
    BY <1>4, <1>5
<1>. QED
    BY <1>3, <1>6

-----------------------------------------------------------------------------
(* Rows put into a pane *)

LEMMA RangeFacts ==
    ASSUME NEW S, NEW s \in Seq(S)
    PROVE  /\ DOMAIN s = 1 .. Len(s) /\ Len(s) \in Nat
           /\ \A x : x \in Range(s) <=> \E i \in 1 .. Len(s) : s[i] = x
           /\ Range(s) \subseteq S
BY LenProperties DEF Range

\* The place before which no row is younger.
LEMMA InsertedPlace ==
    ASSUME NEW p \in Seq(Stamps), Increasing(p), NEW s \in Stamps, s \notin Range(p)
    PROVE  LET n == Cardinality({i \in DOMAIN p : \A j \in 1 .. i : p[j] <= s})
           IN  /\ n \in 0 .. Len(p)
               /\ \A i \in 1 .. n : p[i] < s
               /\ \A i \in n + 1 .. Len(p) : s < p[i]
<1> DEFINE D == {i \in DOMAIN p : \A j \in 1 .. i : p[j] <= s}
           m == Max(D \union {0})
<1>1. /\ DOMAIN p = 1 .. Len(p) /\ Len(p) \in Nat /\ s \in Nat /\ s \in Int
      /\ \A i \in 1 .. Len(p) : p[i] \in Int /\ p[i] # s
    BY RangeFacts, ElementOfSeq, SizesAssumption DEF Stamps
<1>2. m \in D \union {0} /\ \A y \in D \union {0} : m >= y
  <2>1. D \union {0} \in SUBSET (0 .. Len(p))
    BY <1>1
  <2> HIDE DEF D
  <2>. QED
    BY <1>1, <2>1, MaxFacts
<1>3. m \in 0 .. Len(p)
    BY <1>1, <1>2
<1> HIDE DEF m
<1>4. \A i \in 1 .. m : i \in D
    BY <1>1, <1>2, <1>3
<1>5. D = 1 .. m
    BY <1>1, <1>2, <1>3, <1>4
<1>6. Cardinality(D) = m
  <2>1. 1 \in Int /\ m \in Int /\ Cardinality(1 .. m) = IF 1 > m THEN 0 ELSE m - 1 + 1
    BY <1>1, <1>3, FS_Interval
  <2>2. Cardinality(1 .. m) = m
    BY <1>3, <2>1
  <2>. QED
    BY <1>5, <2>2
<1>7. \A i \in 1 .. m : p[i] < s
  <2> SUFFICES ASSUME NEW i \in 1 .. m
               PROVE  p[i] < s
    OBVIOUS
  <2>1. i \in D /\ i \in 1 .. Len(p) /\ i \in 1 .. i
    BY <1>1, <1>3, <1>4
  <2>2. p[i] <= s
    BY <2>1
  <2>. QED
    BY <1>1, <2>1, <2>2
<1>8. \A i \in m + 1 .. Len(p) : s < p[i]
  <2> SUFFICES ASSUME NEW i \in m + 1 .. Len(p)
               PROVE  s < p[i]
    OBVIOUS
  <2>1. m + 1 \in 1 .. Len(p) /\ i \in 1 .. Len(p) /\ m + 1 <= i /\ m \in Int
    BY <1>1, <1>3
  <2>2. m + 1 \notin D
    BY <1>5, <2>1
  <2>3. PICK j \in 1 .. m + 1 : ~(p[j] <= s)
    BY <1>1, <2>1, <2>2
  <2>4. j \in 1 .. Len(p) /\ j = m + 1
    BY <1>1, <1>3, <1>7, <2>1, <2>3
  <2>5. s < p[m + 1]
    BY <1>1, <2>3, <2>4
  <2>6. m + 1 = i \/ p[m + 1] < p[i]
    BY <1>1, <2>1 DEF Increasing
  <2>. QED
    BY <1>1, <2>1, <2>5, <2>6
<1>. QED
    BY <1>3, <1>6, <1>7, <1>8

\* A pane with one more row: that row is there once, and the order is kept.
LEMMA InsertedFacts ==
    ASSUME NEW p \in Seq(Stamps), Increasing(p), NEW s \in Stamps
    PROVE  /\ Inserted(p, s) \in Seq(Stamps) /\ Increasing(Inserted(p, s))
           /\ Range(Inserted(p, s)) = Range(p) \union {s}
<1>1. CASE s \in Range(p)
    BY <1>1 DEF Inserted
<1>2. CASE s \notin Range(p)
  <2> DEFINE n == Cardinality({i \in DOMAIN p : \A j \in 1 .. i : p[j] <= s})
             q == InsertAt(p, n + 1, s)
             a == SubSeq(p, 1, n)
             b == SubSeq(p, n + 1, Len(p))
  <2>1. /\ n \in 0 .. Len(p) /\ \A i \in 1 .. n : p[i] < s
        /\ \A i \in n + 1 .. Len(p) : s < p[i]
    BY <1>2, InsertedPlace
  <2>2. Inserted(p, s) = q
    BY <1>2 DEF Inserted
  <2>3. /\ DOMAIN p = 1 .. Len(p) /\ Len(p) \in Nat /\ s \in Int
        /\ \A i \in 1 .. Len(p) : p[i] \in Stamps /\ p[i] \in Int
    BY RangeFacts, ElementOfSeq, SizesAssumption DEF Stamps
  <2> HIDE DEF n
  <2>4. n + 1 - 1 = n /\ n \in Int /\ n + 1 \in Int
    BY <2>1, <2>3
  <2>5. q = (a \o <<s>>) \o b
    <3>1. q = SubSeq(p, 1, (n + 1) - 1) \o <<s>> \o SubSeq(p, n + 1, Len(p))
      BY DEF InsertAt
    <3>2. (n + 1) - 1 = n
      BY <2>4
    <3>. QED
      BY <3>1, <3>2, Zenon
  <2>6. /\ a \in Seq(Stamps) /\ Len(a) = n
        /\ \A i \in 1 .. n : a[i] = p[i]
    <3>1. 1 \in Int /\ n \in Int /\ \A i \in 1 .. n : p[i] \in Stamps
      BY <2>1, <2>3, <2>4
    <3>2. /\ a \in Seq(Stamps) /\ Len(a) = IF 1 <= n THEN n - 1 + 1 ELSE 0
          /\ \A i \in 1 .. n - 1 + 1 : a[i] = p[1 + i - 1]
      BY <3>1, SubSeqProperties
    <3>3. n - 1 + 1 = n /\ (1 <= n \/ n = 0) /\ \A i \in 1 .. n : 1 + i - 1 = i
      BY <2>1, <2>3
    <3> HIDE DEF a
    <3>. QED
      BY <3>2, <3>3
  <2>7. /\ b \in Seq(Stamps) /\ Len(b) = Len(p) - n
        /\ \A i \in 1 .. Len(p) - n : b[i] = p[n + i]
    <3>1. n + 1 \in Int /\ Len(p) \in Int /\ \A i \in n + 1 .. Len(p) : p[i] \in Stamps
      BY <2>1, <2>3, <2>4
    <3>2. /\ b \in Seq(Stamps)
          /\ Len(b) = IF n + 1 <= Len(p) THEN Len(p) - (n + 1) + 1 ELSE 0
          /\ \A i \in 1 .. Len(p) - (n + 1) + 1 : b[i] = p[n + 1 + i - 1]
      BY <3>1, SubSeqProperties
    <3>3. /\ Len(p) - (n + 1) + 1 = Len(p) - n /\ (n + 1 <= Len(p) \/ Len(p) - n = 0)
          /\ \A i \in Int : n + 1 + i - 1 = n + i
      <4> DEFINE k == Len(p)
      <4>1. k \in Int /\ n \in Int /\ n <= k
        BY <2>1, <2>3
      <4> HIDE DEF k
      <4>2. k - (n + 1) + 1 = k - n /\ (n + 1 <= k \/ k - n = 0)
        BY <4>1
      <4>3. \A i \in Int : n + 1 + i - 1 = n + i
        BY <4>1
      <4>. QED
        BY <4>2, <4>3 DEF k
    <3> HIDE DEF b
    <3>4. Len(b) = Len(p) - n
      BY <3>1, <3>2, <3>3
    <3>5. ASSUME NEW i \in 1 .. Len(p) - n PROVE b[i] = p[n + i]
      <4>1. i \in 1 .. Len(p) - (n + 1) + 1 /\ i \in Int
        BY <3>3
      <4>2. b[i] = p[n + 1 + i - 1]
        BY <3>2, <4>1
      <4>. QED
        BY <3>3, <4>1, <4>2
    <3>. QED
      BY <3>2, <3>4, <3>5
  <2> HIDE DEF a, b, q
  <2>8. /\ a \o <<s>> \in Seq(Stamps) /\ Len(a \o <<s>>) = n + 1
        /\ \A i \in 1 .. n : (a \o <<s>>)[i] = p[i]
        /\ (a \o <<s>>)[n + 1] = s
    BY <2>1, <2>4, <2>6, AppendProperties, AppendIsConcat
  <2>9. /\ q \in Seq(Stamps) /\ Len(q) = Len(p) + 1
        /\ \A i \in 1 .. n : q[i] = p[i]
        /\ q[n + 1] = s
        /\ \A i \in n + 2 .. Len(p) + 1 : q[i] = p[i - 1]
    <3>1. /\ q \in Seq(Stamps) /\ Len(q) = (n + 1) + (Len(p) - n)
          /\ \A i \in 1 .. (n + 1) + (Len(p) - n) :
                q[i] = IF i <= n + 1 THEN (a \o <<s>>)[i] ELSE b[i - (n + 1)]
      <4> DEFINE c == a \o <<s>>
      <4> HIDE DEF c
      <4>1. c \in Seq(Stamps) /\ Len(c) = n + 1 /\ q = c \o b
        BY <2>5, <2>8 DEF c
      <4>2. /\ q \in Seq(Stamps) /\ Len(q) = (n + 1) + (Len(p) - n)
            /\ \A i \in 1 .. (n + 1) + (Len(p) - n) :
                  q[i] = IF i <= n + 1 THEN c[i] ELSE b[i - (n + 1)]
        <5>1. /\ q \in Seq(Stamps) /\ Len(q) = Len(c) + Len(b)
              /\ \A i \in 1 .. Len(c) + Len(b) : q[i] = IF i <= Len(c) THEN c[i] ELSE b[i - Len(c)]
          BY <2>7, <4>1, ConcatProperties
        <5>. QED
          BY <2>7, <4>1, <5>1
      <4>. QED
        BY <4>2 DEF c
    <3>2. (n + 1) + (Len(p) - n) = Len(p) + 1
      BY <2>3, <2>4
    <3>3. \A i \in 1 .. n : q[i] = p[i]
      BY <2>1, <2>3, <2>8, <3>1
    <3>4. q[n + 1] = s
      BY <2>1, <2>3, <2>8, <3>1
    <3>5. ASSUME NEW i \in n + 2 .. Len(p) + 1 PROVE q[i] = p[i - 1]
      <4>1. /\ i \in 1 .. (n + 1) + (Len(p) - n) /\ ~(i <= n + 1)
            /\ i - (n + 1) \in 1 .. Len(p) - n /\ n + (i - (n + 1)) = i - 1
        BY <2>1, <2>3, <2>4
      <4>. QED
        BY <2>7, <3>1, <4>1
    <3>. QED
      BY <3>1, <3>2, <3>3, <3>4, <3>5
  <2>10. DOMAIN q = 1 .. Len(p) + 1
    BY <2>9, LenProperties
  <2>11. Increasing(q)
    <3> SUFFICES ASSUME NEW i \in 1 .. Len(p) + 1, NEW j \in 1 .. Len(p) + 1, i < j
                 PROVE  q[i] < q[j]
      BY <2>10 DEF Increasing
    <3>1. CASE j <= n
      <4>1. q[i] = p[i] /\ q[j] = p[j] /\ i \in 1 .. Len(p) /\ j \in 1 .. Len(p)
        BY <2>1, <2>3, <2>9, <3>1
      <4>. QED
        BY <2>3, <4>1 DEF Increasing
    <3>2. CASE j = n + 1
      BY <2>1, <2>3, <2>9, <3>2
    <3>3. CASE j > n + 1
      <4>1. q[j] = p[j - 1] /\ j - 1 \in n + 1 .. Len(p) /\ j - 1 \in 1 .. Len(p)
        BY <2>1, <2>3, <2>9, <3>3
      <4>2. CASE i <= n
        <5>1. q[i] = p[i] /\ i \in 1 .. Len(p) /\ i < j - 1
          BY <2>1, <2>3, <2>9, <3>3, <4>2
        <5>. QED
          BY <2>3, <4>1, <5>1 DEF Increasing
      <4>3. CASE i = n + 1
        BY <2>1, <2>9, <4>1, <4>3
      <4>4. CASE i > n + 1
        <5>1. q[i] = p[i - 1] /\ i - 1 \in 1 .. Len(p) /\ i - 1 < j - 1
          BY <2>1, <2>3, <2>9, <3>3, <4>4
        <5>. QED
          BY <2>3, <4>1, <5>1 DEF Increasing
      <4>. QED
        BY <2>4, <4>2, <4>3, <4>4
    <3>. QED
      BY <2>4, <3>1, <3>2, <3>3
  <2>12. Range(q) = Range(p) \union {s}
    <3>1. \A x : x \in Range(q) => x \in Range(p) \union {s}
      <4> SUFFICES ASSUME NEW i \in 1 .. Len(p) + 1
                   PROVE  q[i] \in Range(p) \union {s}
        BY <2>10 DEF Range
      <4>1. CASE i <= n
        <5>1. q[i] = p[i] /\ i \in 1 .. Len(p)
          BY <2>1, <2>3, <2>9, <4>1
        <5>. QED
          BY <2>3, <5>1 DEF Range
      <4>2. CASE i = n + 1
        BY <2>9, <4>2
      <4>3. CASE i > n + 1
        <5>1. q[i] = p[i - 1] /\ i - 1 \in 1 .. Len(p)
          BY <2>1, <2>3, <2>9, <4>3
        <5>. QED
          BY <2>3, <5>1 DEF Range
      <4>. QED
        BY <2>4, <4>1, <4>2, <4>3
    <3>2. ASSUME NEW i \in 1 .. Len(p) PROVE p[i] \in Range(q)
      <4>1. CASE i <= n
        <5>1. q[i] = p[i] /\ i \in 1 .. Len(p) + 1
          BY <2>1, <2>3, <2>9, <4>1
        <5>. QED
          BY <2>10, <5>1 DEF Range
      <4>2. CASE i > n
        <5>1. i + 1 \in n + 2 .. Len(p) + 1 /\ i + 1 \in 1 .. Len(p) + 1 /\ (i + 1) - 1 = i
          BY <2>1, <2>3, <4>2
        <5>2. q[i + 1] = p[i]
          BY <2>9, <5>1
        <5>. QED
          BY <2>10, <5>1, <5>2 DEF Range
      <4>. QED
        BY <2>4, <4>1, <4>2
    <3>3. s \in Range(q)
      <4>1. n + 1 \in DOMAIN q
        BY <2>1, <2>3, <2>10
      <4>. QED
        BY <2>9, <4>1 DEF Range
    <3>. QED
      BY <2>3, <3>1, <3>2, <3>3 DEF Range
  <2>. QED
    BY <2>2, <2>9, <2>11, <2>12
<1>. QED
    BY <1>1, <1>2

\* Its members, and no others.
LEMMA AscendingRange ==
    ASSUME NEW S \in SUBSET Nat, IsFiniteSet(S)
    PROVE  Range(Ascending(S)) = S
<1> DEFINE a == Ascending(S)
<1>1. /\ DOMAIN a = 1 .. Cardinality(S) /\ \A i \in 1 .. Cardinality(S) : a[i] \in S
      /\ \A x \in S : \E i \in 1 .. Cardinality(S) : a[i] = x
    BY AscendingFacts
<1> HIDE DEF a
<1>2. Range(a) = S
    BY <1>1 DEF Range
<1>. QED
    BY <1>2 DEF a

\* One sequence in order after another one with greater members.
LEMMA IncreasingConcat ==
    ASSUME NEW S \in SUBSET Int, NEW p \in Seq(S), NEW q \in Seq(S), Increasing(p), Increasing(q),
           \A x \in Range(p), y \in Range(q) : x < y
    PROVE  /\ p \o q \in Seq(S) /\ Increasing(p \o q)
           /\ Range(p \o q) = Range(p) \union Range(q)
<1> DEFINE m == Len(p)
           n == Len(q)
           r == p \o q
<1>1. /\ m \in Nat /\ n \in Nat /\ DOMAIN p = 1 .. m /\ DOMAIN q = 1 .. n
      /\ \A i \in 1 .. m : p[i] \in Range(p) /\ p[i] \in S
      /\ \A i \in 1 .. n : q[i] \in Range(q) /\ q[i] \in S
    BY RangeFacts, ElementOfSeq DEF Range
<1>2. /\ r \in Seq(S) /\ Len(r) = m + n
      /\ \A i \in 1 .. m + n : r[i] = IF i <= m THEN p[i] ELSE q[i - m]
    BY ConcatProperties
<1>3. DOMAIN r = 1 .. m + n
    BY <1>2, LenProperties
<1> HIDE DEF m, n, r
<1>4. \A i \in 1 .. m : i \in 1 .. m + n /\ r[i] = p[i]
    BY <1>1, <1>2
<1>5. \A i \in 1 .. m + n : i > m => i - m \in 1 .. n /\ r[i] = q[i - m]
    BY <1>1, <1>2
<1>6. \A i \in 1 .. n : m + i \in 1 .. m + n /\ r[m + i] = q[i]
  <2> SUFFICES ASSUME NEW i \in 1 .. n
               PROVE  m + i \in 1 .. m + n /\ r[m + i] = q[i]
    OBVIOUS
  <2>1. m + i \in 1 .. m + n /\ m + i > m /\ (m + i) - m = i
    BY <1>1
  <2>. QED
    BY <1>5, <2>1
<1>7. Increasing(r)
  <2> SUFFICES ASSUME NEW i \in 1 .. m + n, NEW j \in 1 .. m + n, i < j
               PROVE  r[i] < r[j]
    BY <1>3 DEF Increasing
  <2>1. CASE j <= m
    <3>1. i \in 1 .. m /\ j \in 1 .. m
      BY <1>1, <2>1
    <3>. QED
      BY <1>1, <1>4, <3>1 DEF Increasing
  <2>2. CASE i > m
    <3>1. i - m \in 1 .. n /\ j - m \in 1 .. n /\ i - m < j - m /\ j > m
      BY <1>1, <1>5, <2>2
    <3>. QED
      BY <1>1, <1>5, <2>2, <3>1 DEF Increasing
  <2>3. CASE i <= m /\ j > m
    <3>1. i \in 1 .. m /\ j - m \in 1 .. n
      BY <1>1, <1>5, <2>3
    <3>. QED
      BY <1>1, <1>4, <1>5, <2>3, <3>1
  <2>. QED
    BY <1>1, <2>1, <2>2, <2>3
<1>8. Range(r) \subseteq Range(p) \union Range(q)
  <2> SUFFICES ASSUME NEW i \in 1 .. m + n
               PROVE  r[i] \in Range(p) \union Range(q)
    BY <1>3 DEF Range
  <2>1. CASE i <= m
    <3>1. i \in 1 .. m
      BY <1>1, <2>1
    <3>. QED
      BY <1>1, <1>4, <3>1
  <2>2. CASE i > m
    BY <1>1, <1>5, <2>2
  <2>. QED
    BY <1>1, <2>1, <2>2
<1>9. Range(p) \union Range(q) \subseteq Range(r)
    BY <1>1, <1>3, <1>4, <1>6 DEF Range
<1>. QED
    BY <1>2, <1>7, <1>8, <1>9 DEF r

\* The fold is the function its definition describes: one exists.
Step(p, q, iter, T) == IF T = {} THEN p ELSE Inserted(iter[T \ {Max(T)}], q[Max(T)])

LEMMA FoldExists ==
    ASSUME NEW p, NEW q
    PROVE  \A n \in Nat : \E iter : iter = [T \in SUBSET (1 .. n) |-> Step(p, q, iter, T)]
<1> DEFINE Good(n) == \E iter : iter = [T \in SUBSET (1 .. n) |-> Step(p, q, iter, T)]
           G == {n \in Nat : Good(n)}
<1>1. 0 \in G
  <2> DEFINE g == [T \in SUBSET (1 .. 0) |-> p]
  <2>1. \A T \in SUBSET (1 .. 0) : T = {}
    OBVIOUS
  <2>2. \A T \in SUBSET (1 .. 0) : Step(p, q, g, T) = p
    BY <2>1 DEF Step
  <2>3. g = [T \in SUBSET (1 .. 0) |-> Step(p, q, g, T)]
    BY <2>2
  <2>. QED
    BY <2>3
<1>2. ASSUME NEW n \in Nat, n \in G PROVE n + 1 \in G
  <2>1. PICK f : f = [T \in SUBSET (1 .. n) |-> Step(p, q, f, T)]
    BY <1>2
  <2> DEFINE g == [T \in SUBSET (1 .. n + 1) |->
                      IF n + 1 \in T THEN Inserted(f[T \ {n + 1}], q[n + 1]) ELSE f[T]]
  <2>2. ASSUME NEW T \in SUBSET (1 .. n + 1), T # {}
        PROVE  Max(T) \in T /\ \A y \in T : Max(T) >= y
    <3>1. T \in SUBSET (0 .. n + 1) /\ n + 1 \in Nat
      OBVIOUS
    <3>. QED
      BY <2>2, <3>1, MaxFacts
  <2>3. ASSUME NEW T \in SUBSET (1 .. n + 1) PROVE g[T] = Step(p, q, g, T)
    <3>1. CASE T = {}
      <4>1. T \in SUBSET (1 .. n) /\ n + 1 \notin T
        BY <3>1
      <4>2. g[T] = f[T] /\ f[T] = Step(p, q, f, T)
        BY <2>1, <4>1
      <4>. QED
        BY <3>1, <4>2 DEF Step
    <3>2. CASE T # {} /\ n + 1 \notin T
      <4>1. T \in SUBSET (1 .. n)
        BY <3>2
      <4>2. T \ {Max(T)} \in SUBSET (1 .. n) /\ T \ {Max(T)} \in SUBSET (1 .. n + 1)
            /\ n + 1 \notin T \ {Max(T)}
        BY <3>2, <4>1
      <4>3. g[T] = f[T] /\ f[T] = Step(p, q, f, T)
        BY <2>1, <3>2, <4>1
      <4>4. g[T \ {Max(T)}] = f[T \ {Max(T)}]
        BY <4>2
      <4>. QED
        BY <3>2, <4>3, <4>4 DEF Step
    <3>3. CASE n + 1 \in T
      <4>1. Max(T) = n + 1
        <5>1. Max(T) \in T /\ Max(T) >= n + 1
          BY <2>2, <3>3
        <5>2. Max(T) \in 1 .. n + 1
          BY <5>1
        <5>. QED
          BY <5>1, <5>2
      <4>2. T \ {n + 1} \in SUBSET (1 .. n + 1) /\ n + 1 \notin T \ {n + 1}
        OBVIOUS
      <4>3. g[T] = Inserted(f[T \ {n + 1}], q[n + 1]) /\ g[T \ {n + 1}] = f[T \ {n + 1}]
        BY <3>3, <4>2
      <4> HIDE DEF g
      <4>. QED
        BY <3>3, <4>1, <4>3 DEF Step
    <3>. QED
      BY <3>1, <3>2, <3>3
  <2>4. g = [T \in SUBSET (1 .. n + 1) |-> Step(p, q, g, T)]
    <3> DEFINE h == [T \in SUBSET (1 .. n + 1) |-> Step(p, q, g, T)]
    <3>1. \A T \in SUBSET (1 .. n + 1) : g[T] = h[T]
      BY <2>3
    <3>. QED
      BY <3>1
  <2> HIDE DEF g
  <2>5. Good(n + 1) /\ n + 1 \in Nat
    BY <2>4
  <2> HIDE DEF Good
  <2>. QED
    BY <2>5
<1> HIDE DEF Good
<1>3. \A n \in Nat : n \in G
  <2> HIDE DEF G
  <2>. QED
    BY <1>1, <1>2, InductionOverSet
<1>. QED
  BY <1>3 DEF Good

\* Rows put in one after the other leave a pane in order, with all of them in it.
LEMMA FoldInserted ==
    ASSUME NEW p \in Seq(Stamps), Increasing(p), NEW q \in Seq(Stamps)
    PROVE  /\ FoldLeft(Inserted, p, q) \in Seq(Stamps) /\ Increasing(FoldLeft(Inserted, p, q))
           /\ Range(FoldLeft(Inserted, p, q)) = Range(p) \union Range(q)
<1> DEFINE N == Len(q)
<1>1. DOMAIN q = 1 .. N /\ N \in Nat /\ \A i \in 1 .. N : q[i] \in Stamps
  BY RangeFacts, ElementOfSeq
<1>2. PICK iter : /\ FoldLeft(Inserted, p, q) = iter[1 .. N]
                  /\ iter = [T \in SUBSET (1 .. N) |-> Step(p, q, iter, T)]
  <2> DEFINE it == CHOOSE iter : iter = [T \in SUBSET DOMAIN q |->
                      IF T = {} THEN p ELSE Inserted(iter[T \ {Max(T)}], q[Max(T)])]
  <2>1. FoldLeft(Inserted, p, q) = it[DOMAIN q]
    BY DEF FoldLeft, MapThenFoldSet
  <2>2. it = CHOOSE iter : iter = [T \in SUBSET (1 .. N) |-> Step(p, q, iter, T)]
    BY <1>1 DEF Step
  <2>3. \E iter : iter = [T \in SUBSET (1 .. N) |-> Step(p, q, iter, T)]
    BY <1>1, FoldExists
  <2> HIDE DEF it
  <2>4. it = [T \in SUBSET (1 .. N) |-> Step(p, q, it, T)]
    BY <2>2, <2>3
  <2>. QED
    BY <1>1, <2>1, <2>4
<1> DEFINE Good(T) == /\ iter[T] \in Seq(Stamps) /\ Increasing(iter[T])
                      /\ Range(iter[T]) = Range(p) \union {q[i] : i \in T}
           G == {n \in Nat : \A T \in SUBSET (1 .. N) : T \in SUBSET (1 .. n) => Good(T)}
<1>3. \A T \in SUBSET (1 .. N) : iter[T] = Step(p, q, iter, T)
  BY <1>2
<1>4. Good({})
  <2>1. iter[{}] = p
    BY <1>3 DEF Step
  <2>. QED
    BY <2>1
<1>5. 0 \in G
  <2>1. \A T \in SUBSET (1 .. 0) : T = {}
    OBVIOUS
  <2> HIDE DEF Good
  <2>. QED
    BY <1>4, <2>1
<1>6. ASSUME NEW n \in Nat, n \in G PROVE n + 1 \in G
  <2> SUFFICES ASSUME NEW T \in SUBSET (1 .. N), T \in SUBSET (1 .. n + 1)
               PROVE  Good(T)
    OBVIOUS
  <2>1. CASE n + 1 \notin T
    <3>1. T \in SUBSET (1 .. n)
      BY <2>1
    <3>. QED
      BY <1>6, <3>1
  <2>2. CASE n + 1 \in T
    <3>1. Max(T) = n + 1
      <4>1. T \in SUBSET (0 .. n + 1) /\ n + 1 \in Nat /\ T # {}
        BY <2>2
      <4>2. Max(T) \in T /\ Max(T) >= n + 1
        BY <2>2, <4>1, MaxFacts
      <4>3. Max(T) \in 1 .. n + 1
        BY <4>2
      <4>. QED
        BY <4>2, <4>3
    <3> DEFINE U == T \ {n + 1}
    <3>2. U \in SUBSET (1 .. N) /\ U \in SUBSET (1 .. n)
      OBVIOUS
    <3>3. Good(U)
      BY <1>6, <3>2
    <3>4. q[n + 1] \in Stamps
      BY <1>1, <2>2
    <3>5. iter[T] = Inserted(iter[U], q[n + 1])
      BY <1>3, <2>2, <3>1 DEF Step
    <3>6. {q[i] : i \in T} = {q[i] : i \in U} \union {q[n + 1]}
      BY <2>2
    <3> HIDE DEF U
    <3>7. /\ Inserted(iter[U], q[n + 1]) \in Seq(Stamps)
          /\ Increasing(Inserted(iter[U], q[n + 1]))
          /\ Range(Inserted(iter[U], q[n + 1])) = Range(iter[U]) \union {q[n + 1]}
      BY <3>3, <3>4, InsertedFacts
    <3>. QED
      BY <3>3, <3>5, <3>6, <3>7
  <2>. QED
    BY <2>1, <2>2
<1>7. N \in G
  <2> HIDE DEF G
  <2>. QED
    BY <1>1, <1>5, <1>6, InductionOverSet
<1>8. Good(1 .. N)
  BY <1>7
<1>9. {q[i] : i \in 1 .. N} = Range(q)
  BY <1>1 DEF Range
<1>. QED
  BY <1>2, <1>8, <1>9
-----------------------------------------------------------------------------
(* Threads: what is read and what is counted *)

Base ==
    /\ stored \in [Threads -> SUBSET Stamps] /\ own \in [Threads -> SUBSET Stamps]
    /\ read \in [Threads -> 0 .. MaxRows] /\ badge \in [Threads -> Nat]
    /\ {opening, active} \subseteq Threads \union {NoThread}

\* The queue holds events, and only the channel's subscription is told of.
Queue ==
    /\ events \in Seq(Event)
    /\ \A i \in DOMAIN events : events[i].kind = "cs" => events[i].thread = "ch"

\* The event that brings row s of t is in the queue.
Brings(e, t) == e.kind = "rows" /\ e.thread = t
Coming(t, s) == \E i \in DOMAIN events : Brings(events[i], t) /\ s \in events[i].rows

\* What of the thread on screen is not read has an event in the queue.
ReadOrQueued ==
    active # NoThread =>
        /\ badge[active] = 0
        /\ \/ \A s \in Stamps : s \notin Unread(active)
           \/ \E i \in DOMAIN events : Brings(events[i], active)

\* The DMs of the peer that no event will count.
Missing == {s \in Stamps : s \in Unread("dm") /\ ~Coming("dm", s)}
Counted == Cardinality(Missing) <= badge["dm"]

ReadInv == Base /\ Queue /\ ReadOrQueued /\ Counted

-----------------------------------------------------------------------------
(* The queue *)

LEMMA QueueTail ==
    ASSUME Queue, events # <<>>, events' = Tail(events)
    PROVE  /\ Queue' /\ Head(events) \in Event /\ Head(events) = events[1] /\ 1 \in DOMAIN events
           /\ \A i \in DOMAIN events : i = 1 \/ (i - 1 \in DOMAIN events' /\ events'[i - 1] = events[i])
           /\ \A i \in DOMAIN events' : i + 1 \in DOMAIN events /\ events'[i] = events[i + 1]
<1>1. Len(events) \in Nat \ {0} /\ DOMAIN events = 1 .. Len(events) /\ events \in Seq(Event)
    BY EmptySeq, LenProperties DEF Queue
<1>2. /\ Head(events) = events[1] /\ Head(events) \in Event
      /\ events' \in Seq(Event) /\ Len(events') = Len(events) - 1
      /\ \A i \in 1 .. Len(events) - 1 : events'[i] = events[i + 1]
    BY <1>1, ElementOfSeq
<1>3. DOMAIN events' = 1 .. Len(events) - 1
    BY <1>1, <1>2, LenProperties
<1>. QED
    BY <1>1, <1>2, <1>3 DEF Queue

LEMMA QueueAppend ==
    ASSUME Queue, NEW e \in Event, e.kind = "cs" => e.thread = "ch", events' = Append(events, e)
    PROVE  /\ Queue'
           /\ \A i \in DOMAIN events : i \in DOMAIN events' /\ events'[i] = events[i]
           /\ \E i \in DOMAIN events' : events'[i] = e
           /\ \A i \in DOMAIN events' : events'[i] = e \/ (i \in DOMAIN events /\ events'[i] = events[i])
<1>1. Len(events) \in Nat /\ DOMAIN events = 1 .. Len(events) /\ events \in Seq(Event)
    BY LenProperties DEF Queue
<1>2. /\ events' \in Seq(Event) /\ Len(events') = Len(events) + 1
      /\ \A i \in 1 .. Len(events) : events'[i] = events[i]
      /\ events'[Len(events) + 1] = e
    BY <1>1, AppendProperties
<1>3. DOMAIN events' = 1 .. Len(events) + 1
    BY <1>1, <1>2, LenProperties
<1>. QED
    BY <1>1, <1>2, <1>3 DEF Queue

\* What is coming comes, until its event is taken.
LEMMA ComingAppend ==
    ASSUME Queue, NEW e \in Event, e.kind = "cs" => e.thread = "ch", events' = Append(events, e)
    PROVE  \A t, s : /\ Coming(t, s) => Coming(t, s)'
                     /\ Brings(e, t) /\ s \in e.rows => Coming(t, s)'
BY QueueAppend DEF Coming, Brings

LEMMA ComingTail ==
    ASSUME Queue, events # <<>>, events' = Tail(events)
    PROVE  \A t, s : /\ Coming(t, s) /\ ~(Brings(Head(events), t) /\ s \in Head(events).rows) =>
                            Coming(t, s)'
BY QueueTail DEF Coming, Brings

-----------------------------------------------------------------------------
(* Reading and counting *)

\* A thread whose cursor is put to its newest row has nothing unread.
LEMMA MarkedIsRead ==
    ASSUME Base, NEW t \in Threads, stored'[t] \in SUBSET Stamps, MarkRead(t)
    PROVE  /\ read' \in [Threads -> 0 .. MaxRows]
           /\ \A u \in Threads : u # t => read'[u] = read[u]
           /\ \A s \in Stamps : s \notin Unread(t)'
<1> DEFINE S == {read[t]} \union stored'[t]
<1>1. S \in SUBSET (0 .. MaxRows) /\ S # {} /\ MaxRows \in Nat
    BY SizesAssumption DEF Base, Stamps
<1>2. read' = [read EXCEPT ![t] = Max(S)]
    BY DEF MarkRead
<1> HIDE DEF S
<1>3. Max(S) \in S /\ \A y \in S : Max(S) >= y
    BY <1>1, MaxFacts
<1>4. read' \in [Threads -> 0 .. MaxRows] /\ read'[t] = Max(S) /\ \A u \in Threads : u # t => read'[u] = read[u]
    BY <1>1, <1>2, <1>3 DEF Base
<1>5. \A s \in stored'[t] : ~(s > read'[t])
  <2>1. \A s \in stored'[t] : s \in S /\ s \in Nat
    BY SizesAssumption DEF S, Stamps
  <2>. QED
    BY <1>1, <1>3, <1>4, <2>1
<1>. QED
    BY <1>4, <1>5 DEF Unread

LEMMA FiniteStamps ==
    ASSUME NEW S \in SUBSET Stamps
    PROVE  IsFiniteSet(S) /\ Cardinality(S) \in Nat
<1>1. IsFiniteSet(Stamps)
    BY FS_Interval, SizesAssumption DEF Stamps
<1>. QED
    BY <1>1, FS_Subset, FS_CardinalityType

\* Nothing new is missing and the badge stands, or what is new has been counted.
LEMMA CountedStays ==
    ASSUME Base, Counted, Base', NEW S \in SUBSET Stamps,
           Missing' \subseteq Missing \union S, badge'["dm"] >= badge["dm"] + Cardinality(S)
    PROVE  Counted'
<1>1. /\ IsFiniteSet(Missing) /\ Cardinality(Missing) \in Nat
      /\ IsFiniteSet(S) /\ Cardinality(S) \in Nat
      /\ Missing' \in SUBSET Stamps /\ Cardinality(Missing') \in Nat
    <2>1. Missing \in SUBSET Stamps /\ Missing' \in SUBSET Stamps
      BY DEF Missing, Stamps
    <2>. QED
      BY <2>1, FiniteStamps
<1>2. /\ IsFiniteSet(Missing \union S) /\ Cardinality(Missing \union S) \in Nat
      /\ Cardinality(Missing \union S) <= Cardinality(Missing) + Cardinality(S)
  <2>1. IsFiniteSet(Missing \union S) /\ IsFiniteSet(Missing \cap S)
        /\ Cardinality(Missing \union S) = Cardinality(Missing) + Cardinality(S) - Cardinality(Missing \cap S)
    BY <1>1, FS_Union, FS_Intersection
  <2>2. Cardinality(Missing \cap S) \in Nat /\ Cardinality(Missing \union S) \in Nat
    BY <2>1, FS_CardinalityType
  <2>. QED
    BY <1>1, <2>1, <2>2
<1>3. Cardinality(Missing') <= Cardinality(Missing \union S)
    BY <1>2, FS_Subset
<1>4. badge["dm"] \in Nat /\ badge'["dm"] \in Nat
    BY DEF Base, Threads
<1>. QED
    BY <1>1, <1>2, <1>3, <1>4 DEF Counted

LEMMA CountedShrinks ==
    ASSUME Base, Counted, Base', Missing' \subseteq Missing, badge'["dm"] >= badge["dm"]
    PROVE  Counted'
<1>1. Cardinality({}) = 0 /\ {} \in SUBSET Stamps
    BY FS_EmptySet
<1>2. badge["dm"] \in Nat /\ badge'["dm"] \in Nat
    BY DEF Base, Threads
<1>3. badge'["dm"] >= badge["dm"] + Cardinality({}) /\ Missing' \subseteq Missing \union {}
    BY <1>1, <1>2
<1>. QED
    BY <1>1, <1>3, CountedStays

LEMMA CountedNone ==
    ASSUME Base', \A s \in Stamps : s \notin Unread("dm")'
    PROVE  Counted'
<1>1. Missing' = {}
    BY DEF Missing, Stamps
<1>2. Cardinality(Missing') = 0
    BY <1>1, FS_EmptySet
<1>3. badge'["dm"] \in Nat
    BY DEF Base, Threads
<1>. QED
    BY <1>2, <1>3 DEF Counted

\* Nothing turns unread on screen and the events that are about it stay.
LEMMA ReadOrQueuedStays ==
    ASSUME ReadOrQueued, active' = active, 
           active # NoThread => badge'[active] = badge[active] /\ Unread(active)' \subseteq Unread(active),
           \A i \in DOMAIN events : Brings(events[i], active) =>
               \E j \in DOMAIN events' : events'[j] = events[i]
    PROVE  ReadOrQueued'
<1>1. CASE active = NoThread
    BY <1>1 DEF ReadOrQueued
<1>2. CASE active # NoThread
  <2>1. badge'[active'] = 0
    BY <1>2 DEF ReadOrQueued
  <2>2. CASE \A s \in Stamps : s \notin Unread(active)
    <3>1. \A s \in Stamps : s \notin Unread(active)'
      BY <1>2, <2>2
    <3>. QED
      BY <2>1, <3>1 DEF ReadOrQueued
  <2>3. CASE \E i \in DOMAIN events : Brings(events[i], active)
    <3>1. \E i \in DOMAIN events' : Brings(events'[i], active')
      BY <2>3
    <3>. QED
      BY <2>1, <3>1 DEF ReadOrQueued, Brings
  <2>. QED
    BY <1>2, <2>2, <2>3 DEF ReadOrQueued
<1>. QED
    BY <1>1, <1>2

-----------------------------------------------------------------------------
(* The steps *)

\* The rows, the cursors and the events about rows stand.
LEMMA SameRows ==
    ASSUME ReadInv, UNCHANGED <<stored, own, read, active>>, Queue',
           opening' \in Threads \union {NoThread}, badge' \in [Threads -> Nat],
           badge'["dm"] = badge["dm"], active # NoThread => badge'[active] = badge[active],
           \A i \in DOMAIN events : events[i].kind = "rows" =>
               \E j \in DOMAIN events' : events'[j] = events[i]
    PROVE  ReadInv'
<1>1. Base'
    BY DEF ReadInv, Base
<1>2. \A t : Unread(t)' = Unread(t)
    BY DEF Unread
<1>3. ReadOrQueued'
  <2>1. active # NoThread => Unread(active)' \subseteq Unread(active)
    BY <1>2
  <2>2. \A i \in DOMAIN events : Brings(events[i], active) =>
            \E j \in DOMAIN events' : events'[j] = events[i]
    BY DEF Brings
  <2>. QED
    BY <2>1, <2>2, ReadOrQueuedStays DEF ReadInv
<1>4. Counted'
  <2>1. \A s : Coming("dm", s) => Coming("dm", s)'
    BY DEF Coming, Brings
  <2>2. Missing' \subseteq Missing
    BY <1>2, <2>1 DEF Missing, Stamps
  <2>3. badge'["dm"] >= badge["dm"]
    BY DEF ReadInv, Base, Threads
  <2>. QED
    BY <1>1, <2>2, <2>3, CountedShrinks DEF ReadInv
<1>. QED
    BY <1>1, <1>3, <1>4 DEF ReadInv

LEMMA Quiet ==
    ASSUME ReadInv, UNCHANGED <<stored, own, read, badge, active, events>>,
           opening' \in Threads \union {NoThread}
    PROVE  ReadInv'
<1>1. Queue'
    BY DEF ReadInv, Queue
<1>2. badge' \in [Threads -> Nat]
    BY DEF ReadInv, Base
<1>3. \A i \in DOMAIN events : \E j \in DOMAIN events' : events'[j] = events[i]
    OBVIOUS
<1>. QED
    BY <1>1, <1>2, <1>3, SameRows

\* News that brings no row waits.
LEMMA News ==
    ASSUME ReadInv, UNCHANGED <<stored, own, read, badge, active, opening>>,
           NEW k \in {"cs"} \union Changes, NEW t \in Threads, NEW S \in SUBSET Stamps,
           k = "cs" => t = "ch", Tells(k, t, S)
    PROVE  ReadInv'
<1> DEFINE e == [kind |-> k, thread |-> t, rows |-> S]
<1>1. e \in Event /\ (e.kind = "cs" => e.thread = "ch") /\ events' = Append(events, e)
    BY DEF Tells, Event
<1> HIDE DEF e
<1>2. Queue' /\ \A i \in DOMAIN events : i \in DOMAIN events' /\ events'[i] = events[i]
    BY <1>1, QueueAppend DEF ReadInv
<1>3. badge' \in [Threads -> Nat] /\ opening' \in Threads \union {NoThread}
    BY DEF ReadInv, Base
<1>. QED
    BY <1>2, <1>3, SameRows

\* News that brings no row is taken.
LEMMA NewsTaken ==
    ASSUME ReadInv, UNCHANGED <<stored, own, read, active, opening>>,
           NEW k \in {"cs"} \union Changes, Takes(k),
           badge' \in [Threads -> Nat], badge'["dm"] = badge["dm"],
           active # NoThread => badge'[active] = badge[active]
    PROVE  ReadInv'
<1>1. Queue /\ events # <<>> /\ events' = Tail(events) /\ Head(events).kind # "rows"
    BY DEF ReadInv, Takes, Changes
<1>2. /\ Queue' /\ Head(events) = events[1]
      /\ \A i \in DOMAIN events : i = 1 \/ (i - 1 \in DOMAIN events' /\ events'[i - 1] = events[i])
    BY <1>1, QueueTail
<1>3. \A i \in DOMAIN events : events[i].kind = "rows" => \E j \in DOMAIN events' : events'[j] = events[i]
    BY <1>1, <1>2
<1>4. opening' \in Threads \union {NoThread}
    BY DEF ReadInv, Base
<1>. QED
    BY <1>2, <1>3, <1>4, SameRows

\* A pane comes to the top.
LEMMA ShowsKeeps ==
    ASSUME ReadInv, NEW t \in Threads, Shows(t), UNCHANGED <<stored, own, events>>,
           opening' \in Threads \union {NoThread}
    PROVE  ReadInv'
<1>1. Base /\ MarkRead(t) /\ active' = t /\ badge' = [badge EXCEPT ![t] = 0] /\ stored'[t] \in SUBSET Stamps
    BY DEF ReadInv, Base, Shows
<1>2. /\ read' \in [Threads -> 0 .. MaxRows] /\ \A u \in Threads : u # t => read'[u] = read[u]
      /\ \A s \in Stamps : s \notin Unread(t)'
    BY <1>1, MarkedIsRead
<1>3. badge' \in [Threads -> Nat] /\ badge'[t] = 0 /\ \A u \in Threads : u # t => badge'[u] = badge[u]
    BY <1>1 DEF Base
<1>4. Base'
    BY <1>1, <1>2, <1>3 DEF Base
<1>5. Queue'
    BY DEF ReadInv, Queue
<1>6. ReadOrQueued'
  <2>1. \A s \in Stamps : s \notin Unread(active)'
    BY <1>1, <1>2
  <2>. QED
    BY <1>1, <1>3, <2>1 DEF ReadOrQueued
<1>7. CASE t = "dm"
  <2>1. Counted'
    BY <1>2, <1>4, <1>7, CountedNone
  <2>. QED
    BY <1>4, <1>5, <1>6, <2>1 DEF ReadInv
<1>8. CASE t # "dm"
  <2>1. read'["dm"] = read["dm"] /\ badge'["dm"] >= badge["dm"]
    BY <1>1, <1>2, <1>3, <1>8 DEF Threads, Base
  <2>2. Unread("dm")' = Unread("dm")
    BY <2>1 DEF Unread
  <2>3. \A s : Coming("dm", s)' <=> Coming("dm", s)
    BY DEF Coming
  <2>4. Missing' \subseteq Missing
    BY <2>2, <2>3 DEF Missing, Stamps
  <2>5. Counted'
    BY <1>1, <1>4, <2>1, <2>4, CountedShrinks DEF ReadInv
  <2>. QED
    BY <1>4, <1>5, <1>6, <2>5 DEF ReadInv
<1>. QED
    BY <1>7, <1>8

\* Rows S of t are shown or counted: those that came, or the user's own.
Dealt(t, S) == (t = "dm" /\ InboundDms(S)) \/ (t = "ch" /\ InboundPosts(S))

LEMMA DealtFacts ==
    ASSUME Base, NEW t \in Threads, NEW S \in SUBSET Stamps, Dealt(t, S),
           own' \in [Threads -> SUBSET Stamps]
    PROVE  /\ badge' \in [Threads -> Nat]
           /\ active = t => MarkRead(t) /\ badge' = badge
           /\ active # t => read' = read /\ \A u \in Threads : u # t => badge'[u] = badge[u]
           /\ badge'["dm"] >= badge["dm"]
           /\ active # "dm" /\ t = "dm" =>
                  badge'["dm"] >= badge["dm"] + Cardinality(S \ own'["dm"])
<1>1. Cardinality(S) \in Nat /\ Cardinality(S \ own'["dm"]) \in Nat
    BY FiniteStamps
<1>2. badge["dm"] \in Nat /\ badge["ch"] \in Nat /\ badge \in [Threads -> Nat] /\ Threads = {"dm", "ch"}
    BY DEF Base, Threads
<1>3. CASE t = "dm"
  <2>1. InboundDms(S)
    BY <1>3 DEF Dealt
  <2>2. CASE active = "dm"
    BY <1>2, <1>3, <2>1, <2>2 DEF InboundDms
  <2>3. CASE active # "dm"
    <3>1. badge' = [badge EXCEPT !["dm"] = @ + Cardinality(S \ own'["dm"])] /\ read' = read
      BY <2>1, <2>3 DEF InboundDms
    <3> DEFINE c == Cardinality(S \ own'["dm"])
    <3>2. badge' = [badge EXCEPT !["dm"] = @ + c] /\ c \in Nat
      BY <1>1, <3>1
    <3> HIDE DEF c
    <3>3. badge' \in [Threads -> Nat] /\ badge'["dm"] = badge["dm"] + c /\ badge'["ch"] = badge["ch"]
      BY <1>2, <3>2
    <3>4. badge'["dm"] >= badge["dm"] /\ badge'["dm"] >= badge["dm"] + c
      BY <1>2, <3>2, <3>3
    <3>5. badge'["dm"] >= badge["dm"] + Cardinality(S \ own'["dm"])
      BY <3>4 DEF c
    <3>. QED
      BY <1>2, <1>3, <2>3, <3>1, <3>3, <3>4, <3>5
  <2>. QED
    BY <2>2, <2>3
<1>4. CASE t = "ch"
  <2>1. InboundPosts(S)
    BY <1>4 DEF Dealt
  <2>2. CASE active = "ch"
    BY <1>2, <1>4, <2>1, <2>2 DEF InboundPosts
  <2>3. CASE active # "ch"
    <3> DEFINE c == Cardinality(S)
    <3>1. badge' = [badge EXCEPT !["ch"] = @ + c] /\ read' = read /\ c \in Nat
      BY <1>1, <2>1, <2>3 DEF InboundPosts
    <3> HIDE DEF c
    <3>2. badge' \in [Threads -> Nat] /\ badge'["dm"] = badge["dm"]
      BY <1>2, <3>1
    <3>. QED
      BY <1>2, <1>4, <2>3, <3>1, <3>2
  <2>. QED
    BY <2>2, <2>3
<1>. QED
    BY <1>2, <1>3, <1>4

LEMMA DealtKeeps ==
    ASSUME ReadInv, NEW t \in Threads, NEW S \in SUBSET Stamps, Dealt(t, S),
           UNCHANGED <<opening, active>>, Queue',
           stored' \in [Threads -> SUBSET Stamps], own' \in [Threads -> SUBSET Stamps],
           \A u \in Threads : stored'[u] \ own'[u] \subseteq stored[u] \ own[u],
           \A i \in DOMAIN events : events[i].kind = "rows" =>
               \/ \E j \in DOMAIN events' : events'[j] = events[i]
               \/ events[i].thread = t /\ events[i].rows \subseteq S
    PROVE  ReadInv'
<1>1. /\ badge' \in [Threads -> Nat] /\ badge'["dm"] >= badge["dm"]
      /\ active = t => MarkRead(t) /\ badge' = badge
      /\ active # t => read' = read /\ \A u \in Threads : u # t => badge'[u] = badge[u]
      /\ active # "dm" /\ t = "dm" =>
             badge'["dm"] >= badge["dm"] + Cardinality(S \ own'["dm"])
    BY DealtFacts DEF ReadInv
<1>2. active = t => \A s \in Stamps : s \notin Unread(t)'
    BY <1>1, MarkedIsRead DEF ReadInv
<1>3. /\ read' \in [Threads -> 0 .. MaxRows]
      /\ \A u \in Threads : active # t \/ u # t => read'[u] = read[u]
    BY <1>1, MarkedIsRead DEF ReadInv, Base
<1>4. \A u \in Threads : active # t \/ u # t => Unread(u)' \subseteq Unread(u)
    BY <1>3 DEF Unread
<1>5. Base'
    BY <1>1, <1>3 DEF ReadInv, Base
<1>6. ReadOrQueued'
  <2>1. CASE active = t
    <3>1. badge'[active'] = 0 /\ \A s \in Stamps : s \notin Unread(active)'
      <4>1. t # NoThread
        BY DEF Threads, NoThread
      <4>. QED
        BY <1>1, <1>2, <2>1, <4>1 DEF ReadInv, ReadOrQueued
    <3>. QED
      BY <3>1 DEF ReadOrQueued
  <2>2. CASE active # t
    <3>1. active # NoThread => active \in Threads
      BY DEF ReadInv, Base
    <3>2. active # NoThread => badge'[active] = badge[active] /\ Unread(active)' \subseteq Unread(active)
      BY <1>1, <1>4, <2>2, <3>1
    <3>3. \A i \in DOMAIN events : Brings(events[i], active) =>
              \E j \in DOMAIN events' : events'[j] = events[i]
      BY <2>2 DEF Brings
    <3>. QED
      BY <3>2, <3>3, ReadOrQueuedStays DEF ReadInv
  <2>. QED
    BY <2>1, <2>2
<1>7. Counted'
  <2>1. CASE t = "dm" /\ active = "dm"
    BY <1>2, <1>5, <2>1, CountedNone
  <2>2. CASE t = "dm" /\ active # "dm"
    <3> DEFINE N == S \ own'["dm"]
    <3>1. Unread("dm")' \subseteq Unread("dm") /\ \A s : s \in Unread("dm")' => s \notin own'["dm"]
      BY <1>4, <2>2 DEF Unread
    <3>2. \A s : Coming("dm", s) => Coming("dm", s)' \/ s \in S
      BY <2>2 DEF Coming, Brings
    <3>3. Missing' \subseteq Missing \union N
      BY <3>1, <3>2 DEF Missing, Stamps
    <3>4. N \in SUBSET Stamps /\ badge'["dm"] >= badge["dm"] + Cardinality(N)
      BY <1>1, <2>2
    <3> HIDE DEF N
    <3>. QED
      BY <1>5, <3>3, <3>4, CountedStays DEF ReadInv
  <2>3. CASE t # "dm"
    <3>1. Unread("dm")' \subseteq Unread("dm")
      BY <1>4, <2>3 DEF Threads
    <3>2. \A s : Coming("dm", s) => Coming("dm", s)'
      BY <2>3 DEF Coming, Brings
    <3>3. Missing' \subseteq Missing
      BY <3>1, <3>2 DEF Missing, Stamps
    <3>. QED
      BY <1>1, <1>5, <3>3, CountedShrinks DEF ReadInv
  <2>. QED
    BY <2>1, <2>2, <2>3
<1>. QED
    BY <1>5, <1>6, <1>7 DEF ReadInv

LEMMA TakesRowsKeeps ==
    ASSUME ReadInv, TakesRows
    PROVE  ReadInv'
<1> DEFINE e == Head(events)
<1>1. /\ Queue' /\ e = events[1] /\ e \in Event /\ e.kind = "rows"
      /\ \A i \in DOMAIN events : i = 1 \/ (i - 1 \in DOMAIN events' /\ events'[i - 1] = events[i])
    BY QueueTail DEF ReadInv, TakesRows, Takes
<1>2. Dealt(e.thread, e.rows) /\ e.thread \in Threads /\ e.rows \in SUBSET Stamps
    BY <1>1 DEF Dealt, TakesRows, Event, Threads
<1>3. \A i \in DOMAIN events : events[i].kind = "rows" =>
          \/ \E j \in DOMAIN events' : events'[j] = events[i]
          \/ events[i].thread = e.thread /\ events[i].rows \subseteq e.rows
    BY <1>1
<1>4. UNCHANGED <<stored, own, opening, active>>
    BY DEF TakesRows, disk
<1>5. /\ stored' \in [Threads -> SUBSET Stamps] /\ own' \in [Threads -> SUBSET Stamps]
      /\ \A u \in Threads : stored'[u] \ own'[u] \subseteq stored[u] \ own[u]
    BY <1>4 DEF ReadInv, Base
<1> HIDE DEF e
<1>. QED
    BY <1>1, <1>2, <1>3, <1>4, <1>5, DealtKeeps

LEMMA SendsKeeps ==
    ASSUME ReadInv, NEW t \in Threads, NEW s \in Stamps, Sends(t, s)
    PROVE  ReadInv'
<1>1. /\ stored' = [stored EXCEPT ![t] = @ \union {s}] /\ own' = [own EXCEPT ![t] = @ \union {s}]
      /\ UNCHANGED <<opening, active, events>> /\ {s} \in SUBSET Stamps
    BY DEF Sends
<1>2. Dealt(t, {s})
    BY DEF Sends, Dealt, InboundDm, InboundPost, Threads
<1>3. /\ stored' \in [Threads -> SUBSET Stamps] /\ own' \in [Threads -> SUBSET Stamps]
      /\ \A u \in Threads : stored'[u] \ own'[u] \subseteq stored[u] \ own[u]
    BY <1>1 DEF ReadInv, Base
<1>4. Queue' /\ \A i \in DOMAIN events : \E j \in DOMAIN events' : events'[j] = events[i]
    BY <1>1 DEF ReadInv, Queue
<1>. QED
    BY <1>1, <1>2, <1>3, <1>4, DealtKeeps

\* Rows are stored, and their event waits.
LEMMA ArriveKeeps ==
    ASSUME ReadInv, NEW t \in Threads, NEW S \in SUBSET Stamps, NEW mine, Arrive(t, S, mine)
    PROVE  ReadInv'
<1> DEFINE e == [kind |-> "rows", thread |-> t, rows |-> S]
           O == {s \in S \ stored[t] : mine}
<1>1. /\ stored' = [stored EXCEPT ![t] = @ \union S] /\ own' = [own EXCEPT ![t] = @ \union O]
      /\ UNCHANGED <<read, badge, opening, active>>
    BY DEF Arrive, screen
<1>2. e \in Event /\ e.kind = "rows" /\ e.thread = t /\ e.rows = S /\ events' = Append(events, e)
    BY DEF Arrive, Tells, Event
<1>3. O \in SUBSET Stamps
    OBVIOUS
<1> HIDE DEF e, O
<1>4. /\ Queue' /\ \E i \in DOMAIN events' : events'[i] = e
      /\ \A i \in DOMAIN events : i \in DOMAIN events' /\ events'[i] = events[i]
    BY <1>2, QueueAppend DEF ReadInv
<1>5. Base'
    BY <1>1, <1>3 DEF ReadInv, Base
<1>6. /\ Unread(t)' \subseteq Unread(t) \union S
      /\ \A u \in Threads : u # t => Unread(u)' \subseteq Unread(u)
    BY <1>1 DEF Unread, ReadInv, Base
<1>7. ReadOrQueued'
  <2>1. CASE active = t
    <3>1. badge'[active'] = 0
      BY <1>1, <2>1 DEF ReadInv, ReadOrQueued, Threads, NoThread
    <3>2. \E i \in DOMAIN events' : Brings(events'[i], active')
      BY <1>1, <1>2, <1>4, <2>1 DEF Brings
    <3>. QED
      BY <3>1, <3>2 DEF ReadOrQueued, Brings
  <2>2. CASE active # t
    <3>1. active # NoThread => active \in Threads
      BY DEF ReadInv, Base
    <3>2. active # NoThread => badge'[active] = badge[active] /\ Unread(active)' \subseteq Unread(active)
      BY <1>1, <1>6, <2>2, <3>1
    <3>. QED
      BY <1>1, <1>4, <3>2, ReadOrQueuedStays DEF ReadInv
  <2>. QED
    BY <2>1, <2>2
<1>8. Counted'
  <2>1. \A s : /\ Coming("dm", s) => Coming("dm", s)'
               /\ t = "dm" /\ s \in S => Coming("dm", s)'
    BY <1>2, ComingAppend DEF ReadInv, Brings
  <2>2. \A s : s \in Unread("dm")' => s \in Unread("dm") \/ (t = "dm" /\ s \in S)
    BY <1>6 DEF Threads
  <2>3. Missing' \subseteq Missing
    BY <2>1, <2>2 DEF Missing, Stamps
  <2>4. badge'["dm"] >= badge["dm"]
    BY <1>1 DEF ReadInv, Base, Threads
  <2>. QED
    BY <1>5, <2>3, <2>4, CountedShrinks DEF ReadInv
<1>. QED
    BY <1>4, <1>5, <1>7, <1>8 DEF ReadInv

\* Only the store is left, and the badges are what it counts.
LEMMA RestartsKeeps ==
    ASSUME ReadInv, Restarts
    PROVE  ReadInv'
<1>1. /\ opening' = NoThread /\ active' = NoThread /\ events' = <<>>
      /\ badge' = [t \in Threads |-> Cardinality(Unread(t))] /\ UNCHANGED <<stored, own, read>>
    BY DEF Restarts, disk
<1>2. \A t \in Threads : Unread(t) \in SUBSET Stamps
    BY DEF Unread, ReadInv, Base
<1>3. \A t \in Threads : Cardinality(Unread(t)) \in Nat
    BY <1>2, FiniteStamps
<1>4. Base'
    BY <1>1, <1>3 DEF ReadInv, Base
<1>5. Queue'
    BY <1>1, EmptySeq DEF Queue
<1>6. ReadOrQueued'
    BY <1>1 DEF ReadOrQueued
<1>7. Counted'
  <2>1. Unread("dm")' = Unread("dm") /\ Unread("dm") \in SUBSET Stamps /\ badge'["dm"] = Cardinality(Unread("dm"))
    BY <1>1, <1>2 DEF Unread, Threads
  <2>2. Missing' \subseteq Unread("dm")
    BY <2>1 DEF Missing, Stamps
  <2>3. Cardinality(Missing') <= Cardinality(Unread("dm"))
    BY <2>1, <2>2, FiniteStamps, FS_Subset
  <2>. QED
    BY <2>1, <2>3 DEF Counted
<1>. QED
    BY <1>4, <1>5, <1>6, <1>7 DEF ReadInv

\* A pane is there, or is created.
LEMMA SwitchesKeeps ==
    ASSUME ReadInv, NEW t \in Threads, Switches(t), UNCHANGED <<disk, events>>
    PROVE  ReadInv'
<1>1. opening \in Threads \union {NoThread} /\ UNCHANGED <<stored, own, events>>
    BY DEF ReadInv, Base, disk
<1>2. CASE t \in views
    BY <1>1, <1>2, ShowsKeeps DEF Switches
<1>3. CASE t \notin views
    BY <1>1, <1>3, Quiet DEF Switches
<1>. QED
    BY <1>2, <1>3

LEMMA OpensKeeps ==
    ASSUME ReadInv, Opens
    PROVE  ReadInv'
<1>1. opening \in Threads /\ Shows(opening) /\ UNCHANGED <<stored, own, events>> /\ opening' = NoThread
    BY DEF ReadInv, Base, Opens, disk
<1>. QED
    BY <1>1, ShowsKeeps

LEMMA TakesSubscriptionKeeps ==
    ASSUME ReadInv, TakesSubscription
    PROVE  ReadInv'
<1>1. Takes("cs") /\ UNCHANGED <<stored, own, read, active, opening>> /\ Head(events).thread = "ch"
  <2>1. Takes("cs") /\ UNCHANGED <<stored, own, read, active, opening>>
    BY DEF TakesSubscription, disk
  <2>2. Head(events) = events[1] /\ 1 \in DOMAIN events
    BY <2>1, QueueTail DEF ReadInv, Takes
  <2>. QED
    BY <2>1, <2>2 DEF ReadInv, Queue, Takes
<1>2. badge' = badge \/ badge' = [badge EXCEPT !["ch"] = 0]
    BY <1>1 DEF TakesSubscription
<1>3. badge \in [Threads -> Nat] /\ (active # NoThread => active \in Threads /\ badge[active] = 0)
    BY DEF ReadInv, Base, ReadOrQueued
<1>4. /\ badge' \in [Threads -> Nat] /\ badge'["dm"] = badge["dm"]
      /\ active # NoThread => badge'[active] = badge[active]
    BY <1>2, <1>3 DEF Threads
<1>. QED
    BY <1>1, <1>4, NewsTaken

LEMMA ReadInvInit ==
    Init => ReadInv
<1> SUFFICES ASSUME Init
             PROVE  ReadInv
    OBVIOUS
<1>1. Base
    BY SizesAssumption DEF Init, Base, NoThread
<1>2. Queue
    BY EmptySeq DEF Init, Queue
<1>3. ReadOrQueued
    BY DEF Init, ReadOrQueued
<1>4. Counted
  <2>1. Missing = {}
    BY DEF Init, Missing, Unread, Threads
  <2>2. Cardinality(Missing) = 0 /\ badge["dm"] = 0
    BY <2>1, FS_EmptySet DEF Init, Threads
  <2>. QED
    BY <2>2 DEF Counted
<1>. QED
    BY <1>1, <1>2, <1>3, <1>4 DEF ReadInv

\* The inductive step, for each action.
LEMMA ReadInvNext ==
    ReadInv /\ [Next]_vars => ReadInv'
<1> SUFFICES ASSUME ReadInv, [Next]_vars
             PROVE  ReadInv'
    OBVIOUS
<1> USE DEF ReadInv
<1>1. ASSUME NEW t \in Threads, NEW S \in SUBSET Stamps \ {{}}, NEW mine \in BOOLEAN, Arrive(t, S, mine)
      PROVE  ReadInv'
    BY <1>1, ArriveKeeps
<1>2. ASSUME NEW k \in Changes, NEW t \in Threads, NEW s \in Stamps, ChangeArrives(k, t, s)
      PROVE  ReadInv'
  <2>1. /\ UNCHANGED <<stored, own, read, badge, active, opening>> /\ Tells(k, t, {s})
        /\ {s} \in SUBSET Stamps /\ k # "cs"
    BY <1>2 DEF ChangeArrives, screen, Changes
  <2>. QED
    BY <2>1, News
<1>3. ASSUME SubscriptionAcked
      PROVE  ReadInv'
  <2>1. /\ UNCHANGED <<stored, own, read, badge, active, opening>> /\ Tells("cs", "ch", {})
        /\ {} \in SUBSET Stamps /\ "ch" \in Threads
    BY <1>3 DEF SubscriptionAcked, screen, disk, Threads
  <2>. QED
    BY <2>1, News
<1>4. ASSUME NEW t \in Threads, Highlights(t) \/ Selects(t)
      PROVE  ReadInv'
  <2>1. Switches(t) /\ UNCHANGED <<disk, events>>
    BY <1>4 DEF Highlights, Selects
  <2>. QED
    BY <2>1, SwitchesKeeps
<1>5. ASSUME LoadsOlder
      PROVE  ReadInv'
  <2>1. UNCHANGED <<stored, own, read, badge, active, events, opening>>
    BY <1>5 DEF LoadsOlder, disk
  <2>. QED
    BY <2>1, Quiet DEF Base
<1>6. ASSUME NEW t \in Threads, NEW s \in Stamps, Sends(t, s)
      PROVE  ReadInv'
    BY <1>6, SendsKeeps
<1>7. CASE Restarts
    BY <1>7, RestartsKeeps
<1>8. CASE Opens
    BY <1>8, OpensKeeps
<1>9. CASE TakesRows
    BY <1>9, TakesRowsKeeps
<1>10. CASE TakesChange \/ TakesEdits
  <2>1. PICK k \in Changes : Takes(k)
    BY <1>10 DEF TakesChange, TakesEdits, Changes
  <2>2. UNCHANGED <<stored, own, read, badge, active, opening>>
    BY <1>10 DEF TakesChange, TakesEdits, screen, disk
  <2>. QED
    BY <2>1, <2>2, NewsTaken DEF Base
<1>11. CASE TakesSubscription
    BY <1>11, TakesSubscriptionKeeps
<1>12. CASE UNCHANGED vars
  <2>1. UNCHANGED <<stored, own, read, badge, active, events, opening>>
    BY <1>12 DEF vars, disk, screen
  <2>. QED
    BY <2>1, Quiet DEF Base
<1>. QED
    BY <1>1, <1>2, <1>3, <1>4, <1>5, <1>6, <1>7, <1>8, <1>9, <1>10, <1>11, <1>12
       DEF Next, Server, User, App

\* For every number of rows and length of the queue: the thread on screen has no
\* badge and is read up to its newest row but for the events that wait, and the
\* badge of the DM thread accounts for what the store counts (_handle_inbound_dm,
\* _handle_inbound_post, _switch_centre_to of the full-screen UIs).
THEOREM ReadInvariance ==
    Spec => []ReadInv
BY ReadInvInit, ReadInvNext, PTL DEF Spec

-----------------------------------------------------------------------------
(* The properties *)

\* What has been on screen is not unread again after a restart: with no event
\* left, the cursor of the thread on screen is at its newest row.
THEOREM ShownIsRead ==
    Spec => []ActiveIsRead
<1>1. ReadInv => ActiveIsRead
  <2> SUFFICES ASSUME ReadInv, active # NoThread
               PROVE  badge[active] = 0 /\ (Queued(active) = {} => Unread(active) = {})
    BY DEF ActiveIsRead
  <2>1. /\ badge[active] = 0
        /\ \/ \A s \in Stamps : s \notin Unread(active)
           \/ \E i \in DOMAIN events : Brings(events[i], active)
    BY DEF ReadInv, ReadOrQueued
  <2>2. Unread(active) \subseteq Stamps
    BY DEF ReadInv, Base, Unread
  <2>3. (\E i \in DOMAIN events : Brings(events[i], active)) => Queued(active) # {}
    BY DEF Brings, Queued
  <2>. QED
    BY <2>1, <2>2, <2>3
<1>. QED
    BY <1>1, ReadInvariance, PTL

\* A badge, with the events that wait, accounts for every DM that the store
\* counts as unread.
THEOREM BadgesHideNothing ==
    Spec => []NoHiddenUnread
<1>1. ReadInv => NoHiddenUnread
  <2> SUFFICES ASSUME ReadInv
               PROVE  NoHiddenUnread
    OBVIOUS
  <2> DEFINE coming == UNION {events[i].rows : i \in {j \in Queued("dm") : events[j].kind = "rows"}}
  <2>1. \A s : s \in coming <=> Coming("dm", s)
    BY DEF Coming, Brings, Queued
  <2>2. Unread("dm") \subseteq Stamps
    BY DEF ReadInv, Base, Unread, Threads
  <2>3. Unread("dm") \ coming = Missing
    BY <2>1, <2>2 DEF Missing, Stamps
  <2>. QED
    BY <2>3 DEF NoHiddenUnread, ReadInv, Counted
<1>. QED
    BY <1>1, ReadInvariance, PTL

-----------------------------------------------------------------------------
(* Threads: what the panes hold *)

PaneTypes ==
    /\ changed \in [Threads -> SUBSET Stamps] /\ batched \in [Threads -> SUBSET Stamps]
    /\ fresh \in [Threads -> SUBSET Stamps]
    /\ views \subseteq Threads /\ exhausted \subseteq views
    /\ {opening, active} \subseteq views \union {NoThread}
    /\ target \in Threads \union {NoThread}

\* Each pane is in order and holds rows of the store.
PaneOrder ==
    /\ pane \in [Threads -> Seq(Stamps)]
    /\ \A t \in Threads : Increasing(pane[t]) /\ Range(pane[t]) \subseteq stored[t]

\* The rows an event is about are stored before it is told.
EventsStored ==
    \A i \in DOMAIN events : events[i].kind = "rows" => events[i].rows \subseteq stored[events[i].thread]

\* The queue is longer than MaxEvents by the changes at most.
ChangeCount == Cardinality(changed["dm"]) + Cardinality(changed["ch"])
QueueRoom == ChangeCount <= MaxChanges /\ Len(events) <= MaxEvents + ChangeCount

\* A refresh of row s of t waits.
Refresh(e, t, s) == e.kind = "live" /\ e.thread = t /\ s \in e.rows
NewsShown ==
    \A t \in Threads : \A s \in Range(pane[t]) :
        s \in changed[t] =>
            \/ s \in fresh[t] \/ s \in batched[t]
            \/ t = "dm" /\ s \notin own[t]
            \/ \E i \in DOMAIN events : Refresh(events[i], t, s)

PaneInv == PaneTypes /\ PaneOrder /\ EventsStored /\ QueueRoom /\ NewsShown

LEMMA PageFacts ==
    ASSUME ReadInv, NEW t \in Threads, NEW before
    PROVE  /\ Recent(t, before) \in SUBSET stored[t] /\ Recent(t, before) \in SUBSET Stamps
           /\ \A s \in Recent(t, before) : s < before
           /\ Ascending(Recent(t, before)) \in Seq(Stamps)
           /\ Increasing(Ascending(Recent(t, before)))
           /\ Range(Ascending(Recent(t, before))) = Recent(t, before)
<1>1. Recent(t, before) \in SUBSET stored[t] /\ \A s \in Recent(t, before) : s < before
    BY DEF Recent
<1>2. Recent(t, before) \in SUBSET Stamps
    BY <1>1 DEF ReadInv, Base
<1> DEFINE R == Recent(t, before)
<1>3. R \in SUBSET Nat /\ IsFiniteSet(R)
    BY <1>2, FiniteStamps, SizesAssumption DEF Stamps
<1> HIDE DEF R
<1>4. Ascending(R) \in Seq(R) /\ Increasing(Ascending(R)) /\ Range(Ascending(R)) = R
    BY <1>3, AscendingFacts, AscendingRange
<1>5. Ascending(R) \in Seq(Stamps)
    <2>1. R \in SUBSET Stamps
      BY <1>2 DEF R
    <2>. QED
      BY <1>4, <2>1, SeqMonotonic
<1>. QED
    BY <1>1, <1>2, <1>4, <1>5 DEF R

LEMMA MountsFacts ==
    ASSUME PaneTypes, PaneOrder, NEW t \in Threads, NEW S \in SUBSET Stamps, Mounts(t, S)
    PROVE  /\ pane' \in [Threads -> Seq(Stamps)] /\ fresh' \in [Threads -> SUBSET Stamps]
           /\ Increasing(pane'[t]) /\ Range(pane'[t]) = Range(pane[t]) \union S
           /\ fresh'[t] = fresh[t] \union ((S \ Range(pane[t])) \cap changed[t])
           /\ \A u \in Threads : u # t => pane'[u] = pane[u] /\ fresh'[u] = fresh[u]
<1> DEFINE q == Ascending(S)
           p == FoldLeft(Inserted, pane[t], q)
<1>1. S \in SUBSET Nat /\ IsFiniteSet(S)
    BY FiniteStamps, SizesAssumption DEF Stamps
<1>2. q \in Seq(S) /\ Range(q) = S
    BY <1>1, AscendingFacts, AscendingRange
<1>3. q \in Seq(Stamps) /\ pane[t] \in Seq(Stamps) /\ Increasing(pane[t])
    BY <1>2, SeqMonotonic DEF PaneOrder
<1>4. pane' = [pane EXCEPT ![t] = p]
    BY DEF Mounts
<1>5. fresh' = [fresh EXCEPT ![t] = @ \union ((S \ Range(pane[t])) \cap changed[t])]
    BY DEF Mounts
<1> HIDE DEF q
<1>6. p \in Seq(Stamps) /\ Increasing(p) /\ Range(p) = Range(pane[t]) \union S
    BY <1>2, <1>3, FoldInserted
<1> HIDE DEF p
<1>7. fresh' \in [Threads -> SUBSET Stamps]
    BY <1>5 DEF PaneTypes
<1>. QED
    BY <1>4, <1>5, <1>6, <1>7 DEF PaneOrder, PaneTypes

\* The store grows, what is mounted anew is fresh, and no refresh is lost.
LEMMA PanesStay ==
    ASSUME PaneTypes, PaneOrder, NewsShown, changed' = changed, batched' = batched,
           \A t \in Threads : \A s \in Range(pane[t]) : s \in own'[t] => s \in own[t],
           pane' \in [Threads -> Seq(Stamps)],
           \A t \in Threads : Increasing(pane'[t]) /\ Range(pane'[t]) \subseteq stored'[t],
           \A t \in Threads : \A s \in Range(pane'[t]) :
               s \in changed[t] /\ s \notin fresh'[t] => s \in Range(pane[t]) /\ s \notin fresh[t],
           \A i \in DOMAIN events : events[i].kind = "live" =>
               \/ \E j \in DOMAIN events' : events'[j] = events[i]
               \/ \A s \in events[i].rows :
                      Found(events[i].thread, s) => s \in fresh'[events[i].thread]
    PROVE  PaneOrder' /\ NewsShown'
<1>1. PaneOrder'
    BY DEF PaneOrder
<1>2. NewsShown'
  <2> SUFFICES ASSUME NEW t \in Threads, NEW s \in Range(pane'[t]), s \in changed[t],
                      s \notin fresh'[t], s \notin batched[t], t # "dm" \/ s \in own'[t]
               PROVE  \E i \in DOMAIN events' : Refresh(events'[i], t, s)
    BY DEF NewsShown, Refresh
  <2>1. s \in Range(pane[t]) /\ s \notin fresh[t]
    OBVIOUS
  <2>2. t # "dm" \/ s \in own[t]
    BY <2>1
  <2>3. PICK i \in DOMAIN events : Refresh(events[i], t, s)
    BY <2>1, <2>2 DEF NewsShown
  <2>4. Found(t, s)
    BY <2>1, <2>2 DEF Found, Threads
  <2>. QED
    BY <2>3, <2>4 DEF Refresh
<1>. QED
    BY <1>1, <1>2

\* The rows that wait are stored.
LEMMA EventsStay ==
    ASSUME ReadInv, EventsStored, \A t \in Threads : stored[t] \subseteq stored'[t], Queue',
           \A i \in DOMAIN events' :
               \/ \E j \in DOMAIN events : events'[i] = events[j]
               \/ events'[i].kind = "rows" => events'[i].rows \subseteq stored'[events'[i].thread]
    PROVE  EventsStored'
<1> SUFFICES ASSUME NEW i \in DOMAIN events', events'[i].kind = "rows"
             PROVE  events'[i].rows \subseteq stored'[events'[i].thread]
    BY DEF EventsStored
<1>1. ASSUME NEW j \in DOMAIN events, events'[i] = events[j]
      PROVE  events'[i].rows \subseteq stored'[events'[i].thread]
  <2>1. events[j] \in Event
    BY ElementOfSeq, LenProperties DEF ReadInv, Queue
  <2>2. events[j].thread \in Threads
    BY <2>1 DEF Event
  <2>3. events[j].rows \subseteq stored[events[j].thread]
    BY <1>1 DEF EventsStored
  <2>. QED
    BY <1>1, <2>2, <2>3
<1>. QED
    BY <1>1

LEMMA RoomStays ==
    ASSUME QueueRoom, changed' = changed, Len(events') \in Nat, Len(events) \in Nat,
           Len(events') <= Len(events), PaneTypes
    PROVE  QueueRoom'
<1>1. /\ Cardinality(changed["dm"]) \in Nat /\ Cardinality(changed["ch"]) \in Nat
      /\ MaxEvents \in Nat /\ MaxChanges \in Nat
  <2>1. changed["dm"] \in SUBSET Stamps /\ changed["ch"] \in SUBSET Stamps
    BY DEF PaneTypes, Threads
  <2>. QED
    BY <2>1, FiniteStamps, SizesAssumption
<1>2. ChangeCount \in Nat /\ ChangeCount' = ChangeCount
    BY <1>1 DEF ChangeCount
<1>. QED
    BY <1>1, <1>2 DEF QueueRoom

\* A queue that does not grow, or stands.
LEMMA TakenFacts ==
    ASSUME ReadInv, PaneInv, events # <<>>, events' = Tail(events), changed' = changed,
           \A t \in Threads : stored[t] \subseteq stored'[t]
    PROVE  /\ EventsStored' /\ QueueRoom'
           /\ Head(events) \in Event /\ Head(events) = events[1] /\ 1 \in DOMAIN events
           /\ \A i \in DOMAIN events : i = 1 \/ \E j \in DOMAIN events' : events'[j] = events[i]
<1>1. /\ Queue' /\ Head(events) \in Event /\ Head(events) = events[1] /\ 1 \in DOMAIN events
      /\ \A i \in DOMAIN events : i = 1 \/ (i - 1 \in DOMAIN events' /\ events'[i - 1] = events[i])
      /\ \A i \in DOMAIN events' : i + 1 \in DOMAIN events /\ events'[i] = events[i + 1]
    BY QueueTail DEF ReadInv
<1>2. EventsStored'
    BY <1>1, EventsStay DEF PaneInv
<1>3. Len(events) \in Nat /\ Len(events') = Len(events) - 1 /\ Len(events') \in Nat
    BY LenProperties, HeadTailProperties DEF ReadInv, Queue
<1>4. QueueRoom'
    BY <1>3, RoomStays DEF PaneInv
<1>. QED
    BY <1>1, <1>2, <1>4

LEMMA QueueStands ==
    ASSUME ReadInv, PaneInv, UNCHANGED <<events, changed>>,
           \A t \in Threads : stored[t] \subseteq stored'[t]
    PROVE  EventsStored' /\ QueueRoom'
<1>1. Queue' /\ Len(events) \in Nat
    BY LenProperties DEF ReadInv, Queue
<1>2. EventsStored'
    BY <1>1, EventsStay DEF PaneInv
<1>3. QueueRoom'
    BY DEF PaneInv, QueueRoom, ChangeCount
<1>. QED
    BY <1>2, <1>3

\* The screen stands and the store grows, what is told waits.
LEMMA ArrivePanes ==
    ASSUME ReadInv, PaneInv, NEW t \in Threads, NEW S \in SUBSET Stamps, NEW mine, Arrive(t, S, mine)
    PROVE  PaneInv'
<1> DEFINE e == [kind |-> "rows", thread |-> t, rows |-> S]
           O == {s \in S \ stored[t] : mine}
<1>1. /\ stored' = [stored EXCEPT ![t] = @ \union S] /\ own' = [own EXCEPT ![t] = @ \union O]
      /\ UNCHANGED <<changed, batched, views, opening, pane, fresh, exhausted, active, target>>
      /\ Len(events) < MaxEvents
    BY DEF Arrive, screen
<1>2. e \in Event /\ e.kind = "rows" /\ e.thread = t /\ e.rows = S /\ events' = Append(events, e)
    BY DEF Arrive, Tells, Event
<1>3. O \cap stored[t] = {}
    OBVIOUS
<1> HIDE DEF e, O
<1>4. /\ Queue'
      /\ \A i \in DOMAIN events : i \in DOMAIN events' /\ events'[i] = events[i]
      /\ \A i \in DOMAIN events' : events'[i] = e \/ (i \in DOMAIN events /\ events'[i] = events[i])
    BY <1>2, QueueAppend DEF ReadInv
<1>5. stored'[t] = stored[t] \union S /\ \A u \in Threads : stored[u] \subseteq stored'[u]
    BY <1>1 DEF ReadInv, Base
<1>6. EventsStored'
    BY <1>2, <1>4, <1>5, EventsStay DEF PaneInv
<1>7. QueueRoom'
  <2>1. /\ Len(events) \in Nat /\ Len(events') = Len(events) + 1
        /\ MaxEvents \in Nat /\ ChangeCount \in Nat /\ ChangeCount' = ChangeCount
    <3>1. Cardinality(changed["dm"]) \in Nat /\ Cardinality(changed["ch"]) \in Nat
      <4>1. changed["dm"] \in SUBSET Stamps /\ changed["ch"] \in SUBSET Stamps
        BY DEF PaneInv, PaneTypes, Threads
      <4>. QED
        BY <4>1, FiniteStamps
    <3>2. Len(events) \in Nat /\ Len(events') = Len(events) + 1
      BY <1>2, LenProperties, AppendProperties DEF ReadInv, Queue
    <3>. QED
      BY <1>1, <3>1, <3>2, SizesAssumption DEF ChangeCount
  <2>. QED
    BY <1>1, <2>1 DEF PaneInv, QueueRoom
<1>8. PaneTypes'
    BY <1>1 DEF PaneInv, PaneTypes
<1>9. PaneOrder' /\ NewsShown'
  <2>1. \A u \in Threads : \A s \in Range(pane[u]) : s \in own'[u] => s \in own[u]
    BY <1>1, <1>3 DEF PaneInv, PaneOrder, ReadInv, Base
  <2>2. \A u \in Threads : Increasing(pane'[u]) /\ Range(pane'[u]) \subseteq stored'[u]
    BY <1>1, <1>5 DEF PaneInv, PaneOrder
  <2>3. pane' \in [Threads -> Seq(Stamps)]
    BY <1>1 DEF PaneInv, PaneOrder
  <2>. QED
    BY <1>1, <1>4, <2>1, <2>2, <2>3, PanesStay DEF PaneInv
<1>. QED
    BY <1>6, <1>7, <1>8, <1>9 DEF PaneInv

LEMMA ChangePanes ==
    ASSUME ReadInv, PaneInv, NEW k \in Changes, NEW t \in Threads, NEW s \in Stamps,
           ChangeArrives(k, t, s)
    PROVE  PaneInv'
<1> DEFINE e == [kind |-> k, thread |-> t, rows |-> {s}]
<1>1. /\ changed' = [changed EXCEPT ![t] = @ \union {s}] /\ s \notin changed[t]
      /\ batched' = [batched EXCEPT ![t] = @ \union {r \in {s} : k = "edits"}]
      /\ UNCHANGED <<stored, own, views, opening, pane, fresh, exhausted, active, target>>
      /\ Cardinality(changed["dm"]) + Cardinality(changed["ch"]) < MaxChanges
    BY DEF ChangeArrives, screen
<1>2. /\ e \in Event /\ e.kind = k /\ e.thread = t /\ e.rows = {s} /\ events' = Append(events, e)
      /\ k # "rows" /\ k # "cs" /\ (k = "edits" \/ k = "live")
    BY DEF ChangeArrives, Tells, Event, Changes
<1> HIDE DEF e
<1>4. /\ Queue'
      /\ \A i \in DOMAIN events : i \in DOMAIN events' /\ events'[i] = events[i]
      /\ \E i \in DOMAIN events' : events'[i] = e
      /\ \A i \in DOMAIN events' : events'[i] = e \/ (i \in DOMAIN events /\ events'[i] = events[i])
    BY <1>2, QueueAppend DEF ReadInv
<1>5. EventsStored'
    BY <1>1, <1>2, <1>4, EventsStay DEF PaneInv
<1>6. QueueRoom'
  <2>1. \A u \in Threads : /\ Cardinality(changed[u]) \in Nat
                           /\ u # t => changed'[u] = changed[u]
                           /\ u = t => Cardinality(changed'[u]) = Cardinality(changed[u]) + 1
    <3>1. /\ \A u \in Threads : changed[u] \in SUBSET Stamps
          /\ changed'[t] = changed[t] \union {s} /\ \A u \in Threads : u # t => changed'[u] = changed[u]
      BY <1>1 DEF PaneInv, PaneTypes
    <3>2. \A u \in Threads : IsFiniteSet(changed[u]) /\ Cardinality(changed[u]) \in Nat
      BY <3>1, FiniteStamps
    <3>. QED
      BY <1>1, <3>1, <3>2, FS_AddElement
  <2>2. ChangeCount \in Nat /\ ChangeCount' = ChangeCount + 1
    BY <2>1 DEF ChangeCount, Threads
  <2>3. Len(events) \in Nat /\ Len(events') = Len(events) + 1
    BY <1>2, LenProperties, AppendProperties DEF ReadInv, Queue
  <2>4. ChangeCount < MaxChanges /\ Len(events) <= MaxEvents + ChangeCount /\ MaxEvents \in Nat /\ MaxChanges \in Nat
    BY <1>1, SizesAssumption DEF ChangeCount, PaneInv, QueueRoom
  <2>. QED
    BY <2>2, <2>3, <2>4 DEF QueueRoom
<1>7. PaneTypes' /\ PaneOrder'
    BY <1>1 DEF PaneInv, PaneTypes, PaneOrder
<1>8. NewsShown'
  <2> SUFFICES ASSUME NEW u \in Threads, NEW r \in Range(pane[u]), r \in changed'[u],
                      r \notin fresh[u], r \notin batched'[u], u # "dm" \/ r \in own[u]
               PROVE  \E i \in DOMAIN events' : Refresh(events'[i], u, r)
    BY <1>1 DEF NewsShown, Refresh
  <2>1. \A v \in Threads : batched[v] \subseteq batched'[v]
    BY <1>1 DEF PaneInv, PaneTypes
  <2>2. CASE u = t /\ r = s
    <3>1. k = "live"
      BY <1>1, <1>2, <2>2 DEF PaneInv, PaneTypes
    <3>. QED
      BY <1>2, <1>4, <2>2, <3>1 DEF Refresh
  <2>3. CASE ~(u = t /\ r = s)
    <3>1. r \in changed[u]
      BY <1>1, <2>3 DEF PaneInv, PaneTypes
    <3>2. PICK i \in DOMAIN events : Refresh(events[i], u, r)
      BY <2>1, <3>1 DEF PaneInv, NewsShown
    <3>. QED
      BY <1>4, <3>2 DEF Refresh
  <2>. QED
    BY <2>2, <2>3
<1>. QED
    BY <1>5, <1>6, <1>7, <1>8 DEF PaneInv

LEMMA AckPanes ==
    ASSUME ReadInv, PaneInv, SubscriptionAcked
    PROVE  PaneInv'
<1> DEFINE e == [kind |-> "cs", thread |-> "ch", rows |-> {}]
<1>1. /\ UNCHANGED <<stored, own, changed, batched, views, opening, pane, fresh, exhausted, active, target>>
      /\ Len(events) < MaxEvents
    BY DEF SubscriptionAcked, screen, disk
<1>2. e \in Event /\ e.kind = "cs" /\ e.thread = "ch" /\ events' = Append(events, e)
    BY DEF SubscriptionAcked, Tells, Event, Threads
<1> HIDE DEF e
<1>3. /\ Queue'
      /\ \A i \in DOMAIN events : i \in DOMAIN events' /\ events'[i] = events[i]
      /\ \A i \in DOMAIN events' : events'[i] = e \/ (i \in DOMAIN events /\ events'[i] = events[i])
    BY <1>2, QueueAppend DEF ReadInv
<1>4. EventsStored'
    BY <1>1, <1>2, <1>3, EventsStay DEF PaneInv
<1>5. QueueRoom'
  <2>1. /\ Len(events) \in Nat /\ Len(events') = Len(events) + 1
        /\ MaxEvents \in Nat /\ ChangeCount \in Nat /\ ChangeCount' = ChangeCount
    <3>1. Cardinality(changed["dm"]) \in Nat /\ Cardinality(changed["ch"]) \in Nat
      <4>1. changed["dm"] \in SUBSET Stamps /\ changed["ch"] \in SUBSET Stamps
        BY DEF PaneInv, PaneTypes, Threads
      <4>. QED
        BY <4>1, FiniteStamps
    <3>2. Len(events) \in Nat /\ Len(events') = Len(events) + 1
      BY <1>2, LenProperties, AppendProperties DEF ReadInv, Queue
    <3>. QED
      BY <1>1, <3>1, <3>2, SizesAssumption DEF ChangeCount
  <2>. QED
    BY <1>1, <2>1 DEF PaneInv, QueueRoom
<1>6. PaneTypes' /\ PaneOrder'
    BY <1>1 DEF PaneInv, PaneTypes, PaneOrder
<1>7. NewsShown'
    BY <1>1, <1>3 DEF PaneInv, NewsShown, Refresh
<1>. QED
    BY <1>4, <1>5, <1>6, <1>7 DEF PaneInv

\* Rows are mounted in one pane at most; the queue is known to stand or to lose
\* an event that is no refresh.
LEMMA MountPanes ==
    ASSUME PaneInv, NEW t \in Threads, NEW S \in SUBSET Stamps,
           Mounts(t, S) \/ UNCHANGED <<pane, fresh>>, S \subseteq stored'[t],
           UNCHANGED <<changed, batched>>,
           \A u \in Threads : stored[u] \subseteq stored'[u],
           \A u \in Threads : \A s \in stored[u] : s \in own'[u] => s \in own[u],
           \A i \in DOMAIN events : events[i].kind = "live" =>
               \E j \in DOMAIN events' : events'[j] = events[i]
    PROVE  PaneOrder' /\ NewsShown' /\ fresh' \in [Threads -> SUBSET Stamps]
<1>1. \A u \in Threads : \A s \in Range(pane[u]) : s \in own'[u] => s \in own[u]
    BY DEF PaneInv, PaneOrder
<1>2. CASE Mounts(t, S)
  <2>1. /\ pane' \in [Threads -> Seq(Stamps)] /\ fresh' \in [Threads -> SUBSET Stamps]
        /\ Increasing(pane'[t]) /\ Range(pane'[t]) = Range(pane[t]) \union S
        /\ fresh'[t] = fresh[t] \union ((S \ Range(pane[t])) \cap changed[t])
        /\ \A u \in Threads : u # t => pane'[u] = pane[u] /\ fresh'[u] = fresh[u]
    BY <1>2, MountsFacts DEF PaneInv
  <2>2. \A u \in Threads : Increasing(pane'[u]) /\ Range(pane'[u]) \subseteq stored'[u]
    BY <2>1 DEF PaneInv, PaneOrder
  <2>3. \A u \in Threads : \A s \in Range(pane'[u]) :
            s \in changed[u] /\ s \notin fresh'[u] => s \in Range(pane[u]) /\ s \notin fresh[u]
    BY <2>1
  <2>. QED
    BY <1>1, <2>1, <2>2, <2>3, PanesStay DEF PaneInv
<1>3. CASE UNCHANGED <<pane, fresh>>
  <2>1. /\ pane' \in [Threads -> Seq(Stamps)] /\ fresh' \in [Threads -> SUBSET Stamps]
        /\ \A u \in Threads : Increasing(pane'[u]) /\ Range(pane'[u]) \subseteq stored'[u]
    BY <1>3 DEF PaneInv, PaneOrder, PaneTypes
  <2>. QED
    BY <1>1, <1>3, <2>1, PanesStay DEF PaneInv
<1>. QED
    BY <1>2, <1>3

LEMMA SwitchesPanes ==
    ASSUME ReadInv, PaneInv, NEW t \in Threads, Switches(t), UNCHANGED <<disk, events>>,
           target' \in Threads \union {NoThread}
    PROVE  PaneInv'
<1>1. /\ UNCHANGED <<stored, own, changed, batched, events, pane, fresh, exhausted>>
      /\ views' \subseteq Threads /\ views \subseteq views'
      /\ {opening', active'} \subseteq views' \union {NoThread}
    BY DEF disk, Switches, Shows, PaneInv, PaneTypes
<1>2. EventsStored' /\ QueueRoom'
    BY <1>1, QueueStands
<1>3. PaneTypes'
    BY <1>1 DEF PaneInv, PaneTypes
<1>4. PaneOrder' /\ NewsShown'
    BY <1>1 DEF PaneInv, PaneOrder, NewsShown, Refresh
<1>. QED
    BY <1>2, <1>3, <1>4 DEF PaneInv

LEMMA OpensPanes ==
    ASSUME ReadInv, PaneInv, Opens
    PROVE  PaneInv'
<1> DEFINE R == Recent(opening, MaxRows + 1)
<1>1. /\ UNCHANGED <<stored, own, changed, batched, events, views, exhausted, target>>
      /\ opening \in Threads /\ opening \in views /\ opening' = NoThread /\ active' = opening
      /\ Mounts(opening, R)
    BY DEF Opens, Shows, disk, PaneInv, PaneTypes
<1>2. R \in SUBSET stored[opening] /\ R \in SUBSET Stamps
    BY <1>1, PageFacts
<1>3. EventsStored' /\ QueueRoom'
    BY <1>1, QueueStands
<1> HIDE DEF R
<1>4. PaneOrder' /\ NewsShown' /\ fresh' \in [Threads -> SUBSET Stamps]
    BY <1>1, <1>2, MountPanes
<1>5. PaneTypes'
    BY <1>1, <1>4 DEF PaneInv, PaneTypes
<1>. QED
    BY <1>3, <1>4, <1>5 DEF PaneInv

\* The page is older than every row that is mounted.
LEMMA LoadsOlderPanes ==
    ASSUME ReadInv, PaneInv, LoadsOlder
    PROVE  PaneInv'
<1> DEFINE t == active
           first == Head(pane[t])
           R == Recent(t, first)
<1>1. /\ t \in Threads /\ t \in views /\ pane[t] # <<>>
      /\ pane' = [pane EXCEPT ![t] = Ascending(R) \o @]
      /\ fresh' = [fresh EXCEPT ![t] = @ \union (R \cap changed[t])]
      /\ exhausted' \in {exhausted, exhausted \union {t}}
      /\ UNCHANGED <<stored, own, changed, batched, views, opening, active, target, events>>
    BY DEF LoadsOlder, disk, PaneInv, PaneTypes
<1>2. /\ R \in SUBSET stored[t] /\ R \in SUBSET Stamps /\ \A s \in R : s < first
      /\ Ascending(R) \in Seq(Stamps) /\ Increasing(Ascending(R)) /\ Range(Ascending(R)) = R
    BY <1>1, PageFacts
<1>3. /\ pane[t] \in Seq(Stamps) /\ Increasing(pane[t]) /\ Range(pane[t]) \subseteq stored[t]
    BY <1>1 DEF PaneInv, PaneOrder
<1>4. \A s \in Range(pane[t]) : first <= s
  <2>1. /\ first = pane[t][1] /\ DOMAIN pane[t] = 1 .. Len(pane[t]) /\ Len(pane[t]) \in Nat \ {0}
        /\ \A i \in 1 .. Len(pane[t]) : pane[t][i] \in Nat
    BY <1>1, <1>3, EmptySeq, LenProperties, ElementOfSeq, SizesAssumption DEF Stamps
  <2>2. ASSUME NEW i \in 1 .. Len(pane[t]) PROVE first <= pane[t][i]
    <3>1. i = 1 \/ pane[t][1] < pane[t][i]
      BY <1>3, <2>1 DEF Increasing
    <3>. QED
      BY <2>1, <3>1
  <2>. QED
    BY <1>3, <2>2, RangeFacts
<1>5. \A s \in R, r \in Range(pane[t]) : s < r
  <2>1. R \in SUBSET Nat /\ Range(pane[t]) \in SUBSET Nat /\ first \in Nat
    <3>1. first \in Stamps
      BY <1>1, <1>3
    <3>2. Range(pane[t]) \subseteq Stamps
      BY <1>3, RangeFacts
    <3>. QED
      BY <1>2, <3>1, <3>2, SizesAssumption DEF Stamps
  <2> SUFFICES ASSUME NEW s \in R, NEW r \in Range(pane[t])
               PROVE  s < r
    OBVIOUS
  <2>2. s < first /\ first <= r /\ s \in Nat /\ r \in Nat
    BY <1>2, <1>4, <2>1
  <2> HIDE DEF R, first
  <2>. QED
    BY <2>1, <2>2
<1> HIDE DEF R
<1>6. /\ Ascending(R) \o pane[t] \in Seq(Stamps) /\ Increasing(Ascending(R) \o pane[t])
      /\ Range(Ascending(R) \o pane[t]) = R \union Range(pane[t])
  <2>1. Stamps \in SUBSET Int
    BY SizesAssumption DEF Stamps
  <2>. QED
    BY <1>2, <1>3, <1>5, <2>1, IncreasingConcat
<1>7. /\ pane' \in [Threads -> Seq(Stamps)] /\ fresh' \in [Threads -> SUBSET Stamps]
      /\ Increasing(pane'[t]) /\ Range(pane'[t]) = Range(pane[t]) \union R
      /\ fresh'[t] = fresh[t] \union (R \cap changed[t])
      /\ \A u \in Threads : u # t => pane'[u] = pane[u] /\ fresh'[u] = fresh[u]
    BY <1>1, <1>2, <1>6 DEF PaneInv, PaneOrder, PaneTypes
<1> HIDE DEF t
<1>8. PaneOrder' /\ NewsShown'
  <2>1. \A u \in Threads : \A s \in Range(pane[u]) : s \in own'[u] => s \in own[u]
    BY <1>1
  <2>2. \A u \in Threads : Increasing(pane'[u]) /\ Range(pane'[u]) \subseteq stored'[u]
    BY <1>1, <1>2, <1>7 DEF PaneInv, PaneOrder
  <2>3. \A u \in Threads : \A s \in Range(pane'[u]) :
            s \in changed[u] /\ s \notin fresh'[u] => s \in Range(pane[u]) /\ s \notin fresh[u]
    BY <1>7
  <2>. QED
    BY <1>1, <1>7, <2>1, <2>2, <2>3, PanesStay DEF PaneInv
<1>9. EventsStored' /\ QueueRoom'
    BY <1>1, QueueStands
<1>10. PaneTypes'
    BY <1>1, <1>7 DEF PaneInv, PaneTypes
<1>. QED
    BY <1>8, <1>9, <1>10 DEF PaneInv

LEMMA SendsPanes ==
    ASSUME ReadInv, PaneInv, NEW t \in Threads, NEW s \in Stamps, Sends(t, s)
    PROVE  PaneInv'
<1>1. /\ stored' = [stored EXCEPT ![t] = @ \union {s}] /\ own' = [own EXCEPT ![t] = @ \union {s}]
      /\ UNCHANGED <<changed, batched, views, opening, exhausted, active, target, events>>
      /\ s \notin stored[t] /\ {s} \in SUBSET Stamps
    BY DEF Sends
<1>2. Mounts(t, {s}) \/ UNCHANGED <<pane, fresh>>
    BY DEF Sends, InboundDm, InboundPost, InboundDms, InboundPosts, Threads
<1>3. /\ \A u \in Threads : stored[u] \subseteq stored'[u] /\ {s} \subseteq stored'[t]
      /\ \A u \in Threads : \A r \in stored[u] : r \in own'[u] => r \in own[u]
    BY <1>1 DEF ReadInv, Base
<1>4. PaneOrder' /\ NewsShown' /\ fresh' \in [Threads -> SUBSET Stamps]
    BY <1>1, <1>2, <1>3, MountPanes
<1>5. EventsStored' /\ QueueRoom'
    BY <1>1, <1>3, QueueStands
<1>6. PaneTypes'
    BY <1>1, <1>4 DEF PaneInv, PaneTypes
<1>. QED
    BY <1>4, <1>5, <1>6 DEF PaneInv

LEMMA RestartsPanes ==
    ASSUME ReadInv, PaneInv, Restarts
    PROVE  PaneInv'
<1>1. /\ views' = {} /\ opening' = NoThread /\ active' = NoThread /\ target' = NoThread
      /\ pane' = [t \in Threads |-> <<>>] /\ fresh' = [t \in Threads |-> {}]
      /\ exhausted' = {} /\ events' = <<>> /\ UNCHANGED <<stored, changed, batched>>
    BY DEF Restarts, disk
<1>2. PaneTypes'
    BY <1>1 DEF PaneInv, PaneTypes
<1>3. \A t \in Threads : pane'[t] = <<>> /\ <<>> \in Seq(Stamps) /\ DOMAIN pane'[t] = {}
    BY <1>1
<1>4. PaneOrder' /\ NewsShown'
    BY <1>1, <1>3 DEF PaneOrder, NewsShown, Increasing, Range
<1>5. EventsStored'
    BY <1>1 DEF EventsStored
<1>6. QueueRoom'
  <2>1. Len(events') \in Nat /\ Len(events) \in Nat /\ Len(events') <= Len(events)
    BY <1>1, LenProperties, EmptySeq DEF ReadInv, Queue
  <2>. QED
    BY <1>1, <2>1, RoomStays DEF PaneInv
<1>. QED
    BY <1>2, <1>4, <1>5, <1>6 DEF PaneInv

LEMMA TakesRowsPanes ==
    ASSUME ReadInv, PaneInv, TakesRows
    PROVE  PaneInv'
<1> DEFINE e == Head(events)
<1>1. /\ UNCHANGED <<stored, own, changed, batched, views, opening, exhausted, active, target>>
      /\ events # <<>> /\ events' = Tail(events) /\ e.kind = "rows"
    BY DEF TakesRows, Takes, disk
<1>2. /\ EventsStored' /\ QueueRoom' /\ e \in Event /\ e = events[1] /\ 1 \in DOMAIN events
      /\ \A i \in DOMAIN events : i = 1 \/ \E j \in DOMAIN events' : events'[j] = events[i]
    BY <1>1, TakenFacts
<1>3. e.thread \in Threads /\ e.rows \in SUBSET Stamps /\ e.rows \subseteq stored[e.thread]
    BY <1>1, <1>2 DEF Event, PaneInv, EventsStored
<1>4. Mounts(e.thread, e.rows) \/ UNCHANGED <<pane, fresh>>
    BY <1>3 DEF TakesRows, InboundDms, InboundPosts, Threads
<1> HIDE DEF e
<1>5. PaneOrder' /\ NewsShown' /\ fresh' \in [Threads -> SUBSET Stamps]
    BY <1>1, <1>2, <1>3, <1>4, MountPanes
<1>6. PaneTypes'
    BY <1>1, <1>5 DEF PaneInv, PaneTypes
<1>. QED
    BY <1>2, <1>5, <1>6 DEF PaneInv

\* The refresh that is taken is one of the row's, if its row is found.
LEMMA TakesChangePanes ==
    ASSUME ReadInv, PaneInv, TakesChange
    PROVE  PaneInv'
<1> DEFINE e == Head(events)
<1>1. /\ UNCHANGED <<stored, own, changed, batched, views, opening, pane, exhausted, active, target>>
      /\ events # <<>> /\ events' = Tail(events) /\ e.kind = "live"
      /\ fresh' = [fresh EXCEPT ![e.thread] = @ \union {s \in e.rows : Found(e.thread, s)}]
    BY DEF TakesChange, Takes, disk
<1>2. /\ EventsStored' /\ QueueRoom' /\ e \in Event /\ e = events[1] /\ 1 \in DOMAIN events
      /\ \A i \in DOMAIN events : i = 1 \/ \E j \in DOMAIN events' : events'[j] = events[i]
    BY <1>1, TakenFacts
<1>3. e.thread \in Threads /\ e.rows \in SUBSET Stamps
    BY <1>2 DEF Event
<1> HIDE DEF e
<1>4. /\ fresh' \in [Threads -> SUBSET Stamps] /\ \A u \in Threads : fresh[u] \subseteq fresh'[u]
      /\ \A s \in e.rows : Found(e.thread, s) => s \in fresh'[e.thread]
    BY <1>1, <1>3 DEF PaneInv, PaneTypes
<1>5. PaneTypes'
    BY <1>1, <1>4 DEF PaneInv, PaneTypes
<1>6. PaneOrder' /\ NewsShown'
  <2>1. pane' \in [Threads -> Seq(Stamps)] /\ \A u \in Threads : Increasing(pane'[u]) /\ Range(pane'[u]) \subseteq stored'[u]
    BY <1>1 DEF PaneInv, PaneOrder
  <2>2. \A i \in DOMAIN events :
            \/ \E j \in DOMAIN events' : events'[j] = events[i]
            \/ \A s \in events[i].rows :
                   Found(events[i].thread, s) => s \in fresh'[events[i].thread]
    BY <1>2, <1>4
  <2>. QED
    BY <1>1, <1>4, <2>1, <2>2, PanesStay DEF PaneInv
<1>. QED
    BY <1>2, <1>5, <1>6 DEF PaneInv

LEMMA TakesEditsPanes ==
    ASSUME ReadInv, PaneInv, TakesEdits
    PROVE  PaneInv'
<1>1. /\ UNCHANGED <<stored, own, changed, batched, views, opening, pane, fresh, exhausted, active, target>>
      /\ events # <<>> /\ events' = Tail(events) /\ Head(events).kind = "edits"
    BY DEF TakesEdits, Takes, disk, screen
<1>2. /\ EventsStored' /\ QueueRoom' /\ Head(events) = events[1]
      /\ \A i \in DOMAIN events : i = 1 \/ \E j \in DOMAIN events' : events'[j] = events[i]
    BY <1>1, TakenFacts
<1>3. PaneTypes'
    BY <1>1 DEF PaneInv, PaneTypes
<1>4. PaneOrder' /\ NewsShown'
  <2>1. pane' \in [Threads -> Seq(Stamps)] /\ \A u \in Threads : Increasing(pane'[u]) /\ Range(pane'[u]) \subseteq stored'[u]
    BY <1>1 DEF PaneInv, PaneOrder
  <2>. QED
    BY <1>1, <1>2, <2>1, PanesStay DEF PaneInv
<1>. QED
    BY <1>2, <1>3, <1>4 DEF PaneInv

\* The pane that is started over holds the newest page, as the store has it.
LEMMA TakesSubscriptionPanes ==
    ASSUME ReadInv, PaneInv, TakesSubscription
    PROVE  PaneInv'
<1> DEFINE t == Head(events).thread
           R == Recent(t, MaxRows + 1)
<1>1. /\ UNCHANGED <<stored, own, changed, batched, views, opening, active, target>>
      /\ events # <<>> /\ events' = Tail(events) /\ Head(events).kind = "cs"
    BY DEF TakesSubscription, Takes, disk
<1>2. /\ EventsStored' /\ QueueRoom' /\ Head(events) = events[1] /\ Head(events) \in Event
      /\ \A i \in DOMAIN events : i = 1 \/ \E j \in DOMAIN events' : events'[j] = events[i]
    BY <1>1, TakenFacts
<1>3. t \in Threads
    BY <1>2 DEF Event
<1>4. CASE t \in views
  <2>1. /\ R \in SUBSET stored[t] /\ R \in SUBSET Stamps
        /\ Ascending(R) \in Seq(Stamps) /\ Increasing(Ascending(R)) /\ Range(Ascending(R)) = R
    BY <1>3, PageFacts
  <2>2. /\ pane' = [pane EXCEPT ![t] = Ascending(R)] /\ fresh' = [fresh EXCEPT ![t] = R \cap changed[t]]
        /\ exhausted' \subseteq exhausted
    BY <1>4 DEF TakesSubscription, Reseeds
  <2> HIDE DEF R, t
  <2>3. PaneTypes'
    BY <1>1, <1>3, <2>1, <2>2 DEF PaneInv, PaneTypes
  <2>4. PaneOrder' /\ NewsShown'
    <3>1. /\ pane' \in [Threads -> Seq(Stamps)]
          /\ pane'[t] = Ascending(R) /\ fresh'[t] = R \cap changed[t]
          /\ \A u \in Threads : u # t => pane'[u] = pane[u] /\ fresh'[u] = fresh[u]
      BY <1>3, <2>1, <2>2 DEF PaneInv, PaneOrder, PaneTypes
    <3>2. \A u \in Threads : Increasing(pane'[u]) /\ Range(pane'[u]) \subseteq stored'[u]
      BY <1>1, <2>1, <3>1 DEF PaneInv, PaneOrder
    <3>3. \A u \in Threads : \A s \in Range(pane'[u]) :
              s \in changed[u] /\ s \notin fresh'[u] => s \in Range(pane[u]) /\ s \notin fresh[u]
      BY <2>1, <3>1
    <3>. QED
      BY <1>1, <1>2, <3>1, <3>2, <3>3, PanesStay DEF PaneInv
  <2>. QED
    BY <1>2, <2>3, <2>4 DEF PaneInv
<1>5. CASE t \notin views
  <2>1. UNCHANGED <<pane, fresh, exhausted>>
    BY <1>5 DEF TakesSubscription
  <2>2. PaneTypes'
    BY <1>1, <2>1 DEF PaneInv, PaneTypes
  <2>3. pane' \in [Threads -> Seq(Stamps)] /\ \A u \in Threads : Increasing(pane'[u]) /\ Range(pane'[u]) \subseteq stored'[u]
    BY <1>1, <2>1 DEF PaneInv, PaneOrder
  <2>4. PaneOrder' /\ NewsShown'
    BY <1>1, <1>2, <2>1, <2>3, PanesStay DEF PaneInv
  <2>. QED
    BY <1>2, <2>2, <2>4 DEF PaneInv
<1>. QED
    BY <1>4, <1>5

LEMMA PaneInvInit ==
    Init => PaneInv
<1> SUFFICES ASSUME Init
             PROVE  PaneInv
    OBVIOUS
<1>1. PaneTypes
    BY DEF Init, PaneTypes
<1>2. \A t \in Threads : pane[t] = <<>> /\ <<>> \in Seq(Stamps) /\ DOMAIN pane[t] = {} /\ changed[t] = {}
    BY DEF Init
<1>3. PaneOrder /\ NewsShown
    BY <1>2 DEF Init, PaneOrder, NewsShown, Increasing, Range
<1>4. EventsStored
    BY DEF Init, EventsStored
<1>5. QueueRoom
  <2>1. ChangeCount = 0
    <3>1. Cardinality(changed["dm"]) = 0 /\ Cardinality(changed["ch"]) = 0
      BY <1>2, FS_EmptySet DEF Threads
    <3>. QED
      BY <3>1 DEF ChangeCount
  <2>2. Len(events) = 0
    BY DEF Init
  <2>. QED
    BY <2>1, <2>2, SizesAssumption DEF QueueRoom
<1>. QED
    BY <1>1, <1>3, <1>4, <1>5 DEF PaneInv

\* The inductive step, for each action.
LEMMA PaneInvNext ==
    ReadInv /\ PaneInv /\ [Next]_vars => PaneInv'
<1> SUFFICES ASSUME ReadInv, PaneInv, [Next]_vars
             PROVE  PaneInv'
    OBVIOUS
<1>1. ASSUME NEW t \in Threads, NEW S \in SUBSET Stamps \ {{}}, NEW mine \in BOOLEAN, Arrive(t, S, mine)
      PROVE  PaneInv'
    BY <1>1, ArrivePanes
<1>2. ASSUME NEW k \in Changes, NEW t \in Threads, NEW s \in Stamps, ChangeArrives(k, t, s)
      PROVE  PaneInv'
    BY <1>2, ChangePanes
<1>3. CASE SubscriptionAcked
    BY <1>3, AckPanes
<1>4. ASSUME NEW t \in Threads, Highlights(t) \/ Selects(t)
      PROVE  PaneInv'
  <2>1. Switches(t) /\ UNCHANGED <<disk, events>> /\ (target' = target \/ target' = t)
    BY <1>4 DEF Highlights, Selects
  <2>2. target' \in Threads \union {NoThread}
    BY <2>1 DEF PaneInv, PaneTypes
  <2>. QED
    BY <2>1, <2>2, SwitchesPanes
<1>5. CASE LoadsOlder
    BY <1>5, LoadsOlderPanes
<1>6. ASSUME NEW t \in Threads, NEW s \in Stamps, Sends(t, s)
      PROVE  PaneInv'
    BY <1>6, SendsPanes
<1>7. CASE Restarts
    BY <1>7, RestartsPanes
<1>8. CASE Opens
    BY <1>8, OpensPanes
<1>9. CASE TakesRows
    BY <1>9, TakesRowsPanes
<1>10. CASE TakesChange
    BY <1>10, TakesChangePanes
<1>11. CASE TakesEdits
    BY <1>11, TakesEditsPanes
<1>12. CASE TakesSubscription
    BY <1>12, TakesSubscriptionPanes
<1>13. CASE UNCHANGED vars
  <2>1. UNCHANGED <<stored, own, changed, batched, views, opening, pane, fresh, exhausted, active, target, events>>
    BY <1>13 DEF vars, disk, screen
  <2>2. EventsStored' /\ QueueRoom'
    BY <2>1, QueueStands
  <2>3. PaneTypes' /\ PaneOrder' /\ NewsShown'
    BY <2>1 DEF PaneInv, PaneTypes, PaneOrder, NewsShown, Refresh
  <2>. QED
    BY <2>2, <2>3 DEF PaneInv
<1>. QED
    BY <1>1, <1>2, <1>3, <1>4, <1>5, <1>6, <1>7, <1>8, <1>9, <1>10, <1>11, <1>12, <1>13
       DEF Next, Server, User, App

\* For every page, batch and order of the events: a pane holds rows of the store,
\* each once and in order, and what one does not show as stored waits to be shown
\* (_mount_row, _load_older, _mount_initial_history of the full-screen UIs).
THEOREM PaneInvariance ==
    Spec => []PaneInv
<1>1. Init /\ [][Next]_vars => []PaneInv
  <2>1. ReadInv /\ PaneInv /\ [Next]_vars => PaneInv'
    BY PaneInvNext
  <2>. QED
    BY <2>1, PaneInvInit, ReadInvInit, ReadInvNext, PTL
<1>. QED
    BY <1>1 DEF Spec

\* However late rows come, and however pages, batches, new panes and the user's
\* own rows are mounted between them, every pane holds rows of the store, each
\* once, oldest first.
THEOREM PanesAreInOrder ==
    Spec => []ThreadsInv
<1>1. ReadInv /\ PaneInv => TypeOK
  <2> SUFFICES ASSUME ReadInv, PaneInv
               PROVE  TypeOK
    OBVIOUS
  <2>1. \A v \in {stored, own, changed, batched, fresh}, t \in Threads : v[t] \subseteq Stamps
    BY DEF ReadInv, Base, PaneInv, PaneTypes
  <2>2. \A t \in Threads : read[t] \in 0 .. MaxRows /\ badge[t] \in Nat
    BY DEF ReadInv, Base
  <2>3. /\ views \subseteq Threads /\ exhausted \subseteq views
        /\ {opening, active, target} \subseteq Threads \union {NoThread}
    BY DEF PaneInv, PaneTypes
  <2>4. DOMAIN pane = Threads /\ \A t \in Threads : Range(pane[t]) \subseteq stored[t]
    BY DEF PaneInv, PaneOrder
  <2>5. Len(events) <= MaxEvents + MaxChanges
    <3>1. Cardinality(changed["dm"]) \in Nat /\ Cardinality(changed["ch"]) \in Nat
      <4>1. changed["dm"] \in SUBSET Stamps /\ changed["ch"] \in SUBSET Stamps
        BY DEF PaneInv, PaneTypes, Threads
      <4>. QED
        BY <4>1, FiniteStamps
    <3>2. ChangeCount \in Nat /\ Len(events) \in Nat
      BY <3>1, LenProperties DEF ChangeCount, ReadInv, Queue
    <3>. QED
      BY <3>2, SizesAssumption DEF PaneInv, QueueRoom
  <2>6. \A i \in DOMAIN events : events[i] \in Event
    BY ElementOfSeq, LenProperties DEF ReadInv, Queue
  <2>. QED
    BY <2>1, <2>2, <2>3, <2>4, <2>5, <2>6 DEF TypeOK
<1>2. PaneInv => PanesInOrder
    BY DEF PaneInv, PaneOrder, PanesInOrder, Increasing
<1>. QED
    BY <1>1, <1>2, ReadInvariance, PaneInvariance, PTL DEF ThreadsInv

\* A mounted row shows what the store has unless a refresh of it waits, whatever
\* the order in which it was edited, mounted, unmounted and mounted again; batches
\* of edits and DMs of the peer are the cases the code leaves out.
THEOREM PanesAreFresh ==
    Spec => []PanesShowStore
<1>1. PaneInv => PanesShowStore
    BY DEF PaneInv, NewsShown, Refresh, PanesShowStore, Queued
<1>. QED
    BY <1>1, PaneInvariance, PTL

-----------------------------------------------------------------------------
(* Handshake: positions in the text *)

Letters  == {"V", "E", "r", "n", "f", "x"}
Messages == [t : {"authOk", "authErr", "ok", "err", "close", "note", "recv"}, n : 0 .. MaxChunk]
Lengths(s) == [i \in 1 .. Len(s) |-> s[i].n]

\* The messages of q fit, one after the other, between two positions.
Fits(q, a, b) ==
    \E e \in [0 .. Len(q) -> 0 .. b] :
        a <= e[0] /\ \A i \in 1 .. Len(q) : e[i - 1] + q[i] <= e[i]

HandshakeTypes ==
    /\ at \in {"start", "auth", "open", "hop", "ready", "read", "down"}
    /\ step \in 0 .. Len(Steps)
    /\ reply \in {"none", "pending", "ok", "err"}
    /\ reader \in {"none", "running", "ended"}
    /\ inbox \in Seq(0 .. MaxChunk) /\ wire \in Seq(Messages) /\ tcp \in BOOLEAN
    /\ said \in Seq(Letters)
    /\ base \in Nat /\ seen \in Nat /\ emitted \in Nat /\ from \in Nat
    /\ shown \in Seq(Nat) /\ met \in Seq(Nat) /\ frames \in Seq(Nat)
    /\ asked \in Seq({"auth", "open", "cmd", "record"})
    /\ why \in {"none", "refused", "error", "eof", "given up", "garbage"}

\* What was taken, what is in the inbox and what is on the wire are parts of the
\* text, one after the other.
TextIsCut ==
    \E m \in 0 .. Len(said) : Fits(inbox, seen, m) /\ Fits(Lengths(wire), m, Len(said))

\* Nothing is shown or met beyond these positions, and none of it twice.
ShownSoFar == Increasing(shown) /\ (\A i \in DOMAIN shown : shown[i] <= emitted) /\ emitted <= seen
MetSoFar ==
    /\ Increasing(met) /\ base <= seen
    /\ \A i \in DOMAIN met : met[i] \in 1 .. base /\ said[met[i]] = "V"

\* Where the script stands: the string awaited is not in what was shown.
Recorded == \E i \in DOMAIN asked : asked[i] = "record"
ScriptStands ==
    /\ at \in {"start", "auth", "open"} => step = 0 /\ base = 0 /\ emitted = 0 /\ Len(met) = 0
    /\ at \in {"start", "auth", "open", "hop", "ready"} => ~Recorded /\ Len(frames) = 0
    /\ at = "hop" => /\ step > 0 /\ Len(met) = step - 1 /\ base <= emitted
                     /\ Where({"V"}, base, emitted) = {}
    /\ at = "ready" => Len(met) = Len(Steps)
    /\ Recorded => Len(met) = Len(Steps)

\* The decoder: what it keeps begins after a CR, or the record, and has no CR.
Decoded ==
    at = "read" =>
        /\ from <= base /\ (base = from \/ said[base] = "r")
        /\ Where({"r"}, base, seen) = {}
        /\ frames = Ascending(Cuts(from, base))

ScriptInv ==
    /\ HandshakeTypes /\ TextIsCut /\ ShownSoFar /\ MetSoFar /\ ScriptStands /\ Decoded

\* Two sequences in order with the same members are the same.
LEMMA HalfOrder ==
    ASSUME NEW p \in Seq(Nat), NEW q \in Seq(Nat), Increasing(p), Increasing(q), Range(p) = Range(q)
    PROVE  \A i \in 1 .. Len(p) : i \in 1 .. Len(q) /\ p[i] = q[i]
<1> DEFINE T == {i \in 1 .. Len(p) : ~(i \in 1 .. Len(q) /\ p[i] = q[i])}
<1>1. /\ DOMAIN p = 1 .. Len(p) /\ DOMAIN q = 1 .. Len(q) /\ Len(p) \in Nat /\ Len(q) \in Nat
      /\ \A i \in 1 .. Len(p) : p[i] \in Nat /\ p[i] \in Range(q)
      /\ \A i \in 1 .. Len(q) : q[i] \in Nat /\ q[i] \in Range(p)
    BY RangeFacts, ElementOfSeq
<1>2. /\ \A x \in Range(q) : \E i \in 1 .. Len(q) : q[i] = x
      /\ \A x \in Range(p) : \E i \in 1 .. Len(p) : p[i] = x
    BY RangeFacts
<1> SUFFICES ASSUME T # {}
             PROVE  FALSE
    OBVIOUS
<1>3. T \in SUBSET Nat
    OBVIOUS
<1>4. PICK i \in T : \A y \in T : i <= y
    BY <1>3, LeastExists
<1>5. i \in 1 .. Len(p) /\ i \in Nat
    OBVIOUS
<1>6. \A k \in 1 .. i - 1 : k \in 1 .. Len(q) /\ p[k] = q[k]
  <2> SUFFICES ASSUME NEW k \in 1 .. i - 1
               PROVE  k \notin T /\ k \in 1 .. Len(p)
    OBVIOUS
  <2>. QED
    BY <1>1, <1>4, <1>5
<1>7. PICK j \in 1 .. Len(q) : q[j] = p[i]
    BY <1>1, <1>2, <1>5
<1>8. j >= i
  <2>1. CASE j < i
    <3>1. j \in 1 .. i - 1 /\ j \in 1 .. Len(p)
      BY <1>1, <1>5, <2>1
    <3>2. p[j] = p[i]
      BY <1>6, <1>7, <3>1
    <3>3. p[j] < p[i]
      BY <1>1, <1>5, <2>1, <3>1 DEF Increasing
    <3>. QED
      BY <1>1, <1>5, <3>1, <3>2, <3>3
  <2>. QED
    BY <1>5, <2>1
<1>9. i \in 1 .. Len(q)
    BY <1>1, <1>5, <1>8
<1>10. j > i
    BY <1>4, <1>5, <1>7, <1>8, <1>9
<1>11. PICK k \in 1 .. Len(p) : p[k] = q[i]
    BY <1>1, <1>2, <1>9
<1>12. q[i] < p[i]
    BY <1>1, <1>7, <1>9, <1>10 DEF Increasing
<1>13. k < i
  <2>1. CASE k >= i
    <3>1. p[i] <= p[k]
      <4>1. CASE k = i
        BY <1>1, <1>5, <4>1
      <4>2. CASE k > i
        <5>1. p[i] < p[k]
          BY <1>1, <1>5, <4>2 DEF Increasing
        <5>. QED
          BY <1>1, <1>5, <5>1
      <4>. QED
        BY <1>5, <2>1, <4>1, <4>2
    <3>. QED
      BY <1>1, <1>5, <1>11, <1>12, <3>1
  <2>. QED
    BY <1>5, <2>1
<1>14. k \in 1 .. i - 1 /\ k \in 1 .. Len(q)
    BY <1>1, <1>5, <1>6, <1>13
<1>15. q[k] = q[i] /\ q[k] < q[i]
    BY <1>1, <1>6, <1>9, <1>11, <1>13, <1>14 DEF Increasing
<1>. QED
    BY <1>1, <1>9, <1>15

LEMMA SameOrder ==
    ASSUME NEW p \in Seq(Nat), NEW q \in Seq(Nat), Increasing(p), Increasing(q), Range(p) = Range(q)
    PROVE  p = q
<1>1. /\ Len(p) \in Nat /\ Len(q) \in Nat
      /\ \A i \in 1 .. Len(p) : i \in 1 .. Len(q) /\ p[i] = q[i]
      /\ \A i \in 1 .. Len(q) : i \in 1 .. Len(p) /\ q[i] = p[i]
    BY HalfOrder, LenProperties
<1>2. Len(p) = Len(q)
  <2>1. Len(p) <= Len(q)
    BY <1>1
  <2>2. Len(q) <= Len(p)
    BY <1>1
  <2>. QED
    BY <1>1, <2>1, <2>2
<1>. QED
    BY <1>1, <1>2, SeqEqual

\* The order of two sets, one before the other, is the order of both.
LEMMA AscendingUnion ==
    ASSUME NEW A \in SUBSET Nat, NEW B \in SUBSET Nat, IsFiniteSet(A), IsFiniteSet(B),
           \A x \in A, y \in B : x < y
    PROVE  Ascending(A) \o Ascending(B) = Ascending(A \union B)
<1> DEFINE p == Ascending(A)
           q == Ascending(B)
           r == Ascending(A \union B)
<1>1. A \union B \in SUBSET Nat /\ IsFiniteSet(A \union B)
    BY FS_Union
<1>2. \A S \in SUBSET Nat : IsFiniteSet(S) =>
          Ascending(S) \in Seq(Nat) /\ Increasing(Ascending(S)) /\ Range(Ascending(S)) = S
  <2> SUFFICES ASSUME NEW S \in SUBSET Nat, IsFiniteSet(S)
               PROVE  Ascending(S) \in Seq(Nat) /\ Increasing(Ascending(S)) /\ Range(Ascending(S)) = S
    OBVIOUS
  <2>1. Ascending(S) \in Seq(S) /\ Increasing(Ascending(S)) /\ Range(Ascending(S)) = S
    BY AscendingFacts, AscendingRange
  <2>2. Ascending(S) \in Seq(Nat)
    <3>1. Cardinality(S) \in Nat /\ Ascending(S) \in [1 .. Cardinality(S) -> Nat]
      BY AscendingFacts
    <3>. QED
      BY <3>1, SeqDef
  <2>. QED
    BY <2>1, <2>2
<1>3. /\ p \in Seq(Nat) /\ Increasing(p) /\ Range(p) = A
      /\ q \in Seq(Nat) /\ Increasing(q) /\ Range(q) = B
      /\ r \in Seq(Nat) /\ Increasing(r) /\ Range(r) = A \union B
    BY <1>1, <1>2
<1> HIDE DEF p, q, r
<1>4. \A x \in Range(p), y \in Range(q) : x < y
    BY <1>3
<1>5. Nat \in SUBSET Int
    OBVIOUS
<1>6. p \o q \in Seq(Nat) /\ Increasing(p \o q) /\ Range(p \o q) = Range(p) \union Range(q)
    BY <1>3, <1>4, <1>5, IncreasingConcat
<1>7. p \o q = r
    BY <1>3, <1>6, SameOrder
<1>. QED
    BY <1>7 DEF p, q, r

\* Messages between two positions: a first is taken, a last is added.
LEMMA FitsBounds ==
    ASSUME NEW q \in Seq(Nat), NEW a \in Nat, NEW b \in Nat, Fits(q, a, b)
    PROVE  a <= b /\ (q # <<>> => a + q[1] <= b)
<1>1. PICK e \in [0 .. Len(q) -> 0 .. b] :
          a <= e[0] /\ \A i \in 1 .. Len(q) : e[i - 1] + q[i] <= e[i]
    BY DEF Fits
<1>2. Len(q) \in Nat /\ 0 \in 0 .. Len(q) /\ (q # <<>> => 1 \in 1 .. Len(q) /\ 1 \in 0 .. Len(q))
    BY LenProperties, EmptySeq
<1>3. e[0] \in 0 .. b
    BY <1>1, <1>2
<1>4. ASSUME q # <<>> PROVE a + q[1] <= b
  <2>1. e[1 - 1] + q[1] <= e[1] /\ e[1] \in 0 .. b /\ q[1] \in Nat
    BY <1>1, <1>2, <1>4, ElementOfSeq
  <2>. QED
    BY <1>1, <1>3, <2>1
<1>. QED
    BY <1>1, <1>3, <1>4

LEMMA FitsTail ==
    ASSUME NEW q \in Seq(Nat), NEW a \in Nat, NEW b \in Nat, Fits(q, a, b), q # <<>>
    PROVE  Fits(Tail(q), a + q[1], b) /\ Tail(q) \in Seq(Nat) /\ Head(q) = q[1] /\ q[1] \in Nat
<1>1. PICK e \in [0 .. Len(q) -> 0 .. b] :
          a <= e[0] /\ \A i \in 1 .. Len(q) : e[i - 1] + q[i] <= e[i]
    BY DEF Fits
<1> DEFINE n == Len(q)
           t == Tail(q)
           f == [i \in 0 .. n - 1 |-> e[i + 1]]
<1>2. n \in Nat \ {0} /\ q[1] \in Nat /\ Head(q) = q[1]
    BY LenProperties, EmptySeq, ElementOfSeq, HeadTailProperties
<1>3. /\ t \in Seq(Nat) /\ Len(t) = n - 1
      /\ \A i \in 1 .. n - 1 : t[i] = q[i + 1]
    BY HeadTailProperties
<1> HIDE DEF n, t
<1>4. e \in [0 .. n -> 0 .. b] /\ \A i \in 1 .. n : e[i - 1] + q[i] <= e[i]
    BY <1>1 DEF n
<1>5. f \in [0 .. Len(t) -> 0 .. b]
    BY <1>2, <1>3, <1>4
<1>6. a + q[1] <= f[0]
  <2>1. e[1 - 1] + q[1] <= e[1] /\ e[0] \in 0 .. b /\ e[1] \in 0 .. b /\ f[0] = e[1]
    BY <1>2, <1>4
  <2>. QED
    BY <1>1, <1>2, <2>1
<1>7. ASSUME NEW i \in 1 .. Len(t) PROVE f[i - 1] + t[i] <= f[i]
  <2>1. i + 1 \in 1 .. n /\ i \in 0 .. n - 1 /\ i - 1 \in 0 .. n - 1 /\ (i + 1) - 1 = i /\ (i - 1) + 1 = i
    BY <1>2, <1>3
  <2>2. f[i - 1] = e[i] /\ f[i] = e[i + 1] /\ t[i] = q[i + 1]
    BY <1>3, <2>1
  <2>3. e[(i + 1) - 1] + q[i + 1] <= e[i + 1]
    BY <1>4, <2>1
  <2>. QED
    BY <2>1, <2>2, <2>3
<1> HIDE DEF f
<1>8. Fits(t, a + q[1], b)
    BY <1>5, <1>6, <1>7 DEF Fits
<1>. QED
    BY <1>2, <1>3, <1>8 DEF t

LEMMA FitsAppend ==
    ASSUME NEW q \in Seq(Nat), NEW a \in Nat, NEW b \in Nat, Fits(q, a, b),
           NEW n \in Nat, NEW c \in Nat, b + n <= c
    PROVE  Fits(Append(q, n), a, c) /\ Append(q, n) \in Seq(Nat)
<1>1. PICK e \in [0 .. Len(q) -> 0 .. b] :
          a <= e[0] /\ \A i \in 1 .. Len(q) : e[i - 1] + q[i] <= e[i]
    BY DEF Fits
<1> DEFINE m == Len(q)
           t == Append(q, n)
           f == [i \in 0 .. m + 1 |-> IF i <= m THEN e[i] ELSE c]
<1>2. m \in Nat
    BY LenProperties
<1>3. /\ t \in Seq(Nat) /\ Len(t) = m + 1
      /\ \A i \in 1 .. m : t[i] = q[i]
      /\ t[m + 1] = n
    BY AppendProperties
<1> HIDE DEF m, t
<1>4. e \in [0 .. m -> 0 .. b] /\ \A i \in 1 .. m : e[i - 1] + q[i] <= e[i]
    BY <1>1 DEF m
<1>5. f \in [0 .. Len(t) -> 0 .. c]
    BY <1>2, <1>3, <1>4
<1>6. a <= f[0]
    BY <1>1, <1>2
<1>7. ASSUME NEW i \in 1 .. Len(t) PROVE f[i - 1] + t[i] <= f[i]
  <2>1. CASE i \in 1 .. m
    <3>1. f[i - 1] = e[i - 1] /\ f[i] = e[i] /\ t[i] = q[i]
      BY <1>2, <1>3, <2>1
    <3>. QED
      BY <1>4, <2>1, <3>1
  <2>2. CASE i = m + 1
    <3>1. f[i - 1] = e[m] /\ f[i] = c /\ t[i] = n /\ e[m] \in 0 .. b
      BY <1>2, <1>3, <1>4, <2>2
    <3>. QED
      BY <3>1
  <2>. QED
    BY <1>2, <1>3, <2>1, <2>2
<1> HIDE DEF f
<1>8. Fits(t, a, c)
    BY <1>5, <1>6, <1>7 DEF Fits
<1>. QED
    BY <1>3, <1>8 DEF t

LEMMA FitsWider ==
    ASSUME NEW q \in Seq(Nat), NEW a \in Nat, NEW b \in Nat, Fits(q, a, b), NEW c \in Nat, b <= c
    PROVE  Fits(q, a, c)
<1>1. PICK e \in [0 .. Len(q) -> 0 .. b] :
          a <= e[0] /\ \A i \in 1 .. Len(q) : e[i - 1] + q[i] <= e[i]
    BY DEF Fits
<1>2. e \in [0 .. Len(q) -> 0 .. c]
    BY <1>1
<1>. QED
    BY <1>1, <1>2 DEF Fits

LEMMA FitsNone ==
    ASSUME NEW a \in Nat, NEW b \in Nat, a <= b
    PROVE  Fits(<<>>, a, b)
<1> DEFINE e == [i \in 0 .. 0 |-> a]
<1>1. Len(<<>>) = 0 /\ e \in [0 .. 0 -> 0 .. b] /\ e[0] = a
    OBVIOUS
<1> HIDE DEF e
<1>. QED
    BY <1>1 DEF Fits

LEMMA LengthsFacts ==
    ASSUME NEW w \in Seq(Messages)
    PROVE  /\ Lengths(w) \in Seq(Nat)
           /\ w # <<>> => /\ Lengths(w) # <<>> /\ Lengths(w)[1] = Head(w).n
                          /\ Lengths(Tail(w)) = Tail(Lengths(w))
                          /\ Head(w) \in Messages /\ Tail(w) \in Seq(Messages)
           /\ \A m \in Messages :
                  Lengths(Append(w, m)) = Append(Lengths(w), m.n) /\ Append(w, m) \in Seq(Messages)
<1>1. \A m \in Messages : m.n \in Nat
    BY HandshakeAssumption DEF Messages
<1>2. \A s \in Seq(Messages) : Lengths(s) \in Seq(Nat) /\ Len(Lengths(s)) = Len(s)
  <2> SUFFICES ASSUME NEW s \in Seq(Messages)
               PROVE  Lengths(s) \in Seq(Nat) /\ Len(Lengths(s)) = Len(s)
    OBVIOUS
  <2>1. Len(s) \in Nat /\ \A i \in 1 .. Len(s) : s[i].n \in Nat
    BY <1>1, LenProperties, ElementOfSeq
  <2>2. Lengths(s) \in [1 .. Len(s) -> Nat]
    BY <2>1 DEF Lengths
  <2>. QED
    BY <2>1, <2>2, SeqDef
<1>3. Len(w) \in Nat /\ (w # <<>> => Len(w) # 0)
    BY LenProperties, EmptySeq
<1>4. ASSUME w # <<>>
      PROVE  /\ Lengths(w) # <<>> /\ Lengths(w)[1] = Head(w).n
             /\ Lengths(Tail(w)) = Tail(Lengths(w))
             /\ Head(w) \in Messages /\ Tail(w) \in Seq(Messages)
  <2>1. /\ Tail(w) \in Seq(Messages) /\ Len(Tail(w)) = Len(w) - 1
        /\ \A i \in 1 .. Len(w) - 1 : Tail(w)[i] = w[i + 1]
        /\ Head(w) = w[1] /\ Head(w) \in Messages
    BY <1>4, HeadTailProperties
  <2>2. Lengths(w) # <<>>
    BY <1>2, <1>3, <1>4, EmptySeq
  <2>3. /\ Tail(Lengths(w)) \in Seq(Nat) /\ Len(Tail(Lengths(w))) = Len(w) - 1
        /\ \A i \in 1 .. Len(w) - 1 : Tail(Lengths(w))[i] = Lengths(w)[i + 1]
    BY <1>2, <2>2, HeadTailProperties
  <2>4. Lengths(Tail(w)) \in Seq(Nat) /\ Len(Lengths(Tail(w))) = Len(w) - 1
    BY <1>2, <2>1
  <2>5. ASSUME NEW i \in 1 .. Len(w) - 1 PROVE Lengths(Tail(w))[i] = Tail(Lengths(w))[i]
    <3>1. i + 1 \in 1 .. Len(w)
      BY <1>3
    <3>2. Lengths(w)[i + 1] = w[i + 1].n
      BY <3>1 DEF Lengths
    <3>3. Lengths(Tail(w))[i] = w[i + 1].n
      BY <2>1 DEF Lengths
    <3>. QED
      BY <2>3, <3>2, <3>3
  <2>6. Lengths(Tail(w)) = Tail(Lengths(w))
    BY <2>3, <2>4, <2>5, SeqEqual
  <2>7. Lengths(w)[1] = w[1].n
    BY <1>3, <1>4 DEF Lengths
  <2>. QED
    BY <2>1, <2>2, <2>6, <2>7
<1>5. ASSUME NEW m \in Messages
      PROVE  Lengths(Append(w, m)) = Append(Lengths(w), m.n) /\ Append(w, m) \in Seq(Messages)
  <2>1. /\ Append(w, m) \in Seq(Messages) /\ Len(Append(w, m)) = Len(w) + 1
        /\ \A i \in 1 .. Len(w) : Append(w, m)[i] = w[i]
        /\ Append(w, m)[Len(w) + 1] = m
    BY AppendProperties
  <2>2. /\ Append(Lengths(w), m.n) \in Seq(Nat) /\ Len(Append(Lengths(w), m.n)) = Len(w) + 1
        /\ \A i \in 1 .. Len(w) : Append(Lengths(w), m.n)[i] = Lengths(w)[i]
        /\ Append(Lengths(w), m.n)[Len(w) + 1] = m.n
    BY <1>1, <1>2, AppendProperties
  <2>3. Lengths(Append(w, m)) \in Seq(Nat) /\ Len(Lengths(Append(w, m))) = Len(w) + 1
    BY <1>2, <2>1
  <2>4. ASSUME NEW i \in 1 .. Len(w) + 1 PROVE Lengths(Append(w, m))[i] = Append(Lengths(w), m.n)[i]
    <3>1. Lengths(Append(w, m))[i] = Append(w, m)[i].n
      BY <2>1 DEF Lengths
    <3>2. CASE i \in 1 .. Len(w)
      <4>1. Lengths(w)[i] = w[i].n
        BY <3>2 DEF Lengths
      <4>. QED
        BY <2>1, <2>2, <3>1, <3>2, <4>1
    <3>3. CASE i = Len(w) + 1
      BY <2>1, <2>2, <3>1, <3>3
    <3>4. Len(w) \in Nat
      BY <1>3
    <3>5. i \in 1 .. Len(w) \/ i = Len(w) + 1
      BY <3>4
    <3>. QED
      BY <3>2, <3>3, <3>5
  <2>. QED
    BY <2>1, <2>2, <2>3, <2>4, SeqEqual
<1>. QED
    BY <1>2, <1>4, <1>5

\* The next chunk is part of what was said.
LEMMA ChunkTaken ==
    ASSUME HandshakeTypes, TextIsCut, inbox # <<>>
    PROVE  /\ Head(inbox) = inbox[1] /\ inbox[1] \in Nat /\ Tail(inbox) \in Seq(0 .. MaxChunk)
           /\ seen + inbox[1] \in Nat /\ seen + inbox[1] <= Len(said)
           /\ \E m \in 0 .. Len(said) :
                  Fits(Tail(inbox), seen + inbox[1], m) /\ Fits(Lengths(wire), m, Len(said))
<1>1. inbox \in Seq(0 .. MaxChunk) /\ inbox \in Seq(Nat) /\ wire \in Seq(Messages) /\ seen \in Nat
      /\ Len(said) \in Nat
  <2>1. inbox \in Seq(0 .. MaxChunk) /\ wire \in Seq(Messages) /\ seen \in Nat /\ Len(said) \in Nat
    BY LenProperties DEF HandshakeTypes
  <2>2. DOMAIN inbox = 1 .. Len(inbox) /\ Len(inbox) \in Nat /\ inbox \in [1 .. Len(inbox) -> 0 .. MaxChunk]
    BY <2>1, LenProperties
  <2>3. inbox \in [1 .. Len(inbox) -> Nat]
    BY <2>2
  <2>. QED
    BY <2>1, <2>2, <2>3, SeqDef
<1>2. PICK m \in 0 .. Len(said) : Fits(inbox, seen, m) /\ Fits(Lengths(wire), m, Len(said))
    BY DEF TextIsCut
<1>3. m \in Nat /\ m <= Len(said)
    BY <1>1, <1>2
<1>4. Fits(Tail(inbox), seen + inbox[1], m) /\ Head(inbox) = inbox[1] /\ inbox[1] \in Nat
    BY <1>1, <1>2, <1>3, FitsTail
<1>5. seen + inbox[1] <= m
    BY <1>1, <1>2, <1>3, FitsBounds
<1>6. Tail(inbox) \in Seq(0 .. MaxChunk)
    BY <1>1, HeadTailProperties
<1>7. seen + inbox[1] \in Nat /\ seen + inbox[1] <= Len(said)
    BY <1>1, <1>3, <1>4, <1>5
<1>. QED
    BY <1>2, <1>4, <1>6, <1>7

\* The wire goes, and what was on it.
LEMMA WireCut ==
    ASSUME HandshakeTypes, TextIsCut,
           NEW q, NEW n, \E m \in 0 .. Len(said) : Fits(q, n, m) /\ Fits(Lengths(wire), m, Len(said))
    PROVE  \E m \in 0 .. Len(said) : Fits(q, n, m) /\ Fits(Lengths(<<>>), m, Len(said))
<1>1. PICK m \in 0 .. Len(said) : Fits(q, n, m) /\ Fits(Lengths(wire), m, Len(said))
    OBVIOUS
<1>2. Len(said) \in Nat /\ m \in Nat /\ m <= Len(said)
  <2>1. Len(said) \in Nat
    BY LenProperties DEF HandshakeTypes
  <2>. QED
    BY <1>1, <2>1
<1>3. Lengths(<<>>) = <<>>
    BY DEF Lengths
<1>4. Fits(<<>>, m, Len(said))
    BY <1>2, FitsNone
<1>. QED
    BY <1>1, <1>3, <1>4

\* The reader moves a message from the wire: a chunk of its length, or an end.
LEMMA WireToInbox ==
    ASSUME HandshakeTypes, TextIsCut, wire # <<>>
    PROVE  /\ \E m \in 0 .. Len(said) : Fits(inbox, seen, m) /\ Fits(Lengths(Tail(wire)), m, Len(said))
           /\ \E m \in 0 .. Len(said) :
                  Fits(Append(inbox, 0), seen, m) /\ Fits(Lengths(Tail(wire)), m, Len(said))
           /\ \E m \in 0 .. Len(said) :
                  Fits(Append(inbox, Head(wire).n), seen, m) /\ Fits(Lengths(Tail(wire)), m, Len(said))
           /\ Tail(wire) \in Seq(Messages) /\ Head(wire) \in Messages /\ Head(wire).n \in 0 .. MaxChunk
           /\ \A n \in 0 .. MaxChunk : Append(inbox, n) \in Seq(0 .. MaxChunk)
<1>1. inbox \in Seq(0 .. MaxChunk) /\ inbox \in Seq(Nat) /\ wire \in Seq(Messages) /\ seen \in Nat
      /\ Len(said) \in Nat
  <2>1. inbox \in Seq(0 .. MaxChunk) /\ wire \in Seq(Messages) /\ seen \in Nat /\ Len(said) \in Nat
    BY LenProperties DEF HandshakeTypes
  <2>2. DOMAIN inbox = 1 .. Len(inbox) /\ Len(inbox) \in Nat /\ inbox \in [1 .. Len(inbox) -> 0 .. MaxChunk]
    BY <2>1, LenProperties
  <2>3. inbox \in [1 .. Len(inbox) -> Nat]
    BY <2>2
  <2>. QED
    BY <2>1, <2>2, <2>3, SeqDef
<1>2. PICK m \in 0 .. Len(said) : Fits(inbox, seen, m) /\ Fits(Lengths(wire), m, Len(said))
    BY DEF TextIsCut
<1> DEFINE n == Head(wire).n
<1>3. /\ Lengths(wire) \in Seq(Nat) /\ Lengths(wire) # <<>> /\ Lengths(wire)[1] = n
      /\ Lengths(Tail(wire)) = Tail(Lengths(wire)) /\ Head(wire) \in Messages
      /\ Tail(wire) \in Seq(Messages)
    BY <1>1, LengthsFacts
<1>4. n \in 0 .. MaxChunk /\ n \in Nat /\ 0 \in 0 .. MaxChunk
    BY <1>3, HandshakeAssumption DEF Messages
<1> HIDE DEF n
<1>5. m \in Nat /\ m <= Len(said)
    BY <1>1, <1>2
<1>6. Fits(Lengths(Tail(wire)), m + n, Len(said)) /\ m + n <= Len(said)
    BY <1>1, <1>2, <1>3, <1>5, FitsTail, FitsBounds
<1>7. m + n \in Nat /\ m + n \in 0 .. Len(said) /\ m <= m + n /\ m + n <= m + n /\ m + 0 <= m + n
    BY <1>1, <1>4, <1>5, <1>6
<1>8. Fits(inbox, seen, m + n)
    BY <1>1, <1>2, <1>5, <1>7, FitsWider
<1>9. Fits(Append(inbox, 0), seen, m + n) /\ Fits(Append(inbox, n), seen, m + n)
    BY <1>1, <1>2, <1>4, <1>5, <1>7, FitsAppend
<1>10. \A k \in 0 .. MaxChunk : Append(inbox, k) \in Seq(0 .. MaxChunk)
    BY <1>1, AppendProperties
<1>. QED
    BY <1>3, <1>4, <1>6, <1>7, <1>8, <1>9, <1>10 DEF n

LEMMA Places ==
    /\ \A a, b \in Nat : a <= a /\ a <= a + b
    /\ \A a, b, c \in Nat : a <= b /\ b <= c => a <= c
OBVIOUS

LEMMA WhereFacts ==
    ASSUME NEW S, NEW a \in Nat, NEW b \in Nat
    PROVE  /\ Where(S, a, b) \in SUBSET Nat /\ IsFiniteSet(Where(S, a, b))
           /\ Where(S, a, b) \in SUBSET (0 .. b)
           /\ \A p : p \in Where(S, a, b) <=> p \in a + 1 .. b /\ said[p] \in S
<1>1. \A p : p \in Where(S, a, b) <=> p \in a + 1 .. b /\ said[p] \in S
    BY DEF Where
<1>2. Where(S, a, b) \in SUBSET (0 .. b) /\ Where(S, a, b) \in SUBSET Nat
    BY <1>1
<1>3. IsFiniteSet(0 .. b)
    BY FS_Interval
<1>. QED
    BY <1>1, <1>2, <1>3, FS_Subset

\* What is shown next comes after what was shown.
LEMMA ShowsMore ==
    ASSUME ShownSoFar, shown \in Seq(Nat), emitted \in Nat, NEW b \in Nat, emitted <= b
    PROVE  LET q == shown \o Visible(emitted, b)
           IN  q \in Seq(Nat) /\ Increasing(q) /\ \A i \in DOMAIN q : q[i] <= b
<1> DEFINE S == {p \in emitted + 1 .. b : said[p] \notin Breaks}
           v == Ascending(S)
           q == shown \o v
<1>1. S \in SUBSET Nat /\ IsFiniteSet(S) /\ \A p \in S : p > emitted /\ p <= b
  <2>1. S \in SUBSET (0 .. b)
    OBVIOUS
  <2>2. IsFiniteSet(0 .. b)
    BY FS_Interval
  <2>3. IsFiniteSet(S)
    BY <2>1, <2>2, FS_Subset
  <2>. QED
    BY <2>1, <2>3
<1>2. Visible(emitted, b) = v
    BY DEF Visible
<1> HIDE DEF S
<1>3. v \in [1 .. Cardinality(S) -> S] /\ Increasing(v) /\ Range(v) = S /\ Cardinality(S) \in Nat
    BY <1>1, AscendingFacts, AscendingRange
<1> HIDE DEF v
<1>4. v \in Seq(Nat)
  <2>1. v \in [1 .. Cardinality(S) -> Nat]
    BY <1>1, <1>3
  <2>. QED
    BY <1>3, <2>1, SeqDef
<1>5. DOMAIN shown = 1 .. Len(shown) /\ \A x \in Range(shown) : x \in Nat /\ x <= emitted
  <2>1. DOMAIN shown = 1 .. Len(shown) /\ \A x \in Range(shown) : x \in Nat /\ \E i \in DOMAIN shown : shown[i] = x
    BY RangeFacts
  <2>. QED
    BY <2>1 DEF ShownSoFar
<1>6. \A x \in Range(shown), y \in Range(v) : x < y
  <2> SUFFICES ASSUME NEW x \in Range(shown), NEW y \in Range(v) PROVE x < y
    OBVIOUS
  <2>1. x \in Nat /\ x <= emitted
    BY <1>5
  <2>2. y \in Nat /\ y > emitted
    BY <1>1, <1>3
  <2>. QED
    BY <2>1, <2>2
<1>7. Nat \in SUBSET Int /\ Increasing(shown)
    BY DEF ShownSoFar
<1>8. q \in Seq(Nat) /\ Increasing(q) /\ Range(q) = Range(shown) \union Range(v)
    BY <1>3, <1>4, <1>6, <1>7, IncreasingConcat
<1> HIDE DEF q
<1>9. \A x \in Range(q) : x <= b
  <2> SUFFICES ASSUME NEW x \in Range(q) PROVE x <= b
    OBVIOUS
  <2>1. CASE x \in Range(shown)
    <3>1. x \in Nat /\ x <= emitted
      BY <1>5, <2>1
    <3>. QED
      BY <3>1
  <2>2. CASE x \in Range(v)
    BY <1>1, <1>3, <2>2
  <2>. QED
    BY <1>8, <2>1, <2>2
<1>10. \A i \in DOMAIN q : q[i] \in Range(q)
    BY DEF Range
<1>. QED
    BY <1>2, <1>8, <1>9, <1>10 DEF q

LEMMA AskedFacts ==
    ASSUME HandshakeTypes, NEW x \in {"auth", "open", "cmd", "record"}, asked' = Append(asked, x)
    PROVE  /\ asked' \in Seq({"auth", "open", "cmd", "record"})
           /\ x # "record" => (Recorded' <=> Recorded)
<1>1. /\ asked \in Seq({"auth", "open", "cmd", "record"}) /\ DOMAIN asked = 1 .. Len(asked) /\ Len(asked) \in Nat
    BY LenProperties DEF HandshakeTypes
<1>2. /\ asked' \in Seq({"auth", "open", "cmd", "record"}) /\ Len(asked') = Len(asked) + 1
      /\ \A i \in 1 .. Len(asked) : asked'[i] = asked[i]
      /\ asked'[Len(asked) + 1] = x
    BY <1>1, AppendProperties
<1>3. DOMAIN asked' = 1 .. Len(asked) + 1
    BY <1>1, <1>2, LenProperties
<1>4. ASSUME x # "record" PROVE Recorded' <=> Recorded
  <2>1. ASSUME Recorded PROVE Recorded'
    <3>1. PICK i \in 1 .. Len(asked) : asked[i] = "record"
      BY <1>1, <2>1 DEF Recorded
    <3>2. i \in DOMAIN asked' /\ asked'[i] = "record"
      BY <1>1, <1>2, <1>3, <3>1
    <3>. QED
      BY <3>2 DEF Recorded
  <2>2. ASSUME Recorded' PROVE Recorded
    <3>1. PICK i \in 1 .. Len(asked) + 1 : asked'[i] = "record"
      BY <1>3, <2>2 DEF Recorded
    <3>2. i # Len(asked) + 1
      BY <1>2, <1>4, <3>1
    <3>3. i \in 1 .. Len(asked)
      BY <1>1, <3>1, <3>2
    <3>. QED
      BY <1>1, <1>2, <3>1, <3>3 DEF Recorded
  <2>. QED
    BY <2>1, <2>2
<1>. QED
    BY <1>2, <1>4

\* What is shown and met stands where the script takes no step.
LEMMA ScriptRests ==
    ASSUME ScriptInv, UNCHANGED <<step, base, seen, emitted, shown, met, said>>
    PROVE  ShownSoFar' /\ MetSoFar'
BY DEF ScriptInv, ShownSoFar, MetSoFar

LEMMA OpenKeeps ==
    ASSUME ScriptInv, Open
    PROVE  ScriptInv'
<1>1. /\ at = "start" /\ at' \in {"auth", "open"} /\ reply' \in {reply, "pending"}
      /\ reader' \in {reader, "running"}
      /\ asked' = <<"auth">> \/ asked' = <<"open">>
      /\ UNCHANGED <<step, base, seen, emitted, shown, met, inbox, wire, tcp, said, from, frames, why>>
    BY DEF Open, scriptVars, nodeVars, frameVars
<1>2. asked' \in Seq({"auth", "open", "cmd", "record"}) /\ ~Recorded'
  <2>1. <<"auth">> \in Seq({"auth", "open", "cmd", "record"}) /\ <<"open">> \in Seq({"auth", "open", "cmd", "record"})
    OBVIOUS
  <2>2. \A i \in DOMAIN asked' : asked'[i] # "record"
    <3>1. \A i \in DOMAIN <<"auth">> : <<"auth">>[i] # "record"
      OBVIOUS
    <3>2. \A i \in DOMAIN <<"open">> : <<"open">>[i] # "record"
      OBVIOUS
    <3>. QED
      BY <1>1, <3>1, <3>2
  <2>. QED
    BY <1>1, <2>1, <2>2 DEF Recorded
<1>3. HandshakeTypes'
    BY <1>1, <1>2 DEF ScriptInv, HandshakeTypes
<1>4. TextIsCut'
    BY <1>1 DEF ScriptInv, TextIsCut
<1>5. ScriptStands' /\ Decoded'
    BY <1>1, <1>2 DEF ScriptInv, ScriptStands, Decoded
<1>. QED
    BY <1>1, <1>3, <1>4, <1>5, ScriptRests DEF ScriptInv

\* A close: the wire and the reader go, a chunk may have been taken before it.
LEMMA ShutKeeps ==
    ASSUME ScriptInv, NEW r \in {"refused", "error", "eof", "given up", "garbage"}, Shut(r),
           UNCHANGED <<step, base, met, reply, said, from, frames, asked>>,
           ShownSoFar', emitted' \in Nat, shown' \in Seq(Nat),
           \/ UNCHANGED <<inbox, seen>>
           \/ inbox # <<>> /\ inbox' = Tail(inbox) /\ seen' = seen + inbox[1]
    PROVE  ScriptInv'
<1>1. at' = "down" /\ why' = r /\ reader' \in {reader, "ended"} /\ tcp' = FALSE /\ wire' = <<>>
    BY DEF Shut
<1>2. HandshakeTypes /\ TextIsCut
    BY DEF ScriptInv
<1>3. /\ inbox' \in Seq(0 .. MaxChunk) /\ seen' \in Nat /\ seen <= seen'
      /\ \E m \in 0 .. Len(said) : Fits(inbox', seen', m) /\ Fits(Lengths(wire), m, Len(said))
  <2>0. seen \in Nat /\ seen <= seen
    <3>1. seen \in Nat
      BY <1>2 DEF HandshakeTypes
    <3>. QED
      BY <3>1, Places
  <2>1. CASE UNCHANGED <<inbox, seen>>
    BY <1>2, <2>0, <2>1 DEF HandshakeTypes, TextIsCut
  <2>2. CASE inbox # <<>> /\ inbox' = Tail(inbox) /\ seen' = seen + inbox[1]
    <3>1. inbox[1] \in Nat
      BY <1>2, <2>2, ChunkTaken
    <3>2. seen <= seen'
      BY <2>0, <2>2, <3>1, Places
    <3>. QED
      BY <1>2, <2>2, <3>2, ChunkTaken
  <2>. QED
    BY <2>1, <2>2
<1>4. TextIsCut'
    BY <1>1, <1>2, <1>3, WireCut DEF TextIsCut
<1>5. HandshakeTypes'
  <2>1. wire' \in Seq(Messages)
    BY <1>1, EmptySeq
  <2>. QED
    BY <1>1, <1>2, <1>3, <2>1 DEF HandshakeTypes
<1>6. MetSoFar'
  <2>1. base <= seen'
    <3>1. base \in Nat /\ seen \in Nat /\ base <= seen
      BY <1>2 DEF ScriptInv, MetSoFar, HandshakeTypes
    <3>. QED
      BY <1>3, <3>1, Places
  <2>. QED
    BY <2>1 DEF ScriptInv, MetSoFar
<1>7. ScriptStands' /\ Decoded'
    BY <1>1 DEF ScriptInv, ScriptStands, Recorded, Decoded
<1>. QED
    BY <1>4, <1>5, <1>6, <1>7 DEF ScriptInv

LEMMA AuthAnsweredKeeps ==
    ASSUME ScriptInv, AuthAnswered
    PROVE  ScriptInv'
<1>1. UNCHANGED <<step, base, seen, emitted, shown, met, inbox, said, from, frames>> /\ at = "auth"
    BY DEF AuthAnswered, scriptVars, frameVars
<1>2. HandshakeTypes /\ TextIsCut
    BY DEF ScriptInv
<1>3. CASE /\ wire # <<>> /\ at' = "open" /\ reply' = "pending" /\ reader' = "running"
           /\ wire' = Tail(wire) /\ asked' = Append(asked, "open")
           /\ UNCHANGED <<tcp, why>>
  <2>1. /\ wire' \in Seq(Messages)
        /\ \E m \in 0 .. Len(said) : Fits(inbox, seen, m) /\ Fits(Lengths(wire'), m, Len(said))
    BY <1>2, <1>3, WireToInbox
  <2>2. asked' \in Seq({"auth", "open", "cmd", "record"}) /\ (Recorded' <=> Recorded)
    BY <1>2, <1>3, AskedFacts
  <2>3. HandshakeTypes'
    BY <1>1, <1>2, <1>3, <2>1, <2>2 DEF HandshakeTypes
  <2>4. TextIsCut'
    BY <1>1, <2>1 DEF TextIsCut
  <2>5. ScriptStands' /\ Decoded'
    BY <1>1, <1>3, <2>2 DEF ScriptInv, ScriptStands, Decoded
  <2>. QED
    BY <1>1, <2>3, <2>4, <2>5, ScriptRests DEF ScriptInv
<1>4. CASE Shut("refused") /\ UNCHANGED <<reply, asked>>
  <2>1. emitted' \in Nat /\ shown' \in Seq(Nat)
    BY <1>1, <1>2 DEF HandshakeTypes
  <2>. QED
    BY <1>1, <1>4, <2>1, ScriptRests, ShutKeeps
<1>. QED
    BY <1>3, <1>4 DEF AuthAnswered

LEMMA ReaderKeeps ==
    ASSUME ScriptInv, Reader
    PROVE  ScriptInv'
<1>1. UNCHANGED <<at, step, base, seen, emitted, shown, met, tcp, said, from, frames, asked, why>>
    BY DEF Reader, ReaderTakes, ReaderLoses, scriptVars, frameVars, nodeVars
<1>2. HandshakeTypes /\ TextIsCut
    BY DEF ScriptInv
<1>3. /\ inbox' \in Seq(0 .. MaxChunk) /\ wire' \in Seq(Messages)
      /\ \E m \in 0 .. Len(said) : Fits(inbox', seen, m) /\ Fits(Lengths(wire'), m, Len(said))
      /\ reply' \in {"none", "pending", "ok", "err"} /\ reader' \in {"none", "running", "ended"}
  <2>1. CASE ReaderLoses
    <3>1. wire' = wire /\ inbox' = Append(inbox, 0) /\ reply' = reply /\ reader' = "ended"
      BY <2>1 DEF ReaderLoses, nodeVars
    <3>2. PICK m \in 0 .. Len(said) : Fits(inbox, seen, m) /\ Fits(Lengths(wire), m, Len(said))
      BY <1>2 DEF TextIsCut
    <3>3. inbox \in Seq(0 .. MaxChunk) /\ seen \in Nat /\ m \in Nat /\ m + 0 <= m /\ 0 \in 0 .. MaxChunk
      <4>1. inbox \in Seq(0 .. MaxChunk) /\ seen \in Nat /\ Len(said) \in Nat
        BY <1>2, LenProperties DEF HandshakeTypes
      <4>2. m \in Nat /\ m + 0 <= m /\ 0 \in 0 .. MaxChunk
        BY <4>1, HandshakeAssumption
      <4>. QED
        BY <4>1, <4>2
    <3>4. inbox \in Seq(Nat)
      <4>1. Len(inbox) \in Nat /\ inbox \in [1 .. Len(inbox) -> 0 .. MaxChunk]
        BY <3>3, LenProperties
      <4>2. inbox \in [1 .. Len(inbox) -> Nat]
        BY <4>1
      <4>. QED
        BY <4>1, <4>2, SeqDef
    <3>5. Fits(Append(inbox, 0), seen, m)
      BY <3>2, <3>3, <3>4, FitsAppend
    <3>6. Append(inbox, 0) \in Seq(0 .. MaxChunk)
      BY <3>3, AppendProperties
    <3>. QED
      BY <1>2, <3>1, <3>2, <3>5, <3>6 DEF HandshakeTypes
  <2>2. CASE ReaderTakes
    <3>1. wire # <<>> /\ wire' = Tail(wire)
      BY <2>2 DEF ReaderTakes
    <3>2. 0 \in 0 .. MaxChunk
      BY HandshakeAssumption
    <3>3. CASE reply' \in {"ok", "err", reply} /\ UNCHANGED <<inbox, reader>>
      BY <1>2, <3>1, <3>3, WireToInbox DEF HandshakeTypes
    <3>4. CASE inbox' = Append(inbox, 0) /\ reader' = "ended" /\ UNCHANGED reply
      BY <1>2, <3>1, <3>2, <3>4, WireToInbox DEF HandshakeTypes
    <3>5. CASE inbox' = Append(inbox, Head(wire).n) /\ UNCHANGED <<reply, reader>>
      BY <1>2, <3>1, <3>5, WireToInbox DEF HandshakeTypes
    <3>. QED
      BY <2>2, <3>3, <3>4, <3>5 DEF ReaderTakes, sessionVars
  <2>. QED
    BY <2>1, <2>2 DEF Reader
<1>4. HandshakeTypes'
    BY <1>1, <1>2, <1>3 DEF HandshakeTypes
<1>5. TextIsCut'
    BY <1>1, <1>3 DEF TextIsCut
<1>6. ScriptStands' /\ Decoded'
    BY <1>1 DEF ScriptInv, ScriptStands, Recorded, Decoded, Where, Cuts, Blank, Start
<1>. QED
    BY <1>1, <1>4, <1>5, <1>6, ScriptRests DEF ScriptInv

LEMMA OpenRepliedKeeps ==
    ASSUME ScriptInv, OpenReplied
    PROVE  ScriptInv'
<1>1. /\ UNCHANGED <<base, seen, emitted, shown, met, reply, inbox, said, from, frames>> /\ at = "open"
      /\ HandshakeTypes /\ TextIsCut
    BY DEF OpenReplied, frameVars, ScriptInv
<1>2. CASE /\ at' = (IF Steps = <<>> THEN "ready" ELSE "hop")
           /\ step' = (IF Steps = <<>> THEN 0 ELSE 1)
           /\ asked' = (IF Steps # <<>> /\ Steps[1] = "cmd" THEN Append(asked, "cmd") ELSE asked)
           /\ UNCHANGED <<reader, tcp, wire, why>>
  <2>1. asked' \in Seq({"auth", "open", "cmd", "record"}) /\ (Recorded' <=> Recorded)
    <3>1. CASE asked' = asked
      BY <1>1, <3>1 DEF HandshakeTypes, Recorded
    <3>2. CASE asked' = Append(asked, "cmd")
      BY <1>1, <3>2, AskedFacts
    <3>. QED
      BY <1>2, <3>1, <3>2
  <2>2. Len(Steps) \in Nat /\ (Steps = <<>> => Len(Steps) = 0) /\ (Steps # <<>> => Len(Steps) > 0)
    BY HandshakeAssumption, LenProperties, EmptySeq
  <2>3. step' \in 0 .. Len(Steps)
    BY <1>2, <2>2
  <2>4. HandshakeTypes'
    BY <1>1, <1>2, <2>1, <2>3 DEF HandshakeTypes
  <2>5. ShownSoFar' /\ MetSoFar' /\ TextIsCut'
    BY <1>1, <1>2 DEF ScriptInv, ShownSoFar, MetSoFar, TextIsCut
  <2>6. ScriptStands'
    <3>1. base = 0 /\ emitted = 0 /\ Len(met) = 0 /\ ~Recorded /\ Len(frames) = 0
      BY <1>1 DEF ScriptInv, ScriptStands
    <3>2. \A p : p \in 0 + 1 .. 0 => FALSE
      OBVIOUS
    <3>3. Where({"V"}, base, emitted)' = {}
      BY <1>1, <3>1, <3>2 DEF Where
    <3>. QED
      BY <1>1, <1>2, <2>1, <2>2, <3>1, <3>3 DEF ScriptStands
  <2>7. Decoded'
    BY <1>2 DEF Decoded
  <2>. QED
    BY <2>4, <2>5, <2>6, <2>7 DEF ScriptInv
<1>3. CASE Shut("refused") /\ UNCHANGED <<asked, step>>
  <2>1. emitted' \in Nat /\ shown' \in Seq(Nat)
    BY <1>1 DEF HandshakeTypes
  <2>. QED
    BY <1>1, <1>3, <2>1, ScriptRests, ShutKeeps
<1>. QED
    BY <1>2, <1>3 DEF OpenReplied

\* What is next met comes after what was met, and after all that was shown.
LEMMA MatchFacts ==
    ASSUME ScriptInv, Matches
    PROVE  LET match == Min(Where({"V"}, base, seen))
           IN  /\ match \in Nat /\ match > base /\ match > emitted /\ match <= seen /\ said[match] = "V"
               /\ Consumed(match) \in Nat /\ match <= Consumed(match) /\ Consumed(match) <= seen
<1> DEFINE W == Where({"V"}, base, seen)
           match == Min(W)
           B == Where(Breaks, match, seen)
<1>1. /\ HandshakeTypes /\ at = "hop" /\ W # {}
      /\ base \in Nat /\ seen \in Nat /\ emitted \in Nat /\ base <= emitted
      /\ Where({"V"}, base, emitted) = {}
    BY DEF ScriptInv, HandshakeTypes, Matches, ScriptStands
<1>2. /\ W \in SUBSET Nat /\ \A p : p \in W <=> p \in base + 1 .. seen /\ said[p] \in {"V"}
      /\ \A p : p \in Where({"V"}, base, emitted) <=> p \in base + 1 .. emitted /\ said[p] \in {"V"}
    BY <1>1, WhereFacts
<1> HIDE DEF W
<1>3. match \in W
    BY <1>1, <1>2, MinFacts
<1> HIDE DEF match
<1>4. match \in base + 1 .. seen /\ said[match] = "V"
    BY <1>2, <1>3
<1>5. match \in Nat /\ match > base /\ match <= seen
    BY <1>1, <1>4
<1>6. ~(match <= emitted)
  <2>1. match \notin base + 1 .. emitted
    BY <1>1, <1>2, <1>4
  <2>. QED
    BY <1>1, <1>5, <2>1
<1>7. B \in SUBSET Nat /\ \A p : p \in B <=> p \in match + 1 .. seen /\ said[p] \in Breaks
    BY <1>1, <1>5, WhereFacts
<1>8. Consumed(match) = match \/ (B # {} /\ Consumed(match) = Min(B))
    BY DEF Consumed
<1> HIDE DEF B
<1>9. B # {} => Min(B) \in match + 1 .. seen
    BY <1>7, MinFacts
<1>10. Consumed(match) = match \/ Consumed(match) \in match + 1 .. seen
    BY <1>8, <1>9
<1>11. Consumed(match) \in Nat /\ match <= Consumed(match) /\ Consumed(match) <= seen
  <2>1. PICK c : c = Consumed(match)
    OBVIOUS
  <2>. QED
    BY <1>1, <1>5, <1>10, <2>1
<1>12. match > emitted
    BY <1>1, <1>5, <1>6
<1>. QED
    BY <1>4, <1>5, <1>11, <1>12 DEF match, W

LEMMA MatchedKeeps ==
    ASSUME ScriptInv, Matched
    PROVE  ScriptInv'
<1>0. PICK match : match = Min(Where({"V"}, base, seen))
    OBVIOUS
<1>1. PICK c : c = Consumed(match)
    OBVIOUS
<1>2. /\ at = "hop" /\ met' = Append(met, match) /\ base' = c /\ emitted' = c
      /\ shown' = (IF Showing THEN shown \o Visible(emitted, c) ELSE shown)
      /\ UNCHANGED <<seen, reply, reader, inbox, wire, tcp, said, from, frames, why>>
    BY <1>0, <1>1 DEF Matched, Matches, sessionVars, nodeVars, frameVars
<1>3. HandshakeTypes /\ TextIsCut
    BY DEF ScriptInv
<1>4. /\ match \in Nat /\ match > base /\ match > emitted /\ match <= seen /\ said[match] = "V"
      /\ c \in Nat /\ match <= c /\ c <= seen
    BY <1>0, <1>1, MatchFacts DEF Matched
<1>5. base \in Nat /\ seen \in Nat /\ emitted \in Nat /\ shown \in Seq(Nat) /\ met \in Seq(Nat)
    BY <1>3 DEF HandshakeTypes
<1>6. emitted <= c /\ base <= c
    BY <1>4, <1>5
<1>7. shown' \in Seq(Nat) /\ ShownSoFar'
  <2>1. CASE Showing
    <3>1. LET q == shown \o Visible(emitted, c)
          IN  q \in Seq(Nat) /\ Increasing(q) /\ \A i \in DOMAIN q : q[i] <= c
      BY <1>4, <1>5, <1>6, ShowsMore DEF ScriptInv
    <3>2. shown' = shown \o Visible(emitted, c)
      BY <1>2, <2>1
    <3>. QED
      BY <1>2, <1>4, <3>1, <3>2 DEF ShownSoFar
  <2>2. CASE ~Showing
    <3>1. shown' = shown
      BY <1>2, <2>2
    <3>2. \A i \in DOMAIN shown : shown[i] <= c
      <4> SUFFICES ASSUME NEW i \in DOMAIN shown PROVE shown[i] <= c
        OBVIOUS
      <4>1. shown[i] \in Nat /\ shown[i] <= emitted
        BY <1>5, RangeFacts, ElementOfSeq DEF ScriptInv, ShownSoFar
      <4>. QED
        BY <1>4, <1>5, <1>6, <4>1
    <3>. QED
      BY <1>2, <1>4, <1>5, <3>1, <3>2 DEF ScriptInv, ShownSoFar
  <2>. QED
    BY <2>1, <2>2
<1>8. /\ DOMAIN met = 1 .. Len(met) /\ Len(met) \in Nat
      /\ \A i \in 1 .. Len(met) : met[i] \in 1 .. base /\ said[met[i]] = "V"
    BY <1>5, LenProperties DEF ScriptInv, MetSoFar
<1>9. /\ met' \in Seq(Nat) /\ Len(met') = Len(met) + 1
      /\ \A i \in 1 .. Len(met) : met'[i] = met[i]
      /\ met'[Len(met) + 1] = match
    BY <1>2, <1>4, <1>5, AppendProperties
<1>10. DOMAIN met' = 1 .. Len(met) + 1
    BY <1>8, <1>9, LenProperties
<1>11. MetSoFar'
  <2>1. Increasing(met')
    <3> SUFFICES ASSUME NEW i \in 1 .. Len(met) + 1, NEW j \in 1 .. Len(met) + 1, i < j
                 PROVE  met'[i] < met'[j]
      BY <1>10 DEF Increasing
    <3>1. i \in 1 .. Len(met) /\ met[i] \in 1 .. base
      BY <1>8
    <3>2. CASE j \in 1 .. Len(met)
      <4>1. met[i] < met[j]
        BY <1>8, <3>1, <3>2 DEF ScriptInv, MetSoFar, Increasing
      <4>. QED
        BY <1>9, <3>1, <3>2, <4>1
    <3>3. CASE j = Len(met) + 1
      <4>1. met'[j] = match /\ met'[i] = met[i]
        BY <1>9, <3>1, <3>3
      <4>. QED
        BY <1>4, <1>5, <3>1, <4>1
    <3>4. j \in 1 .. Len(met) \/ j = Len(met) + 1
      BY <1>8
    <3>. QED
      BY <3>2, <3>3, <3>4
  <2>2. ASSUME NEW i \in 1 .. Len(met) + 1 PROVE met'[i] \in 1 .. c /\ said[met'[i]] = "V"
    <3>1. CASE i \in 1 .. Len(met)
      <4>1. met'[i] = met[i] /\ met[i] \in 1 .. base /\ said[met[i]] = "V"
        BY <1>8, <1>9, <3>1
      <4>2. met[i] \in 1 .. c
        BY <1>4, <1>5, <1>6, <4>1
      <4>. QED
        BY <4>1, <4>2
    <3>2. CASE i = Len(met) + 1
      <4>1. match \in 1 .. c
        BY <1>4, <1>5
      <4>. QED
        BY <1>4, <1>9, <3>2, <4>1
    <3>3. i \in 1 .. Len(met) \/ i = Len(met) + 1
      BY <1>8
    <3>. QED
      BY <3>1, <3>2, <3>3
  <2>. QED
    BY <1>2, <1>4, <1>10, <2>1, <2>2 DEF MetSoFar
<1>12. /\ step \in 0 .. Len(Steps) /\ Len(Steps) \in Nat /\ step > 0 /\ Len(met) = step - 1
       /\ ~Recorded /\ Len(frames) = 0
  <2>1. Len(Steps) \in Nat
    BY HandshakeAssumption, LenProperties
  <2>. QED
    BY <1>2, <1>3, <2>1 DEF ScriptInv, ScriptStands, HandshakeTypes
<1>13. TextIsCut'
    BY <1>2, <1>3 DEF TextIsCut
<1>14. CASE step < Len(Steps)
  <2>1. /\ step' = step + 1 /\ at' = at
        /\ asked' = (IF Steps[step + 1] = "cmd" THEN Append(asked, "cmd") ELSE asked)
    BY <1>14 DEF Matched
  <2>2. asked' \in Seq({"auth", "open", "cmd", "record"}) /\ (Recorded' <=> Recorded)
    <3>1. CASE asked' = asked
      BY <1>3, <3>1 DEF HandshakeTypes, Recorded
    <3>2. CASE asked' = Append(asked, "cmd")
      BY <1>3, <3>2, AskedFacts
    <3>. QED
      BY <2>1, <3>1, <3>2
  <2>3. step' \in 0 .. Len(Steps) /\ step' > 0 /\ Len(met') = step' - 1
    BY <1>9, <1>12, <1>14, <2>1
  <2>4. HandshakeTypes'
    BY <1>2, <1>3, <1>4, <1>7, <1>9, <2>1, <2>2, <2>3 DEF HandshakeTypes
  <2>5. Where({"V"}, base, emitted)' = {} /\ base' <= emitted'
    <3>1. \A p : p \in c + 1 .. c => FALSE
      BY <1>4
    <3>. QED
      BY <1>2, <1>4, <3>1 DEF Where
  <2>6. ScriptStands'
    BY <1>2, <1>12, <2>1, <2>2, <2>3, <2>5 DEF ScriptStands
  <2>7. Decoded'
    BY <1>2, <2>1 DEF Decoded
  <2>. QED
    BY <1>7, <1>11, <1>13, <2>4, <2>6, <2>7 DEF ScriptInv
<1>15. CASE ~(step < Len(Steps))
  <2>1. at' = "ready" /\ UNCHANGED <<step, asked>>
    BY <1>15 DEF Matched
  <2>2. Len(met') = Len(Steps)
    BY <1>9, <1>12, <1>15
  <2>3. HandshakeTypes'
    BY <1>2, <1>3, <1>4, <1>7, <1>9, <2>1 DEF HandshakeTypes
  <2>4. ScriptStands'
    BY <1>2, <1>12, <2>1, <2>2 DEF ScriptStands, Recorded
  <2>5. Decoded'
    BY <2>1 DEF Decoded
  <2>. QED
    BY <1>7, <1>11, <1>13, <2>3, <2>4, <2>5 DEF ScriptInv
<1>. QED
    BY <1>14, <1>15

LEMMA TakesChunkKeeps ==
    ASSUME ScriptInv, TakesChunk
    PROVE  ScriptInv'
<1> DEFINE lines == IF Showing THEN Where(Breaks, emitted, seen) ELSE {}
<1>0. PICK e : e = Max({emitted} \union lines)
    OBVIOUS
<1>1. /\ at = "hop" /\ ~Matches /\ emitted' = e /\ shown' = shown \o Visible(emitted, e)
      /\ inbox # <<>> /\ inbox' = Tail(inbox)
      /\ UNCHANGED <<step, base, met, reply, said, from, frames, asked>>
    BY <1>0 DEF TakesChunk, frameVars
<1>2. HandshakeTypes /\ TextIsCut /\ ShownSoFar /\ MetSoFar
    BY DEF ScriptInv
<1>3. /\ base \in Nat /\ seen \in Nat /\ emitted \in Nat /\ shown \in Seq(Nat) /\ emitted <= seen
      /\ base <= emitted
    BY <1>1, <1>2 DEF HandshakeTypes, ShownSoFar, ScriptInv, ScriptStands
<1>4. e \in Nat /\ emitted <= e /\ e <= seen
  <2> DEFINE S == {emitted} \union lines
  <2>1. lines \in SUBSET (0 .. seen)
    BY <1>3, WhereFacts
  <2> HIDE DEF lines
  <2>2. S \in SUBSET (0 .. seen) /\ S # {} /\ emitted \in S
    BY <1>3, <2>1
  <2>3. e = Max(S)
    BY <1>0
  <2> HIDE DEF S
  <2>4. e \in S /\ e >= emitted
    BY <1>3, <2>2, <2>3, MaxFacts
  <2>. QED
    BY <1>3, <2>2, <2>4
<1> HIDE DEF lines
<1>5. /\ inbox[1] \in Nat /\ Head(inbox) = inbox[1] /\ inbox' \in Seq(0 .. MaxChunk)
      /\ seen + inbox[1] \in Nat
      /\ \E m \in 0 .. Len(said) :
             Fits(inbox', seen + inbox[1], m) /\ Fits(Lengths(wire), m, Len(said))
    BY <1>1, <1>2, ChunkTaken
<1>6. /\ shown' \in Seq(Nat) /\ Increasing(shown') /\ \A i \in DOMAIN shown' : shown'[i] <= e
    BY <1>1, <1>2, <1>3, <1>4, ShowsMore
<1>7. CASE Head(inbox) = 0 /\ Shut("eof") /\ UNCHANGED seen
  <2>1. ShownSoFar'
    BY <1>1, <1>4, <1>6, <1>7 DEF ShownSoFar
  <2>2. seen' = seen + inbox[1]
    <3>1. inbox[1] = 0
      BY <1>5, <1>7
    <3>. QED
      BY <1>3, <1>7, <3>1
  <2>. QED
    BY <1>1, <1>4, <1>6, <1>7, <2>1, <2>2, ShutKeeps
<1>8. CASE seen' = seen + Head(inbox) /\ UNCHANGED <<at, why, reader, tcp, wire>>
  <2>1. PICK n : n = seen + inbox[1]
    OBVIOUS
  <2>2. seen' = n /\ n \in Nat /\ seen <= n
    BY <1>3, <1>5, <1>8, <2>1
  <2>3. e <= n /\ base <= n
    <3>1. base <= seen
      BY <1>2 DEF MetSoFar
    <3>. QED
      BY <1>3, <1>4, <2>2, <3>1
  <2>4. ShownSoFar' /\ MetSoFar'
    BY <1>1, <1>2, <1>6, <2>2, <2>3 DEF ShownSoFar, MetSoFar
  <2>5. HandshakeTypes'
    BY <1>1, <1>2, <1>4, <1>5, <1>6, <1>8, <2>2 DEF HandshakeTypes
  <2>6. TextIsCut'
    BY <1>1, <1>5, <1>8, <2>1, <2>2 DEF TextIsCut
  <2>7. Where({"V"}, base, emitted)' = {} /\ base' <= emitted'
    <3>1. Where({"V"}, base, seen) = {}
      BY <1>1 DEF Matches
    <3>2. \A p \in base + 1 .. e : p \in base + 1 .. seen
      BY <1>3, <1>4
    <3>3. Where({"V"}, base, e) = {}
      BY <3>1, <3>2 DEF Where
    <3>4. base <= e
      BY <1>3, <1>4
    <3>. QED
      BY <1>1, <3>3, <3>4 DEF Where
  <2>8. ScriptStands'
    BY <1>1, <1>8, <2>7 DEF ScriptInv, ScriptStands, Recorded
  <2>9. Decoded'
    BY <1>1, <1>8 DEF Decoded
  <2>. QED
    BY <2>4, <2>5, <2>6, <2>8, <2>9 DEF ScriptInv
<1>. QED
    BY <1>7, <1>8 DEF TakesChunk

LEMMA ErrorTermKeeps ==
    ASSUME ScriptInv, ErrorTerm
    PROVE  ScriptInv'
<1>1. Shut("error") /\ UNCHANGED <<step, base, seen, emitted, shown, met, reply, inbox, said, from, frames, asked>>
    BY DEF ErrorTerm, scriptVars, frameVars
<1>2. emitted' \in Nat /\ shown' \in Seq(Nat)
    BY <1>1 DEF ScriptInv, HandshakeTypes
<1>. QED
    BY <1>1, <1>2, ScriptRests, ShutKeeps

LEMMA GivesUpKeeps ==
    ASSUME ScriptInv, GivesUp
    PROVE  ScriptInv'
<1>1. Shut("given up") /\ UNCHANGED <<step, base, seen, emitted, shown, met, reply, inbox, said, from, frames, asked>>
    BY DEF GivesUp, scriptVars, frameVars
<1>2. emitted' \in Nat /\ shown' \in Seq(Nat)
    BY <1>1 DEF ScriptInv, HandshakeTypes
<1>. QED
    BY <1>1, <1>2, ScriptRests, ShutKeeps

LEMMA ReadsEndKeeps ==
    ASSUME ScriptInv, ReadsEnd
    PROVE  ScriptInv'
<1>1. /\ Shut("eof") /\ UNCHANGED <<step, base, seen, emitted, shown, met, reply, said, from, frames, asked>>
      /\ inbox # <<>> /\ Head(inbox) = 0 /\ inbox' = Tail(inbox)
    BY DEF ReadsEnd, scriptVars, frameVars
<1>2. emitted' \in Nat /\ shown' \in Seq(Nat) /\ seen \in Nat /\ HandshakeTypes /\ TextIsCut
    BY <1>1 DEF ScriptInv, HandshakeTypes
<1>3. inbox[1] = 0
    BY <1>1, <1>2, ChunkTaken
<1>4. seen' = seen + inbox[1]
  <2>1. seen = seen + 0
    BY <1>2, Places
  <2>. QED
    BY <1>1, <1>3, <2>1
<1>. QED
    BY <1>1, <1>2, <1>4, ScriptRests, ShutKeeps

\* The record goes out; the decoder begins behind all that was taken.
LEMMA SendsRecordKeeps ==
    ASSUME ScriptInv, SendsRecord
    PROVE  ScriptInv'
<1>1. /\ at = "ready" /\ at' = "read" /\ asked' = Append(asked, "record") /\ base' = seen /\ from' = seen
      /\ UNCHANGED <<step, seen, emitted, shown, met, reply, reader, inbox, wire, tcp, said, frames, why>>
    BY DEF SendsRecord, sessionVars, nodeVars
<1>2. HandshakeTypes /\ TextIsCut /\ ShownSoFar /\ MetSoFar
    BY DEF ScriptInv
<1>3. base \in Nat /\ seen \in Nat /\ base <= seen
    BY <1>2 DEF HandshakeTypes, MetSoFar
<1>4. HandshakeTypes'
  <2>1. asked' \in Seq({"auth", "open", "cmd", "record"})
    BY <1>1, <1>2, AskedFacts
  <2>. QED
    BY <1>1, <1>2, <1>3, <2>1 DEF HandshakeTypes
<1>5. TextIsCut' /\ ShownSoFar'
    BY <1>1, <1>2 DEF TextIsCut, ShownSoFar
<1>6. MetSoFar'
  <2>1. \A p : p \in 1 .. base => p \in 1 .. seen
    BY <1>3
  <2>2. seen <= seen
    BY <1>3
  <2>. QED
    BY <1>1, <1>2, <2>1, <2>2 DEF MetSoFar
<1>7. ScriptStands'
    BY <1>1 DEF ScriptInv, ScriptStands
<1>8. Decoded'
  <2>1. \A p : p \notin seen + 1 .. seen
    BY <1>3
  <2>2. Where({"r"}, base, seen)' = {} /\ Cuts(from, base)' = {}
    BY <1>1, <2>1 DEF Cuts, Where
  <2>3. frames = <<>>
    BY <1>1, <1>2, EmptySeq DEF ScriptInv, ScriptStands, HandshakeTypes
  <2>4. Ascending({}) = <<>>
    BY AscendingFacts, FS_EmptySet, EmptySeq
  <2>5. frames' = Ascending(Cuts(from, base)')
    BY <1>1, <2>2, <2>3, <2>4
  <2>6. from' <= base' /\ base' = from'
    BY <1>1, <1>3
  <2>. QED
    BY <2>2, <2>5, <2>6 DEF Decoded
<1>. QED
    BY <1>4, <1>5, <1>6, <1>7, <1>8 DEF ScriptInv

\* The node says more; what is known of the text stands.
LEMMA WhereStays ==
    ASSUME said \in Seq(Letters), NEW text \in Seq(Letters), said' = said \o text
    PROVE  /\ \A p \in 1 .. Len(said) : said'[p] = said[p]
           /\ Len(said') = Len(said) + Len(text) /\ said' \in Seq(Letters)
           /\ \A S : \A a, b \in Nat : b <= Len(said) => Where(S, a, b)' = Where(S, a, b)
<1>1. /\ Len(said) \in Nat /\ Len(text) \in Nat
      /\ said' \in Seq(Letters) /\ Len(said') = Len(said) + Len(text)
      /\ \A i \in 1 .. Len(said) + Len(text) :
             said'[i] = IF i <= Len(said) THEN said[i] ELSE text[i - Len(said)]
    BY LenProperties, ConcatProperties
<1>2. \A p \in 1 .. Len(said) : said'[p] = said[p]
  <2> DEFINE m == Len(said)
             n == Len(text)
             t == said'
  <2>1. m \in Nat /\ n \in Nat /\ \A i \in 1 .. m + n : t[i] = IF i <= m THEN said[i] ELSE text[i - m]
    BY <1>1
  <2> HIDE DEF m, n, t
  <2>2. \A p \in 1 .. m : t[p] = said[p]
    BY <2>1
  <2>. QED
    BY <2>2 DEF m, t
<1>3. ASSUME NEW S, NEW a \in Nat, NEW b \in Nat, b <= Len(said)
      PROVE  Where(S, a, b)' = Where(S, a, b)
  <2>1. \A p \in a + 1 .. b : p \in 1 .. Len(said)
    BY <1>1, <1>3
  <2>2. \A p \in a + 1 .. b : said'[p] = said[p]
    BY <1>2, <2>1
  <2>. QED
    BY <2>2 DEF Where
<1>. QED
    BY <1>1, <1>2, <1>3

LEMMA CutsStay ==
    ASSUME said \in Seq(Letters), NEW text \in Seq(Letters), said' = said \o text,
           NEW a \in Nat, NEW b \in Nat, b <= Len(said)
    PROVE  Cuts(a, b)' = Cuts(a, b)
<1>1. /\ \A p \in 1 .. Len(said) : said'[p] = said[p]
      /\ \A S : \A x, y \in Nat : y <= Len(said) => Where(S, x, y)' = Where(S, x, y)
      /\ Len(said) \in Nat
    BY WhereStays, LenProperties
<1>2. Where({"r"}, a, b)' = Where({"r"}, a, b)
    BY <1>1
<1>3. ASSUME NEW cr \in Where({"r"}, a, b)
      PROVE  Start(a, cr)' = Start(a, cr) /\ (Blank(Start(a, cr), cr)' <=> Blank(Start(a, cr), cr))
  <2>1. cr \in Nat /\ cr - 1 \in Nat /\ cr <= Len(said) /\ cr - 1 <= Len(said)
    BY <1>1, WhereFacts
  <2>2. Where({"r"}, a, cr - 1)' = Where({"r"}, a, cr - 1)
    BY <1>1, <2>1
  <2>3. Start(a, cr)' = Start(a, cr)
    BY <2>2 DEF Start
  <2>4. Start(a, cr) \in Nat
    <3> DEFINE S == {a} \union Where({"r"}, a, cr - 1)
    <3>1. Where({"r"}, a, cr - 1) \in SUBSET (0 .. cr - 1)
      BY <2>1, WhereFacts
    <3>2. S \in SUBSET (0 .. a + cr) /\ S # {} /\ a + cr \in Nat
      BY <2>1, <3>1
    <3> HIDE DEF S
    <3>3. Max(S) \in S
      BY <3>2, MaxFacts
    <3>4. \A p \in S : p \in Nat
      BY <3>2
    <3>5. Max(S) \in Nat
      BY <3>3, <3>4, Zenon
    <3>. QED
      BY <3>5 DEF Start, S
  <2>5. \A p \in Start(a, cr) + 1 .. cr : p \in 1 .. Len(said)
    BY <1>1, <2>1, <2>4
  <2>6. \A p \in Start(a, cr) + 1 .. cr : said'[p] = said[p]
    BY <1>1, <2>5
  <2>. QED
    BY <2>3, <2>6 DEF Blank
<1>. QED
    BY <1>2, <1>3 DEF Cuts

\* A message is on its way, with part of the text if that is said with it.
LEMMA NodeSendsKeeps ==
    ASSUME ScriptInv, NEW m \in Messages, NodeSends(m),
           NEW text \in Seq(Letters), said' = said \o text, m.n <= Len(text)
    PROVE  ScriptInv'
<1>1. /\ wire' = Append(wire, m)
      /\ UNCHANGED <<at, step, base, seen, emitted, shown, met, reply, reader, inbox, tcp, from, frames, asked, why>>
    BY DEF NodeSends, scriptVars, sessionVars, frameVars
<1>2. HandshakeTypes /\ TextIsCut /\ ShownSoFar /\ MetSoFar /\ said \in Seq(Letters)
    BY DEF ScriptInv, HandshakeTypes
<1>3. /\ \A p \in 1 .. Len(said) : said'[p] = said[p]
      /\ Len(said') = Len(said) + Len(text) /\ said' \in Seq(Letters)
      /\ \A S : \A a, b \in Nat : b <= Len(said) => Where(S, a, b)' = Where(S, a, b)
    BY <1>2, WhereStays
<1>4. PICK c \in 0 .. Len(said) : Fits(inbox, seen, c) /\ Fits(Lengths(wire), c, Len(said))
    BY <1>2 DEF TextIsCut
<1>5. /\ base \in Nat /\ seen \in Nat /\ emitted \in Nat /\ from \in Nat /\ Len(said) \in Nat
      /\ Len(text) \in Nat
    BY <1>2, LenProperties DEF HandshakeTypes
<1>6. c \in Nat /\ c <= Len(said)
    BY <1>4, <1>5
<1>7. seen <= Len(said) /\ base <= seen /\ emitted <= seen
  <2>1. inbox \in Seq(Nat)
    <3>1. Len(inbox) \in Nat /\ inbox \in [1 .. Len(inbox) -> 0 .. MaxChunk]
      BY <1>2, LenProperties DEF HandshakeTypes
    <3>2. inbox \in [1 .. Len(inbox) -> Nat]
      BY <3>1
    <3>. QED
      BY <3>1, <3>2, SeqDef
  <2>2. seen <= c
    BY <1>4, <1>5, <1>6, <2>1, FitsBounds
  <2>. QED
    BY <1>2, <1>5, <1>6, <2>2 DEF ShownSoFar, MetSoFar
<1>8. base <= Len(said) /\ emitted <= Len(said)
    BY <1>5, <1>7
<1>9. TextIsCut'
  <2>1. /\ Lengths(wire) \in Seq(Nat) /\ Lengths(wire') = Append(Lengths(wire), m.n) /\ m.n \in Nat
    <3>1. m.n \in Nat
      BY HandshakeAssumption DEF Messages
    <3>2. wire \in Seq(Messages)
      BY <1>2 DEF HandshakeTypes
    <3>. QED
      BY <1>1, <3>1, <3>2, LengthsFacts
  <2>2. PICK l, k : l = Len(said) + Len(text) /\ k = Len(said)
    OBVIOUS
  <2>3. l \in Nat /\ k + m.n <= l /\ c \in 0 .. l /\ k \in Nat
    BY <1>5, <1>6, <2>1, <2>2
  <2>4. Fits(Lengths(wire'), c, l)
    BY <1>4, <1>6, <2>1, <2>2, <2>3, FitsAppend
  <2>. QED
    BY <1>1, <1>3, <1>4, <2>2, <2>3, <2>4 DEF TextIsCut
<1>10. HandshakeTypes'
  <2>1. wire' \in Seq(Messages)
    BY <1>1, <1>2, LengthsFacts DEF HandshakeTypes
  <2>. QED
    BY <1>1, <1>2, <1>3, <2>1 DEF HandshakeTypes
<1>11. ShownSoFar'
    BY <1>1, <1>2 DEF ShownSoFar
<1>12. MetSoFar'
  <2>1. ASSUME NEW i \in DOMAIN met PROVE met[i] \in 1 .. base /\ said'[met[i]] = "V"
    <3>1. met[i] \in 1 .. base /\ said[met[i]] = "V"
      BY <1>2 DEF MetSoFar
    <3>2. met[i] \in 1 .. Len(said)
      BY <1>5, <1>8, <3>1
    <3>. QED
      BY <1>3, <3>1, <3>2
  <2>. QED
    BY <1>1, <1>2, <2>1 DEF MetSoFar
<1>13. ScriptStands'
  <2>1. Where({"V"}, base, emitted)' = Where({"V"}, base, emitted)
    <3>1. PICK a, b : a = base /\ b = emitted
      OBVIOUS
    <3>2. Where({"V"}, a, b)' = Where({"V"}, a, b)
      BY <1>3, <1>5, <1>8, <3>1
    <3>. QED
      BY <1>1, <3>1, <3>2 DEF Where
  <2>. QED
    BY <1>1, <2>1 DEF ScriptInv, ScriptStands, Recorded
<1>14. Decoded'
  <2>1. PICK a, b, d : a = from /\ b = base /\ d = seen
    OBVIOUS
  <2>2. Cuts(a, b)' = Cuts(a, b)
    BY <1>2, <1>5, <1>8, <2>1, CutsStay
  <2>3. Where({"r"}, b, d)' = Where({"r"}, b, d)
    BY <1>3, <1>5, <1>7, <2>1
  <2>4. from' = a /\ base' = b /\ seen' = d
    BY <1>1, <2>1
  <2>5. Cuts(from, base)' = Cuts(from, base)
    BY <2>1, <2>2, <2>4 DEF Cuts, Where, Blank, Start
  <2>6. Where({"r"}, base, seen)' = Where({"r"}, base, seen)
    BY <2>1, <2>3, <2>4 DEF Where
  <2>7. ASSUME at = "read" PROVE base = from \/ said'[base] = "r"
    <3>1. from <= base /\ (base = from \/ said[base] = "r")
      BY <2>7 DEF ScriptInv, Decoded
    <3>2. CASE base # from
      <4>1. base \in 1 .. Len(said)
        BY <1>5, <1>8, <3>1, <3>2
      <4>. QED
        BY <1>3, <3>1, <4>1
    <3>. QED
      BY <3>2
  <2>. QED
    BY <1>1, <2>5, <2>6, <2>7 DEF ScriptInv, Decoded
<1>. QED
    BY <1>9, <1>10, <1>11, <1>12, <1>13, <1>14 DEF ScriptInv

LEMMA NodeRepliesKeeps ==
    ASSUME ScriptInv, NodeReplies
    PROVE  ScriptInv'
<1>1. PICK t \in {"authOk", "authErr", "ok", "err", "note", "close"} : NodeSends(Plain(t)) /\ said' = said
    BY DEF NodeReplies
<1>2. Plain(t) \in Messages /\ Plain(t).n = 0
    BY HandshakeAssumption DEF Plain, Messages
<1>3. /\ <<>> \in Seq(Letters) /\ Len(<<>>) = 0 /\ said' = said \o <<>>
    BY <1>1, EmptySeq, ConcatEmptySeq DEF ScriptInv, HandshakeTypes
<1>4. Plain(t).n <= Len(<<>>)
    BY <1>2, <1>3
<1>. QED
    BY <1>1, <1>2, <1>3, <1>4, NodeSendsKeeps

LEMMA SpeaksKeeps ==
    ASSUME ScriptInv, Speaks
    PROVE  ScriptInv'
<1>1. PICK n \in 0 .. MaxChunk :
       \E text \in [1 .. n -> IF Asked("record") THEN {"f", "r", "n", "x"}
                              ELSE {"E", "V", "x", "r"}] :
          /\ said' = said \o text
          /\ NodeSends([t |-> "recv", n |-> n])
    BY DEF Speaks
<1>2. PICK text \in [1 .. n -> Letters] :
          /\ said' = said \o text
          /\ NodeSends([t |-> "recv", n |-> n])
  <2>1. PICK text \in [1 .. n -> IF Asked("record") THEN {"f", "r", "n", "x"}
                              ELSE {"E", "V", "x", "r"}] :
          /\ said' = said \o text
          /\ NodeSends([t |-> "recv", n |-> n])
    BY <1>1
  <2>2. text \in [1 .. n -> Letters]
    BY <2>1 DEF Letters
  <2>. QED
    BY <2>1, <2>2
<1>3. n \in Nat
    BY <1>1, HandshakeAssumption
<1>4. text \in Seq(Letters) /\ Len(text) = n
    BY <1>2, <1>3, SeqDef, LenProperties
<1>5. PICK m : m = [t |-> "recv", n |-> n]
    OBVIOUS
<1>6. m \in Messages /\ m.n = n /\ NodeSends(m)
    BY <1>1, <1>2, <1>5 DEF Messages
<1>7. m.n <= Len(text)
    BY <1>3, <1>4, <1>6
<1>. QED
    BY <1>2, <1>4, <1>6, <1>7, NodeSendsKeeps

LEMMA NodeVanishesKeeps ==
    ASSUME ScriptInv, NodeVanishes
    PROVE  ScriptInv'
<1>1. /\ tcp' = FALSE
      /\ UNCHANGED <<at, step, base, seen, emitted, shown, met, reply, reader, inbox, wire, said, from, frames, asked, why>>
    BY DEF NodeVanishes, scriptVars, sessionVars, frameVars
<1>2. HandshakeTypes'
    BY <1>1 DEF ScriptInv, HandshakeTypes
<1>3. TextIsCut'
    BY <1>1 DEF ScriptInv, TextIsCut
<1>4. ScriptStands' /\ Decoded'
    BY <1>1 DEF ScriptInv, ScriptStands, Recorded, Decoded, Where, Cuts, Blank, Start
<1>. QED
    BY <1>1, <1>2, <1>3, <1>4, ScriptRests DEF ScriptInv

\* Where the text before a CR begins: after the CR before it, if there is one.
LEMMA StartFacts ==
    ASSUME NEW a \in Nat, NEW c \in Nat, a < c
    PROVE  /\ Start(a, c) \in Nat
           /\ Start(a, c) = a \/ (Start(a, c) \in a + 1 .. c - 1 /\ said[Start(a, c)] = "r")
           /\ \A p \in Nat : p = a \/ (p \in a + 1 .. c - 1 /\ said[p] = "r") => p <= Start(a, c)
<1> DEFINE S == {a} \union Where({"r"}, a, c - 1)
<1>1. \A p : p \in S <=> p = a \/ (p \in a + 1 .. c - 1 /\ said[p] = "r")
    BY DEF Where
<1>2. Start(a, c) = Max(S)
    BY DEF Start
<1> HIDE DEF S
<1>3. S \in SUBSET (0 .. c) /\ S # {}
    BY <1>1
<1>4. Max(S) \in S /\ \A y \in S : Max(S) >= y
    BY <1>3, MaxFacts
<1>5. Max(S) \in Nat
  <2>1. \A p \in S : p \in Nat
    BY <1>3
  <2>. QED
    BY <1>4, <2>1, Zenon
<1>6. \A y \in S : y <= Max(S)
    BY <1>3, <1>4
<1>. QED
    BY <1>1, <1>2, <1>4, <1>5, <1>6

\* It does not depend on what precedes a CR.
LEMMA StartMoves ==
    ASSUME NEW a \in Nat, NEW b \in Nat, NEW c \in Nat, a <= b, b < c, b = a \/ said[b] = "r"
    PROVE  Start(a, c) = Start(b, c)
<1>1. PICK s, t : s = Start(a, c) /\ t = Start(b, c)
    OBVIOUS
<1>2. a < c
    OBVIOUS
<1>3. /\ s \in Nat
      /\ s = a \/ (s \in a + 1 .. c - 1 /\ said[s] = "r")
      /\ \A p \in Nat : p = a \/ (p \in a + 1 .. c - 1 /\ said[p] = "r") => p <= s
    BY <1>1, <1>2, StartFacts
<1>4. /\ t \in Nat
      /\ t = b \/ (t \in b + 1 .. c - 1 /\ said[t] = "r")
      /\ \A p \in Nat : p = b \/ (p \in b + 1 .. c - 1 /\ said[p] = "r") => p <= t
    BY <1>1, StartFacts
<1>5. b <= s
  <2>1. b = a \/ b \in a + 1 .. c - 1
    OBVIOUS
  <2>. QED
    BY <1>3, <2>1
<1>6. s <= t
  <2>1. s = b \/ (s \in b + 1 .. c - 1 /\ said[s] = "r")
    BY <1>3, <1>5
  <2>. QED
    BY <1>3, <1>4, <2>1
<1>7. t <= s
  <2>1. CASE t = b
    BY <1>5, <2>1
  <2>2. CASE t \in b + 1 .. c - 1 /\ said[t] = "r"
    <3>1. t \in a + 1 .. c - 1
      BY <2>2
    <3>. QED
      BY <1>3, <1>4, <2>2, <3>1
  <2>. QED
    BY <1>4, <2>1, <2>2
<1>. QED
    BY <1>1, <1>3, <1>4, <1>6, <1>7

\* The text is cut in two at a CR: so are its frames.
LEMMA CutsSplit ==
    ASSUME NEW a \in Nat, NEW b \in Nat, NEW c \in Nat, a <= b, b <= c, b = a \/ said[b] = "r"
    PROVE  /\ Cuts(a, c) = Cuts(a, b) \union Cuts(b, c)
           /\ \A x \in Cuts(a, b), y \in Cuts(b, c) : x < y
<1>1. \A p : p \in Where({"r"}, a, c) <=> p \in Where({"r"}, a, b) \/ p \in Where({"r"}, b, c)
    BY DEF Where
<1>2. \A p \in Where({"r"}, a, b) : p \in Nat /\ p <= b
    BY DEF Where
<1>3. \A p \in Where({"r"}, b, c) : p \in Nat /\ b < p
    BY DEF Where
<1>4. \A p \in Where({"r"}, b, c) : Start(a, p) = Start(b, p)
    BY <1>3, StartMoves
<1>5. \A p \in Where({"r"}, b, c) : Blank(Start(a, p), p) <=> Blank(Start(b, p), p)
    BY <1>4
<1>6. ASSUME NEW p
      PROVE  p \in Cuts(a, c) <=> p \in Cuts(a, b) \/ p \in Cuts(b, c)
    BY <1>1, <1>5 DEF Cuts
<1>7. ASSUME NEW x \in Cuts(a, b), NEW y \in Cuts(b, c) PROVE x < y
  <2>1. x \in Where({"r"}, a, b) /\ y \in Where({"r"}, b, c)
    BY DEF Cuts
  <2>. QED
    BY <1>2, <1>3, <2>1
<1>. QED
    BY <1>6, <1>7

\* Where no CR follows, no frame does.
LEMMA NoCutAfter ==
    ASSUME NEW a \in Nat, NEW b \in Nat, NEW c \in Nat, b <= c, Where({"r"}, b, c) = {}
    PROVE  Cuts(a, b) = Cuts(a, c) /\ Cuts(b, c) = {}
<1>1. Where({"r"}, a, b) = Where({"r"}, a, c)
  <2>1. ASSUME NEW p \in Where({"r"}, a, c) PROVE p \in Where({"r"}, a, b)
    <3>1. p \in a + 1 .. c /\ said[p] \in {"r"} /\ p \notin b + 1 .. c
      BY DEF Where
    <3>. QED
      BY <3>1 DEF Where
  <2>2. \A p \in Where({"r"}, a, b) : p \in Where({"r"}, a, c)
    BY DEF Where
  <2>. QED
    BY <2>1, <2>2
<1>. QED
    BY <1>1 DEF Cuts

\* The decoder keeps what follows the last CR.
LEMMA LastCut ==
    ASSUME NEW b \in Nat, NEW c \in Nat, b <= c
    PROVE  LET n == Max({b} \union Where({"r"}, b, c))
           IN  n \in Nat /\ b <= n /\ n <= c /\ (n = b \/ said[n] = "r") /\ Where({"r"}, n, c) = {}
<1> DEFINE S == {b} \union Where({"r"}, b, c)
<1>1. \A p : p \in S <=> p = b \/ (p \in b + 1 .. c /\ said[p] = "r")
    BY DEF Where
<1>2. PICK n : n = Max(S)
    OBVIOUS
<1> HIDE DEF S
<1>3. S \in SUBSET (0 .. c) /\ S # {} /\ b \in S
    BY <1>1
<1>4. n \in S /\ \A y \in S : n >= y
    BY <1>2, <1>3, MaxFacts
<1>5. n \in Nat /\ b <= n /\ n <= c
    BY <1>3, <1>4
<1>6. ASSUME NEW p \in n + 1 .. c, said[p] = "r" PROVE FALSE
  <2>1. p \in b + 1 .. c
    BY <1>5
  <2>2. p \in S
    BY <1>1, <1>6, <2>1
  <2>3. n >= p
    BY <1>4, <2>2
  <2>. QED
    BY <1>5, <2>3
<1>7. Where({"r"}, n, c) = {}
    BY <1>6 DEF Where
<1>8. n = b \/ said[n] = "r"
    BY <1>1, <1>4
<1>. QED
    BY <1>2, <1>5, <1>7, <1>8 DEF S

LEMMA CutsFacts ==
    ASSUME NEW a \in Nat, NEW b \in Nat
    PROVE  Cuts(a, b) \in SUBSET Nat /\ IsFiniteSet(Cuts(a, b)) /\ Ascending(Cuts(a, b)) \in Seq(Nat)
<1> DEFINE S == Cuts(a, b)
<1>1. S \in SUBSET Where({"r"}, a, b)
    BY DEF Cuts
<1>2. S \in SUBSET Nat /\ IsFiniteSet(S)
    BY <1>1, WhereFacts, FS_Subset
<1> HIDE DEF S
<1>3. Cardinality(S) \in Nat /\ Ascending(S) \in [1 .. Cardinality(S) -> S]
    BY <1>2, AscendingFacts
<1>4. Ascending(S) \in [1 .. Cardinality(S) -> Nat]
    BY <1>2, <1>3
<1>5. Ascending(S) \in Seq(Nat)
    BY <1>3, <1>4, SeqDef
<1>. QED
    BY <1>2, <1>5 DEF S

LEMMA DecodesKeeps ==
    ASSUME ScriptInv, Decodes
    PROVE  ScriptInv'
<1>1. /\ at = "read" /\ inbox # <<>> /\ inbox' = Tail(inbox) /\ seen' = seen + Head(inbox)
      /\ UNCHANGED <<step, emitted, shown, met, reply, said, from, asked>>
    BY DEF Decodes
<1>2. HandshakeTypes /\ TextIsCut /\ ShownSoFar /\ MetSoFar
    BY DEF ScriptInv
<1>3. /\ inbox[1] \in Nat /\ Head(inbox) = inbox[1] /\ inbox' \in Seq(0 .. MaxChunk)
      /\ seen + inbox[1] \in Nat
      /\ \E m \in 0 .. Len(said) :
             Fits(inbox', seen + inbox[1], m) /\ Fits(Lengths(wire), m, Len(said))
    BY <1>1, <1>2, ChunkTaken
<1>4. /\ base \in Nat /\ seen \in Nat /\ emitted \in Nat /\ from \in Nat
      /\ shown \in Seq(Nat) /\ met \in Seq(Nat) /\ frames \in Seq(Nat)
    BY <1>2 DEF HandshakeTypes
<1>5. PICK c : c = seen + inbox[1]
    OBVIOUS
<1>6. c \in Nat /\ seen <= c /\ seen' = c
    BY <1>1, <1>3, <1>4, <1>5, Places
<1>7. base <= seen /\ emitted <= seen
    BY <1>2 DEF ShownSoFar, MetSoFar
<1>8. base <= c /\ emitted <= c
    BY <1>4, <1>6, <1>7, Places
<1>9. ShownSoFar'
    BY <1>1, <1>2, <1>6, <1>8 DEF ShownSoFar
<1>10. CASE Shut("garbage") /\ UNCHANGED <<frames, base>>
  <2>1. inbox' = Tail(inbox) /\ seen' = seen + inbox[1]
    BY <1>1, <1>5, <1>6
  <2>2. emitted' \in Nat /\ shown' \in Seq(Nat)
    BY <1>1, <1>4
  <2>. QED
    BY <1>1, <1>9, <1>10, <2>1, <2>2, ShutKeeps
<1>11. CASE /\ frames' = frames \o Ascending(Cuts(base, seen'))
            /\ base' = Max({base} \union Where({"r"}, base, seen'))
            /\ UNCHANGED <<at, why, reader, tcp, wire>>
  <2>1. PICK n : n = base'
    OBVIOUS
  <2>2. n \in Nat /\ base <= n /\ n <= c /\ (n = base \/ said[n] = "r") /\ Where({"r"}, n, c) = {}
    BY <1>4, <1>6, <1>8, <1>11, <2>1, LastCut
  <2>3. /\ from <= base /\ (base = from \/ said[base] = "r")
        /\ frames = Ascending(Cuts(from, base))
    BY <1>1 DEF ScriptInv, Decoded
  <2>4. from <= n /\ (n = from \/ said[n] = "r")
    BY <1>4, <2>2, <2>3
  <2>5. frames' = Ascending(Cuts(from, n))
    <3>1. /\ Cuts(from, c) = Cuts(from, base) \union Cuts(base, c)
          /\ \A x \in Cuts(from, base), y \in Cuts(base, c) : x < y
      BY <1>4, <1>6, <1>8, <2>3, CutsSplit
    <3>2. /\ Cuts(from, base) \in SUBSET Nat /\ IsFiniteSet(Cuts(from, base))
          /\ Cuts(base, c) \in SUBSET Nat /\ IsFiniteSet(Cuts(base, c))
      BY <1>4, <1>6, CutsFacts
    <3>3. Cuts(from, n) = Cuts(from, c)
      BY <1>4, <1>6, <2>2, NoCutAfter
    <3>4. frames' = Ascending(Cuts(from, base)) \o Ascending(Cuts(base, c))
      BY <1>6, <1>11, <2>3
    <3>. QED
      BY <3>1, <3>2, <3>3, <3>4, AscendingUnion
  <2>6. frames' \in Seq(Nat)
    BY <1>4, <2>2, <2>5, CutsFacts
  <2>7. HandshakeTypes'
    BY <1>1, <1>2, <1>3, <1>6, <1>11, <2>1, <2>2, <2>6 DEF HandshakeTypes
  <2>8. TextIsCut'
    BY <1>1, <1>3, <1>5, <1>6, <1>11 DEF TextIsCut
  <2>9. MetSoFar'
    <3>1. ASSUME NEW i \in DOMAIN met PROVE met[i] \in 1 .. n /\ said[met[i]] = "V"
      <4>1. met[i] \in 1 .. base /\ said[met[i]] = "V"
        BY <1>2 DEF MetSoFar
      <4>. QED
        BY <1>4, <2>2, <4>1
    <3>. QED
      BY <1>1, <1>2, <1>6, <2>1, <2>2, <3>1 DEF MetSoFar
  <2>10. ScriptStands'
    BY <1>1, <1>11 DEF ScriptInv, ScriptStands, Recorded
  <2>11. Decoded'
    <3>1. Where({"r"}, base, seen)' = {}
      BY <1>1, <1>6, <2>1, <2>2 DEF Where
    <3>2. Cuts(from, base)' = Cuts(from, n)
      BY <1>1, <2>1 DEF Cuts, Where, Blank, Start
    <3>. QED
      BY <1>1, <2>1, <2>4, <2>5, <3>1, <3>2 DEF Decoded
  <2>. QED
    BY <1>9, <2>7, <2>8, <2>9, <2>10, <2>11 DEF ScriptInv
<1>. QED
    BY <1>10, <1>11 DEF Decodes

LEMMA ScriptInvInit ==
    ASSUME HandshakeInit
    PROVE  ScriptInv
<1>1. /\ at = "start" /\ step = 0 /\ reply = "none" /\ reader = "none" /\ inbox = <<>>
      /\ wire = <<>> /\ tcp = TRUE /\ said = <<>>
      /\ base = 0 /\ seen = 0 /\ emitted = 0
      /\ shown = <<>> /\ met = <<>> /\ from = 0 /\ frames = <<>> /\ asked = <<>> /\ why = "none"
    BY DEF HandshakeInit
<1>2. HandshakeTypes
  <2>1. 0 \in 0 .. Len(Steps)
    <3>1. Len(Steps) \in Nat
      BY HandshakeAssumption, LenProperties
    <3>. QED
      BY <3>1
  <2>. QED
    BY <1>1, <2>1 DEF HandshakeTypes
<1>3. TextIsCut
  <2>1. Len(said) = 0 /\ 0 \in 0 .. 0 /\ Lengths(wire) = <<>>
    BY <1>1 DEF Lengths
  <2>2. Fits(<<>>, 0, 0)
    BY FitsNone
  <2>. QED
    BY <1>1, <2>1, <2>2 DEF TextIsCut
<1>4. ShownSoFar /\ MetSoFar
  <2>1. DOMAIN shown = {} /\ DOMAIN met = {}
    BY <1>1
  <2>. QED
    BY <1>1, <2>1 DEF ShownSoFar, MetSoFar, Increasing
<1>5. ScriptStands /\ Decoded
  <2>1. DOMAIN asked = {} /\ Len(met) = 0 /\ Len(frames) = 0
    BY <1>1
  <2>. QED
    BY <1>1, <2>1 DEF ScriptStands, Recorded, Decoded
<1>. QED
    BY <1>2, <1>3, <1>4, <1>5 DEF ScriptInv

LEMMA ScriptInvStutter ==
    ASSUME ScriptInv, UNCHANGED handshakeVars
    PROVE  ScriptInv'
<1>1. UNCHANGED <<at, step, base, seen, emitted, shown, met, reply, reader, inbox, wire, tcp, said,
                  from, frames, asked, why>>
    BY DEF handshakeVars, scriptVars, sessionVars, nodeVars, frameVars
<1>2. HandshakeTypes'
    BY <1>1 DEF ScriptInv, HandshakeTypes
<1>3. TextIsCut'
    BY <1>1 DEF ScriptInv, TextIsCut
<1>4. ScriptStands' /\ Decoded'
    BY <1>1 DEF ScriptInv, ScriptStands, Recorded, Decoded, Where, Cuts, Blank, Start
<1>. QED
    BY <1>1, <1>2, <1>3, <1>4, ScriptRests DEF ScriptInv

LEMMA ScriptInvNext ==
    ASSUME ScriptInv, [HandshakeNext]_handshakeVars
    PROVE  ScriptInv'
<1>1. CASE UNCHANGED handshakeVars
    BY <1>1, ScriptInvStutter
<1>2. CASE Client
  <2>1. CASE Script
    BY <2>1, MatchedKeeps, ErrorTermKeeps, TakesChunkKeeps DEF Script
  <2>. QED
    BY <1>2, <2>1, OpenKeeps, AuthAnsweredKeeps, OpenRepliedKeeps, SendsRecordKeeps,
       DecodesKeeps, ReadsEndKeeps DEF Client
<1>3. CASE Reader \/ GivesUp
    BY <1>3, ReaderKeeps, GivesUpKeeps
<1>4. CASE NodeReplies \/ Speaks \/ NodeVanishes
    BY <1>4, NodeRepliesKeeps, SpeaksKeeps, NodeVanishesKeeps
<1>. QED
    BY <1>1, <1>2, <1>3, <1>4 DEF HandshakeNext

\* For every connect script and every length of text and chunks: what was taken,
\* what is in the inbox and what is on the wire stay parts of the text one after
\* the other; nothing is shown or met twice or ahead of the text that was taken;
\* and what the decoder keeps begins after a CR and has none.
THEOREM ScriptInvariance == HandshakeSpec => []ScriptInv
<1>1. HandshakeInit => ScriptInv
    BY ScriptInvInit
<1>2. ScriptInv /\ [HandshakeNext]_handshakeVars => ScriptInv'
    BY ScriptInvNext
<1>. QED
    BY <1>1, <1>2, PTL DEF HandshakeSpec

LEMMA ScriptInvHolds ==
    ASSUME ScriptInv
    PROVE  HandshakeInv /\ FramesAreTheSplit
<1>1. HandshakeTypes /\ TextIsCut /\ ShownSoFar /\ MetSoFar
    BY DEF ScriptInv
<1>2. /\ base \in Nat /\ seen \in Nat /\ emitted \in Nat /\ from \in Nat /\ Len(said) \in Nat
      /\ shown \in Seq(Nat) /\ met \in Seq(Nat)
    BY <1>1, LenProperties DEF HandshakeTypes
<1>3. PICK c \in 0 .. Len(said) : Fits(inbox, seen, c) /\ Fits(Lengths(wire), c, Len(said))
    BY <1>1 DEF TextIsCut
<1>4. c \in Nat /\ c <= Len(said)
    BY <1>2, <1>3
<1>5. /\ inbox \in Seq(Nat)
      /\ \A i \in 1 .. Len(inbox) : inbox[i] \in 0 .. MaxChunk
  <2>1. Len(inbox) \in Nat /\ inbox \in [1 .. Len(inbox) -> 0 .. MaxChunk]
    BY <1>1, LenProperties DEF HandshakeTypes
  <2>2. inbox \in [1 .. Len(inbox) -> Nat]
    BY <2>1
  <2>. QED
    BY <2>1, <2>2, SeqDef
<1>6. seen <= c
    BY <1>2, <1>3, <1>4, <1>5, FitsBounds
<1>7. base <= seen /\ emitted <= seen /\ seen <= Len(said)
  <2>1. base <= seen /\ emitted <= seen
    BY <1>1 DEF ShownSoFar, MetSoFar
  <2>. QED
    BY <1>2, <1>4, <1>6, <2>1, Places
<1>8. HandshakeTypeOK
  <2>1. \A i \in 1 .. Len(said) : said[i] \in {"V", "E", "r", "n", "f", "x"}
    BY <1>1, ElementOfSeq DEF HandshakeTypes, Letters
  <2>. QED
    BY <1>1, <1>5, <1>7, <2>1 DEF HandshakeTypes, HandshakeTypeOK
<1>9. ASSUME NEW s \in Seq(Nat), Increasing(s)
      PROVE  \A i \in 1 .. Len(s) - 1 : s[i] < s[i + 1]
  <2>1. Len(s) \in Nat /\ DOMAIN s = 1 .. Len(s)
    BY LenProperties
  <2>2. \A i \in 1 .. Len(s) - 1 : i \in DOMAIN s /\ i + 1 \in DOMAIN s /\ i < i + 1
    BY <2>1
  <2>. QED
    BY <1>9, <2>2 DEF Increasing
<1>10. ShownOnce
    BY <1>1, <1>2, <1>9 DEF ShownOnce, ShownSoFar
<1>11. HopsAreAnswered
  <2>1. \A i \in 1 .. Len(met) - 1 : met[i] < met[i + 1]
    BY <1>1, <1>2, <1>9 DEF MetSoFar
  <2>2. \A i \in 1 .. Len(met) : said[met[i]] = "V"
    BY <1>1, <1>2, LenProperties DEF MetSoFar
  <2>3. Asked("record") => Recorded
    BY <1>1, LenProperties DEF Asked, Recorded, HandshakeTypes
  <2>. QED
    BY <2>1, <2>2, <2>3 DEF HopsAreAnswered, ScriptInv, ScriptStands
<1>12. FramesAreTheSplit
  <2> SUFFICES ASSUME at = "read"
               PROVE  frames = Ascending(Cuts(from, seen)) /\ Cuts(base, seen) = {}
    BY DEF FramesAreTheSplit
  <2>1. Where({"r"}, base, seen) = {} /\ frames = Ascending(Cuts(from, base))
    BY DEF ScriptInv, Decoded
  <2>2. Cuts(from, base) = Cuts(from, seen) /\ Cuts(base, seen) = {}
    BY <1>2, <1>7, <2>1, NoCutAfter
  <2>. QED
    BY <2>1, <2>2
<1>. QED
    BY <1>8, <1>10, <1>11, <1>12 DEF HandshakeInv

\* However the text is cut into chunks, every letter is shown at most once and
\* in order, and each step advances on an occurrence of its string of its own;
\* the record goes out only when all of them were met (hop_script.py).
THEOREM TextIsReadOnce == HandshakeSpec => []HandshakeInv
<1>1. ScriptInv => HandshakeInv
    BY ScriptInvHolds
<1>. QED
    BY <1>1, ScriptInvariance, PTL

\* However the text is cut into chunks, the frames decoded are those between the
\* CRs of what the server said since the record (codec.py).
THEOREM FramesDoNotDependOnCuts == HandshakeSpec => []FramesAreTheSplit
<1>1. ScriptInv => FramesAreTheSplit
    BY ScriptInvHolds
<1>. QED
    BY <1>1, ScriptInvariance, PTL

=============================================================================
