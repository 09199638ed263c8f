------------------------------- MODULE TableProofs -------------------------------
(***************************************************************************)
(* What the table engine promises, proved for every table, setting and     *)
(* bound: the best match is offered first (BestIsFirst), the list answers  *)
(* the run, what is highlighted is delivered, no key is lost and what was  *)
(* chosen is learned (the adapter in one input context), and no half of a  *)
(* table is left by the compiler that writes the tables; and of what it    *)
(* writes, that the engine reads back what was prepared and that no code   *)
(* the table declared stops being typed (Compiling, at the end).           *)
(*                                                                         *)
(* TableInv is the inductive invariant.  It is stated of a call that       *)
(* begins (Enter), so that what every helper of the adapter keeps (Sound)  *)
(* is the same whether it is met at the start, the middle or the end of a  *)
(* call.                                                                   *)
(***************************************************************************)
EXTENDS TableProperties, TableSource, ContextProofs, FiniteSetTheorems

-------------------------------------------------------------------------------
(* The order of what a table answers.                                      *)

\* Of each of the first n places those ahead of it: any two compare one way.
TotalOrder(R, n) ==
  /\ \A i \in 1..n : R[i] \subseteq 1..n
  /\ \A i \in 1..n : i \notin R[i]
  /\ \A i, j \in 1..n : i # j => i \in R[j] \/ j \in R[i]
  /\ \A i, j, k \in 1..n : i \in R[j] /\ j \in R[k] => i \in R[k]

Counts(place, R, n) == place = [i \in 1..n |-> 1 + Cardinality(R[i])]

Places(place, R, n) ==
  /\ place \in [1..n -> 1..n]
  /\ \A i, j \in 1..n : i \in R[j] => place[i] < place[j]
  /\ \A k \in 1..n : \E i \in 1..n : place[i] = k
  /\ \A i, j \in 1..n : place[i] = place[j] => i = j

\* Counting what comes ahead of each gives each a place of its own, in this order.
LEMMA EachItsPlace ==
  ASSUME NEW n \in Nat, NEW R, TotalOrder(R, n),
         NEW place, Counts(place, R, n)
  PROVE  Places(place, R, n)
<1>0. place = [i \in 1..n |-> 1 + Cardinality(R[i])]
  BY DEF Counts
<1>1. IsFiniteSet(1..n) /\ Cardinality(1..n) = n
  BY FS_Interval
<1>2. ASSUME NEW i \in 1..n
      PROVE  /\ IsFiniteSet(R[i]) /\ Cardinality(R[i]) \in Nat
             /\ Cardinality(R[i]) < n
  <2>1. R[i] \in SUBSET (1..n) /\ i \notin R[i]
    BY DEF TotalOrder
  <2>2. /\ IsFiniteSet(R[i])
        /\ Cardinality(R[i]) <= Cardinality(1..n)
        /\ Cardinality(1..n) = Cardinality(R[i]) => 1..n = R[i]
    BY <1>1, <2>1, FS_Subset
  <2>3. Cardinality(R[i]) \in Nat
    BY <2>2, FS_CardinalityType
  <2> QED BY <1>1, <2>1, <2>2, <2>3
<1>3. place \in [1..n -> 1..n]
  <2>1. \A i \in 1..n : 1 + Cardinality(R[i]) \in 1..n
    BY <1>2
  <2> QED BY <1>0, <2>1
<1>4. ASSUME NEW i \in 1..n, NEW j \in 1..n, i \in R[j]
      PROVE  place[i] < place[j]
  <2> DEFINE S == R[i]
             T == R[j]
  <2>1. S \in SUBSET T /\ i \in T /\ i \notin S
    BY <1>4 DEF TotalOrder
  <2>2. IsFiniteSet(T) /\ Cardinality(T) \in Nat /\ Cardinality(S) \in Nat
    BY <1>2
  <2>3. place[i] = 1 + Cardinality(S) /\ place[j] = 1 + Cardinality(T)
    BY <1>0
  <2> HIDE DEF S, T
  <2>4. Cardinality(S) <= Cardinality(T) /\ (Cardinality(T) = Cardinality(S) => T = S)
    BY <2>1, <2>2, FS_Subset
  <2> QED BY <2>1, <2>2, <2>3, <2>4
<1>5. ASSUME NEW i \in 1..n, NEW j \in 1..n, place[i] = place[j], i # j
      PROVE  FALSE
  <2>1. place[i] \in Int /\ place[j] \in Int
    BY <1>3
  <2>2. i \in R[j] \/ j \in R[i]
    BY <1>5 DEF TotalOrder
  <2>3. place[i] < place[j] \/ place[j] < place[i]
    BY <1>4, <2>2
  <2> QED BY <1>5, <2>1, <2>3
<1>6. ASSUME NEW k \in 1..n, \A i \in 1..n : place[i] # k
      PROVE  FALSE
  <2> DEFINE S == (1..n) \ {k}
  <2>1. IsFiniteSet(S) /\ Cardinality(S) = n - 1
    BY <1>1, FS_RemoveElement
  <2>2. place \in [1..n -> S]
    BY <1>3, <1>6
  <2> HIDE DEF S
  <2>3. \E x, y \in 1..n : x # y /\ place[x] = place[y]
    <3>1. Cardinality(S) < Cardinality(1..n)
      BY <1>1, <2>1
    <3> QED BY <1>1, <2>1, <2>2, <3>1, FS_PigeonHole
  <2> QED BY <1>5, <2>3
<1> QED BY <1>3, <1>4, <1>5, <1>6 DEF Places

\* The order of texts compares any two of them one way.
LEMMA TextOrder ==
  ASSUME NEW a \in Text, NEW b \in Text, NEW c \in Text
  PROVE  /\ ~TextLess(a, a)
         /\ TextLess(a, b) /\ TextLess(b, c) => TextLess(a, c)
         /\ a # b => TextLess(a, b) \/ TextLess(b, a)
<1>1. /\ Scalar \subseteq Nat
      /\ Len(a) \in Nat /\ Len(b) \in Nat /\ Len(c) \in Nat
      /\ DOMAIN a = 1..Len(a) /\ DOMAIN b = 1..Len(b) /\ DOMAIN c = 1..Len(c)
      /\ \A i \in 1..Len(a) : a[i] \in Nat
      /\ \A i \in 1..Len(b) : b[i] \in Nat
      /\ \A i \in 1..Len(c) : c[i] \in Nat
  <2>1. Scalar \subseteq Nat
    BY TableDataAssumption
  <2>2. a \in Seq(Scalar) /\ b \in Seq(Scalar) /\ c \in Seq(Scalar)
    BY DEF Text
  <2>3. /\ \A i \in 1..Len(a) : a[i] \in Scalar
        /\ \A i \in 1..Len(b) : b[i] \in Scalar
        /\ \A i \in 1..Len(c) : c[i] \in Scalar
    BY <2>2
  <2>4. /\ Len(a) \in Nat /\ Len(b) \in Nat /\ Len(c) \in Nat
        /\ DOMAIN a = 1..Len(a) /\ DOMAIN b = 1..Len(b) /\ DOMAIN c = 1..Len(c)
    BY <2>2, LenProperties
  <2> QED BY <2>1, <2>3, <2>4
<1>2. ~TextLess(a, a)
  BY <1>1 DEF TextLess
<1>3. ASSUME TextLess(a, b), TextLess(b, c) PROVE TextLess(a, c)
  <2>1. PICK i \in 1..Len(b) : /\ \A j \in 1..(i - 1) : j <= Len(a) /\ a[j] = b[j]
                               /\ i <= Len(a) => a[i] < b[i]
    BY <1>1, <1>3 DEF TextLess
  <2>2. PICK k \in 1..Len(c) : /\ \A j \in 1..(k - 1) : j <= Len(b) /\ b[j] = c[j]
                               /\ k <= Len(b) => b[k] < c[k]
    BY <1>1, <1>3 DEF TextLess
  <2>3. CASE i < k
    <3>1. /\ i \in DOMAIN c /\ i \in 1..(k - 1)
      BY <1>1, <2>3
    <3>2. \A j \in 1..(i - 1) : j <= Len(a) /\ a[j] = c[j]
      BY <1>1, <2>1, <2>2, <2>3
    <3>3. i <= Len(a) => a[i] < c[i]
      BY <1>1, <2>1, <2>2, <3>1
    <3> QED BY <3>1, <3>2, <3>3 DEF TextLess
  <2>4. CASE i = k
    <3>1. \A j \in 1..(k - 1) : j <= Len(a) /\ a[j] = c[j]
      BY <1>1, <2>1, <2>2, <2>4
    <3>2. k <= Len(a) => a[k] < c[k]
      BY <1>1, <2>1, <2>2, <2>4
    <3> QED BY <1>1, <3>1, <3>2 DEF TextLess
  <2>5. CASE i > k
    <3>1. k \in 1..(i - 1) /\ k <= Len(b)
      BY <1>1, <2>5
    <3>2. \A j \in 1..(k - 1) : j <= Len(a) /\ a[j] = c[j]
      BY <1>1, <2>1, <2>2, <2>5
    <3>3. k <= Len(a) => a[k] < c[k]
      BY <1>1, <2>1, <2>2, <3>1
    <3> QED BY <1>1, <3>2, <3>3 DEF TextLess
  <2> QED BY <2>3, <2>4, <2>5
<1>4. ASSUME a # b PROVE TextLess(a, b) \/ TextLess(b, a)
  <2> DEFINE D == {j \in Nat \ {0} : (j <= Len(a) \/ j <= Len(b))
                                     /\ ~(j <= Len(a) /\ j <= Len(b) /\ a[j] = b[j])}
  <2>1. D # {}
    <3>1. SUFFICES ASSUME D = {} PROVE FALSE
      OBVIOUS
    <3>2. Len(a) = Len(b)
      <4>1. CASE Len(a) < Len(b)
        <5>1. Len(b) \in D
          BY <1>1, <4>1
        <5> QED BY <3>1, <5>1
      <4>2. CASE Len(b) < Len(a)
        <5>1. Len(a) \in D
          BY <1>1, <4>2
        <5> QED BY <3>1, <5>1
      <4>3. Len(a) < Len(b) \/ Len(b) < Len(a) \/ Len(a) = Len(b)
        <5>1. Len(a) \in Int /\ Len(b) \in Int
          BY <1>1
        <5> HIDE DEF D
        <5> QED BY <5>1
      <4> HIDE DEF D
      <4> QED BY <4>1, <4>2, <4>3, Zenon
    <3>3. \A j \in 1..Len(a) : a[j] = b[j]
      <4>1. ASSUME NEW j \in 1..Len(a), a[j] # b[j] PROVE FALSE
        <5>1. j \in D
          BY <1>1, <4>1
        <5> QED BY <3>1, <5>1
      <4> QED BY <4>1
    <3>4. a = b
      BY <3>2, <3>3, SeqEqual DEF Text
    <3> QED BY <1>4, <3>4
  <2>2. PICK m \in D : \A k \in D : m <= k
    <3>1. D \subseteq Nat
      OBVIOUS
    <3> HIDE DEF D
    <3> QED BY <2>1, <3>1, LeastNatural
  <2>3. \A j \in 1..(m - 1) : j <= Len(a) /\ j <= Len(b) /\ a[j] = b[j]
    <3>1. ASSUME NEW j \in 1..(m - 1) PROVE j <= Len(a) /\ j <= Len(b) /\ a[j] = b[j]
      <4>1. j \notin D /\ j \in Nat \ {0}
        <5>1. j \in Nat \ {0} /\ m \in Nat /\ j < m
          OBVIOUS
        <5>2. j \in D => m <= j
          BY <2>2
        <5> QED BY <5>1, <5>2
      <4>2. j <= Len(a) \/ j <= Len(b)
        BY <1>1, <4>1
      <4>3. ~(j <= Len(a) /\ j <= Len(b) /\ a[j] = b[j]) => j \in D
        BY <4>1, <4>2
      <4> QED BY <4>1, <4>3
    <3> QED BY <3>1
  <2>4. m \in Nat \ {0} /\ (m <= Len(a) \/ m <= Len(b))
        /\ ~(m <= Len(a) /\ m <= Len(b) /\ a[m] = b[m])
    OBVIOUS
  <2> HIDE DEF D
  <2>5. CASE m <= Len(b) /\ (m <= Len(a) => a[m] < b[m])
    <3>1. m \in DOMAIN b
      BY <1>1, <2>4, <2>5
    <3> QED BY <2>3, <2>5, <3>1 DEF TextLess
  <2>6. CASE m <= Len(a) /\ (m <= Len(b) => b[m] < a[m])
    <3>1. m \in DOMAIN a
      BY <1>1, <2>4, <2>6
    <3>2. \A j \in 1..(m - 1) : j <= Len(b) /\ b[j] = a[j]
      BY <2>3
    <3> QED BY <2>6, <3>1, <3>2 DEF TextLess
  <2>7. m <= Len(a) /\ m <= Len(b) => a[m] < b[m] \/ b[m] < a[m]
    BY <1>1, <2>4
  <2> QED BY <2>4, <2>5, <2>6, <2>7
<1> QED BY <1>2, <1>3, <1>4

LEMMA SizeType ==
  ASSUME NEW text \in Text
  PROVE  Size(text) \in Nat
<1> DEFINE from(c) == Cardinality({i \in DOMAIN text : text[i] >= c})
<1>1. ASSUME NEW c PROVE from(c) \in Nat
  <2> DEFINE S == {i \in DOMAIN text : text[i] >= c}
  <2>1. DOMAIN text = 1..Len(text) /\ Len(text) \in Nat
    BY DEF Text
  <2>2. IsFiniteSet(DOMAIN text)
    BY <2>1, FS_Interval
  <2>3. S \in SUBSET DOMAIN text
    OBVIOUS
  <2> HIDE DEF S
  <2>4. IsFiniteSet(S)
    BY <2>2, <2>3, FS_Subset
  <2> QED BY <2>4, FS_CardinalityType DEF S
<1>2. Len(text) \in Nat
  BY DEF Text
<1>3. Size(text) = Len(text) + from(128) + from(2048) + from(65536)
  BY DEF Size
<1> HIDE DEF from
<1> QED BY <1>1, <1>2, <1>3

\* The numbers a match is compared by.
LEMMA RankNumbers ==
  ASSUME NEW p, NEW run, NEW variant, NEW a \in Row
  PROVE  LET k == RankKeys(p, run, variant, a)
             s == IF a.phrase = <<>> THEN 0 ELSE a.phrase[1]
         IN /\ k[1] \in Int /\ k[2] \in Int /\ k[3] \in Int /\ k[4] \in Int /\ k[5] \in Int
            /\ s \in Int /\ a.keys \in Text
            /\ k = <<k[1], k[2], k[3], k[4], k[5]>>
<1>1. /\ a.keys \in Text /\ a.phrase \in Text /\ a.freq \in Int /\ a.chosen \in Nat
      /\ Len(a.keys) \in Nat /\ Scalar \subseteq Nat
  BY TextIsSequence, TableDataAssumption DEF Row
<1>2. a.phrase # <<>> => a.phrase[1] \in Scalar
  BY <1>1 DEF Text
<1> DEFINE q == IF a.keys = run THEN 0 ELSE 1
           r == IF p.chinese /\ VariantBoost(variant, PhraseVariants(a.phrase)) THEN 0 ELSE 1
           k == <<q, -a.chosen, r, -a.freq, Size(a.keys)>>
<1>3. q \in Int /\ r \in Int /\ -a.chosen \in Int /\ -a.freq \in Int /\ Size(a.keys) \in Int
  BY <1>1, SizeType
<1>4. RankKeys(p, run, variant, a) = k
  BY DEF RankKeys
<1> HIDE DEF q, r
<1>5. /\ k[1] \in Int /\ k[2] \in Int /\ k[3] \in Int /\ k[4] \in Int /\ k[5] \in Int
      /\ k = <<k[1], k[2], k[3], k[4], k[5]>>
  BY <1>3
<1> HIDE DEF k
<1>6. (IF a.phrase = <<>> THEN 0 ELSE a.phrase[1]) \in Int
  <2>1. ASSUME a.phrase # <<>> PROVE a.phrase[1] \in Int
    <3>1. a.phrase[1] \in Scalar
      BY <1>2, <2>1
    <3>2. Scalar \subseteq Int
      BY <1>1
    <3> QED BY <3>1, <3>2
  <2> QED BY <2>1
<1> QED BY <1>1, <1>4, <1>5, <1>6

\* What comes first by five numbers, then by keys, then by a sixth.
Precedes(k, l, x, y, s, t) ==
  \/ k[1] < l[1]
  \/ k[1] = l[1] /\ k[2] < l[2]
  \/ k[1] = l[1] /\ k[2] = l[2] /\ k[3] < l[3]
  \/ k[1] = l[1] /\ k[2] = l[2] /\ k[3] = l[3] /\ k[4] < l[4]
  \/ k[1] = l[1] /\ k[2] = l[2] /\ k[3] = l[3] /\ k[4] = l[4] /\ k[5] < l[5]
  \/ /\ k[1] = l[1] /\ k[2] = l[2] /\ k[3] = l[3] /\ k[4] = l[4] /\ k[5] = l[5]
     /\ TextLess(x, y) \/ (x = y /\ s < t)

LEMMA RankIs ==
  ASSUME NEW p, NEW run, NEW variant, NEW a \in Row, NEW b \in Row
  PROVE  RankBefore(p, run, variant, a, b) <=>
           Precedes(RankKeys(p, run, variant, a), RankKeys(p, run, variant, b),
                    a.keys, b.keys, IF a.phrase = <<>> THEN 0 ELSE a.phrase[1],
                    IF b.phrase = <<>> THEN 0 ELSE b.phrase[1])
<1> DEFINE k == RankKeys(p, run, variant, a)
           l == RankKeys(p, run, variant, b)
           s == IF a.phrase = <<>> THEN 0 ELSE a.phrase[1]
           t == IF b.phrase = <<>> THEN 0 ELSE b.phrase[1]
           x == a.keys
           y == b.keys
<1>1. RankBefore(p, run, variant, a, b) <=>
        \/ \E i \in DOMAIN k : k[i] < l[i] /\ \A j \in 1..(i - 1) : k[j] = l[j]
        \/ k = l /\ (TextLess(x, y) \/ (x = y /\ s < t))
  BY DEF RankBefore
<1>2. /\ k = <<k[1], k[2], k[3], k[4], k[5]>>
      /\ l = <<l[1], l[2], l[3], l[4], l[5]>>
  BY RankNumbers
<1> HIDE DEF k, l, s, t, x, y
<1>3. DOMAIN k = {1, 2, 3, 4, 5}
  BY <1>2
<1>4. k = l <=> k[1] = l[1] /\ k[2] = l[2] /\ k[3] = l[3] /\ k[4] = l[4] /\ k[5] = l[5]
  BY <1>2
<1>5. /\ \A j \in 1..(1 - 1) : k[j] = l[j]
      /\ (\A j \in 1..(2 - 1) : k[j] = l[j]) <=> k[1] = l[1]
      /\ (\A j \in 1..(3 - 1) : k[j] = l[j]) <=> k[1] = l[1] /\ k[2] = l[2]
      /\ (\A j \in 1..(4 - 1) : k[j] = l[j]) <=> k[1] = l[1] /\ k[2] = l[2] /\ k[3] = l[3]
      /\ (\A j \in 1..(5 - 1) : k[j] = l[j]) <=>
           k[1] = l[1] /\ k[2] = l[2] /\ k[3] = l[3] /\ k[4] = l[4]
  <2>1. /\ 1..(1 - 1) = {} /\ 1..(2 - 1) = {1} /\ 1..(3 - 1) = {1, 2}
        /\ 1..(4 - 1) = {1, 2, 3} /\ 1..(5 - 1) = {1, 2, 3, 4}
    OBVIOUS
  <2> QED BY <2>1
<1>6. (\E i \in DOMAIN k : k[i] < l[i] /\ \A j \in 1..(i - 1) : k[j] = l[j]) <=>
        \/ k[1] < l[1] /\ \A j \in 1..(1 - 1) : k[j] = l[j]
        \/ k[2] < l[2] /\ \A j \in 1..(2 - 1) : k[j] = l[j]
        \/ k[3] < l[3] /\ \A j \in 1..(3 - 1) : k[j] = l[j]
        \/ k[4] < l[4] /\ \A j \in 1..(4 - 1) : k[j] = l[j]
        \/ k[5] < l[5] /\ \A j \in 1..(5 - 1) : k[j] = l[j]
  BY <1>3
<1>7. RankBefore(p, run, variant, a, b) <=> Precedes(k, l, x, y, s, t)
  BY <1>1, <1>4, <1>5, <1>6 DEF Precedes
<1> QED BY <1>7 DEF k, l, s, t, x, y

\* The comparison is a strict weak order: what the sort of the library asks for.
LEMMA RankOrder ==
  ASSUME NEW p, NEW run, NEW variant, NEW a \in Row, NEW b \in Row, NEW c \in Row
  PROVE  /\ ~RankBefore(p, run, variant, a, a)
         /\ RankBefore(p, run, variant, a, b) => ~RankBefore(p, run, variant, b, a)
         /\ RankBefore(p, run, variant, a, b) /\ RankBefore(p, run, variant, b, c)
              => RankBefore(p, run, variant, a, c)
         /\ ~RankBefore(p, run, variant, a, b) /\ ~RankBefore(p, run, variant, b, c)
              => ~RankBefore(p, run, variant, a, c)
<1> DEFINE k == RankKeys(p, run, variant, a)
           l == RankKeys(p, run, variant, b)
           m == RankKeys(p, run, variant, c)
           s == IF a.phrase = <<>> THEN 0 ELSE a.phrase[1]
           t == IF b.phrase = <<>> THEN 0 ELSE b.phrase[1]
           u == IF c.phrase = <<>> THEN 0 ELSE c.phrase[1]
           x == a.keys
           y == b.keys
           z == c.keys
<1>1. /\ RankBefore(p, run, variant, a, a) <=> Precedes(k, k, x, x, s, s)
      /\ RankBefore(p, run, variant, a, b) <=> Precedes(k, l, x, y, s, t)
      /\ RankBefore(p, run, variant, b, a) <=> Precedes(l, k, y, x, t, s)
      /\ RankBefore(p, run, variant, b, c) <=> Precedes(l, m, y, z, t, u)
      /\ RankBefore(p, run, variant, a, c) <=> Precedes(k, m, x, z, s, u)
  BY RankIs
<1>2. /\ k[1] \in Int /\ k[2] \in Int /\ k[3] \in Int /\ k[4] \in Int /\ k[5] \in Int
      /\ l[1] \in Int /\ l[2] \in Int /\ l[3] \in Int /\ l[4] \in Int /\ l[5] \in Int
      /\ m[1] \in Int /\ m[2] \in Int /\ m[3] \in Int /\ m[4] \in Int /\ m[5] \in Int
      /\ s \in Int /\ t \in Int /\ u \in Int
      /\ x \in Text /\ y \in Text /\ z \in Text
  BY RankNumbers
<1> HIDE DEF k, l, m, s, t, u, x, y, z
<1>3. /\ ~TextLess(x, x) /\ ~(TextLess(x, y) /\ TextLess(y, x))
      /\ TextLess(x, y) /\ TextLess(y, z) => TextLess(x, z)
      /\ x # y => TextLess(x, y) \/ TextLess(y, x)
      /\ y # z => TextLess(y, z) \/ TextLess(z, y)
      /\ TextLess(z, y) /\ TextLess(y, x) => TextLess(z, x)
      /\ ~(TextLess(x, z) /\ TextLess(z, x)) /\ ~TextLess(z, z)
  <2>1. \A f, g, h \in Text :
          /\ ~TextLess(f, f)
          /\ TextLess(f, g) /\ TextLess(g, h) => TextLess(f, h)
          /\ f # g => TextLess(f, g) \/ TextLess(g, f)
    BY TextOrder
  <2> QED BY <1>2, <2>1
<1>4. ~Precedes(k, k, x, x, s, s)
  BY <1>2, <1>3 DEF Precedes
<1>5. Precedes(k, l, x, y, s, t) => ~Precedes(l, k, y, x, t, s)
  BY <1>2, <1>3 DEF Precedes
<1>6. Precedes(k, l, x, y, s, t) /\ Precedes(l, m, y, z, t, u) => Precedes(k, m, x, z, s, u)
  BY <1>2, <1>3 DEF Precedes
<1>7. ~Precedes(k, l, x, y, s, t) /\ ~Precedes(l, m, y, z, t, u)
        => ~Precedes(k, m, x, z, s, u)
  BY <1>2, <1>3, SMTT(60) DEF Precedes
<1> QED BY <1>1, <1>4, <1>5, <1>6, <1>7

\* The comparison given to the sort, ties by the order found, is a total order.
AheadOf(p, run, variant, list) ==
  [i \in DOMAIN list |-> {j \in DOMAIN list : Ahead(p, run, variant, list, j, i)}]

LEMMA IsAheadOf ==
  ASSUME NEW p, NEW run, NEW variant, NEW list, NEW i \in DOMAIN list
  PROVE  /\ AheadOf(p, run, variant, list)[i] \subseteq DOMAIN list
         /\ \A j \in DOMAIN list :
              j \in AheadOf(p, run, variant, list)[i] <=> Ahead(p, run, variant, list, j, i)
<1> DEFINE D == DOMAIN list
           A(a, b) == Ahead(p, run, variant, list, a, b)
<1>1. AheadOf(p, run, variant, list)[i] = {j \in D : A(j, i)}
  BY DEF AheadOf
<1> HIDE DEF A
<1>2. /\ AheadOf(p, run, variant, list)[i] \subseteq D
      /\ \A j \in D : j \in AheadOf(p, run, variant, list)[i] <=> A(j, i)
  BY <1>1
<1> QED BY <1>2 DEF A

LEMMA AheadOrder ==
  ASSUME NEW p, NEW run, NEW variant, NEW list \in Seq(Row)
  PROVE  TotalOrder(AheadOf(p, run, variant, list), Len(list))
<1> DEFINE B(i, j) == RankBefore(p, run, variant, list[i], list[j])
           R == AheadOf(p, run, variant, list)
           n == Len(list)
<1>1. n \in Nat /\ DOMAIN list = 1..n /\ \A i \in 1..n : list[i] \in Row
  OBVIOUS
<1>2. /\ \A j \in 1..n : R[j] \subseteq 1..n
      /\ \A i, j \in 1..n : i \in R[j] <=> B(i, j) \/ (~B(j, i) /\ i < j)
  BY <1>1, IsAheadOf DEF Ahead
<1>3. ASSUME NEW i \in 1..n, NEW j \in 1..n, NEW k \in 1..n
      PROVE  /\ ~B(i, i)
             /\ B(i, j) => ~B(j, i)
             /\ B(i, j) /\ B(j, k) => B(i, k)
             /\ ~B(i, j) /\ ~B(j, k) => ~B(i, k)
             /\ ~B(k, j) /\ ~B(j, i) => ~B(k, i)
  <2>1. list[i] \in Row /\ list[j] \in Row /\ list[k] \in Row
    BY <1>1
  <2> QED BY <2>1, RankOrder
<1> HIDE DEF B, R, n
<1>4. ASSUME NEW i \in 1..n PROVE i \notin R[i]
  BY <1>2, <1>3
<1>5. ASSUME NEW i \in 1..n, NEW j \in 1..n, i # j
      PROVE  i \in R[j] \/ j \in R[i]
  <2>1. i < j \/ j < i
    BY <1>5
  <2> QED BY <1>2, <2>1
<1>6. ASSUME NEW i \in 1..n, NEW j \in 1..n, NEW k \in 1..n, i \in R[j], j \in R[k]
      PROVE  i \in R[k]
  <2>1. B(i, j) \/ (~B(j, i) /\ i < j)
    BY <1>2, <1>6
  <2>2. B(j, k) \/ (~B(k, j) /\ j < k)
    BY <1>2, <1>6
  <2>3. /\ ~B(i, k) /\ ~B(k, j) => ~B(i, j)
        /\ ~B(j, i) /\ ~B(i, k) => ~B(j, k)
    BY <1>3
  <2>4. i < j /\ j < k => i < k
    OBVIOUS
  <2>5. B(i, k) \/ (~B(k, i) /\ i < k)
    BY <1>3, <2>1, <2>2, <2>3, <2>4
  <2> QED BY <1>2, <2>5
<1>7. TotalOrder(R, n)
  BY <1>2, <1>4, <1>5, <1>6 DEF TotalOrder
<1> QED BY <1>7 DEF R, n

\* Sorting neither adds, loses nor repeats a match, and puts none before a better one.
LEMMA SortedIs ==
  ASSUME NEW p, NEW run, NEW variant, NEW list \in Seq(Row),
         NEW s, s = Sorted(p, run, variant, list)
  PROVE  /\ s \in Seq(Row) /\ Len(s) = Len(list)
         /\ \A i \in 1..Len(list) : \E k \in 1..Len(s) : s[k] = list[i]
         /\ \A k \in 1..Len(s) : \E i \in 1..Len(list) : s[k] = list[i]
         /\ \A k, l \in 1..Len(s) : k < l => ~RankBefore(p, run, variant, s[l], s[k])
<1> DEFINE n == Len(list)
           R == AheadOf(p, run, variant, list)
           place == [i \in 1..n |-> 1 + Cardinality(R[i])]
           at(k) == CHOOSE i \in 1..n : place[i] = k
<1>1. n \in Nat /\ DOMAIN list = 1..n /\ \A i \in 1..n : list[i] \in Row
  OBVIOUS
<1>2. TotalOrder(R, n)
  BY AheadOrder
<1>3. s = [k \in 1..n |-> list[at(k)]]
  <2> DEFINE f == [i \in DOMAIN list |->
                1 + Cardinality({j \in DOMAIN list : Ahead(p, run, variant, list, j, i)})]
  <2>1. \A i \in DOMAIN list :
          R[i] = {j \in DOMAIN list : Ahead(p, run, variant, list, j, i)}
    BY DEF AheadOf
  <2>2. f = place
    BY <1>1, <2>1
  <2>3. s = [k \in DOMAIN list |-> list[CHOOSE i \in DOMAIN list : f[i] = k]]
    BY DEF Sorted
  <2> HIDE DEF f, place
  <2> QED BY <1>1, <2>2, <2>3
<1> HIDE DEF R
<1>4. Places(place, R, n)
  <2>1. Counts(place, R, n)
    BY DEF Counts
  <2> HIDE DEF place, n
  <2> QED BY <1>1, <1>2, <2>1, EachItsPlace
<1> HIDE DEF place
<1>5. ASSUME NEW k \in 1..n PROVE at(k) \in 1..n /\ place[at(k)] = k
  BY <1>4 DEF Places
<1>6. s \in Seq(Row) /\ Len(s) = n /\ \A k \in 1..n : s[k] = list[at(k)]
  <2>1. \A k \in 1..n : list[at(k)] \in Row
    BY <1>1, <1>5
  <2> HIDE DEF at, n
  <2>2. s \in [1..n -> Row] /\ \A k \in 1..n : s[k] = list[at(k)]
    BY <1>3, <2>1
  <2> QED BY <1>1, <2>2, IsASeq, LenProperties
<1>7. ASSUME NEW i \in 1..n PROVE \E k \in 1..n : s[k] = list[i]
  <2>1. place[i] \in 1..n
    BY <1>4 DEF Places
  <2>2. at(place[i]) \in 1..n /\ place[at(place[i])] = place[i]
    BY <1>5, <2>1
  <2> HIDE DEF at
  <2>3. at(place[i]) = i
    BY <1>4, <2>2 DEF Places
  <2> QED BY <1>6, <2>1, <2>3
<1>8. ASSUME NEW k \in 1..n, NEW l \in 1..n, k < l
      PROVE  ~RankBefore(p, run, variant, s[l], s[k])
  <2>1. /\ at(k) \in 1..n /\ at(l) \in 1..n /\ place[at(k)] = k /\ place[at(l)] = l
        /\ s[k] = list[at(k)] /\ s[l] = list[at(l)]
    BY <1>5, <1>6
  <2> HIDE DEF at
  <2>2. at(l) \notin R[at(k)]
    <3>1. at(l) \in R[at(k)] => place[at(l)] < place[at(k)]
      BY <1>4, <2>1 DEF Places
    <3> QED BY <1>8, <2>1, <3>1
  <2>3. ~Ahead(p, run, variant, list, at(l), at(k))
    BY <1>1, <2>1, <2>2, IsAheadOf DEF R
  <2> QED BY <2>1, <2>3 DEF Ahead
<1>9. \A k \in 1..n : \E i \in 1..n : s[k] = list[i]
  BY <1>5, <1>6
<1>10. n = Len(list)
  OBVIOUS
<1> HIDE DEF n, at
<1> QED BY <1>6, <1>7, <1>8, <1>9, <1>10

-------------------------------------------------------------------------------
(* What is kept of a list.                                                 *)

\* Only keeps what is good, all of it, and nothing else.
Keeps(kept, list, good) ==
  \A i \in 1..Len(list) : list[i] \in good => \E k \in 1..Len(kept) : kept[k] = list[i]

LEMMA OnlyIs ==
  ASSUME NEW S, NEW good, NEW list \in Seq(S)
  PROVE  /\ Only(list, good) \in Seq(S \cap good)
         /\ Keeps(Only(list, good), list, good)
<1> DEFINE F == [x \in S |-> IF x \in good THEN <<x>> ELSE <<>>]
           T == S \cap good
           has(s, x) == \E k \in 1..Len(s) : s[k] = x
           P == {q \in Seq(S) : \A i \in 1..Len(q) : q[i] \in good => has(Joined(F, q), q[i])}
<1>1. Becomes(F, S, T)
  <2>1. ASSUME NEW x \in S PROVE F[x] \in Seq(T)
    <3>1. CASE x \in good
      <4>1. F[x] = <<x>> /\ x \in T
        BY <3>1
      <4> QED BY <4>1
    <3>2. CASE x \notin good
      <4>1. F[x] = <<>>
        BY <3>2
      <4> QED BY <4>1
    <3> QED BY <3>1, <3>2
  <2> QED BY <2>1 DEF Becomes
<1>2. Only(list, good) = Joined(F, list)
  <2> DEFINE a == [i \in DOMAIN list |-> IF list[i] \in good THEN <<list[i]>> ELSE <<>>]
             b == [i \in DOMAIN list |-> F[list[i]]]
  <2>1. a = b
    OBVIOUS
  <2>2. Only(list, good) = FlattenSeq(a) /\ Joined(F, list) = FlattenSeq(b)
    BY DEF Only, Joined
  <2> HIDE DEF a, b
  <2> QED BY <2>1, <2>2
<1>3. \A x \in S : x \in good => F[x] = <<x>>
  OBVIOUS
<1> HIDE DEF F, T
<1>4. <<>> \in P
  OBVIOUS
<1>5. ASSUME NEW q \in Seq(S), NEW x \in S, q \in P PROVE Append(q, x) \in P
  <2> DEFINE s == Append(q, x)
             one == <<x>>
             h == Joined(F, q)
             t == Joined(F, one)
             j == Joined(F, s)
  <2>1. /\ s \in Seq(S) /\ Len(s) = Len(q) + 1 /\ Len(q) \in Nat /\ s[Len(q) + 1] = x
        /\ \A i \in 1..Len(q) : s[i] = q[i]
    BY AppendProperties, LenProperties
  <2>2. s = q \o one /\ one \in Seq(S)
    <3>1. one \in Seq(S)
      OBVIOUS
    <3>2. s = q \o one
      BY AppendIsConcat
    <3> QED BY <3>1, <3>2
  <2>3. t = F[x]
    BY <1>1, JoinedOne
  <2> HIDE DEF one, s
  <2>4. j = h \o t
    BY <1>1, <2>2, JoinedConcat
  <2>5. h \in Seq(T) /\ t \in Seq(T)
    BY <1>1, <2>2, JoinedType
  <2> HIDE DEF h, t, j
  <2>6. /\ Len(h) \in Nat /\ Len(t) \in Nat /\ Len(j) = Len(h) + Len(t)
        /\ \A k \in 1..Len(h) : j[k] = h[k]
        /\ \A k \in 1..Len(t) : j[Len(h) + k] = t[k]
    BY <2>4, <2>5, ConcatProperties, LenProperties
  <2>7. ASSUME NEW i \in 1..Len(s), s[i] \in good PROVE has(j, s[i])
    <3>1. CASE i \in 1..Len(q)
      <4>1. has(h, q[i])
        BY <1>5, <2>1, <2>7, <3>1 DEF h
      <4>2. PICK k \in 1..Len(h) : h[k] = q[i]
        BY <4>1
      <4>3. k \in 1..Len(j)
        BY <2>6
      <4>4. j[k] = h[k] /\ s[i] = q[i]
        BY <2>1, <2>6, <3>1
      <4>5. j[k] = s[i]
        BY <4>2, <4>4
      <4> QED BY <4>3, <4>5
    <3>2. CASE i = Len(q) + 1
      <4>1. s[i] = x /\ t = <<x>>
        BY <1>3, <2>1, <2>3, <2>7, <3>2
      <4>2. Len(t) = 1 /\ t[1] = x
        BY <4>1
      <4>3. Len(h) + 1 \in 1..Len(j) /\ j[Len(h) + 1] = s[i]
        BY <2>6, <4>1, <4>2
      <4> QED BY <4>3
    <3> QED BY <2>1, <3>1, <3>2
  <2>8. s \in P
    BY <2>1, <2>7 DEF j
  <2> QED BY <2>8 DEF s
<1> HIDE DEF P
<1>6. Seq(S) \subseteq P
  BY <1>4, <1>5, SequenceInduction
<1>7. Joined(F, list) \in Seq(T)
  BY <1>1, JoinedType
<1>8. \A i \in 1..Len(list) : list[i] \in good => has(Joined(F, list), list[i])
  BY <1>6 DEF P
<1> QED BY <1>2, <1>7, <1>8 DEF T, Keeps

\* Of so many integers one is the largest.
LEMMA LargestOf ==
  ASSUME NEW N \in Nat, NEW f \in [1..N -> Int], NEW I \in SUBSET (1..N), I # {}
  PROVE  \E i \in I : \A j \in I : f[j] <= f[i]
<1> DEFINE Tops(J) == \E i \in J : \A j \in J : f[j] <= f[i]
           T == {n \in Nat : \A J \in SUBSET (1..N) : J \subseteq 1..n /\ J # {} => Tops(J)}
<1>1. 0 \in T
  <2>1. 1..0 = {}
    OBVIOUS
  <2> QED BY <2>1
<1>2. ASSUME NEW n \in Nat, n \in T PROVE n + 1 \in T
  <2>1. ASSUME NEW J \in SUBSET (1..N), J \subseteq 1..(n + 1), J # {} PROVE Tops(J)
    <3> DEFINE K == J \ {n + 1}
    <3>1. K \in SUBSET (1..N) /\ K \subseteq 1..n
      BY <2>1
    <3>2. CASE K = {}
      <4>1. J = {n + 1} /\ f[n + 1] \in Int
        BY <2>1, <3>2
      <4> QED BY <4>1
    <3>3. CASE K # {}
      <4>1. PICK i \in K : \A j \in K : f[j] <= f[i]
        BY <1>2, <3>1, <3>3
      <4>2. i \in J /\ \A j \in J : f[j] \in Int
        OBVIOUS
      <4>3. CASE n + 1 \in J /\ f[i] <= f[n + 1]
        <5>1. \A j \in J : f[j] <= f[n + 1]
          BY <4>1, <4>2, <4>3
        <5> QED BY <4>3, <5>1
      <4>4. CASE n + 1 \in J /\ ~(f[i] <= f[n + 1])
        <5>1. \A j \in J : f[j] <= f[i]
          BY <4>1, <4>2, <4>4
        <5> QED BY <4>2, <5>1
      <4>5. CASE n + 1 \notin J
        <5>1. \A j \in J : f[j] <= f[i]
          BY <4>1, <4>5
        <5> QED BY <4>2, <5>1
      <4> QED BY <4>3, <4>4, <4>5
    <3> QED BY <3>2, <3>3
  <2> QED BY <2>1
<1> HIDE DEF T
<1>3. Nat \subseteq T
  BY <1>1, <1>2, Induction
<1>4. N \in T
  BY <1>3
<1> QED BY <1>4 DEF T

-------------------------------------------------------------------------------
(* Rows.                                                                   *)

\* Rows whose phrases are of a kind.
RowOf(B) == [keys : Text, phrase : B, freq : Int, chosen : Nat]

LEMMA RowKinds ==
  ASSUME NEW B \in SUBSET Text
  PROVE  RowOf(B) \subseteq Row /\ RowOf(Text) = Row
BY DEF RowOf, Row

\* Merging changes numbers only.
LEMMA MergedType ==
  ASSUME NEW B \in SUBSET Text, NEW rows \in Seq(RowOf(B)), NEW i \in DOMAIN rows
  PROVE  /\ Merged(rows, rows[i]) \in RowOf(B)
         /\ SamePair(Merged(rows, rows[i]), rows[i])
<1> DEFINE r == rows[i]
           N == Len(rows)
           I == {k \in DOMAIN rows : SamePair(rows[k], r)}
           same == {rows[k] : k \in I}
           f == [k \in 1..N |-> rows[k].freq]
           g == [k \in 1..N |-> rows[k].chosen]
           freq == CHOOSE n \in {s.freq : s \in same} : \A s \in same : s.freq <= n
           chosen == CHOOSE n \in {s.chosen : s \in same} : \A s \in same : s.chosen <= n
<1>1. N \in Nat /\ DOMAIN rows = 1..N /\ r \in RowOf(B) /\ \A k \in 1..N : rows[k] \in RowOf(B)
  OBVIOUS
<1>2. f \in [1..N -> Int] /\ g \in [1..N -> Int]
  BY <1>1 DEF RowOf
<1>3. I \in SUBSET (1..N) /\ I # {}
  <2>1. i \in I
    BY DEF SamePair
  <2> QED BY <1>1, <2>1
<1>4. Merged(rows, r) = [r EXCEPT !.freq = freq, !.chosen = chosen]
  BY DEF Merged
<1> HIDE DEF I
<1>5. freq \in Int
  <2>1. PICK k \in I : \A j \in I : f[j] <= f[k]
    <3> HIDE DEF f, N
    <3> QED BY <1>1, <1>2, <1>3, LargestOf
  <2>2. /\ f[k] \in {s.freq : s \in same} /\ \A s \in same : s.freq <= f[k]
        /\ {s.freq : s \in same} \subseteq Int
    BY <1>1, <1>2, <1>3, <2>1 DEF RowOf
  <2> HIDE DEF same, f
  <2> QED BY <2>2
<1>6. chosen \in Nat
  <2>1. PICK k \in I : \A j \in I : g[j] <= g[k]
    <3> HIDE DEF g, N
    <3> QED BY <1>1, <1>2, <1>3, LargestOf
  <2>2. /\ g[k] \in {s.chosen : s \in same} /\ \A s \in same : s.chosen <= g[k]
        /\ {s.chosen : s \in same} \subseteq Nat
    BY <1>1, <1>2, <1>3, <2>1 DEF RowOf
  <2> HIDE DEF same, g
  <2> QED BY <2>2
<1> HIDE DEF freq, chosen
<1>7. /\ [r EXCEPT !.freq = freq, !.chosen = chosen] \in RowOf(B)
      /\ SamePair([r EXCEPT !.freq = freq, !.chosen = chosen], r)
  BY <1>1, <1>5, <1>6 DEF RowOf, SamePair
<1> QED BY <1>4, <1>7

\* A lookup finds rows of the table and of the user, only their numbers merged.
LEMMA LookupType ==
  ASSUME NEW B \in SUBSET Text, NEW rows \in Seq(RowOf(B)), NEW user \in Seq(RowOf(B)),
         NEW p, NEW run
  PROVE  Lookup(p, rows, user, run) \in Seq(RowOf(B))
<1> DEFINE all == rows \o user
           good == {r \in Range(all) : Like(r.keys, LikePattern(p, run), Escape(p))}
           found == Only(all, good)
           at == [i \in DOMAIN found |-> i]
           fresh == {i \in DOMAIN found : FirstOfPair(found, i)}
           firsts == Only(at, fresh)
           list == [i \in DOMAIN firsts |-> Merged(found, found[firsts[i]])]
<1>1. Lookup(p, rows, user, run) = list
  BY DEF Lookup
<1>2. all \in Seq(RowOf(B))
  BY ConcatProperties
<1> HIDE DEF all, good
<1>3. found \in Seq(RowOf(B))
  <2>1. found \in Seq(RowOf(B) \cap good)
    BY <1>2, OnlyIs
  <2> HIDE DEF found
  <2>2. DOMAIN found = 1..Len(found) /\ Len(found) \in Nat
        /\ \A i \in 1..Len(found) : found[i] \in RowOf(B)
    BY <2>1
  <2> QED BY <2>1, <2>2
<1> HIDE DEF found
<1>4. at \in Seq(DOMAIN found)
  BY <1>3
<1> HIDE DEF at, fresh
<1>5. firsts \in Seq((DOMAIN found) \cap fresh)
  BY <1>4, OnlyIs
<1> HIDE DEF firsts
<1>6. /\ Len(firsts) \in Nat /\ DOMAIN firsts = 1..Len(firsts)
      /\ \A i \in 1..Len(firsts) : firsts[i] \in DOMAIN found
  BY <1>5
<1>7. \A i \in 1..Len(firsts) : Merged(found, found[firsts[i]]) \in RowOf(B)
  BY <1>3, <1>6, MergedType
<1>8. list \in [1..Len(firsts) -> RowOf(B)]
  BY <1>6, <1>7
<1> HIDE DEF list
<1> QED BY <1>1, <1>6, <1>8, IsASeq

\* What is offered of what was found.
BestFirst(ranked, found, p, run, variant) ==
  /\ Len(ranked) <= CandidateCap
  /\ \A k \in 1..Len(ranked) :
       /\ Admitted(p, variant, ranked[k])
       /\ \E i \in 1..Len(found) : ranked[k] = found[i]
  /\ \A k, l \in 1..Len(ranked) : k < l => ~RankBefore(p, run, variant, ranked[l], ranked[k])
  /\ \A i \in 1..Len(found) : Admitted(p, variant, found[i]) =>
       \/ \E k \in 1..Len(ranked) : ranked[k] = found[i]
       \/ /\ Len(ranked) = CandidateCap
          /\ \A k \in 1..Len(ranked) : ~RankBefore(p, run, variant, found[i], ranked[k])

\* The first of a sorted list, so many of it.
LEMMA FirstOfSorted ==
  ASSUME NEW S, NEW s \in Seq(S), NEW m \in Nat, m <= Len(s)
  PROVE  /\ SubSeq(s, 1, m) \in Seq(S) /\ Len(SubSeq(s, 1, m)) = m
         /\ \A k \in 1..m : SubSeq(s, 1, m)[k] = s[k]
<1>1. Len(s) \in Nat /\ \A k \in 1..m : s[k] \in S
  BY LenProperties
<1> QED BY <1>1, SubSeqProperties

\* What the variants of a table and a client's choice of them admit is offered, the
\* best first: no candidate stands before a better one, none is offered that was
\* not found, and one that was found is left out only by the cap, and then nothing
\* worse than it is offered (rank_candidates, the comparison given to its sort).
THEOREM BestIsFirst ==
  ASSUME NEW p, NEW run, NEW variant, NEW found \in Seq(Row)
  PROVE  BestFirst(RankCandidates(p, run, variant, found), found, p, run, variant)
<1> DEFINE good == {m \in Range(found) : Admitted(p, variant, m)}
           kept == Only(found, good)
           s == Sorted(p, run, variant, kept)
           m == IF Len(s) < CandidateCap THEN Len(s) ELSE CandidateCap
           ranked == SubSeq(s, 1, m)
<1>1. RankCandidates(p, run, variant, found) = ranked
  BY DEF RankCandidates
<1>2. /\ Len(found) \in Nat /\ DOMAIN found = 1..Len(found)
      /\ \A i \in 1..Len(found) : found[i] \in Row
  OBVIOUS
<1>3. \A x : x \in good <=> (\E i \in 1..Len(found) : x = found[i]) /\ Admitted(p, variant, x)
  BY <1>2 DEF Range
<1> HIDE DEF good
<1>4. /\ kept \in Seq(Row \cap good)
      /\ \A i \in 1..Len(found) : found[i] \in good => \E k \in 1..Len(kept) : kept[k] = found[i]
  <2>1. kept \in Seq(Row \cap good) /\ Keeps(kept, found, good)
    BY OnlyIs, Zenon
  <2> HIDE DEF kept
  <2> QED BY <2>1 DEF Keeps
<1> HIDE DEF kept
<1>5. kept \in Seq(Row) /\ Len(kept) \in Nat /\ \A k \in 1..Len(kept) : kept[k] \in good
  BY <1>4
<1>6. /\ s \in Seq(Row) /\ Len(s) = Len(kept)
      /\ \A i \in 1..Len(kept) : \E k \in 1..Len(s) : s[k] = kept[i]
      /\ \A k \in 1..Len(s) : \E i \in 1..Len(kept) : s[k] = kept[i]
      /\ \A k, l \in 1..Len(s) : k < l => ~RankBefore(p, run, variant, s[l], s[k])
  BY <1>5, SortedIs
<1> HIDE DEF s
<1>7. /\ m \in Nat /\ m <= Len(s) /\ m <= CandidateCap
      /\ m # CandidateCap => m = Len(s)
      /\ Len(s) \in Nat
  <2>1. CandidateCap \in Nat /\ Len(s) \in Nat
    BY <1>5, <1>6, TableDataAssumption
  <2> QED BY <2>1
<1> HIDE DEF m
<1>8. Len(ranked) = m /\ \A k \in 1..m : ranked[k] = s[k]
  BY <1>6, <1>7, FirstOfSorted
<1> HIDE DEF ranked
<1>9. ASSUME NEW k \in 1..m
      PROVE  ranked[k] \in good
  <2>1. k \in 1..Len(s) /\ ranked[k] = s[k]
    BY <1>7, <1>8
  <2>2. PICK i \in 1..Len(kept) : s[k] = kept[i]
    BY <1>6, <2>1
  <2> QED BY <1>5, <2>1, <2>2
<1>10. ASSUME NEW k \in 1..m, NEW l \in 1..m, k < l
       PROVE  ~RankBefore(p, run, variant, ranked[l], ranked[k])
  <2>1. /\ k \in 1..Len(s) /\ l \in 1..Len(s)
        /\ ranked[k] = s[k] /\ ranked[l] = s[l]
    BY <1>7, <1>8
  <2> QED BY <1>6, <1>10, <2>1
<1>11. ASSUME NEW i \in 1..Len(found), Admitted(p, variant, found[i]),
              ~\E k \in 1..m : ranked[k] = found[i]
       PROVE  /\ m = CandidateCap
              /\ \A k \in 1..m : ~RankBefore(p, run, variant, found[i], ranked[k])
  <2>1. found[i] \in good
    BY <1>3, <1>11
  <2>2. PICK j \in 1..Len(kept) : kept[j] = found[i]
    BY <1>4, <2>1
  <2>3. PICK l \in 1..Len(s) : s[l] = kept[j]
    BY <1>6
  <2>4. l \notin 1..m
    BY <1>8, <1>11, <2>2, <2>3
  <2>5. l > m /\ m = CandidateCap
    BY <1>7, <2>4
  <2>6. ASSUME NEW k \in 1..m PROVE ~RankBefore(p, run, variant, found[i], ranked[k])
    <3>1. k < l /\ k \in 1..Len(s) /\ ranked[k] = s[k]
      BY <1>7, <1>8, <2>5
    <3> QED BY <1>6, <2>2, <2>3, <3>1
  <2> QED BY <2>5, <2>6
<1>12. BestFirst(ranked, found, p, run, variant)
  BY <1>3, <1>7, <1>8, <1>9, <1>10, <1>11 DEF BestFirst
<1> QED BY <1>1, <1>12

\* What is offered are rows of the kind found.
LEMMA RankedType ==
  ASSUME NEW B \in SUBSET Text, NEW p, NEW run, NEW variant, NEW found \in Seq(RowOf(B))
  PROVE  RankCandidates(p, run, variant, found) \in Seq(RowOf(B))
<1> DEFINE good == {m \in Range(found) : Admitted(p, variant, m)}
           kept == Only(found, good)
           s == Sorted(p, run, variant, kept)
           m == IF Len(s) < CandidateCap THEN Len(s) ELSE CandidateCap
<1>1. RankCandidates(p, run, variant, found) = SubSeq(s, 1, m)
  BY DEF RankCandidates
<1> HIDE DEF good
<1>2. kept \in Seq(RowOf(B) \cap good)
  BY OnlyIs
<1> HIDE DEF kept
<1>3. /\ Len(kept) \in Nat /\ \A k \in 1..Len(kept) : kept[k] \in RowOf(B)
      /\ kept \in Seq(RowOf(B))
  BY <1>2
<1>4. kept \in Seq(Row)
  BY <1>3, RowKinds
<1>5. /\ s \in Seq(Row) /\ Len(s) = Len(kept)
      /\ \A k \in 1..Len(s) : \E i \in 1..Len(kept) : s[k] = kept[i]
  BY <1>4, SortedIs
<1> HIDE DEF s
<1>6. s \in Seq(RowOf(B))
  <2>1. \A k \in 1..Len(s) : s[k] \in RowOf(B)
    BY <1>3, <1>5
  <2>2. s = [k \in 1..Len(s) |-> s[k]]
    BY <1>5
  <2> QED BY <1>3, <1>5, <2>1, <2>2
<1>7. m \in Nat /\ m <= Len(s)
  <2>1. CandidateCap \in Nat /\ Len(s) \in Nat
    BY <1>3, <1>5, TableDataAssumption
  <2> QED BY <2>1
<1> HIDE DEF m
<1>8. SubSeq(s, 1, m) \in Seq(RowOf(B))
  BY <1>6, <1>7, FirstOfSorted
<1> QED BY <1>1, <1>8

-------------------------------------------------------------------------------
(* What is learned.                                                        *)

\* Does every row of every table have a phrase? A source may give a code none
\* (parse_table_source, NOSYMBOL).
Phrased == \A t \in Tables : Database[t].rows \in Seq(RowOf(Text \ {<<>>}))

Wording == IF Phrased THEN Text \ {<<>>} ELSE Text

Lesson == [keys : Text, phrase : Wording, freq : Int, chosen : Nat \ {0}]

LEMMA WordingIs ==
  /\ Wording \in SUBSET Text
  /\ Phrased => Wording = Text \ {<<>>}
  /\ \A t \in Tables : Database[t].rows \in Seq(RowOf(Wording))
  /\ Lesson \subseteq RowOf(Wording)
<1>1. /\ Wording \in SUBSET Text
      /\ Phrased => Wording = Text \ {<<>>}
      /\ ~Phrased => Wording = Text
  BY DEF Wording
<1>2. \A t \in Tables : Database[t].rows \in Seq(RowOf(Text))
  BY TableInputAssumption, RowKinds
<1>3. \A t \in Tables : Database[t].rows \in Seq(RowOf(Wording))
  BY <1>1, <1>2 DEF Phrased
<1>4. Lesson \subseteq RowOf(Wording)
  BY DEF Lesson, RowOf
<1> QED BY <1>1, <1>3, <1>4

\* One more choice: no row goes or loses a count, and a new one comes last.
Grows(rows, user) ==
  /\ Len(user) <= Len(rows)
  /\ \A i \in 1..Len(user) :
       \E n \in Nat : user[i].chosen <= n /\ rows[i] = [user[i] EXCEPT !.chosen = n]

LEMMA RecordedType ==
  ASSUME NEW user \in Seq(Lesson), NEW keys \in Text, NEW phrase \in Wording
  PROVE  /\ RecordSelection(user, keys, phrase) \in Seq(Lesson)
         /\ Grows(RecordSelection(user, keys, phrase), user)
<1> DEFINE mine == [keys |-> keys, phrase |-> phrase, freq |-> 0, chosen |-> 1]
           N == Len(user)
           counted(i) == IF SamePair(user[i], mine) THEN [user[i] EXCEPT !.chosen = @ + 1]
                         ELSE user[i]
           w == RecordSelection(user, keys, phrase)
<1>1. N \in Nat /\ DOMAIN user = 1..N /\ \A i \in 1..N : user[i] \in Lesson
  OBVIOUS
<1>2. mine \in Lesson
  BY DEF Lesson
<1>3. \/ w = [i \in 1..N |-> counted(i)]
      \/ w = Append(user, mine)
  BY <1>1 DEF RecordSelection
<1>4. ASSUME NEW i \in 1..N
      PROVE  /\ counted(i) \in Lesson
             /\ \E n \in Nat : user[i].chosen <= n /\ counted(i) = [user[i] EXCEPT !.chosen = n]
             /\ \E n \in Nat : user[i].chosen <= n /\ user[i] = [user[i] EXCEPT !.chosen = n]
  <2>1. user[i] \in Lesson /\ user[i].chosen \in Nat \ {0}
    BY <1>1 DEF Lesson
  <2>2. [user[i] EXCEPT !.chosen = @ + 1] \in Lesson
    BY <2>1 DEF Lesson
  <2>3. user[i] = [user[i] EXCEPT !.chosen = user[i].chosen]
    BY <2>1 DEF Lesson
  <2>4. /\ [user[i] EXCEPT !.chosen = @ + 1] = [user[i] EXCEPT !.chosen = user[i].chosen + 1]
        /\ user[i].chosen + 1 \in Nat /\ user[i].chosen <= user[i].chosen + 1
        /\ user[i].chosen \in Nat /\ user[i].chosen <= user[i].chosen
    BY <2>1
  <2>5. counted(i) = [user[i] EXCEPT !.chosen = @ + 1] \/ counted(i) = user[i]
    OBVIOUS
  <2> HIDE DEF counted
  <2> QED BY <2>1, <2>2, <2>3, <2>4, <2>5
<1>5. CASE w = [i \in 1..N |-> counted(i)]
  <2> HIDE DEF w, counted
  <2>1. w \in Seq(Lesson) /\ Len(w) = N /\ \A i \in 1..N : w[i] = counted(i)
    BY <1>1, <1>4, <1>5
  <2>2. Grows(w, user)
    BY <1>1, <1>4, <2>1 DEF Grows
  <2> QED BY <2>1, <2>2 DEF w
<1>6. CASE w = Append(user, mine)
  <2> HIDE DEF w, mine, counted
  <2>1. w \in Seq(Lesson) /\ Len(w) = N + 1 /\ \A i \in 1..N : w[i] = user[i]
    BY <1>1, <1>2, <1>6, AppendProperties
  <2>2. Grows(w, user)
    BY <1>1, <1>4, <2>1 DEF Grows
  <2> QED BY <2>1, <2>2 DEF w
<1> QED BY <1>3, <1>5, <1>6

\* What a database held is earlier than what it holds, and stays so.
WasOnce(rows, user, n, count) ==
  /\ n \in 0..Len(user)
  /\ count \in [1..n -> Nat]
  /\ \A i \in 1..n : 1 <= count[i] /\ count[i] <= user[i].chosen
  /\ rows = [i \in 1..n |-> [user[i] EXCEPT !.chosen = count[i]]]

LEMMA EarlierIs ==
  ASSUME NEW user \in Seq(Lesson), NEW rows
  PROVE  rows \in Earlier(user) <=> \E n, count : WasOnce(rows, user, n, count)
<1> DEFINE C(n) == {c \in [1..n -> UNION {1..user[i].chosen : i \in 1..n}] :
                      \A i \in 1..n : c[i] <= user[i].chosen}
           R(n) == {[i \in 1..n |-> [user[i] EXCEPT !.chosen = count[i]]] : count \in C(n)}
<1>1. Earlier(user) = UNION {R(n) : n \in 0..Len(user)}
  BY DEF Earlier
<1>2. ASSUME NEW i \in 1..Len(user) PROVE user[i].chosen \in Nat \ {0}
  <2>1. user[i] \in Lesson
    OBVIOUS
  <2> QED BY <2>1 DEF Lesson
<1>3. Len(user) \in Nat
  OBVIOUS
<1>4. ASSUME NEW n \in 0..Len(user), NEW count
      PROVE  count \in C(n) <=> /\ count \in [1..n -> Nat]
                                /\ \A i \in 1..n : 1 <= count[i] /\ count[i] <= user[i].chosen
  <2> DEFINE U == UNION {1..user[i].chosen : i \in 1..n}
  <2>1. \A i \in 1..n : user[i].chosen \in Nat /\ i \in 1..Len(user)
    BY <1>2, <1>3
  <2>2. ASSUME NEW k \in U PROVE k \in Nat /\ 1 <= k
    BY <2>1, <2>2
  <2>3. ASSUME NEW i \in 1..n, NEW k \in Nat, 1 <= k, k <= user[i].chosen PROVE k \in U
    <3>1. k \in 1..user[i].chosen
      BY <2>1, <2>3
    <3> QED BY <3>1
  <2> HIDE DEF U
  <2>4. ASSUME count \in [1..n -> U], NEW i \in 1..n PROVE count[i] \in Nat /\ 1 <= count[i]
    BY <2>2, <2>4
  <2>5. ASSUME count \in [1..n -> U] PROVE count \in [1..n -> Nat]
    BY <2>2, <2>5
  <2>6. ASSUME count \in [1..n -> Nat],
               \A i \in 1..n : 1 <= count[i] /\ count[i] <= user[i].chosen
        PROVE  count \in [1..n -> U]
    <3>1. \A i \in 1..n : count[i] \in U
      BY <2>3, <2>6
    <3> QED BY <2>6, <3>1
  <2>7. count \in C(n) <=> /\ count \in [1..n -> U]
                           /\ \A i \in 1..n : count[i] <= user[i].chosen
    BY DEF U
  <2> HIDE DEF C
  <2> QED BY <2>4, <2>5, <2>6, <2>7
<1> HIDE DEF C
<1>5. ASSUME rows \in Earlier(user) PROVE \E n, count : WasOnce(rows, user, n, count)
  <2>1. PICK n \in 0..Len(user) : rows \in R(n)
    BY <1>1, <1>5
  <2>2. PICK count \in C(n) : rows = [i \in 1..n |-> [user[i] EXCEPT !.chosen = count[i]]]
    BY <2>1
  <2>3. WasOnce(rows, user, n, count)
    BY <1>4, <2>2 DEF WasOnce
  <2> QED BY <2>3
<1>6. ASSUME NEW n, NEW count, WasOnce(rows, user, n, count) PROVE rows \in Earlier(user)
  <2>1. n \in 0..Len(user) /\ count \in C(n)
    BY <1>4, <1>6 DEF WasOnce
  <2>2. rows \in R(n)
    BY <1>6, <2>1 DEF WasOnce
  <2> HIDE DEF R
  <2> QED BY <1>1, <2>1, <2>2
<1> QED BY <1>5, <1>6

LEMMA EarlierSelf ==
  ASSUME NEW user \in Seq(Lesson)
  PROVE  user \in Earlier(user)
<1> DEFINE n == Len(user)
           count == [i \in 1..n |-> user[i].chosen]
<1>1. n \in Nat /\ DOMAIN user = 1..n /\ \A i \in 1..n : user[i] \in Lesson
  OBVIOUS
<1>2. \A i \in 1..n : user[i].chosen \in Nat \ {0}
  BY <1>1 DEF Lesson
<1>3. \A i \in 1..n : [user[i] EXCEPT !.chosen = count[i]] = user[i]
  BY <1>1 DEF Lesson
<1>4. user = [i \in 1..n |-> user[i]]
  BY <1>1
<1>5. user = [i \in 1..n |-> [user[i] EXCEPT !.chosen = count[i]]]
  BY <1>3, <1>4
<1>6. WasOnce(user, user, n, count)
  BY <1>1, <1>2, <1>5 DEF WasOnce
<1> HIDE DEF n, count
<1> QED BY <1>6, EarlierIs

LEMMA EarlierGrows ==
  ASSUME NEW user \in Seq(Lesson), NEW more \in Seq(Lesson), Grows(more, user),
         NEW rows \in Earlier(user)
  PROVE  rows \in Earlier(more)
<1>1. PICK n, count : WasOnce(rows, user, n, count)
  BY EarlierIs
<1>2. /\ Len(user) \in Nat /\ Len(more) \in Nat /\ Len(user) <= Len(more)
      /\ n \in 0..Len(user)
  BY <1>1 DEF WasOnce, Grows
<1>3. ASSUME NEW i \in 1..n
      PROVE  /\ count[i] <= more[i].chosen
             /\ [more[i] EXCEPT !.chosen = count[i]] = [user[i] EXCEPT !.chosen = count[i]]
  <2>1. i \in 1..Len(user) /\ user[i] \in Lesson
    BY <1>2
  <2>2. PICK k \in Nat : user[i].chosen <= k /\ more[i] = [user[i] EXCEPT !.chosen = k]
    BY <2>1 DEF Grows
  <2>3. count[i] \in Nat /\ count[i] <= user[i].chosen /\ user[i].chosen \in Nat
    BY <1>1, <2>1 DEF WasOnce, Lesson
  <2>4. more[i].chosen = k
    BY <2>1, <2>2 DEF Lesson
  <2>5. [more[i] EXCEPT !.chosen = count[i]] = [user[i] EXCEPT !.chosen = count[i]]
    BY <2>1, <2>2 DEF Lesson
  <2> QED BY <2>2, <2>3, <2>4, <2>5
<1>4. rows = [i \in 1..n |-> [more[i] EXCEPT !.chosen = count[i]]]
  BY <1>1, <1>3 DEF WasOnce
<1>5. n \in 0..Len(more)
  BY <1>2
<1>6. count \in [1..n -> Nat] /\ \A i \in 1..n : 1 <= count[i] /\ count[i] <= more[i].chosen
  BY <1>1, <1>3 DEF WasOnce
<1>7. WasOnce(rows, more, n, count)
  BY <1>4, <1>5, <1>6 DEF WasOnce
<1> QED BY <1>7, EarlierIs

-------------------------------------------------------------------------------
(* A call in progress.                                                     *)

Plainly == [commit : Text, offset : {0}, count : {0}]
Marking == [single : BOOLEAN, double : BOOLEAN, digit : BOOLEAN]
Segment == [keys : Seq(Keys) \ {<<>>}, phrase : Wording]
Learners == [Tables -> Seq(Lesson)]

CallState ==
  [model : Model, out : Plainly, value : Tables \cup {none}, valid : Seq(Keys),
   invalid : Seq(Keys), segments : Seq(Segment), matches : Seq(RowOf(Wording)),
   cursor : Nat, users : Learners, p : Marking, options : Settings]

InForce(st) == HasTable(st) /\ st.value = st.options.table

\* The list answers the run, under what had been learned at some time.
Answers(st) ==
  IF InForce(st)
  THEN \E rows \in Earlier(st.users[st.value]) :
         st.matches = Found([st EXCEPT !.users[st.value] = rows])
  ELSE st.matches = <<>>

\* The cursor is on a candidate the client sees, or the first.
Pointed(st) == st.cursor = 0 \/ st.cursor < Capped(Len(st.matches), st.options.cap)

\* What every helper leaves.
Sound(st) ==
  /\ st \in CallState
  /\ Composing(st) => InForce(st)
  /\ Answers(st) /\ Pointed(st)

LEMMA KeysAreText == Seq(Keys) \subseteq Text
<1>1. Keys \subseteq Scalar
  BY TableInputAssumption
<1> QED BY <1>1 DEF Text

\* What is found answers with rows, and with none where nothing is asked.
LEMMA FoundType ==
  ASSUME NEW st \in CallState
  PROVE  /\ Found(st) \in Seq(RowOf(Wording))
         /\ ~HasTable(st) \/ st.valid = <<>> => Found(st) = <<>>
<1> DEFINE B == Wording
           v == st.value
           user == IF Props(st).adjusts THEN st.users[v] ELSE <<>>
           p == Props(st)
           found == Lookup(p, Database[v].rows, user, st.valid)
           list == RankCandidates(p, st.valid, st.options.variant, found)
           good == {m \in Range(list) : Len(m.phrase) = 1}
<1>1. ~HasTable(st) \/ st.valid = <<>> => Found(st) = <<>>
  BY DEF Found
<1>2. <<>> \in Seq(RowOf(B))
  OBVIOUS
<1>3. ASSUME HasTable(st), st.valid # <<>> PROVE Found(st) \in Seq(RowOf(B))
  <2>1. B \in SUBSET Text /\ Lesson \subseteq RowOf(B)
    BY WordingIs
  <2>2. v \in Tables /\ st.users \in Learners
    BY <1>3 DEF CallState, HasTable
  <2>3. Database[v].rows \in Seq(RowOf(B))
    BY <2>2, WordingIs
  <2>4. user \in Seq(RowOf(B))
    <3>1. st.users[v] \in Seq(Lesson)
      BY <2>2 DEF Learners
    <3>2. st.users[v] \in Seq(RowOf(B))
      <4> HIDE DEF B, v
      <4> QED BY <2>1, <3>1
    <3> QED BY <1>2, <3>2
  <2>5. Found(st) = Narrowed(st, list)
    BY <1>3 DEF Found
  <2>6. Narrowed(st, list) = IF st.options.singleChar THEN Only(list, good) ELSE list
    BY DEF Narrowed
  <2> HIDE DEF B, user, v, p
  <2>7. found \in Seq(RowOf(B))
    BY <2>1, <2>3, <2>4, LookupType
  <2> HIDE DEF found
  <2>8. list \in Seq(RowOf(B))
    BY <2>1, <2>7, RankedType
  <2> HIDE DEF list, good
  <2>9. Only(list, good) \in Seq(RowOf(B))
    <3>1. Only(list, good) \in Seq(RowOf(B) \cap good)
      BY <2>8, OnlyIs
    <3> QED BY <3>1
  <2> QED BY <2>5, <2>6, <2>8, <2>9
<1> HIDE DEF B
<1>4. Found(st) \in Seq(RowOf(B))
  BY <1>1, <1>2, <1>3
<1> QED BY <1>1, <1>4 DEF B

\* What it depends on.
LEMMA FoundSame ==
  ASSUME NEW st, NEW x, x.value = st.value, x.valid = st.valid, x.options = st.options,
         HasTable(st) => x.users[st.value] = st.users[st.value]
  PROVE  Found(x) = Found(st)
<1>1. HasTable(x) <=> HasTable(st)
  BY DEF HasTable
<1>2. Props(x) = Props(st)
  BY DEF Props
<1>3. ASSUME NEW list PROVE Narrowed(x, list) = Narrowed(st, list)
  BY DEF Narrowed
<1>4. CASE ~HasTable(st) \/ st.valid = <<>>
  BY <1>1, <1>4 DEF Found
<1>5. CASE HasTable(st) /\ st.valid # <<>>
  <2> DEFINE list(u) == RankCandidates(Props(st), st.valid, st.options.variant,
                          Lookup(Props(st), Database[st.value].rows, u, st.valid))
             u == IF Props(st).adjusts THEN st.users[st.value] ELSE <<>>
  <2>1. Found(x) = Narrowed(x, list(u))
    BY <1>1, <1>2, <1>5 DEF Found
  <2>2. Found(st) = Narrowed(st, list(u))
    BY <1>5 DEF Found
  <2> HIDE DEF list, u
  <2> QED BY <1>3, <2>1, <2>2
<1> QED BY <1>4, <1>5

\* A list looked up anew answers.
LEMMA NewlyAnswers ==
  ASSUME NEW x \in CallState, x.matches = Found(x), x.valid # <<>> => InForce(x)
  PROVE  Answers(x)
<1> DEFINE v == x.value
           y == [x EXCEPT !.users[v] = x.users[v]]
<1>1. CASE InForce(x)
  <2>1. v \in Tables /\ x.users \in Learners
    BY <1>1 DEF CallState, InForce, HasTable
  <2>2. x.users[v] \in Seq(Lesson)
    BY <2>1 DEF Learners
  <2>3. x.users[v] \in Earlier(x.users[v])
    BY <2>2, EarlierSelf
  <2>4. /\ y.value = x.value /\ y.valid = x.valid /\ y.options = x.options
        /\ y.users[v] = x.users[v]
    BY <2>1 DEF CallState, Learners
  <2> HIDE DEF y
  <2>5. Found(y) = Found(x)
    BY <2>4, FoundSame
  <2> QED BY <1>1, <2>3, <2>5 DEF Answers, y
<1>2. CASE ~InForce(x)
  <2>1. Found(x) = <<>>
    BY <1>2, FoundType
  <2> QED BY <1>2, <2>1 DEF Answers
<1> QED BY <1>1, <1>2

\* refresh_matches
LEMMA RefreshSound ==
  ASSUME NEW st \in CallState, Composing(st) => InForce(st)
  PROVE  /\ Sound(RefreshMatches(st))
         /\ st.valid = <<>> => RefreshMatches(st).matches = <<>>
         /\ \A f \in {"model", "out", "value", "valid", "invalid", "segments", "users",
                      "p", "options"} : RefreshMatches(st)[f] = st[f]
<1> DEFINE x == RefreshMatches(st)
           found == Found(st)
<1>1. found \in Seq(RowOf(Wording)) /\ (st.valid = <<>> => found = <<>>)
  BY FoundType
<1>2. x = [st EXCEPT !.matches = found, !.cursor = 0]
  BY DEF RefreshMatches
<1> HIDE DEF x, found
<1>3. x \in CallState /\ x.matches = found /\ x.cursor = 0
  BY <1>1, <1>2 DEF CallState
<1>4. \A f \in {"model", "out", "value", "valid", "invalid", "segments", "users",
                "p", "options"} : x[f] = st[f]
  BY <1>2 DEF CallState
<1>5. Found(x) = found
  BY <1>4, FoundSame DEF found
<1>6. Composing(x) <=> Composing(st)
  BY <1>4 DEF Composing
<1>7. InForce(x) <=> InForce(st)
  BY <1>4 DEF InForce, HasTable
<1>8. Answers(x)
  <2>1. x.valid # <<>> => InForce(x)
    BY <1>4, <1>7 DEF Composing
  <2> QED BY <1>3, <1>5, <2>1, NewlyAnswers
<1>9. Sound(x)
  BY <1>3, <1>6, <1>7, <1>8 DEF Sound, Pointed
<1> QED BY <1>1, <1>3, <1>4, <1>9 DEF x

\* Nothing composed and nothing listed.
LEMMA ClearedSound ==
  ASSUME NEW x \in CallState, ~Composing(x), x.matches = <<>>, x.cursor = 0
  PROVE  Sound(x)
<1>1. x.valid = <<>>
  BY DEF Composing
<1>2. Answers(x)
  BY <1>1, FoundType, NewlyAnswers
<1> QED BY <1>2 DEF Sound, Pointed

LEMMA ClearSound ==
  ASSUME NEW st \in CallState
  PROVE  /\ Sound(ClearState(st)) /\ ~Composing(ClearState(st))
         /\ ClearState(st).segments = <<>> /\ ClearState(st).valid = <<>>
         /\ ClearState(st).invalid = <<>> /\ ClearState(st).matches = <<>>
         /\ \A f \in {"model", "out", "value", "users", "p", "options"} :
              ClearState(st)[f] = st[f]
<1> DEFINE x == ClearState(st)
<1>1. <<>> \in Seq(Keys) /\ <<>> \in Seq(Segment) /\ <<>> \in Seq(RowOf(Wording))
  OBVIOUS
<1>2. x \in CallState
  BY <1>1 DEF ClearState, CallState
<1>3. /\ x.valid = <<>> /\ x.invalid = <<>> /\ x.segments = <<>> /\ x.matches = <<>>
      /\ x.cursor = 0
  BY DEF ClearState, CallState
<1>4. \A f \in {"model", "out", "value", "users", "p", "options"} : x[f] = st[f]
  BY DEF ClearState, CallState
<1> HIDE DEF x
<1>5. ~Composing(x)
  BY <1>3 DEF Composing
<1>6. Sound(x)
  BY <1>2, <1>3, <1>5, ClearedSound
<1> QED BY <1>3, <1>4, <1>5, <1>6 DEF x

-------------------------------------------------------------------------------
(* Committing.                                                             *)

\* What was learned never shrinks.
LEMMA LearnType ==
  ASSUME NEW users_ \in Learners, NEW st, st.value \in Tables,
         NEW keys \in Text, NEW phrase \in Wording
  PROVE  /\ Learn(users_, st, keys, phrase) \in Learners
         /\ \A t \in Tables : \/ Learn(users_, st, keys, phrase)[t] = users_[t]
                              \/ Grows(Learn(users_, st, keys, phrase)[t], users_[t])
<1> DEFINE w == Learn(users_, st, keys, phrase)
           v == st.value
           more == RecordSelection(users_[v], keys, phrase)
<1>1. w = [users_ EXCEPT ![v] = more] \/ w = users_
  BY DEF Learn
<1>2. users_[v] \in Seq(Lesson)
  BY DEF Learners
<1>3. more \in Seq(Lesson) /\ Grows(more, users_[v])
  BY <1>2, RecordedType
<1> HIDE DEF more, w
<1>4. CASE w = users_
  BY <1>4 DEF w
<1>5. CASE w = [users_ EXCEPT ![v] = more]
  <2>1. w \in Learners
    BY <1>3, <1>5 DEF Learners
  <2>2. ASSUME NEW t \in Tables PROVE w[t] = users_[t] \/ Grows(w[t], users_[t])
    <3>1. w[t] = IF t = v THEN more ELSE users_[t]
      BY <1>5 DEF Learners
    <3> QED BY <1>3, <3>1
  <2> QED BY <2>1, <2>2 DEF w
<1> QED BY <1>1, <1>4, <1>5

\* One after another: a series from a start, where each gives the next.
Gives(G, N, S) == \A n \in 1..N, s \in S : G[n][s] \in S

Series(f, u, G, N) == f[0] = u /\ \A n \in 1..N : f[n] = G[n][f[n - 1]]

LEMMA StepByStep ==
  ASSUME NEW N \in Nat, NEW S, NEW u \in S, NEW G, Gives(G, N, S)
  PROVE  \E f \in [0..N -> S] : Series(f, u, G, N)
<1>0. \A n \in 1..N, s \in S : G[n][s] \in S
  BY DEF Gives
<1> DEFINE To(m, f) == /\ f \in [0..m -> S] /\ f[0] = u
                       /\ \A n \in 1..m : f[n] = G[n][f[n - 1]]
           T == {m \in Nat : m <= N => \E f : To(m, f)}
<1>1. 0 \in T
  <2> DEFINE f == [n \in {0} |-> u]
  <2>1. 0..0 = {0} /\ 1..0 = {}
    OBVIOUS
  <2>2. To(0, f)
    BY <2>1
  <2> QED BY <2>2
<1>2. ASSUME NEW m \in Nat, m \in T PROVE m + 1 \in T
  <2>1. ASSUME m + 1 <= N PROVE \E f : To(m + 1, f)
    <3>1. PICK f : To(m, f)
      BY <1>2, <2>1
    <3> DEFINE g == [n \in 0..(m + 1) |-> IF n = m + 1 THEN G[m + 1][f[m]] ELSE f[n]]
    <3>2. f[m] \in S /\ m + 1 \in 1..N
      BY <2>1, <3>1
    <3>3. G[m + 1][f[m]] \in S
      BY <1>0, <3>2
    <3>4. \A n \in 0..(m + 1) : n # m + 1 => n \in 0..m
      OBVIOUS
    <3>5. g \in [0..(m + 1) -> S]
      BY <3>1, <3>3, <3>4
    <3>6. g[0] = u
      BY <3>1
    <3>7. ASSUME NEW n \in 1..(m + 1) PROVE g[n] = G[n][g[n - 1]]
      <4>1. n - 1 \in 0..m /\ g[n - 1] = f[n - 1]
        OBVIOUS
      <4>2. CASE n = m + 1
        BY <4>1, <4>2
      <4>3. CASE n # m + 1
        <5>1. n \in 1..m /\ g[n] = f[n]
          BY <4>3
        <5> QED BY <3>1, <4>1, <5>1
      <4> QED BY <4>2, <4>3
    <3> HIDE DEF g
    <3>8. To(m + 1, g)
      BY <3>5, <3>6, <3>7
    <3> QED BY <3>8
  <2> QED BY <2>1
<1> HIDE DEF T
<1>3. N \in T
  BY <1>1, <1>2, Induction
<1>4. \E f : To(N, f)
  BY <1>3 DEF T
<1> QED BY <1>4 DEF Series

\* commit_phrase learns the staged phrases one after the other, then the last.
LearnedSteps(f, st) ==
  /\ f \in [0..Len(st.segments) -> Learners]
  /\ f[0] = st.users
  /\ \A n \in 1..Len(st.segments) :
       f[n] = Learn(f[n - 1], st, st.segments[n].keys, st.segments[n].phrase)

LEMMA LearnedStepwise ==
  ASSUME NEW st \in CallState, NEW chosen, NEW text, st.segments # <<>> => HasTable(st)
  PROVE  \E f : /\ LearnedSteps(f, st)
                /\ Learned(st, text, chosen) =
                     IF chosen = <<>> THEN f[Len(st.segments)]
                     ELSE Learn(f[Len(st.segments)], st, chosen, text)
<1> DEFINE N == Len(st.segments)
           staged == CHOOSE f : f = [n \in 0..N |->
             IF n = 0 THEN st.users
             ELSE Learn(f[n - 1], st, st.segments[n].keys, st.segments[n].phrase)]
           G == [n \in 1..N |-> [s \in Learners |->
                  Learn(s, st, st.segments[n].keys, st.segments[n].phrase)]]
<1>1. Learned(st, text, chosen) =
        IF chosen = <<>> THEN staged[N] ELSE Learn(staged[N], st, chosen, text)
  BY DEF Learned
<1>2. N \in Nat /\ \A n \in 1..N : st.segments[n] \in Segment
  BY DEF CallState
<1>3. st.users \in Learners /\ (HasTable(st) => st.value \in Tables)
  BY DEF CallState, HasTable
<1>4. ASSUME NEW n \in 1..N, NEW s \in Learners PROVE G[n][s] \in Learners
  <2>1. st.segments[n].keys \in Text /\ st.segments[n].phrase \in Wording
    BY <1>2, KeysAreText DEF Segment
  <2>2. HasTable(st)
    BY <1>2
  <2>3. Learn(s, st, st.segments[n].keys, st.segments[n].phrase) \in Learners
    BY <1>3, <2>1, <2>2, LearnType
  <2> QED BY <2>3
<1>5. LearnedSteps(staged, st)
  <2> DEFINE F(f) == [n \in 0..N |->
                        IF n = 0 THEN st.users
                        ELSE Learn(f[n - 1], st, st.segments[n].keys, st.segments[n].phrase)]
             U == {n \in Nat : n <= N => staged[n] \in Learners}
  <2>1. PICK f \in [0..N -> Learners] :
          f[0] = st.users /\ \A n \in 1..N : f[n] = G[n][f[n - 1]]
    <3>1. Gives(G, N, Learners)
      BY <1>4 DEF Gives
    <3>2. N \in Nat /\ st.users \in Learners
      BY <1>2, <1>3
    <3> HIDE DEF G, N
    <3>3. \E f \in [0..N -> Learners] : Series(f, st.users, G, N)
      BY <3>1, <3>2, StepByStep, Zenon
    <3> QED BY <3>3 DEF Series
  <2>2. f = F(f)
    <3>1. \A n \in 1..N : f[n - 1] \in Learners
      BY <1>2
    <3>2. \A n \in 0..N : f[n] = IF n = 0 THEN st.users
                     ELSE Learn(f[n - 1], st, st.segments[n].keys, st.segments[n].phrase)
      <4>1. ASSUME NEW n \in 1..N
            PROVE  f[n] = Learn(f[n - 1], st, st.segments[n].keys, st.segments[n].phrase)
        <5>1. f[n] = G[n][f[n - 1]] /\ f[n - 1] \in Learners
          BY <2>1, <3>1
        <5> HIDE DEF N
        <5> QED BY <5>1
      <4>2. ASSUME NEW n \in 0..N PROVE n = 0 \/ n \in 1..N
        BY <1>2
      <4> HIDE DEF G, N
      <4> QED BY <2>1, <4>1, <4>2
    <3> QED BY <3>2
  <2> HIDE DEF G
  <2>3. staged = F(staged)
    <3> DEFINE Is(g) == g = F(g)
    <3>1. Is(f)
      BY <2>2
    <3>2. staged = CHOOSE g : Is(g)
      OBVIOUS
    <3> HIDE DEF Is
    <3>3. Is(staged)
      BY <3>1, <3>2
    <3> QED BY <3>3 DEF Is
  <2> HIDE DEF staged
  <2>4. \A n \in 0..N : staged[n] = IF n = 0 THEN st.users
                    ELSE Learn(staged[n - 1], st, st.segments[n].keys, st.segments[n].phrase)
    BY <2>3
  <2>5. 0 \in U
    BY <1>2, <1>3, <2>4
  <2>6. ASSUME NEW n \in Nat, n \in U PROVE n + 1 \in U
    <3>1. ASSUME n + 1 <= N PROVE staged[n + 1] \in Learners
      <4>1. staged[n] \in Learners /\ n + 1 \in 1..N /\ n + 1 \in 0..N /\ n + 1 # 0
        BY <2>6, <3>1
      <4>2. staged[n + 1] =
              Learn(staged[n], st, st.segments[n + 1].keys, st.segments[n + 1].phrase)
        BY <2>4, <4>1
      <4>3. G[n + 1][staged[n]] \in Learners
        BY <1>4, <4>1
      <4>4. staged[n + 1] = G[n + 1][staged[n]]
        BY <4>1, <4>2 DEF G
      <4> QED BY <4>3, <4>4
    <3> QED BY <3>1
  <2> HIDE DEF U
  <2>7. ASSUME NEW n \in 0..N PROVE staged[n] \in Learners
    <3>1. n \in Nat /\ n <= N
      BY <1>2
    <3>2. n \in U
      BY <2>5, <2>6, <3>1, Induction
    <3> QED BY <3>1, <3>2 DEF U
  <2>8. staged \in [0..N -> Learners]
    BY <2>3, <2>7
  <2>9. \A n \in 1..N : n \in 0..N /\ n # 0
    BY <1>2
  <2>10. 0 \in 0..N
    BY <1>2
  <2> QED BY <2>4, <2>8, <2>9, <2>10 DEF LearnedSteps
<1> HIDE DEF staged
<1> QED BY <1>1, <1>5

LEMMA LearnedType ==
  ASSUME NEW st \in CallState, NEW chosen \in Seq(Keys), NEW text \in Text,
         st.segments # <<>> \/ chosen # <<>> => HasTable(st),
         chosen # <<>> => text \in Wording
  PROVE  Learned(st, text, chosen) \in Learners
<1> DEFINE N == Len(st.segments)
<1>1. PICK f : /\ LearnedSteps(f, st)
               /\ Learned(st, text, chosen) =
                    IF chosen = <<>> THEN f[N] ELSE Learn(f[N], st, chosen, text)
  BY LearnedStepwise
<1>2. f[N] \in Learners /\ (HasTable(st) => st.value \in Tables)
  <2>1. N \in 0..N
    BY DEF CallState
  <2> QED BY <1>1, <2>1 DEF LearnedSteps, CallState, HasTable
<1> HIDE DEF N
<1>3. chosen # <<>> => Learn(f[N], st, chosen, text) \in Learners
  BY <1>2, LearnType, KeysAreText
<1> QED BY <1>1, <1>2, <1>3

StagedPhrases == [s \in Segment |-> s.phrase]
StagedKeys == [s \in Segment |-> s.keys]

\* The keys of what is composed, the staged ones first.
KeysOf(st) == (Joined(StagedKeys, st.segments) \o st.valid) \o st.invalid

LEMMA StagedBecomes ==
  /\ Becomes(StagedPhrases, Segment, Scalar)
  /\ Becomes(StagedKeys, Segment, Keys)
<1>1. ASSUME NEW s \in Segment PROVE StagedPhrases[s] \in Seq(Scalar) /\ StagedKeys[s] \in Seq(Keys)
  <2>1. s.phrase \in Wording /\ s.keys \in Seq(Keys)
    BY DEF Segment
  <2>2. s.phrase \in Seq(Scalar)
    BY <2>1, WordingIs DEF Text
  <2> QED BY <2>1, <2>2 DEF StagedPhrases, StagedKeys
<1> QED BY <1>1 DEF Becomes

LEMMA StagedIs ==
  ASSUME NEW st \in CallState
  PROVE  /\ Staged(st) = Joined(StagedPhrases, st.segments) /\ Staged(st) \in Text
         /\ st.segments = <<>> => Staged(st) = <<>>
<1> DEFINE q == st.segments
           a == [i \in DOMAIN q |-> q[i].phrase]
           b == [i \in DOMAIN q |-> StagedPhrases[q[i]]]
<1>1. q \in Seq(Segment)
  BY DEF CallState
<1>2. \A i \in DOMAIN q : q[i] \in Segment
  BY <1>1
<1>3. a = b
  BY <1>2 DEF StagedPhrases
<1>4. Staged(st) = FlattenSeq(a) /\ Joined(StagedPhrases, q) = FlattenSeq(b)
  BY DEF Staged, Joined
<1> HIDE DEF a, b, q
<1>5. Staged(st) = Joined(StagedPhrases, q)
  BY <1>3, <1>4
<1>6. Joined(StagedPhrases, q) \in Seq(Scalar)
  BY <1>1, StagedBecomes, JoinedType
<1>7. q = <<>> => Joined(StagedPhrases, q) = <<>>
  BY JoinedEmpty
<1> QED BY <1>5, <1>6, <1>7 DEF q, Text

LEMMA KeysOfType ==
  ASSUME NEW st \in CallState
  PROVE  /\ KeysOf(st) \in Seq(Keys) /\ Joined(StagedKeys, st.segments) \in Seq(Keys)
         /\ ~Composing(st) => KeysOf(st) = <<>>
<1>1. st.segments \in Seq(Segment) /\ st.valid \in Seq(Keys) /\ st.invalid \in Seq(Keys)
  BY DEF CallState
<1>2. Joined(StagedKeys, st.segments) \in Seq(Keys)
  BY <1>1, StagedBecomes, JoinedType
<1>3. KeysOf(st) \in Seq(Keys)
  BY <1>1, <1>2, ConcatProperties DEF KeysOf
<1>4. ASSUME ~Composing(st) PROVE KeysOf(st) = <<>>
  <2>1. st.segments = <<>> /\ st.valid = <<>> /\ st.invalid = <<>>
    BY <1>4 DEF Composing
  <2>2. KeysOf(st) = (<<>> \o <<>>) \o <<>>
    BY <2>1, JoinedEmpty DEF KeysOf
  <2>3. <<>> \o <<>> = <<>>
    OBVIOUS
  <2> QED BY <2>2, <2>3
<1> QED BY <1>2, <1>3, <1>4

LEMMA NoteType ==
  ASSUME NEW p \in Marking, NEW text
  PROVE  NoteCommit(p, text) \in Marking
<1> DEFINE digit == Len(text) = 1 /\ text[1] \in Digits
<1>1. NoteCommit(p, text) = p \/ NoteCommit(p, text) = [p EXCEPT !.digit = digit]
  BY DEF NoteCommit
<1>2. digit \in BOOLEAN
  OBVIOUS
<1> HIDE DEF digit
<1>3. [p EXCEPT !.digit = digit] \in Marking
  BY <1>2 DEF Marking
<1> QED BY <1>1, <1>3

\* What a commit leaves.
Committed(x, st, text) ==
  /\ Sound(x) /\ ~Composing(x)
  /\ x.valid = <<>> /\ x.invalid = <<>> /\ x.segments = <<>> /\ x.matches = <<>>
  /\ x.out.commit = (st.out.commit \o Staged(st)) \o text
  /\ x.model = st.model /\ x.value = st.value /\ x.options = st.options

LEMMA CommitPhraseIs ==
  ASSUME NEW st \in CallState, NEW text \in Text, NEW chosen \in Seq(Keys),
         Composing(st) => InForce(st),
         chosen # <<>> => text \in Wording /\ HasTable(st)
  PROVE  Committed(CommitPhrase(st, text, chosen), st, text)
<1> DEFINE c == (st.out.commit \o Staged(st)) \o text
           w == Learned(st, text, chosen)
           n == NoteCommit(st.p, IF text = <<>> THEN Staged(st) ELSE text)
           y == [st EXCEPT !.out.commit = @ \o Staged(st) \o text, !.users = Learned(st, text, chosen),
                           !.p = NoteCommit(@, IF text = <<>> THEN Staged(st) ELSE text)]
           x == CommitPhrase(st, text, chosen)
<1>1. x = ClearState(y)
  BY DEF CommitPhrase
<1>2. y = [st EXCEPT !.out.commit = c, !.users = w, !.p = n]
  BY DEF CallState
<1>3. c \in Text
  <2>1. st.out.commit \in Text
    BY DEF CallState, Plainly
  <2> QED BY <2>1, StagedIs, ConcatText
<1>4. w \in Learners
  <2>1. st.segments # <<>> \/ chosen # <<>> => HasTable(st)
    BY DEF Composing, InForce
  <2> QED BY <2>1, LearnedType
<1>5. n \in Marking
  <2>1. st.p \in Marking
    BY DEF CallState
  <2> QED BY <2>1, NoteType
<1> HIDE DEF c, w, n, y, x
<1>6. y \in CallState
  BY <1>2, <1>3, <1>4, <1>5 DEF CallState, Plainly
<1>7. y.out.commit = c /\ y.model = st.model /\ y.value = st.value /\ y.options = st.options
  BY <1>2 DEF CallState, Plainly
<1>8. Committed(x, st, text)
  BY <1>1, <1>6, <1>7, ClearSound DEF Committed, c
<1> QED BY <1>8 DEF x

-------------------------------------------------------------------------------
(* Typing.                                                                 *)

\* What the list depends on.
LEMMA AnswersSame ==
  ASSUME NEW st \in CallState, NEW x \in CallState, Answers(st),
         x.value = st.value, x.valid = st.valid, x.options = st.options,
         x.users = st.users, x.matches = st.matches
  PROVE  Answers(x)
<1> DEFINE v == st.value
<1>1. InForce(x) <=> InForce(st)
  BY DEF InForce, HasTable
<1>2. CASE InForce(st)
  <2>1. PICK rows \in Earlier(st.users[v]) :
          st.matches = Found([st EXCEPT !.users[v] = rows])
    BY <1>2 DEF Answers
  <2> DEFINE y == [st EXCEPT !.users[v] = rows]
             z == [x EXCEPT !.users[v] = rows]
  <2>2. v \in Tables /\ st.users \in Learners
    BY <1>2 DEF CallState, InForce, HasTable
  <2>3. /\ y.value = v /\ y.valid = st.valid /\ y.options = st.options
        /\ z.value = v /\ z.valid = st.valid /\ z.options = st.options
        /\ y.users[v] = rows /\ z.users[v] = rows
    BY <2>2 DEF CallState, Learners
  <2>4. x.matches = Found(y)
    BY <2>1
  <2> HIDE DEF y, z
  <2>5. Found(z) = Found(y)
    BY <2>3, FoundSame
  <2>6. \E r \in Earlier(x.users[x.value]) : x.matches = Found([x EXCEPT !.users[x.value] = r])
    BY <2>1, <2>4, <2>5 DEF z
  <2> QED BY <1>1, <1>2, <2>6 DEF Answers
<1>3. CASE ~InForce(st)
  BY <1>1, <1>3 DEF Answers
<1> QED BY <1>2, <1>3

LEMMA HoveredType ==
  ASSUME NEW st \in CallState, st.matches # <<>>
  PROVE  /\ Hovered(st) \in RowOf(Wording) /\ Hovered(st).phrase \in Wording
         /\ st.matches[1] \in RowOf(Wording) /\ st.matches[1].phrase \in Wording
         /\ Hovered(st).phrase \in Text /\ st.matches[1].phrase \in Text
<1>1. st.matches \in Seq(RowOf(Wording)) /\ st.cursor \in Nat
  BY DEF CallState
<1>2. Len(st.matches) \in Nat /\ Len(st.matches) > 0
  BY <1>1, EmptySeq, LenProperties
<1>3. (IF st.cursor < Len(st.matches) THEN st.cursor + 1 ELSE 1) \in 1..Len(st.matches)
  BY <1>1, <1>2
<1>4. Hovered(st) \in RowOf(Wording) /\ st.matches[1] \in RowOf(Wording)
  BY <1>1, <1>2, <1>3, ElementOfSeq DEF Hovered
<1>5. \A r \in RowOf(Wording) : r.phrase \in Wording /\ r.phrase \in Text
  BY WordingIs DEF RowOf
<1> QED BY <1>4, <1>5

\* A key more of a run is a key more in all.
LEMMA AppendBehind ==
  ASSUME NEW S, NEW a \in Seq(S), NEW v \in Seq(S), NEW e \in S
  PROVE  a \o Append(v, e) = Append(a \o v, e)
<1> DEFINE k == <<e>>
<1>1. k \in Seq(S) /\ a \o v \in Seq(S)
  BY ConcatProperties
<1>2. Append(v, e) = v \o k /\ Append(a \o v, e) = (a \o v) \o k
  BY <1>1, AppendIsConcat
<1> HIDE DEF k
<1>3. (a \o v) \o k = a \o (v \o k)
  BY <1>1, ConcatAssociative
<1> QED BY <1>2, <1>3

LEMMA KeyMore ==
  ASSUME NEW st \in CallState, NEW x \in CallState, NEW key \in Keys,
         x.segments = st.segments,
         \/ x.valid = Append(st.valid, key) /\ x.invalid = <<>> /\ st.invalid = <<>>
         \/ x.valid = st.valid /\ x.invalid = Append(st.invalid, key)
  PROVE  KeysOf(x) = Append(KeysOf(st), key)
<1> DEFINE a == Joined(StagedKeys, st.segments)
           v == st.valid
           w == st.invalid
<1>1. a \in Seq(Keys) /\ v \in Seq(Keys) /\ w \in Seq(Keys)
  BY KeysOfType DEF CallState
<1>2. KeysOf(st) = (a \o v) \o w /\ KeysOf(x) = (a \o x.valid) \o x.invalid
  BY DEF KeysOf
<1>3. \/ x.valid = Append(v, key) /\ x.invalid = <<>> /\ w = <<>>
      \/ x.valid = v /\ x.invalid = Append(w, key)
  OBVIOUS
<1> HIDE DEF a, v, w
<1>4. a \o v \in Seq(Keys) /\ Append(a \o v, key) \in Seq(Keys)
  BY <1>1, ConcatProperties, AppendProperties
<1>5. /\ a \o Append(v, key) = Append(a \o v, key)
      /\ (a \o v) \o Append(w, key) = Append((a \o v) \o w, key)
      /\ (a \o v) \o <<>> = a \o v
      /\ Append(a \o v, key) \o <<>> = Append(a \o v, key)
  BY <1>1, <1>4, AppendBehind, ConcatEmptySeq
<1> QED BY <1>2, <1>3, <1>5

\* What composing goes on with.
Going(x, st) ==
  /\ Sound(x) /\ InForce(x) /\ x.model = st.model /\ x.value = st.value
  /\ x.options = st.options

\* ... having taken a key.
Took(x, st, key) ==
  /\ Going(x, st)
  /\ \/ x.out = st.out /\ KeysOf(x) \in {KeysOf(st), Append(KeysOf(st), key)}
     \/ Phrased => x.out.commit # <<>>

\* A commit of a chosen phrase.
LEMMA ChosenGoes ==
  ASSUME NEW st \in CallState, Composing(st) => InForce(st), InForce(st), NEW text \in Wording
  PROVE  /\ Committed(CommitPhrase(st, text, st.valid), st, text)
         /\ Going(CommitPhrase(st, text, st.valid), st)
         /\ Phrased => CommitPhrase(st, text, st.valid).out.commit # <<>>
<1> DEFINE x == CommitPhrase(st, text, st.valid)
           head == st.out.commit \o Staged(st)
<1>1. st.valid \in Seq(Keys) /\ text \in Text /\ (Phrased => text # <<>>)
  BY WordingIs DEF CallState
<1>2. Committed(x, st, text)
  BY <1>1, CommitPhraseIs DEF InForce
<1> HIDE DEF x
<1>3. InForce(x)
  BY <1>2 DEF Committed, InForce, HasTable
<1>4. Phrased => x.out.commit # <<>>
  <2>1. head \in Text
    <3>1. st.out.commit \in Text
      BY DEF CallState, Plainly
    <3> QED BY <3>1, StagedIs, ConcatText
  <2>2. x.out.commit = head \o text
    BY <1>2 DEF Committed
  <2> HIDE DEF head
  <2>3. Len(head \o text) = Len(head) + Len(text) /\ Len(head) \in Nat /\ Len(text) \in Nat
    BY <1>1, <2>1, ConcatText, TextIsSequence
  <2>4. text # <<>> => Len(text) > 0
    BY <1>1, TextIsSequence
  <2>5. Len(<<>>) = 0
    OBVIOUS
  <2> QED BY <1>1, <2>2, <2>3, <2>4, <2>5
<1>5. Going(x, st)
  BY <1>2, <1>3 DEF Committed, Going
<1> QED BY <1>2, <1>4, <1>5 DEF x

LEMMA ExtendedGoes ==
  ASSUME NEW st \in CallState, InForce(st), NEW key \in Keys
  PROVE  /\ Going(Extended(st, key), st) /\ Extended(st, key).out = st.out
         /\ Extended(st, key).valid # <<>>
         /\ st.invalid = <<>> => KeysOf(Extended(st, key)) = Append(KeysOf(st), key)
<1> DEFINE y == [st EXCEPT !.valid = Append(@, key)]
           x == RefreshMatches(y)
<1>1. Append(st.valid, key) \in Seq(Keys) /\ Append(st.valid, key) # <<>>
  BY AppendProperties DEF CallState
<1>2. y \in CallState
  BY <1>1 DEF CallState
<1>3. /\ y.valid = Append(st.valid, key) /\ y.invalid = st.invalid /\ y.segments = st.segments
      /\ y.model = st.model /\ y.out = st.out /\ y.value = st.value /\ y.options = st.options
  BY DEF CallState
<1> HIDE DEF y
<1>4. InForce(y)
  BY <1>3 DEF InForce, HasTable
<1>5. /\ Sound(x) /\ x.model = y.model /\ x.out = y.out /\ x.value = y.value
      /\ x.valid = y.valid /\ x.invalid = y.invalid /\ x.segments = y.segments
      /\ x.options = y.options
  BY <1>2, <1>4, RefreshSound
<1> HIDE DEF x
<1>6. Going(x, st)
  BY <1>3, <1>4, <1>5 DEF Going, InForce, HasTable
<1>7. st.invalid = <<>> => KeysOf(x) = Append(KeysOf(st), key)
  <2>1. x \in CallState
    BY <1>5 DEF Sound
  <2> QED BY <1>3, <1>5, <2>1, KeyMore
<1> QED BY <1>1, <1>3, <1>5, <1>6, <1>7 DEF x, y, Extended

LEMMA MissedGoes ==
  ASSUME NEW st, Sound(st), InForce(st), NEW key \in Keys,
         NEW x, \/ x = Missed(st, key)
                \/ x = [st EXCEPT !.invalid = Append(@, key)]
  PROVE  Going(x, st) /\ x.out = st.out /\ KeysOf(x) = Append(KeysOf(st), key)
<1>1. st \in CallState
  BY DEF Sound
<1>2. Append(st.invalid, key) \in Seq(Keys)
  BY <1>1, AppendProperties DEF CallState
<1>3. /\ x \in CallState
      /\ x.invalid = Append(st.invalid, key) /\ x.segments = st.segments
      /\ x.valid = st.valid /\ x.model = st.model /\ x.out = st.out /\ x.value = st.value
      /\ x.options = st.options /\ x.users = st.users /\ x.matches = st.matches
      /\ x.cursor = 0 \/ x.cursor = st.cursor
  <2>1. CASE x = Missed(st, key)
    BY <1>1, <1>2, <2>1 DEF Missed, CallState
  <2>2. CASE x = [st EXCEPT !.invalid = Append(@, key)]
    BY <1>1, <1>2, <2>2 DEF CallState
  <2> QED BY <2>1, <2>2
<1>4. Answers(x)
  BY <1>1, <1>3, AnswersSame DEF Sound
<1>5. InForce(x) /\ Pointed(x)
  BY <1>3 DEF InForce, HasTable, Pointed, Sound
<1>6. KeysOf(x) = Append(KeysOf(st), key)
  BY <1>1, <1>3, KeyMore
<1> QED BY <1>3, <1>4, <1>5, <1>6 DEF Going, Sound

\* A lone exact match.
LEMMA MatchedGoes ==
  ASSUME NEW st, Sound(st), InForce(st)
  PROVE  /\ Going(Matched(st), st)
         /\ Matched(st) = st \/ (Phrased => Matched(st).out.commit # <<>>)
<1> DEFINE text == st.matches[1].phrase
<1>1. st \in CallState
  BY DEF Sound
<1>2. Going(st, st)
  BY DEF Going
<1>3. CASE Len(st.matches) = 1
  <2>1. st.matches # <<>>
    BY <1>3
  <2>2. text \in Wording
    BY <1>1, <2>1, HoveredType
  <2> HIDE DEF text
  <2>3. /\ Going(CommitPhrase(st, text, st.valid), st)
        /\ Phrased => CommitPhrase(st, text, st.valid).out.commit # <<>>
    BY <1>1, <2>2, ChosenGoes
  <2>4. Matched(st) \in {st, CommitPhrase(st, text, st.valid)}
    BY DEF Matched, text
  <2> QED BY <1>2, <2>3, <2>4
<1>4. CASE Len(st.matches) # 1
  BY <1>2, <1>4 DEF Matched
<1> QED BY <1>3, <1>4

\* stage_segment moves the run, and loses no key of it.
LEMMA StageGoes ==
  ASSUME NEW st, Sound(st), InForce(st), Bounded(st)
  PROVE  /\ Going(StageSegment(st), st) /\ StageSegment(st).out = st.out
         /\ StageSegment(st).valid = <<>> /\ StageSegment(st).invalid = <<>>
         /\ KeysOf(StageSegment(st)) = KeysOf(st)
<1> DEFINE s == [keys |-> st.valid, phrase |-> Hovered(st).phrase]
           y == [st EXCEPT !.segments = Append(@, s), !.valid = <<>>, !.invalid = <<>>]
           x == RefreshMatches(y)
           a == Joined(StagedKeys, st.segments)
<1>1. /\ st \in CallState /\ st.valid \in Seq(Keys) /\ st.segments \in Seq(Segment)
      /\ st.valid # <<>> /\ st.invalid = <<>> /\ st.matches # <<>>
  BY DEF Sound, Bounded, CallState
<1>2. s \in Segment
  <2>1. Hovered(st).phrase \in Wording
    BY <1>1, HoveredType
  <2> QED BY <1>1, <2>1 DEF Segment
<1>3. s.keys = st.valid
  OBVIOUS
<1> HIDE DEF s
<1>4. y \in CallState
  <2>1. <<>> \in Seq(Keys) /\ Append(st.segments, s) \in Seq(Segment)
    BY <1>1, <1>2
  <2> QED BY <1>1, <2>1 DEF CallState
<1>5. /\ y.valid = <<>> /\ y.invalid = <<>> /\ y.segments = Append(st.segments, s)
      /\ y.model = st.model /\ y.out = st.out /\ y.value = st.value /\ y.options = st.options
  BY <1>1 DEF CallState
<1>6. StageSegment(st) = x
  BY DEF StageSegment, s
<1> HIDE DEF y
<1>7. InForce(y)
  BY <1>5 DEF InForce, HasTable
<1>8. /\ Sound(x) /\ x.model = y.model /\ x.out = y.out /\ x.value = y.value
      /\ x.valid = y.valid /\ x.invalid = y.invalid /\ x.segments = y.segments
      /\ x.options = y.options
  BY <1>4, <1>7, RefreshSound
<1> HIDE DEF x
<1>9. Going(x, st)
  BY <1>5, <1>7, <1>8 DEF Going, InForce, HasTable
<1>10. Joined(StagedKeys, Append(st.segments, s)) = a \o st.valid
  <2>1. Append(st.segments, s) = st.segments \o <<s>>
    BY <1>1, <1>2, AppendIsConcat
  <2>2. <<s>> \in Seq(Segment)
    BY <1>2
  <2>3. Joined(StagedKeys, st.segments \o <<s>>) = a \o Joined(StagedKeys, <<s>>)
    <3> DEFINE r == <<s>>
               q == st.segments
    <3>1. q \in Seq(Segment) /\ r \in Seq(Segment)
      BY <1>1, <2>2
    <3> HIDE DEF r, q
    <3>2. Joined(StagedKeys, q \o r) = Joined(StagedKeys, q) \o Joined(StagedKeys, r)
      BY <3>1, StagedBecomes, JoinedConcat
    <3> QED BY <3>2 DEF r, q
  <2>4. Joined(StagedKeys, <<s>>) = StagedKeys[s]
    BY <1>2, StagedBecomes, JoinedOne
  <2>5. StagedKeys[s] = st.valid
    BY <1>2, <1>3 DEF StagedKeys
  <2> QED BY <2>1, <2>3, <2>4, <2>5
<1>11. a \in Seq(Keys)
  BY <1>1, KeysOfType
<1>12. KeysOf(x) = KeysOf(st)
  <2>1. KeysOf(x) = ((a \o st.valid) \o <<>>) \o <<>>
    BY <1>5, <1>8, <1>10 DEF KeysOf
  <2>2. KeysOf(st) = (a \o st.valid) \o <<>>
    BY <1>1 DEF KeysOf
  <2> HIDE DEF a
  <2>3. a \o st.valid \in Seq(Keys)
    BY <1>1, <1>11, ConcatProperties
  <2> QED BY <2>1, <2>2, <2>3, ConcatEmptySeq
<1> QED BY <1>5, <1>6, <1>8, <1>9, <1>12

LEMMA GoingOn ==
  ASSUME NEW x, NEW y, NEW z, Going(y, x), Going(z, y)
  PROVE  Going(z, x)
BY DEF Going

\* A key that finds something, or else is missed.
LEMMA BeginGoes ==
  ASSUME NEW st, Sound(st), InForce(st), st.invalid = <<>>, NEW key \in Keys
  PROVE  /\ Took(Matched(Extended(st, key)), st, key)
         /\ Took(Begin(st, key), st, key)
<1> DEFINE y == Extended(st, key)
<1>1. st \in CallState
  BY DEF Sound
<1>2. Going(y, st) /\ y.out = st.out /\ KeysOf(y) = Append(KeysOf(st), key)
  BY <1>1, ExtendedGoes
<1> HIDE DEF y
<1>3. Sound(y) /\ InForce(y)
  BY <1>2 DEF Going
<1>4. Going(Matched(y), y) /\ (Matched(y) = y \/ (Phrased => Matched(y).out.commit # <<>>))
  BY <1>3, MatchedGoes
<1>5. Took(Matched(y), st, key)
  BY <1>2, <1>4, GoingOn DEF Took
<1>6. Took(Missed(st, key), st, key)
  BY MissedGoes DEF Took
<1>7. Begin(st, key) \in {Matched(y), Missed(st, key)}
  BY DEF Begin, y
<1> QED BY <1>5, <1>6, <1>7 DEF y

LEMMA ContinueGoes ==
  ASSUME NEW st, Sound(st), InForce(st), NEW key \in Keys
  PROVE  Took(Continue(st, key), st, key)
<1> DEFINE tail == [st EXCEPT !.invalid = Append(@, key)]
           y == [st EXCEPT !.cursor = 0]
           z == CommitHovered(y)
<1>1. st \in CallState
  BY DEF Sound
<1>2. Took(tail, st, key)
  BY MissedGoes DEF Took
<1>3. Took(Missed(st, key), st, key)
  BY MissedGoes DEF Took
<1>4. st.invalid = <<>> => Took(Matched(Extended(st, key)), st, key)
  BY BeginGoes
<1>5. ASSUME st.matches # <<>> PROVE Took(Begin(z, key), st, key)
  <2>1. /\ y \in CallState /\ y.matches = st.matches /\ y.valid = st.valid
        /\ y.value = st.value /\ y.options = st.options /\ y.model = st.model
    BY <1>1 DEF CallState
  <2>2. z = CommitPhrase(y, Hovered(y).phrase, y.valid)
    BY DEF CommitHovered
  <2> HIDE DEF y, z
  <2>3. InForce(y)
    BY <2>1 DEF InForce, HasTable
  <2>4. Hovered(y).phrase \in Wording
    BY <1>5, <2>1, HoveredType
  <2>5. /\ Committed(z, y, Hovered(y).phrase) /\ Going(z, y)
        /\ Phrased => z.out.commit # <<>>
    BY <2>1, <2>2, <2>3, <2>4, ChosenGoes
  <2>6. Sound(z) /\ InForce(z) /\ z.invalid = <<>>
    BY <2>5 DEF Committed, Going
  <2>7. Took(Begin(z, key), z, key)
    BY <2>6, BeginGoes
  <2>8. Going(z, st)
    BY <2>1, <2>5 DEF Going
  <2>9. Going(Begin(z, key), st)
    BY <2>7, <2>8, GoingOn DEF Took
  <2>10. Phrased => Begin(z, key).out.commit # <<>>
    BY <2>5, <2>7 DEF Took
  <2> QED BY <2>9, <2>10 DEF Took
<1>6. \/ Continue(st, key) = tail
      \/ Continue(st, key) = Matched(Extended(st, key)) /\ st.invalid = <<>>
      \/ Continue(st, key) = Begin(z, key) /\ st.matches # <<>>
      \/ Continue(st, key) = Missed(st, key)
  BY DEF Continue
<1> HIDE DEF tail, z
<1> QED BY <1>2, <1>3, <1>4, <1>5, <1>6

\* take_input_scalar
LEMMA TakeInputGoes ==
  ASSUME NEW st, Sound(st), InForce(st), NEW key \in Keys
  PROVE  Took(TakeInput(st, key), st, key)
<1> DEFINE y == StageSegment(st)
<1>1. Took(st, st, key)
  BY DEF Took, Going
<1>2. Took(Continue(st, key), st, key)
  BY ContinueGoes
<1>3. ASSUME Bounded(st) PROVE Took(Continue(y, key), st, key)
  <2>1. Going(y, st) /\ y.out = st.out /\ KeysOf(y) = KeysOf(st)
    BY <1>3, StageGoes
  <2> HIDE DEF y
  <2>2. Sound(y) /\ InForce(y)
    BY <2>1 DEF Going
  <2>3. Took(Continue(y, key), y, key)
    BY <2>2, ContinueGoes
  <2> QED BY <2>1, <2>3, GoingOn DEF Took
<1>4. \/ TakeInput(st, key) = st
      \/ TakeInput(st, key) = Continue(y, key) /\ Bounded(st)
      \/ TakeInput(st, key) = Continue(st, key)
  BY DEF TakeInput
<1> QED BY <1>1, <1>2, <1>3, <1>4

-------------------------------------------------------------------------------
(* Taking back.                                                            *)

LEMMA FrontAndLast ==
  ASSUME NEW S, NEW q \in Seq(S), q # <<>>
  PROVE  Front(q) \in Seq(S) /\ Last(q) \in S /\ q = Append(Front(q), Last(q))
<1> DEFINE P == {s \in Seq(S) : s # <<>> =>
                   Front(s) \in Seq(S) /\ Last(s) \in S /\ s = Append(Front(s), Last(s))}
<1>1. <<>> \in P
  OBVIOUS
<1>2. ASSUME NEW s \in Seq(S), NEW x \in S PROVE Append(s, x) \in P
  <2>1. Append(s, x) \in Seq(S)
    OBVIOUS
  <2>2. Front(Append(s, x)) = s /\ Last(Append(s, x)) = x
    BY FrontOfAppend
  <2> QED BY <2>1, <2>2
<1> HIDE DEF P
<1>3. q \in P
  BY <1>1, <1>2, SequenceInduction
<1> QED BY <1>3 DEF P

\* A call goes on with one key less.
LostOne(x, st) ==
  /\ Going(x, st) /\ x.out = st.out
  /\ KeysOf(st) # <<>> /\ KeysOf(x) = Front(KeysOf(st))

LEMMA KeyLess ==
  ASSUME NEW st \in CallState, NEW x \in CallState, NEW key \in Keys,
         KeysOf(st) = Append(KeysOf(x), key), Going(x, st), x.out = st.out
  PROVE  LostOne(x, st)
<1>1. KeysOf(x) \in Seq(Keys)
  BY KeysOfType
<1>2. Append(KeysOf(x), key) # <<>> /\ Front(Append(KeysOf(x), key)) = KeysOf(x)
  BY <1>1, FrontOfAppend
<1> QED BY <1>2 DEF LostOne

\* take_backspace
LEMMA BackspaceGoes ==
  ASSUME NEW st, Sound(st), Composing(st)
  PROVE  LostOne(TakeBackspace(st), st)
<1> DEFINE segs == st.segments
           keys == Last(segs).keys
           less == [st EXCEPT !.segments = Front(@),
                              !.valid = IF keys = <<>> THEN keys ELSE Front(keys)]
<1>1. /\ st \in CallState /\ InForce(st)
      /\ segs \in Seq(Segment) /\ st.valid \in Seq(Keys) /\ st.invalid \in Seq(Keys)
  BY DEF Sound, CallState
<1>2. CASE st.invalid # <<>>
  <2> DEFINE x == [st EXCEPT !.invalid = Front(@)]
             key == Last(st.invalid)
  <2>1. Front(st.invalid) \in Seq(Keys) /\ key \in Keys
        /\ st.invalid = Append(Front(st.invalid), key)
    BY <1>1, <1>2, FrontAndLast
  <2>2. /\ x \in CallState /\ x.invalid = Front(st.invalid)
        /\ x.segments = segs /\ x.valid = st.valid /\ x.model = st.model
        /\ x.out = st.out /\ x.value = st.value /\ x.options = st.options
        /\ x.users = st.users /\ x.matches = st.matches /\ x.cursor = st.cursor
    BY <1>1, <2>1 DEF CallState
  <2>3. TakeBackspace(st) = x
    BY <1>2 DEF TakeBackspace
  <2> HIDE DEF x, key
  <2>4. Answers(x)
    BY <1>1, <2>2, AnswersSame DEF Sound
  <2>5. InForce(x) /\ Pointed(x)
    BY <1>1, <2>2 DEF InForce, HasTable, Pointed, Sound
  <2>6. Going(x, st)
    BY <2>2, <2>4, <2>5 DEF Going, Sound
  <2>7. KeysOf(st) = Append(KeysOf(x), key)
    BY <1>1, <2>1, <2>2, KeyMore
  <2> QED BY <1>1, <2>1, <2>2, <2>3, <2>6, <2>7, KeyLess
<1>3. CASE st.invalid = <<>> /\ st.valid # <<>>
  <2> DEFINE y == [st EXCEPT !.valid = Front(@)]
             x == RefreshMatches(y)
             key == Last(st.valid)
  <2>1. Front(st.valid) \in Seq(Keys) /\ key \in Keys
        /\ st.valid = Append(Front(st.valid), key)
    BY <1>1, <1>3, FrontAndLast
  <2>2. /\ y \in CallState /\ y.valid = Front(st.valid)
        /\ y.segments = segs /\ y.invalid = st.invalid /\ y.model = st.model
        /\ y.out = st.out /\ y.value = st.value /\ y.options = st.options
    BY <1>1, <2>1 DEF CallState
  <2>3. TakeBackspace(st) = x
    BY <1>3 DEF TakeBackspace
  <2> HIDE DEF y, key
  <2>4. InForce(y)
    BY <1>1, <2>2 DEF InForce, HasTable
  <2>5. /\ Sound(x) /\ x.model = y.model /\ x.out = y.out /\ x.value = y.value
        /\ x.valid = y.valid /\ x.invalid = y.invalid /\ x.segments = y.segments
        /\ x.options = y.options
    BY <2>2, <2>4, RefreshSound
  <2> HIDE DEF x
  <2>6. Going(x, st) /\ x \in CallState
    BY <2>2, <2>4, <2>5 DEF Going, InForce, HasTable, Sound
  <2>7. KeysOf(st) = Append(KeysOf(x), key)
    <3>1. /\ st.segments = x.segments /\ st.valid = Append(x.valid, key)
          /\ st.invalid = <<>> /\ x.invalid = <<>>
      BY <1>3, <2>1, <2>2, <2>5
    <3> QED BY <1>1, <2>1, <2>6, <3>1, KeyMore
  <2>8. x.out = st.out
    BY <2>2, <2>5
  <2> QED BY <1>1, <2>1, <2>3, <2>6, <2>7, <2>8, KeyLess
<1>4. CASE st.invalid = <<>> /\ st.valid = <<>>
  <2> DEFINE s == Last(segs)
             q == Front(segs)
             key == Last(keys)
             front == Front(keys)
             x == RefreshMatches(less)
  <2>1. segs # <<>>
    BY <1>4 DEF Composing
  <2>2. q \in Seq(Segment) /\ s \in Segment /\ segs = Append(q, s)
    BY <1>1, <2>1, FrontAndLast
  <2>3. keys \in Seq(Keys) /\ keys # <<>>
    BY <2>2 DEF Segment
  <2>4. front \in Seq(Keys) /\ key \in Keys /\ keys = Append(front, key)
    BY <2>3, FrontAndLast
  <2>5. /\ less \in CallState /\ less.valid = front
        /\ less.segments = q /\ less.invalid = <<>> /\ less.model = st.model
        /\ less.out = st.out /\ less.value = st.value /\ less.options = st.options
    BY <1>1, <1>4, <2>2, <2>3, <2>4 DEF CallState
  <2>6. TakeBackspace(st) = x
    BY <1>4 DEF TakeBackspace
  <2>7. s.keys = keys
    OBVIOUS
  <2> HIDE DEF less, key, front, q, keys, s
  <2>8. InForce(less)
    BY <1>1, <2>5 DEF InForce, HasTable
  <2>9. /\ Sound(x) /\ x.model = less.model /\ x.out = less.out /\ x.value = less.value
        /\ x.valid = less.valid /\ x.invalid = less.invalid /\ x.segments = less.segments
        /\ x.options = less.options
    BY <2>5, <2>8, RefreshSound
  <2> HIDE DEF x
  <2>10. Going(x, st) /\ x \in CallState
    BY <2>5, <2>8, <2>9 DEF Going, InForce, HasTable, Sound
  <2> DEFINE a == Joined(StagedKeys, q)
  <2>11. a \in Seq(Keys)
    BY <2>2, StagedBecomes, JoinedType
  <2>12. Joined(StagedKeys, segs) = a \o keys
    <3> DEFINE r == <<s>>
    <3>1. Append(q, s) = q \o r /\ r \in Seq(Segment)
      BY <2>2, AppendIsConcat
    <3>2. Joined(StagedKeys, r) = StagedKeys[s]
      BY <2>2, StagedBecomes, JoinedOne
    <3>3. StagedKeys[s] = keys
      BY <2>2, <2>7 DEF StagedKeys
    <3> HIDE DEF r
    <3>4. Joined(StagedKeys, q \o r) = Joined(StagedKeys, q) \o Joined(StagedKeys, r)
      BY <2>2, <3>1, StagedBecomes, JoinedConcat
    <3> QED BY <2>2, <3>1, <3>2, <3>3, <3>4
  <2>13. KeysOf(st) = ((a \o keys) \o <<>>) \o <<>>
    BY <1>4, <2>12 DEF KeysOf
  <2>14. KeysOf(x) = (a \o front) \o <<>>
    BY <2>5, <2>9 DEF KeysOf
  <2> HIDE DEF a
  <2>15. a \o keys \in Seq(Keys) /\ a \o front \in Seq(Keys)
    BY <2>3, <2>4, <2>11, ConcatProperties
  <2>16. a \o keys = Append(a \o front, key)
    BY <2>4, <2>11, AppendBehind
  <2>17. KeysOf(st) = a \o keys
    BY <2>13, <2>15, ConcatEmptySeq
  <2>18. KeysOf(x) = a \o front
    BY <2>14, <2>15, ConcatEmptySeq
  <2>19. KeysOf(st) = Append(KeysOf(x), key)
    BY <2>16, <2>17, <2>18
  <2>20. x.out = st.out
    BY <2>5, <2>9
  <2> QED BY <1>1, <2>4, <2>6, <2>10, <2>19, <2>20, KeyLess
<1> QED BY <1>2, <1>3, <1>4

-------------------------------------------------------------------------------
(* What a call leaves to show.                                             *)

\* What the rest of a call in progress says nothing of.
Alike(x, st) ==
  /\ x.value = st.value /\ x.valid = st.valid /\ x.invalid = st.invalid
  /\ x.segments = st.segments /\ x.matches = st.matches /\ x.cursor = st.cursor
  /\ x.users = st.users /\ x.options = st.options

LEMMA AlikeSound ==
  ASSUME NEW st, Sound(st), NEW x \in CallState, Alike(x, st)
  PROVE  /\ Sound(x) /\ KeysOf(x) = KeysOf(st) /\ Staged(x) = Staged(st)
         /\ Composing(x) <=> Composing(st)
         /\ InForce(x) <=> InForce(st)
<1>1. st \in CallState /\ Answers(st) /\ Pointed(st) /\ (Composing(st) => InForce(st))
  BY DEF Sound
<1>2. Answers(x)
  BY <1>1, AnswersSame DEF Alike
<1>3. Pointed(x)
  BY <1>1 DEF Alike, Pointed
<1>4. KeysOf(x) = KeysOf(st)
  BY DEF Alike, KeysOf
<1>5. Staged(x) = Staged(st)
  BY DEF Alike, Staged
<1>6. /\ Composing(x) <=> Composing(st)
      /\ InForce(x) <=> InForce(st)
  BY DEF Alike, Composing, InForce, HasTable
<1> QED BY <1>1, <1>2, <1>3, <1>4, <1>5, <1>6 DEF Sound

LEMMA PhrasesType ==
  ASSUME NEW list \in Seq(RowOf(Wording))
  PROVE  Phrases(list) \in Seq(Text) /\ Len(Phrases(list)) = Len(list)
         /\ \A i \in 1..Len(list) : Phrases(list)[i] = list[i].phrase
<1>1. Len(list) \in Nat /\ DOMAIN list = 1..Len(list)
      /\ \A i \in 1..Len(list) : list[i] \in RowOf(Wording)
  OBVIOUS
<1>2. \A r \in RowOf(Wording) : r.phrase \in Text
  BY WordingIs DEF RowOf
<1>3. Phrases(list) = [i \in 1..Len(list) |-> list[i].phrase]
  BY <1>1 DEF Phrases
<1> QED BY <1>1, <1>2, <1>3

LEMMA DisplayedType ==
  ASSUME NEW st \in CallState
  PROVE  DisplayedRun(st) \in Text
<1> DEFINE prompts == IF HasTable(st) THEN Database[st.value].prompts ELSE <<>>
           F == [key \in Keys |-> IF key \in DOMAIN prompts THEN prompts[key] ELSE <<key>>]
           q == st.valid
           a == [i \in DOMAIN q |-> IF q[i] \in DOMAIN prompts THEN prompts[q[i]] ELSE <<q[i]>>]
           b == [i \in DOMAIN q |-> F[q[i]]]
<1>1. q \in Seq(Keys) /\ st.invalid \in Text
  BY KeysAreText DEF CallState
<1>2. \A key \in DOMAIN prompts : prompts[key] \in Text
  <2>1. CASE HasTable(st)
    <3>1. st.value \in Tables
      BY <2>1 DEF CallState, HasTable
    <3> QED BY <2>1, <3>1, TableInputAssumption
  <2>2. CASE ~HasTable(st)
    BY <2>2
  <2> QED BY <2>1, <2>2
<1>3. Keys \subseteq Scalar
  BY TableInputAssumption
<1> HIDE DEF prompts
<1>4. Becomes(F, Keys, Scalar)
  <2>1. ASSUME NEW key \in Keys PROVE F[key] \in Seq(Scalar)
    BY <1>2, <1>3 DEF Text
  <2> HIDE DEF F
  <2> QED BY <2>1 DEF Becomes
<1>5. \A i \in DOMAIN q : q[i] \in Keys
  BY <1>1
<1>6. a = b
  BY <1>5
<1>7. DisplayedRun(st) = FlattenSeq(a) \o st.invalid
  BY DEF DisplayedRun, prompts
<1>8. Joined(F, q) = FlattenSeq(b)
  BY DEF Joined
<1> HIDE DEF a, b, F, q
<1>9. Joined(F, q) \in Text
  BY <1>1, <1>4, JoinedType DEF Text
<1>10. DisplayedRun(st) = Joined(F, q) \o st.invalid
  BY <1>6, <1>7, <1>8
<1> QED BY <1>1, <1>9, <1>10, ConcatText

\* Between calls, and at the end of each, what is settled is what is staged.
Stands(st) == Sound(st) /\ st.model.settled = Staged(st)

LEMMA PublishStands ==
  ASSUME NEW st, Sound(st)
  PROVE  /\ Stands(Publish(st)) /\ Alike(Publish(st), st) /\ Publish(st).out = st.out
<1> DEFINE m == [settled |-> Staged(st), active |-> DisplayedRun(st), tail |-> <<>>,
                 candidates |-> Phrases(st.matches), cursor |-> st.cursor]
           x == Publish(st)
<1>1. /\ st \in CallState /\ st.matches \in Seq(RowOf(Wording)) /\ st.cursor \in Nat
  BY DEF Sound, CallState
<1>2. m \in Model
  <2>1. Staged(st) \in Text /\ DisplayedRun(st) \in Text
    BY <1>1, StagedIs, DisplayedType
  <2>2. Phrases(st.matches) \in Seq(Text)
    BY <1>1, PhrasesType
  <2> QED BY <1>1, <2>1, <2>2, EmptyText DEF Model
<1>3. m.settled = Staged(st)
  OBVIOUS
<1>4. x = [st EXCEPT !.model = m]
  BY DEF Publish
<1> HIDE DEF m, x
<1>5. x \in CallState /\ x.model = m /\ x.out = st.out /\ Alike(x, st)
  BY <1>1, <1>2, <1>4 DEF CallState, Alike
<1>6. Sound(x) /\ Staged(x) = Staged(st)
  BY <1>5, AlikeSound
<1> QED BY <1>3, <1>5, <1>6 DEF Stands, x

LEMMA ShownType ==
  ASSUME NEW st \in CallState, Pointed(st)
  PROVE  /\ ShownList(st) \in Model
         /\ ShownList(st).settled = st.model.settled
         /\ ShownList(st).candidates =
              Phrases(SubSeq(st.matches, 1, Capped(Len(st.matches), st.options.cap)))
         /\ ShownList(st).cursor = st.cursor
<1> DEFINE n == Capped(Len(st.matches), st.options.cap)
           c == Phrases(SubSeq(st.matches, 1, n))
           k == IF st.cursor < n THEN st.cursor ELSE 0
<1>1. /\ st.matches \in Seq(RowOf(Wording)) /\ st.cursor \in Nat /\ st.model \in Model
      /\ st.options \in Settings /\ Len(st.matches) \in Nat
  BY DEF CallState
<1>2. st.options.cap \in Nat \ {0}
  BY <1>1, TableInputAssumption DEF Options
<1>3. n \in Nat /\ n <= Len(st.matches)
  BY <1>1, <1>2 DEF Capped
<1>4. ShownList(st) = [st.model EXCEPT !.candidates = c, !.cursor = k]
  BY DEF ShownList
<1>5. k = st.cursor
  BY <1>1, <1>3 DEF Pointed
<1> HIDE DEF n
<1>6. SubSeq(st.matches, 1, n) \in Seq(RowOf(Wording))
  BY <1>1, <1>3, FirstOfSorted
<1>7. c \in Seq(Text)
  BY <1>6, PhrasesType
<1> HIDE DEF c, k
<1>8. /\ [st.model EXCEPT !.candidates = c, !.cursor = k] \in Model
      /\ [st.model EXCEPT !.candidates = c, !.cursor = k].settled = st.model.settled
      /\ [st.model EXCEPT !.candidates = c, !.cursor = k].candidates = c
      /\ [st.model EXCEPT !.candidates = c, !.cursor = k].cursor = k
  BY <1>1, <1>5, <1>7 DEF Model
<1> QED BY <1>4, <1>5, <1>8 DEF c, n

-------------------------------------------------------------------------------
(* Between calls.                                                          *)

\* What the client was told to insert.
Inserted == [c \in Call |-> IF c.cb = "commit" THEN c.text ELSE <<>>]

LEMMA DeliveredIs ==
  ASSUME NEW cs \in Seq(Call)
  PROVE  Delivered(cs) = Joined(Inserted, cs)
<1> DEFINE a == [i \in DOMAIN cs |-> IF cs[i].cb = "commit" THEN cs[i].text ELSE <<>>]
           b == [i \in DOMAIN cs |-> Inserted[cs[i]]]
<1>1. \A i \in DOMAIN cs : cs[i] \in Call
  OBVIOUS
<1>2. a = b
  BY <1>1 DEF Inserted
<1>3. Delivered(cs) = FlattenSeq(a) /\ Joined(Inserted, cs) = FlattenSeq(b)
  BY DEF Delivered, Joined
<1> HIDE DEF a, b
<1> QED BY <1>2, <1>3

\* A dispatch that deletes nothing delivers what the call produced.
LEMMA RefreshDelivers ==
  ASSUME NEW m \in Model, NEW out \in Plainly, NEW force, Refresh(m, out, force)
  PROVE  Delivered(calls') = out.commit /\ before' = before \o out.commit
<1> DEFINE commit == [cb |-> "commit", text |-> out.commit]
           changed == [cb |-> "changed", text |-> Project(m).preedit]
           y == IF out.commit # <<>> THEN <<commit>> ELSE <<>>
           z == IF (force \/ Differs(Project(m))) /\ "changed" \in callbacks
                THEN <<changed>> ELSE <<>>
<1>1. ~Deletes(out) /\ out.commit \in Text
  BY DEF Deletes, Plainly
<1>2. before' = before \o out.commit
  BY <1>1 DEF Refresh
<1>3. calls' = (<<>> \o y) \o z
  BY <1>1 DEF Refresh
<1>4. Project(m).preedit \in Text
  BY ProjectType DEF Flat
<1>5. commit \in Call /\ changed \in Call
  BY <1>1, <1>4 DEF Call
<1>6. Inserted[commit] = out.commit /\ Inserted[changed] = <<>>
  BY <1>5 DEF Inserted
<1>7. Becomes(Inserted, Call, Scalar)
  <2>1. ASSUME NEW c \in Call PROVE Inserted[c] \in Seq(Scalar)
    BY EmptyText DEF Inserted, Call, Text
  <2> QED BY <2>1 DEF Becomes
<1> HIDE DEF commit, changed
<1>8. y \in Seq(Call) /\ z \in Seq(Call)
  BY <1>5
<1>9. Joined(Inserted, y) = out.commit
  BY <1>5, <1>6, <1>7, JoinedOne, JoinedEmpty
<1>10. Joined(Inserted, z) = <<>>
  BY <1>5, <1>6, <1>7, JoinedOne, JoinedEmpty
<1> HIDE DEF y, z
<1>11. calls' = y \o z /\ calls' \in Seq(Call)
  BY <1>3, <1>8, ConcatEmptySeq, ConcatProperties
<1>12. Joined(Inserted, y \o z) = Joined(Inserted, y) \o Joined(Inserted, z)
  BY <1>7, <1>8, JoinedConcat
<1>13. Delivered(calls') = out.commit \o <<>>
  BY <1>9, <1>10, <1>11, <1>12, DeliveredIs
<1> QED BY <1>1, <1>2, <1>13, ConcatText

\* The inductive invariant.
TableInv ==
  /\ ContextTypeOK
  /\ Stands(Enter)
  /\ model.candidates = Phrases(SubSeq(matches, 1, Capped(Len(matches), options.cap)))
  /\ model.cursor = cursor

LEMMA PlainlyOutput ==
  /\ Plainly \subseteq AdapterOutput
  /\ NoOutput \in Plainly
BY EmptyText DEF Plainly, AdapterOutput, Output, NoOutput

\* What the end of a call leaves.
Left(st) == [st EXCEPT !.model = ShownList(st), !.out = NoOutput]

\* Nothing else is delivered than what the call produced, and every field of the
\* call is written back.
LEMMA LeaveKeeps ==
  ASSUME ContextTypeOK, NEW st, Stands(st), NEW force \in BOOLEAN, Leave(st, force),
         owed' \in {"nothing", "insert", "erase"}
  PROVE  /\ TableInv'
         /\ before' = before \o st.out.commit /\ Delivered(calls') = st.out.commit
         /\ Enter' = Left(st) /\ KeysOf(Left(st)) = KeysOf(st)
<1> DEFINE y == Left(st)
<1>1. st \in CallState /\ Sound(st) /\ Pointed(st) /\ st.out \in Plainly
  BY DEF Stands, Sound, CallState
<1>2. /\ ShownList(st) \in Model
      /\ ShownList(st).settled = st.model.settled
      /\ ShownList(st).candidates =
           Phrases(SubSeq(st.matches, 1, Capped(Len(st.matches), st.options.cap)))
      /\ ShownList(st).cursor = st.cursor
  BY <1>1, ShownType
<1>3. /\ y \in CallState /\ Alike(y, st) /\ y.model = ShownList(st) /\ y.out = NoOutput
      /\ y.p = st.p
  BY <1>1, <1>2, PlainlyOutput DEF CallState, Alike, Left
<1>4. /\ model' = ShownList(st) /\ value' = st.value /\ valid' = st.valid
      /\ invalid' = st.invalid /\ segments' = st.segments /\ matches' = st.matches
      /\ cursor' = st.cursor /\ users' = st.users /\ punctuation' = st.p
      /\ options' = st.options
  BY DEF Leave, Refresh
<1> HIDE DEF y
<1>5. Sound(y) /\ KeysOf(y) = KeysOf(st) /\ Staged(y) = Staged(st)
  BY <1>1, <1>3, AlikeSound
<1>6. Stands(y)
  BY <1>2, <1>3, <1>5 DEF Stands
<1>7. Enter' = y
  <2>1. y = [model |-> y.model, out |-> y.out, value |-> y.value, valid |-> y.valid,
             invalid |-> y.invalid, segments |-> y.segments, matches |-> y.matches,
             cursor |-> y.cursor, users |-> y.users, p |-> y.p, options |-> y.options]
    BY <1>3 DEF CallState
  <2> QED BY <1>3, <1>4, <2>1 DEF Enter, Alike
<1>8. ContextTypeOK'
  <2>1. Refresh(ShownList(st), st.out, force)
    BY DEF Leave
  <2>2. /\ model' \in Model /\ published' \in Flat /\ snapshot' \in Snapshot
        /\ callbacks' \in SUBSET {"delete", "changed"} /\ before' \in Text
        /\ after' \in Text /\ shown' \in Flat /\ calls' \in Seq(Call)
    BY <1>1, <1>2, <2>1, PlainlyOutput, RefreshType
  <2> QED BY <2>2 DEF ContextTypeOK
<1>9. Delivered(calls') = st.out.commit /\ before' = before \o st.out.commit
  BY <1>1, <1>2, RefreshDelivers DEF Leave
<1>10. /\ model'.candidates = Phrases(SubSeq(matches', 1, Capped(Len(matches'), options'.cap)))
       /\ model'.cursor = cursor'
  BY <1>2, <1>4
<1>11. Stands(Enter)'
  BY <1>6, <1>7
<1>12. TableInv'
  BY <1>8, <1>10, <1>11 DEF TableInv
<1> QED BY <1>5, <1>7, <1>9, <1>12 DEF y

\* The keys of the state are those of a call that begins.
LEMMA TypedIs ==
  ASSUME NEW st \in CallState
  PROVE  KeysOf(st) =
           FlattenSeq([i \in DOMAIN st.segments |-> st.segments[i].keys]) \o st.valid \o st.invalid
<1> DEFINE q == st.segments
           a == [i \in DOMAIN q |-> q[i].keys]
           b == [i \in DOMAIN q |-> StagedKeys[q[i]]]
<1>1. \A i \in DOMAIN q : q[i] \in Segment
  BY DEF CallState
<1>2. a = b
  BY <1>1 DEF StagedKeys
<1>3. Joined(StagedKeys, q) = FlattenSeq(b)
  BY DEF Joined
<1> HIDE DEF a, b
<1>4. Joined(StagedKeys, q) = FlattenSeq(a)
  BY <1>2, <1>3
<1> QED BY <1>4 DEF KeysOf, a

LEMMA EnterIs ==
  /\ Enter.model = model /\ Enter.out = NoOutput /\ Enter.value = value
  /\ Enter.valid = valid /\ Enter.invalid = invalid /\ Enter.segments = segments
  /\ Enter.matches = matches /\ Enter.cursor = cursor /\ Enter.users = users
  /\ Enter.p = punctuation /\ Enter.options = options
BY DEF Enter

-------------------------------------------------------------------------------
(* Beginning and ending a call.                                            *)

\* sync_table: what is composed belongs to the table in force.
LEMMA SyncIs ==
  ASSUME NEW st, Sound(st)
  PROVE  /\ Sound(SyncTable(st)) /\ KeysOf(SyncTable(st)) = KeysOf(st)
         /\ SyncTable(st).out = st.out /\ SyncTable(st).model = st.model
         /\ SyncTable(st).options = st.options /\ Staged(SyncTable(st)) = Staged(st)
         /\ HasTable(SyncTable(st)) => InForce(SyncTable(st))
         /\ Composing(st) => SyncTable(st) = st
         /\ Composing(SyncTable(st)) <=> Composing(st)
<1>1. st \in CallState
  BY DEF Sound
<1>2. CASE st.options.table = st.value
  BY <1>2 DEF SyncTable, InForce
<1>3. CASE st.options.table # st.value
  <2> DEFINE y == ClearState(st)
             x == [y EXCEPT !.value = st.options.table]
  <2>1. SyncTable(st) = x
    BY <1>3 DEF SyncTable
  <2>2. /\ Sound(y) /\ y.segments = <<>> /\ y.valid = <<>> /\ y.invalid = <<>>
        /\ y.matches = <<>> /\ y.model = st.model /\ y.out = st.out
        /\ y.options = st.options
    BY <1>1, ClearSound
  <2>3. y.cursor = 0
    BY <1>1 DEF ClearState, CallState
  <2>4. y \in CallState
    BY <2>2 DEF Sound
  <2> HIDE DEF y
  <2>5. st.options.table \in Tables \cup {none}
    BY <1>1, TableInputAssumption DEF CallState, Options
  <2>6. /\ x \in CallState /\ x.segments = <<>> /\ x.valid = <<>> /\ x.invalid = <<>>
        /\ x.matches = <<>> /\ x.cursor = 0 /\ x.model = st.model /\ x.out = st.out
        /\ x.options = st.options /\ x.value = st.options.table
    BY <2>2, <2>3, <2>4, <2>5 DEF CallState
  <2> HIDE DEF x
  <2>7. ~Composing(x)
    BY <2>6 DEF Composing
  <2>8. Sound(x)
    BY <2>6, <2>7, ClearedSound
  <2>9. ~Composing(st)
    BY <1>3 DEF Sound, InForce
  <2>10. KeysOf(x) = <<>> /\ KeysOf(st) = <<>>
    BY <1>1, <2>6, <2>7, <2>9, KeysOfType
  <2>11. Staged(x) = <<>> /\ Staged(st) = <<>>
    BY <1>1, <2>6, <2>9, StagedIs DEF Composing
  <2>12. InForce(x) <=> HasTable(x)
    BY <2>6 DEF InForce
  <2> QED BY <2>1, <2>6, <2>7, <2>8, <2>9, <2>10, <2>11, <2>12
<1> QED BY <1>2, <1>3

LEMMA QuoteIs ==
  ASSUME NEW text, NEW open, NEW close, NEW remembered \in BOOLEAN
  PROVE  QuoteOpens(text, open, close, remembered) \in BOOLEAN
BY DEF QuoteOpens

LEMMA ObserveIs ==
  ASSUME NEW st \in CallState
  PROVE  /\ Observe(st) \in CallState /\ Alike(Observe(st), st)
         /\ Observe(st).out = st.out /\ Observe(st).model = st.model
<1> DEFINE visible == BeforeCursor(snapshot)
           p == ObserveDocument(visible, st.p)
           one == QuoteOpens(visible, openSingle, closeSingle, st.p.single)
           two == QuoteOpens(visible, openDouble, closeDouble, st.p.double)
           digit == Last(visible) \in Digits
<1>1. st.p \in Marking /\ st.p.single \in BOOLEAN /\ st.p.double \in BOOLEAN
  BY DEF CallState, Marking
<1>2. p = st.p \/ p = [single |-> one, double |-> two, digit |-> digit]
  BY DEF ObserveDocument
<1>3. one \in BOOLEAN /\ two \in BOOLEAN /\ digit \in BOOLEAN
  BY <1>1, QuoteIs
<1>4. Observe(st) = [st EXCEPT !.p = p]
  BY DEF Observe
<1> HIDE DEF p, one, two, digit
<1>5. p \in Marking
  BY <1>1, <1>2, <1>3 DEF Marking
<1> QED BY <1>4, <1>5 DEF CallState, Alike

LEMMA EmitType ==
  ASSUME NEW key \in Emittable, NEW w \in Options, NEW p \in Marking
  PROVE  EmitText(key, w, p) \in Text /\ EmitState(key, w, p) \in Marking
<1> DEFINE quotes == {openSingle, closeSingle, openDouble, closeDouble, fullStop}
           one == {key, FullWidth[key]} \cup quotes \cup {stop}
           text == EmitText(key, w, p)
<1>1. one \subseteq Scalar
  BY PunctuationAssumption
<1>2. \/ \E s \in one : text = <<s>>
      \/ key \in DOMAIN Marks(w.simplified) /\ text = Marks(w.simplified)[key]
  BY DEF EmitText, Options, Width
<1>3. w.simplified \in BOOLEAN
  BY DEF Options
<1>4. EmitState(key, w, p) \in Marking
  BY DEF EmitState, Marking
<1> HIDE DEF text, one
<1>5. \A s \in one : <<s>> \in Text
  BY <1>1 DEF Text
<1>6. text \in Text
  BY <1>2, <1>3, <1>5, PunctuationAssumption
<1> QED BY <1>4, <1>6 DEF text

LEMMA ShapedIs ==
  ASSUME NEW st \in CallState, NEW key \in Keys \cup {space}
  PROVE  /\ Shaped(st, key) \in CallState /\ Alike(Shaped(st, key), st)
         /\ Shaped(st, key).model = st.model
         /\ \E c \in Text : Shaped(st, key).out.commit = st.out.commit \o c
<1> DEFINE converts == IsCjk(st) /\ key \in Emittable
           text == IF converts THEN EmitText(key, st.options, st.p) ELSE <<key>>
           p == IF converts THEN EmitState(key, st.options, st.p) ELSE st.p
           c == st.out.commit \o text
           n == NoteCommit(p, text)
<1>1. /\ st.p \in Marking /\ st.options \in Options /\ st.out \in Plainly
      /\ st.out.commit \in Text /\ key \in Scalar
  BY TableInputAssumption DEF CallState, Plainly
<1>2. text \in Text /\ p \in Marking
  <2>1. <<key>> \in Text
    BY <1>1 DEF Text
  <2>2. key \in Emittable => /\ EmitText(key, st.options, st.p) \in Text
                             /\ EmitState(key, st.options, st.p) \in Marking
    BY <1>1, EmitType
  <2> HIDE DEF converts
  <2>3. converts => key \in Emittable
    BY DEF converts
  <2> QED BY <1>1, <2>1, <2>2, <2>3
<1>3. Shaped(st, key) = [st EXCEPT !.out.commit = c, !.p = n]
  BY DEF Shaped
<1> HIDE DEF text, p
<1>4. c \in Text /\ n \in Marking
  BY <1>1, <1>2, ConcatText, NoteType
<1>5. c = st.out.commit \o text
  OBVIOUS
<1> HIDE DEF c, n
<1> DEFINE x == [st EXCEPT !.out.commit = c, !.p = n]
<1>6. /\ x \in CallState /\ Alike(x, st) /\ x.model = st.model
      /\ x.out.commit = c
  BY <1>1, <1>4 DEF CallState, Alike, Plainly
<1> HIDE DEF x
<1>7. Shaped(st, key) = x
  BY <1>3 DEF x
<1> QED BY <1>2, <1>5, <1>6, <1>7

\* Committing ends the composition, whichever text it ends with.
LEMMA CommitGoes ==
  ASSUME NEW st, Sound(st)
  PROVE  /\ Committed(CommitTyped(st), st, TypedRun(st))
         /\ Composing(st) /\ st.matches # <<>> =>
              Committed(CommitHovered(st), st, Hovered(st).phrase)
<1>1. st \in CallState /\ (Composing(st) => InForce(st))
  BY DEF Sound
<1>2. TypedRun(st) \in Text
  <2>1. st.valid \in Text /\ st.invalid \in Text
    BY <1>1, KeysAreText DEF CallState
  <2> QED BY <2>1, ConcatText DEF TypedRun
<1>3. Committed(CommitPhrase(st, TypedRun(st), <<>>), st, TypedRun(st))
  <2> DEFINE text == TypedRun(st)
             chosen == <<>>
  <2>1. chosen \in Seq(Keys) /\ ~(chosen # <<>>)
    OBVIOUS
  <2> HIDE DEF text, chosen
  <2>2. Committed(CommitPhrase(st, text, chosen), st, text)
    BY <1>1, <1>2, <2>1, CommitPhraseIs DEF text
  <2> QED BY <2>2 DEF text, chosen
<1>4. ASSUME Composing(st), st.matches # <<>>
      PROVE  Committed(CommitPhrase(st, Hovered(st).phrase, st.valid), st, Hovered(st).phrase)
  <2>1. Hovered(st).phrase \in Wording
    BY <1>1, <1>4, HoveredType
  <2> QED BY <1>1, <1>4, <2>1, ChosenGoes
<1> QED BY <1>3, <1>4 DEF CommitTyped, CommitHovered

-------------------------------------------------------------------------------
(* The keys.                                                               *)

\* What a call that delivers nothing may do to the keys.
Kept(w, v) ==
  \/ w = <<>> \/ w = v
  \/ v # <<>> /\ w = Front(v)
  \/ \E key \in Keys : w = Append(v, key)

Good(x) == Sound(x) /\ (Phrased /\ x.out.commit = <<>> => Kept(KeysOf(x), KeysOf(Enter)))

StepKeeps ==
  /\ TableInv'
  /\ Phrased /\ Delivered(calls') = <<>> => Kept(KeysOf(Enter'), KeysOf(Enter))

LEMMA Entering ==
  ASSUME TableInv
  PROVE  /\ Sound(Enter) /\ Enter \in CallState
         /\ Stands(Synced) /\ Sound(Synced) /\ Synced \in CallState
         /\ KeysOf(Synced) = KeysOf(Enter) /\ Synced.out = NoOutput
         /\ HasTable(Synced) => InForce(Synced)
         /\ Composing(Enter) => Synced = Enter
         /\ Good(Enter) /\ Good(Synced)
<1>1. Sound(Enter) /\ Enter \in CallState /\ Enter.model.settled = Staged(Enter)
  BY DEF TableInv, Stands, Sound
<1>2. /\ Sound(Synced) /\ KeysOf(Synced) = KeysOf(Enter) /\ Synced.out = Enter.out
      /\ Synced.model = Enter.model /\ Staged(Synced) = Staged(Enter)
      /\ HasTable(Synced) => InForce(Synced)
      /\ Composing(Enter) => Synced = Enter
  BY <1>1, SyncIs DEF Synced
<1>3. Stands(Synced) /\ Synced \in CallState
  BY <1>1, <1>2 DEF Stands, Sound
<1>4. Good(Enter) /\ Good(Synced)
  BY <1>1, <1>2 DEF Good, Kept
<1> QED BY <1>1, <1>2, <1>3, <1>4, EnterIs

LEMMA EndedIsGood ==
  ASSUME NEW x, Sound(x), ~Composing(x)
  PROVE  Good(x)
<1>1. x \in CallState
  BY DEF Sound
<1>2. KeysOf(x) = <<>>
  BY <1>1, KeysOfType
<1> QED BY <1>2 DEF Good, Kept

LEMMA AlikeGood ==
  ASSUME NEW st, Sound(st), NEW x \in CallState, Alike(x, st),
         ~Composing(st) \/ KeysOf(st) = KeysOf(Enter)
  PROVE  Good(x)
<1>1. Sound(x) /\ KeysOf(x) = KeysOf(st) /\ (Composing(x) <=> Composing(st))
  BY AlikeSound
<1> QED BY <1>1, EndedIsGood DEF Good, Kept

LEMMA GoodLeaves ==
  ASSUME TableInv, NEW x, Good(x), NEW force \in BOOLEAN,
         owed' \in {"nothing", "insert", "erase"},
         \/ Leave(Publish(x), force)
         \/ Stands(x) /\ Leave(x, force)
  PROVE  StepKeeps
<1>1. ContextTypeOK /\ Sound(x)
  BY DEF TableInv, Good
<1>2. CASE Leave(Publish(x), force)
  <2> DEFINE y == Publish(x)
  <2>1. Stands(y) /\ Alike(y, x) /\ y.out = x.out
    BY <1>1, PublishStands
  <2> HIDE DEF y
  <2>2. Leave(y, force)
    BY <1>2 DEF y
  <2>3. /\ TableInv' /\ Delivered(calls') = y.out.commit
        /\ Enter' = Left(y) /\ KeysOf(Left(y)) = KeysOf(y)
    BY <1>1, <2>1, <2>2, LeaveKeeps
  <2>4. KeysOf(y) = KeysOf(x)
    BY <2>1 DEF Alike, KeysOf
  <2> QED BY <2>1, <2>3, <2>4 DEF StepKeeps, Good
<1>3. CASE Stands(x) /\ Leave(x, force)
  <2>1. /\ TableInv' /\ Delivered(calls') = x.out.commit
        /\ Enter' = Left(x) /\ KeysOf(Left(x)) = KeysOf(x)
    BY <1>1, <1>3, LeaveKeeps
  <2> QED BY <2>1 DEF StepKeeps, Good
<1> QED BY <1>2, <1>3

LEMMA TypeInputKeeps ==
  ASSUME TableInv, NEW key \in Keys, TypeInput(key)
  PROVE  StepKeeps
<1> DEFINE x == TakeInput(Synced, key)
<1>1. Leave(Publish(x), FALSE) /\ HasTable(Synced) /\ owed' = "nothing"
  BY DEF TypeInput, Handled
<1>2. Took(x, Synced, key)
  BY <1>1, Entering, TakeInputGoes
<1> HIDE DEF x
<1>3. Sound(x)
  BY <1>2 DEF Took, Going
<1>4. ASSUME Phrased, x.out.commit = <<>> PROVE Kept(KeysOf(x), KeysOf(Enter))
  <2>1. KeysOf(x) \in {KeysOf(Synced), Append(KeysOf(Synced), key)}
    BY <1>2, <1>4 DEF Took
  <2> QED BY <2>1, Entering DEF Kept
<1>5. Good(x)
  BY <1>3, <1>4 DEF Good
<1> QED BY <1>1, <1>5, GoodLeaves

LEMMA TypeEndingKeeps ==
  ASSUME TableInv, NEW key \in Keys, TypeEnding(key)
  PROVE  StepKeeps
<1> DEFINE y == Observe(Synced)
           z == EndForKey(y)
           x == Shaped(z, key)
<1>1. Leave(Publish(x), FALSE) /\ Composing(Synced) /\ owed' = "nothing"
  BY DEF TypeEnding, Handled
<1>2. y \in CallState /\ Alike(y, Synced)
  BY Entering, ObserveIs
<1> HIDE DEF y
<1>3. Sound(y) /\ Composing(y)
  BY <1>1, <1>2, Entering, AlikeSound
<1>4. z = CommitTyped(y) \/ (z = CommitHovered(y) /\ y.matches # <<>>)
  BY DEF EndForKey
<1>5. Sound(z) /\ ~Composing(z) /\ z \in CallState
  BY <1>3, <1>4, CommitGoes DEF Committed, Sound
<1> HIDE DEF z
<1>6. x \in CallState /\ Alike(x, z)
  BY <1>5, ShapedIs
<1> HIDE DEF x
<1>7. Good(x)
  BY <1>5, <1>6, AlikeGood
<1> QED BY <1>1, <1>7, GoodLeaves

LEMMA TypeTextKeeps ==
  ASSUME TableInv, NEW key \in Keys \cup {space}, TypeText(key)
  PROVE  StepKeeps
<1> DEFINE y == Observe(Synced)
           x == Shaped(y, key)
<1>1. /\ owed' \in {"nothing", "insert"}
      /\ Leave(Publish(x), FALSE) \/ Leave(y, FALSE)
  BY DEF TypeText, Handled
<1>2. y \in CallState /\ Alike(y, Synced) /\ y.model = Synced.model
  BY Entering, ObserveIs
<1> HIDE DEF y
<1>3. Sound(y) /\ KeysOf(y) = KeysOf(Enter) /\ Staged(y) = Staged(Synced)
  BY <1>2, Entering, AlikeSound
<1>4. x \in CallState /\ Alike(x, y)
  BY <1>2, ShapedIs
<1> HIDE DEF x
<1>5. Good(x)
  BY <1>3, <1>4, AlikeGood
<1>6. Good(y)
  BY <1>3 DEF Good, Kept
<1>7. Stands(y)
  BY <1>2, <1>3, Entering DEF Stands
<1> QED BY <1>1, <1>5, <1>6, <1>7, GoodLeaves

\* Converting, Return, commit: the composition ends in what it was.
LEMMA EndKeeps ==
  ASSUME TableInv, NEW st \in {Enter, Synced}, Composing(st),
         NEW x, \/ x = CommitTyped(st) \/ (x = CommitHovered(st) /\ st.matches # <<>>)
                \/ x = ClearState(st),
         Leave(Publish(x), FALSE), owed' = "nothing"
  PROVE  StepKeeps
<1>1. Sound(st) /\ st \in CallState
  BY Entering
<1>2. Sound(x) /\ ~Composing(x)
  BY <1>1, CommitGoes, ClearSound DEF Committed
<1> QED BY <1>2, EndedIsGood, GoodLeaves

LEMMA EndingKeysKeep ==
  ASSUME TableInv, Convert \/ Return \/ Escape_ \/ BackspaceKey \/ TypeOther
  PROVE  StepKeeps
<1> DEFINE st == Synced
<1>1. CASE Convert
  <2> DEFINE x == IF st.matches # <<>> THEN CommitHovered(st) ELSE CommitTyped(st)
  <2>1. Composing(st) /\ Leave(Publish(x), FALSE) /\ owed' = "nothing"
    BY <1>1 DEF Convert, Handled
  <2>2. x = CommitTyped(st) \/ (x = CommitHovered(st) /\ st.matches # <<>>)
    OBVIOUS
  <2> HIDE DEF x, st
  <2>3. st \in {Enter, Synced}
    BY DEF st
  <2> QED BY <2>1, <2>2, <2>3, EndKeeps
<1>2. CASE Return
  <2>1. Composing(st) /\ Leave(Publish(CommitTyped(st)), FALSE) /\ owed' = "nothing"
    BY <1>2 DEF Return, Handled
  <2> QED BY <2>1, EndKeeps
<1>3. CASE Escape_
  <2>1. Composing(st) /\ Leave(Publish(ClearState(st)), FALSE) /\ owed' = "nothing"
    BY <1>3 DEF Escape_, Handled
  <2> QED BY <2>1, EndKeeps
<1>4. CASE BackspaceKey
  <2> DEFINE x == TakeBackspace(st)
  <2>1. Composing(st) /\ Leave(Publish(x), FALSE) /\ owed' = "nothing"
    BY <1>4 DEF BackspaceKey, Handled
  <2>2. LostOne(x, st)
    BY <2>1, Entering, BackspaceGoes
  <2>3. Good(x)
    BY <2>2, Entering DEF LostOne, Going, Good, Kept
  <2> QED BY <2>1, <2>3, GoodLeaves
<1>5. CASE TypeOther
  <2>1. Leave(st, FALSE) /\ owed' \in {"nothing", "insert", "erase"}
    BY <1>5 DEF TypeOther
  <2> QED BY <2>1, Entering, GoodLeaves
<1> QED BY <1>1, <1>2, <1>3, <1>4, <1>5

-------------------------------------------------------------------------------
(* The other calls.                                                        *)

LEMMA ResetIs ==
  ASSUME NEW st \in CallState
  PROVE  /\ Stands(ResetState(st)) /\ ~Composing(ResetState(st))
<1> DEFINE y == ClearState(st)
           x == [y EXCEPT !.model = EmptyModel, !.p = FreshPunctuation]
<1>1. Sound(y) /\ ~Composing(y) /\ y.segments = <<>>
  BY ClearSound
<1>2. ResetState(st) = x
  BY DEF ResetState
<1>3. FreshPunctuation \in Marking
  BY DEF FreshPunctuation, Marking
<1>4. y \in CallState
  BY <1>1 DEF Sound
<1> HIDE DEF y
<1>5. x \in CallState /\ Alike(x, y) /\ x.model = EmptyModel
  BY <1>3, <1>4, EmptyModelType DEF CallState, Alike
<1> HIDE DEF x
<1>6. Sound(x) /\ ~Composing(x) /\ Staged(x) = Staged(y)
  BY <1>1, <1>5, AlikeSound
<1>7. Staged(y) = <<>>
  BY <1>1, <1>4, StagedIs
<1>8. Stands(x)
  BY <1>5, <1>6, <1>7 DEF Stands, EmptyModel
<1> QED BY <1>2, <1>6, <1>8

LEMMA CommitResetKeep ==
  ASSUME TableInv, Commit \/ Reset
  PROVE  StepKeeps
<1> DEFINE st == Enter
<1>1. CASE Commit
  <2>1. /\ owed' = "nothing"
        /\ \/ Composing(st) /\ Leave(Publish(CommitTyped(st)), FALSE)
           \/ Leave(st, FALSE)
    BY <1>1 DEF Commit, Handled
  <2>2. Stands(st)
    BY DEF TableInv
  <2> HIDE DEF st
  <2>3. st \in {Enter, Synced}
    BY DEF st
  <2>4. Good(st)
    BY Entering DEF st
  <2> QED BY <2>1, <2>2, <2>3, <2>4, EndKeeps, GoodLeaves
<1>2. CASE Reset
  <2> DEFINE x == ResetState(st)
  <2>1. Leave(x, FALSE) /\ owed' = "nothing"
    BY <1>2 DEF Reset, Handled
  <2>2. Stands(x) /\ ~Composing(x)
    BY Entering, ResetIs
  <2> HIDE DEF x
  <2>3. Good(x)
    BY <2>2, EndedIsGood DEF Stands
  <2> QED BY <2>1, <2>2, <2>3, GoodLeaves
<1> QED BY <1>1, <1>2

\* A list is the list of the table in force.
LEMMA ListedInForce ==
  ASSUME NEW st, Sound(st), st.matches # <<>>
  PROVE  InForce(st)
BY DEF Sound, Answers

\* What selecting leaves.
LEMMA SelectedIs ==
  ASSUME NEW st, Sound(st), NEW k \in Nat, k < Len(st.matches),
         NEW x, x = RefreshMatches(CommitPhrase(st, st.matches[k + 1].phrase, st.valid))
  PROVE  /\ Sound(x) /\ ~Composing(x)
         /\ x.out.commit = (st.out.commit \o Staged(st)) \o st.matches[k + 1].phrase
<1> DEFINE text == st.matches[k + 1].phrase
           y == CommitPhrase(st, text, st.valid)
<1>1. /\ st \in CallState /\ st.matches \in Seq(RowOf(Wording)) /\ Len(st.matches) \in Nat
  BY DEF Sound, CallState
<1>2. st.matches # <<>> /\ k + 1 \in 1..Len(st.matches)
  BY <1>1
<1>3. InForce(st)
  BY <1>2, ListedInForce
<1>4. text \in Wording
  <2>1. st.matches[k + 1] \in RowOf(Wording)
    BY <1>1, <1>2, ElementOfSeq
  <2> QED BY <2>1 DEF RowOf
<1>5. x = RefreshMatches(y)
  OBVIOUS
<1> HIDE DEF text
<1>6. Committed(y, st, text)
  BY <1>1, <1>3, <1>4, ChosenGoes
<1> HIDE DEF y
<1>7. /\ y \in CallState /\ ~Composing(y) /\ y.segments = <<>> /\ y.valid = <<>>
      /\ y.invalid = <<>> /\ y.out.commit = (st.out.commit \o Staged(st)) \o text
  BY <1>6 DEF Committed, Sound
<1>8. /\ Sound(x) /\ x.valid = y.valid /\ x.invalid = y.invalid
      /\ x.segments = y.segments /\ x.out = y.out
  BY <1>5, <1>7, RefreshSound
<1> QED BY <1>7, <1>8 DEF Composing, text

LEMMA ShownMany ==
  ASSUME TableInv
  PROVE  /\ Len(model.candidates) = Capped(Len(matches), options.cap)
         /\ Len(matches) \in Nat /\ Len(model.candidates) \in 0..Len(matches)
         /\ \A i \in 1..Len(model.candidates) : model.candidates[i] = matches[i].phrase
<1> DEFINE n == Capped(Len(matches), options.cap)
           list == SubSeq(matches, 1, n)
<1>1. /\ matches \in Seq(RowOf(Wording)) /\ options \in Settings /\ Len(matches) \in Nat
  BY Entering, EnterIs DEF CallState
<1>2. options.cap \in Nat \ {0}
  BY <1>1, TableInputAssumption DEF Options
<1>3. n \in Nat /\ n <= Len(matches)
  BY <1>1, <1>2 DEF Capped
<1>4. model.candidates = Phrases(list)
  BY DEF TableInv
<1> HIDE DEF n
<1>5. list \in Seq(RowOf(Wording)) /\ Len(list) = n /\ \A k \in 1..n : list[k] = matches[k]
  BY <1>1, <1>3, FirstOfSorted
<1> HIDE DEF list
<1>6. Len(model.candidates) = n /\ \A i \in 1..n : model.candidates[i] = list[i].phrase
  BY <1>4, <1>5, PhrasesType
<1> QED BY <1>1, <1>3, <1>5, <1>6 DEF n

LEMMA SameKeys ==
  ASSUME NEW x, NEW st, x.segments = st.segments, x.valid = st.valid, x.invalid = st.invalid
  PROVE  KeysOf(x) = KeysOf(st) /\ Staged(x) = Staged(st)
BY DEF KeysOf, Staged

\* Moving the cursor.
LEMMA MovedIs ==
  ASSUME TableInv, NEW k \in Nat, k < Capped(Len(matches), options.cap),
         NEW x, x = [Enter EXCEPT !.cursor = k, !.model.cursor = k]
  PROVE  /\ Stands(x) /\ x.out = NoOutput /\ KeysOf(x) = KeysOf(Enter)
         /\ x.users = users /\ x.value = value /\ x.segments = segments
<1> DEFINE e == Enter
           m == [e.model EXCEPT !.cursor = k]
<1>1. /\ e \in CallState /\ e.model \in Model /\ Sound(e) /\ e.out = NoOutput
      /\ e.matches = matches /\ e.options = options /\ e.model.settled = Staged(e)
      /\ e.users = users /\ e.value = value /\ e.segments = segments
  BY Entering, EnterIs DEF CallState, TableInv, Stands
<1>2. x = [e EXCEPT !.cursor = k, !.model.cursor = k]
  OBVIOUS
<1> HIDE DEF e
<1>3. m \in Model /\ m.settled = e.model.settled
  BY <1>1 DEF Model
<1>4. x = [e EXCEPT !.cursor = k, !.model = m]
  BY <1>1, <1>2 DEF CallState
<1> HIDE DEF m
<1>5. /\ x \in CallState /\ x.value = e.value /\ x.valid = e.valid
      /\ x.invalid = e.invalid /\ x.segments = e.segments /\ x.matches = e.matches
      /\ x.users = e.users /\ x.options = e.options /\ x.cursor = k /\ x.model = m
      /\ x.out = e.out
  BY <1>1, <1>3, <1>4 DEF CallState
<1>6. Answers(x)
  BY <1>1, <1>5, AnswersSame DEF Sound
<1>7. Pointed(x)
  BY <1>1, <1>5 DEF Pointed
<1>8. Composing(x) => InForce(x)
  BY <1>1, <1>5 DEF Sound, Composing, InForce, HasTable
<1>9. Sound(x)
  BY <1>5, <1>6, <1>7, <1>8 DEF Sound
<1>10. KeysOf(x) = KeysOf(e) /\ Staged(x) = Staged(e)
  BY <1>5, SameKeys
<1>11. x.model.settled = Staged(x)
  BY <1>1, <1>3, <1>5, <1>10
<1>12. Stands(x) /\ x.out = NoOutput
  BY <1>1, <1>5, <1>9, <1>11 DEF Stands
<1>13. x.users = users /\ x.value = value /\ x.segments = segments
  BY <1>1, <1>5
<1> HIDE DEF m
<1> QED BY <1>10, <1>12, <1>13 DEF e

LEMMA ChoosingKeeps ==
  ASSUME TableInv, SelectCandidate \/ MoveCursor
  PROVE  StepKeeps
<1>1. CASE SelectCandidate
  <2>1. PICK k \in 0..(Len(model.candidates) - 1) :
          /\ k < Len(matches)
          /\ Leave(Publish(RefreshMatches(
               CommitPhrase(Enter, matches[k + 1].phrase, valid))), FALSE)
    BY <1>1 DEF SelectCandidate, Select
  <2> DEFINE x == RefreshMatches(CommitPhrase(Enter, matches[k + 1].phrase, valid))
  <2>2. owed' = "nothing" /\ k \in Nat
    BY <1>1, <2>1, ShownMany DEF SelectCandidate, Select, Handled
  <2>3. x = RefreshMatches(CommitPhrase(Enter, Enter.matches[k + 1].phrase, Enter.valid))
        /\ k < Len(Enter.matches)
    BY <2>1, EnterIs
  <2> HIDE DEF x
  <2>4. Sound(x) /\ ~Composing(x)
    BY <2>2, <2>3, Entering, SelectedIs
  <2>5. Leave(Publish(x), FALSE)
    BY <2>1 DEF x
  <2> QED BY <2>2, <2>4, <2>5, EndedIsGood, GoodLeaves
<1>2. CASE MoveCursor
  <2>1. PICK k \in 0..(Len(model.candidates) - 1) :
          k < Len(matches) /\ Leave([Enter EXCEPT !.cursor = k, !.model.cursor = k], FALSE)
    BY <1>2 DEF MoveCursor
  <2> DEFINE x == [Enter EXCEPT !.cursor = k, !.model.cursor = k]
  <2>2. owed' = "nothing" /\ k \in Nat /\ k < Capped(Len(matches), options.cap)
    <3>1. owed' = "nothing"
      BY <1>2 DEF MoveCursor, Handled
    <3> DEFINE n == Len(model.candidates)
    <3>2. n = Capped(Len(matches), options.cap) /\ n \in Nat /\ k \in 0..(n - 1)
      BY <2>1, ShownMany
    <3> HIDE DEF n
    <3> QED BY <3>1, <3>2
  <2>3. Leave(x, FALSE)
    BY <2>1
  <2>4. Stands(x) /\ KeysOf(x) = KeysOf(Enter)
    BY <2>2, MovedIs
  <2> HIDE DEF x
  <2>5. Good(x)
    BY <2>4 DEF Good, Kept, Stands
  <2> QED BY <2>2, <2>3, <2>4, <2>5, GoodLeaves
<1> QED BY <1>1, <1>2

\* options_changed, of an option other than the table.
LEMMA OptionsChangedIs ==
  ASSUME NEW st, Sound(st), NEW chosen \in Settings, chosen.table = st.options.table,
         NEW x, x = SyncTable([st EXCEPT !.options = chosen])
  PROVE  LET y == IF HasTable(x) THEN RefreshMatches(x) ELSE x
         IN Sound(y) /\ KeysOf(y) = KeysOf(st) /\ y.out = st.out
<1> DEFINE u == [st EXCEPT !.options = chosen]
           z == SyncTable(st)
<1>1. st \in CallState
  BY DEF Sound
<1>2. /\ Sound(z) /\ KeysOf(z) = KeysOf(st) /\ z.out = st.out
      /\ HasTable(z) => InForce(z)
  BY SyncIs
<1>3. z \in CallState
  BY <1>2 DEF Sound
<1>4. x = [z EXCEPT !.options = chosen]
  <2>1. u.options = chosen /\ u.value = st.value
    BY <1>1 DEF CallState
  <2>2. CASE st.options.table = st.value
    <3>1. x = u /\ z = st
      BY <2>1, <2>2 DEF SyncTable
    <3> QED BY <3>1
  <2>3. CASE st.options.table # st.value
    <3>1. x = [ClearState(u) EXCEPT !.value = chosen.table]
      BY <2>1, <2>3 DEF SyncTable
    <3>2. z = [ClearState(st) EXCEPT !.value = chosen.table]
      BY <2>3 DEF SyncTable
    <3> QED BY <1>1, <3>1, <3>2 DEF ClearState, CallState
  <2> QED BY <2>2, <2>3
<1> HIDE DEF u, z
<1>5. /\ x \in CallState /\ x.value = z.value /\ x.valid = z.valid /\ x.invalid = z.invalid
      /\ x.segments = z.segments /\ x.matches = z.matches /\ x.cursor = z.cursor
      /\ x.users = z.users /\ x.out = z.out /\ x.options = chosen
  BY <1>3, <1>4 DEF CallState
<1>6. KeysOf(x) = KeysOf(st)
  BY <1>2, <1>5 DEF KeysOf
<1>7. HasTable(x) <=> HasTable(z)
  BY <1>5 DEF HasTable
<1>8. CASE HasTable(x)
  <2> DEFINE y == RefreshMatches(x)
  <2>1. InForce(x)
    <3>1. z.value = z.options.table
      BY <1>2, <1>7, <1>8 DEF InForce
    <3>2. z.options = st.options
      BY SyncIs DEF z
    <3> QED BY <1>5, <1>8, <3>1, <3>2 DEF InForce
  <2>2. /\ Sound(y) /\ y.out = x.out /\ y.segments = x.segments /\ y.valid = x.valid
        /\ y.invalid = x.invalid
    BY <1>5, <2>1, RefreshSound
  <2> HIDE DEF y
  <2>3. KeysOf(y) = KeysOf(x)
    BY <2>2 DEF KeysOf
  <2> QED BY <1>2, <1>5, <1>6, <1>8, <2>2, <2>3 DEF y
<1>9. CASE ~HasTable(x)
  <2>1. ~Composing(z) /\ z.matches = <<>>
    BY <1>2, <1>7, <1>9 DEF Sound, Answers, InForce
  <2>2. z.cursor = 0
    <3>1. z.cursor \in Nat /\ z.options.cap \in Nat \ {0}
      BY <1>3, TableInputAssumption DEF CallState, Options
    <3>2. Capped(Len(z.matches), z.options.cap) = 0
      BY <2>1, <3>1 DEF Capped
    <3> QED BY <1>2, <3>1, <3>2 DEF Sound, Pointed
  <2>3. ~Composing(x)
    BY <1>5, <2>1 DEF Composing
  <2>4. Sound(x)
    BY <1>5, <2>1, <2>2, <2>3, ClearedSound
  <2> QED BY <1>2, <1>5, <1>6, <1>9, <2>4
<1> QED BY <1>8, <1>9

LEMMA SetOptionKeeps ==
  ASSUME TableInv, SetOption
  PROVE  StepKeeps
<1>1. PICK chosen \in Settings :
        LET st == [Enter EXCEPT !.options = chosen]
        IN IF chosen.table # options.table THEN Leave(ResetState(st), FALSE)
           ELSE Leave(OptionsChanged(st), TRUE)
  BY DEF SetOption
<1> DEFINE e == Enter
           st == [e EXCEPT !.options = chosen]
<1>2. e \in CallState /\ Sound(e) /\ e.options = options /\ e.out = NoOutput
  BY Entering, EnterIs
<1>3. owed' = "nothing"
  BY DEF SetOption, Handled
<1>4. CASE chosen.table # options.table
  <2> DEFINE x == ResetState(st)
  <2>1. Leave(x, FALSE)
    BY <1>1, <1>4
  <2> HIDE DEF e
  <2>2. st \in CallState
    BY <1>2 DEF CallState
  <2> HIDE DEF st
  <2>3. Stands(x) /\ ~Composing(x)
    BY <2>2, ResetIs
  <2> HIDE DEF x
  <2>4. Good(x)
    BY <2>3, EndedIsGood DEF Stands
  <2> QED BY <1>3, <2>1, <2>3, <2>4, GoodLeaves
<1>5. CASE chosen.table = options.table
  <2> DEFINE z == SyncTable(st)
             y == IF HasTable(z) THEN RefreshMatches(z) ELSE z
  <2>1. Leave(OptionsChanged(st), TRUE)
    BY <1>1, <1>5
  <2>2. OptionsChanged(st) = Publish(y)
    BY DEF OptionsChanged
  <2>3. Sound(y) /\ KeysOf(y) = KeysOf(e) /\ y.out = e.out
    <3> HIDE DEF e
    <3> QED BY <1>2, <1>5, OptionsChangedIs
  <2> HIDE DEF y
  <2>4. Good(y)
    BY <2>3 DEF Good, Kept
  <2>5. Leave(Publish(y), TRUE)
    BY <2>1, <2>2
  <2> QED BY <1>3, <2>4, <2>5, GoodLeaves
<1> QED BY <1>4, <1>5

-------------------------------------------------------------------------------
(* The steps, and the theorems.                                            *)

\* What happens outside the composition.
LEMMA FrameKeeps ==
  ASSUME TableInv, ContextTypeOK', UNCHANGED <<model, punctuation, tableVars>>
  PROVE  StepKeeps
<1>1. Enter' = Enter
  BY DEF Enter, tableVars
<1>2. Stands(Enter)'
  BY <1>1 DEF TableInv
<1>3. TableInv'
  BY <1>2 DEF TableInv, tableVars
<1> QED BY <1>1, <1>3 DEF StepKeeps, Kept

LEMMA OutsideKeeps ==
  ASSUME TableInv, MoveElsewhere \/ Fallback \/ UNCHANGED vars
  PROVE  StepKeeps
<1>1. CASE MoveElsewhere
  <2>1. PICK d \in Documents : before' = d /\ snapshot' = Around(d, <<>>, Len(d), 0)
    BY <1>1 DEF MoveElsewhere
  <2>2. d \in Text
    BY TableInputAssumption
  <2>3. snapshot' \in Snapshot
    <3>1. Len(d) \in 0..Len(d)
      BY <2>2, TextIsSequence
    <3>2. 0 \in 0..Len(<<>>) /\ <<>> \in Text
      BY EmptyText
    <3> QED BY <2>1, <2>2, <3>1, <3>2, AroundType
  <2>4. ContextTypeOK'
    <3>1. <<>> \in Seq(Call)
      OBVIOUS
    <3> QED BY <1>1, <2>1, <2>2, <2>3, <3>1 DEF MoveElsewhere, ContextTypeOK, TableInv
  <2> QED BY <1>1, <2>4, FrameKeeps DEF MoveElsewhere
<1>2. CASE Fallback
  <2>1. ContextTypeOK'
    BY <1>2, ClientActsType DEF Fallback, TableInv
  <2> QED BY <1>2, <2>1, FrameKeeps DEF Fallback, ClientActs
<1>3. CASE UNCHANGED vars
  <2>1. ContextTypeOK'
    BY <1>3 DEF vars, contextVars, ContextTypeOK, TableInv
  <2> QED BY <1>3, <2>1, FrameKeeps DEF vars, contextVars
<1> QED BY <1>1, <1>2, <1>3

\* What another context learns is added to the rows of the table it typed in.
LEMMA ElsewhereGrows ==
  ASSUME TableInv, LearnElsewhere
  PROVE  /\ users' \in Learners
         /\ \A s \in Tables : users'[s] = users[s] \/ Grows(users'[s], users[s])
<1> DEFINE At(t, chosen, run) ==
             [Enter EXCEPT !.value = t, !.valid = run, !.options = chosen]
<1>0. PICK t \in Tables, chosen \in Settings :
        \E run \in Runs[t] : \E m \in Range(Found(At(t, chosen, run))) :
          users' = Learn(users, At(t, chosen, run), run, m.phrase)
  BY DEF LearnElsewhere
<1>1. PICK run \in Runs[t] :
        \E m \in Range(Found(At(t, chosen, run))) :
          users' = Learn(users, At(t, chosen, run), run, m.phrase)
  BY <1>0
<1> DEFINE there == At(t, chosen, run)
<1>2. PICK m \in Range(Found(there)) : users' = Learn(users, there, run, m.phrase)
  BY <1>1
<1>3. run \in Seq(Keys)
  <2>1. run \in SeqOf(Keys, MaxRun)
    BY DEF Runs
  <2>2. PICK n \in 0..MaxRun : run \in [1..n -> Keys]
    BY <2>1 DEF SeqOf
  <2> QED BY <2>2, TableInputAssumption
<1>4. Enter \in CallState /\ users \in Learners
  BY Entering, EnterIs DEF CallState
<1>5. there \in CallState /\ there.value = t
  BY <1>3, <1>4 DEF CallState
<1> HIDE DEF there
<1>6. Found(there) \in Seq(RowOf(Wording))
  BY <1>5, FoundType
<1>7. m \in RowOf(Wording)
  BY <1>6 DEF Range
<1>8. run \in Text /\ m.phrase \in Wording
  BY <1>3, <1>7, TableInputAssumption DEF Text, RowOf
<1> QED BY <1>2, <1>4, <1>5, <1>8, LearnType

\* What another context learns leaves the list an answer to what was known before.
LEMMA LearnElsewhereKeeps ==
  ASSUME TableInv, LearnElsewhere
  PROVE  StepKeeps
<1> DEFINE e == Enter
           y == Enter'
<1>1. /\ users \in Learners /\ users' \in Learners
      /\ \A s \in Tables : users'[s] = users[s] \/ Grows(users'[s], users[s])
  BY Entering, EnterIs, ElsewhereGrows DEF CallState
<1>2. /\ y.model = e.model /\ y.out = e.out /\ y.value = e.value /\ y.valid = e.valid
      /\ y.invalid = e.invalid /\ y.segments = e.segments /\ y.matches = e.matches
      /\ y.cursor = e.cursor /\ y.users = users' /\ y.p = e.p /\ y.options = e.options
      /\ y = [e EXCEPT !.users = users'] /\ e.users = users
  BY DEF LearnElsewhere, Enter
<1>3. e \in CallState /\ Sound(e) /\ e.model.settled = Staged(e)
  BY Entering DEF TableInv, Stands
<1> HIDE DEF e, y
<1>4. y \in CallState
  BY <1>1, <1>2, <1>3 DEF CallState
<1>5. InForce(y) <=> InForce(e)
  BY <1>2 DEF InForce, HasTable
<1>6. Answers(y)
  <2>1. CASE InForce(e)
    <3> DEFINE v == e.value
    <3>1. PICK rows \in Earlier(e.users[v]) :
            e.matches = Found([e EXCEPT !.users[v] = rows])
      BY <1>3, <2>1 DEF Sound, Answers
    <3>2. v \in Tables
      BY <1>3, <2>1 DEF CallState, InForce, HasTable
    <3>3. e.users[v] \in Seq(Lesson) /\ y.users[v] \in Seq(Lesson)
      BY <1>1, <1>2, <3>2 DEF Learners
    <3>4. rows \in Earlier(y.users[v])
      <4>1. y.users[v] = e.users[v] \/ Grows(y.users[v], e.users[v])
        BY <1>1, <1>2, <3>2
      <4> QED BY <3>1, <3>3, <4>1, EarlierGrows
    <3> DEFINE a == [e EXCEPT !.users[v] = rows]
               b == [y EXCEPT !.users[v] = rows]
    <3>5. /\ a.value = v /\ a.valid = e.valid /\ a.options = e.options
          /\ b.value = v /\ b.valid = e.valid /\ b.options = e.options
          /\ a.users[v] = rows /\ b.users[v] = rows
      BY <1>2, <1>3, <1>4, <3>2 DEF CallState, Learners
    <3>6. y.matches = Found(a)
      BY <1>2, <3>1
    <3> HIDE DEF a, b
    <3>7. Found(b) = Found(a)
      BY <3>5, FoundSame
    <3>8. y.matches = Found([y EXCEPT !.users[y.value] = rows])
      BY <1>2, <3>6, <3>7 DEF b
    <3> QED BY <1>2, <1>5, <2>1, <3>4, <3>8 DEF Answers
  <2>2. CASE ~InForce(e)
    BY <1>2, <1>3, <1>5, <2>2 DEF Answers, Sound
  <2> QED BY <2>1, <2>2
<1>7. Sound(y)
  BY <1>2, <1>3, <1>4, <1>5, <1>6 DEF Sound, Pointed, Composing
<1>8. Staged(y) = Staged(e) /\ KeysOf(y) = KeysOf(e)
  BY <1>2 DEF Staged, KeysOf
<1>9. Stands(y)
  BY <1>2, <1>3, <1>7, <1>8 DEF Stands
<1>10. Stands(Enter)'
  BY <1>9 DEF y
<1>11. ContextTypeOK'
  <2>1. <<>> \in Seq(Call)
    OBVIOUS
  <2> QED BY <2>1 DEF LearnElsewhere, ContextTypeOK, TableInv
<1>12. TableInv'
  BY <1>10, <1>11 DEF TableInv, LearnElsewhere
<1> QED BY <1>8, <1>12 DEF StepKeeps, Kept, e, y

LEMMA NextKeeps ==
  ASSUME TableInv, [Next]_vars
  PROVE  StepKeeps
<1>1. ASSUME NEW key \in Keys, TypeInput(key) \/ TypeEnding(key) PROVE StepKeeps
  BY <1>1, TypeInputKeeps, TypeEndingKeeps
<1>2. ASSUME NEW key \in Keys \cup {space}, TypeText(key) PROVE StepKeeps
  BY <1>2, TypeTextKeeps
<1>3. CASE Convert \/ Return \/ Escape_ \/ BackspaceKey \/ TypeOther
  BY <1>3, EndingKeysKeep
<1>4. CASE Commit \/ Reset
  BY <1>4, CommitResetKeep
<1>5. CASE SelectCandidate \/ MoveCursor
  BY <1>5, ChoosingKeeps
<1>6. CASE SetOption
  BY <1>6, SetOptionKeeps
<1>7. CASE LearnElsewhere
  BY <1>7, LearnElsewhereKeeps
<1>8. CASE MoveElsewhere \/ Fallback \/ UNCHANGED vars
  BY <1>8, OutsideKeeps
<1> QED BY <1>1, <1>2, <1>3, <1>4, <1>5, <1>6, <1>7, <1>8 DEF Next

LEMMA InitHolds ==
  ASSUME Init
  PROVE  TableInv
<1> DEFINE e == Enter
<1>1. /\ e.model = EmptyModel /\ e.out = NoOutput /\ e.value = none /\ e.valid = <<>>
      /\ e.invalid = <<>> /\ e.segments = <<>> /\ e.matches = <<>> /\ e.cursor = 0
      /\ e.users = [t \in Tables |-> <<>>] /\ e.p = FreshPunctuation
      /\ e.options \in Settings
      /\ e = [model |-> e.model, out |-> e.out, value |-> e.value, valid |-> e.valid,
              invalid |-> e.invalid, segments |-> e.segments, matches |-> e.matches,
              cursor |-> e.cursor, users |-> e.users, p |-> e.p, options |-> e.options]
  BY DEF Init, ContextInit, Enter
<1> HIDE DEF e
<1>2. e \in CallState
  <2>1. FreshPunctuation \in Marking
    BY DEF FreshPunctuation, Marking
  <2>2. <<>> \in Seq(Keys) /\ <<>> \in Seq(Segment) /\ <<>> \in Seq(RowOf(Wording))
        /\ <<>> \in Seq(Lesson)
    OBVIOUS
  <2>3. e.users \in Learners
    BY <1>1, <2>2 DEF Learners
  <2>4. /\ e.model \in Model /\ e.out \in Plainly /\ e.value \in Tables \cup {none}
        /\ e.valid \in Seq(Keys) /\ e.invalid \in Seq(Keys) /\ e.segments \in Seq(Segment)
        /\ e.matches \in Seq(RowOf(Wording)) /\ e.cursor \in Nat /\ e.p \in Marking
        /\ e.options \in Settings
    BY <1>1, <2>1, <2>2, PlainlyOutput, EmptyModelType
  <2>5. e = [model |-> e.model, out |-> e.out, value |-> e.value, valid |-> e.valid,
             invalid |-> e.invalid, segments |-> e.segments, matches |-> e.matches,
             cursor |-> e.cursor, users |-> e.users, p |-> e.p, options |-> e.options]
    BY <1>1
  <2> QED BY <2>3, <2>4, <2>5 DEF CallState
<1>3. ~Composing(e)
  BY <1>1 DEF Composing
<1>4. Sound(e)
  BY <1>1, <1>2, <1>3, ClearedSound
<1>5. Staged(e) = <<>>
  BY <1>1, <1>2, StagedIs
<1>6. Stands(e)
  BY <1>1, <1>4, <1>5 DEF Stands, EmptyModel
<1>7. ContextTypeOK
  <2>1. <<>> \in Text /\ <<>> \in Seq(Call)
    BY EmptyText
  <2>2. Project(EmptyModel) \in Flat /\ EmptyModel \in Model
    BY EmptyModelType, ProjectType
  <2>3. NoSnapshot \in Snapshot
    BY <2>1 DEF NoSnapshot, Snapshot
  <2> QED BY <2>1, <2>2, <2>3 DEF Init, ContextInit, ContextTypeOK
<1>8. model.candidates = Phrases(SubSeq(matches, 1, Capped(Len(matches), options.cap)))
  <2> DEFINE n == Capped(Len(matches), options.cap)
  <2>1. options \in Settings /\ matches = <<>> /\ Len(matches) = 0
    BY DEF Init
  <2>2. options.cap \in Nat \ {0}
    BY <2>1, TableInputAssumption DEF Options
  <2>3. n = 0
    BY <2>1, <2>2 DEF Capped
  <2>4. matches \in Seq(RowOf(Wording))
    BY <2>1
  <2> HIDE DEF n
  <2> DEFINE list == SubSeq(matches, 1, n)
  <2>5. list \in Seq(RowOf(Wording)) /\ Len(list) = 0
    BY <2>1, <2>3, <2>4, FirstOfSorted
  <2> HIDE DEF list
  <2>6. Phrases(list) \in Seq(Text) /\ Len(Phrases(list)) = 0
    BY <2>5, PhrasesType
  <2>7. Phrases(list) = <<>>
    BY <2>6
  <2>8. model.candidates = <<>>
    BY DEF Init, ContextInit, EmptyModel
  <2> QED BY <2>7, <2>8 DEF list, n
<1>9. model.cursor = cursor
  BY DEF Init, ContextInit, EmptyModel
<1> QED BY <1>6, <1>7, <1>8, <1>9 DEF TableInv, e

\* The types of the adapter's state, and what relates its parts: nothing is composed
\* but under the table in force, the list answers the run, the cursor is on a
\* candidate the client sees, the text shown as settled is the staged phrases', and
\* the list shown is the first of the list, its cursor the adapter's.
THEOREM TableInvariance == Spec => []TableInv
<1>1. Init => TableInv
  BY InitHolds
<1>2. TableInv /\ [Next]_vars => TableInv'
  BY NextKeeps DEF StepKeeps
<1> QED BY <1>1, <1>2, PTL DEF Spec

\* Whatever was learned since, and wherever, the list is what the table in force and
\* its user database answered for the run that is still valid, and there is none
\* where no table is in force (refresh_matches and its callers).
THEOREM TableListAnswersRun == Spec => []ListAnswersRun
<1>1. TableInv => ListAnswersRun
  BY DEF TableInv, Stands, Sound, Answers, InForce, ListAnswersRun, HasTable, Enter
<1> QED BY <1>1, TableInvariance, PTL

\* What converting and selecting deliver is what the client saw highlighted or at
\* the index, after what was staged (select_candidate, the convert key).
THEOREM TableHighlightIsDelivered == Spec => HighlightIsDelivered
<1> DEFINE A == Composing(Enter) /\ model.candidates # <<>> =>
                  /\ Convert =>
                       before' = before \o model.settled \o model.candidates[model.cursor + 1]
                  /\ \A k \in 0..(Len(model.candidates) - 1) :
                       Select(k) =>
                         before' = before \o model.settled \o model.candidates[k + 1]
<1>1. ASSUME TableInv, Next, Composing(Enter), model.candidates # <<>>
      PROVE  /\ Convert =>
                  before' = before \o model.settled \o model.candidates[model.cursor + 1]
             /\ \A k \in 0..(Len(model.candidates) - 1) :
                  Select(k) => before' = before \o model.settled \o model.candidates[k + 1]
  <2> DEFINE n == Len(model.candidates)
  <2>1. /\ n = Capped(Len(matches), options.cap) /\ n \in 0..Len(matches)
        /\ Len(matches) \in Nat /\ \A i \in 1..n : model.candidates[i] = matches[i].phrase
    BY <1>1, ShownMany
  <2>2. /\ Sound(Enter) /\ Enter \in CallState /\ Synced = Enter /\ ContextTypeOK
        /\ model.settled = Staged(Enter) /\ model.cursor = cursor /\ before \in Text
    BY <1>1, Entering, EnterIs DEF TableInv, Stands, ContextTypeOK
  <2>3. DOMAIN model.candidates = 1..n /\ n \in Nat /\ n > 0
    <3>1. model.candidates \in Seq(Text)
      BY <2>2 DEF ContextTypeOK, Model
    <3> QED BY <1>1, <3>1
  <2>4. cursor \in Nat /\ cursor < n
    <3>1. cursor \in Nat /\ (cursor = 0 \/ cursor < Capped(Len(matches), options.cap))
      BY <2>2, EnterIs DEF Sound, Pointed, CallState
    <3> QED BY <2>1, <2>3, <3>1
  <2>5. ASSUME NEW x, Sound(x), Leave(Publish(x), FALSE), owed' = "nothing", NEW text \in Text,
               x.out.commit = (Enter.out.commit \o Staged(Enter)) \o text
        PROVE  before' = before \o model.settled \o text
    <3> DEFINE y == Publish(x)
    <3>1. Stands(y) /\ y.out = x.out
      BY <2>5, PublishStands
    <3> HIDE DEF y
    <3>2. Leave(y, FALSE)
      BY <2>5 DEF y
    <3>3. before' = before \o x.out.commit
      BY <2>2, <2>5, <3>1, <3>2, LeaveKeeps
    <3>4. Enter.out.commit = <<>>
      BY EnterIs DEF NoOutput
    <3> DEFINE s == model.settled
    <3>5. s \in Text
      BY <2>2, StagedIs
    <3>6. x.out.commit = (<<>> \o s) \o text
      BY <2>2, <2>5, <3>4
    <3> HIDE DEF s
    <3>7. x.out.commit = s \o text
      BY <3>5, <3>6, ConcatText
    <3>8. (before \o s) \o text = before \o (s \o text)
      BY <2>2, <2>5, <3>5, ConcatTexts
    <3> QED BY <3>3, <3>7, <3>8 DEF s
  <2>6. ASSUME Convert
        PROVE  before' = before \o model.settled \o model.candidates[model.cursor + 1]
    <3> DEFINE x == CommitHovered(Enter)
               text == Hovered(Enter).phrase
    <3>1. Enter.matches # <<>>
      BY <2>1, <2>3, EnterIs
    <3>2. Leave(Publish(x), FALSE) /\ owed' = "nothing"
      BY <2>2, <2>6, <3>1 DEF Convert, Handled
    <3>3. Sound(x) /\ x.out.commit = (Enter.out.commit \o Staged(Enter)) \o text
      BY <1>1, <2>2, <3>1, CommitGoes DEF Committed
    <3>4. text = model.candidates[cursor + 1]
      <4>1. Hovered(Enter) = matches[cursor + 1]
        BY <2>1, <2>4, EnterIs DEF Hovered
      <4>2. cursor + 1 \in 1..n
        BY <2>3, <2>4
      <4> QED BY <2>1, <4>1, <4>2
    <3>5. text \in Text
      BY <2>2, <3>1, HoveredType
    <3> HIDE DEF x, text
    <3>6. before' = before \o model.settled \o text
      BY <2>5, <3>2, <3>3, <3>5
    <3> QED BY <2>2, <3>4, <3>6
  <2>7. ASSUME NEW k \in 0..(n - 1), Select(k)
        PROVE  before' = before \o model.settled \o model.candidates[k + 1]
    <3>1. /\ k < Len(matches)
          /\ Leave(Publish(RefreshMatches(
               CommitPhrase(Enter, matches[k + 1].phrase, valid))), FALSE)
      BY <2>7 DEF Select
    <3> DEFINE x == RefreshMatches(CommitPhrase(Enter, matches[k + 1].phrase, valid))
               text == matches[k + 1].phrase
    <3>2. owed' = "nothing" /\ k \in Nat /\ k + 1 \in 1..n
      BY <2>3, <2>7, <3>1 DEF Select, Handled
    <3>3. x = RefreshMatches(CommitPhrase(Enter, Enter.matches[k + 1].phrase, Enter.valid))
          /\ k < Len(Enter.matches)
      BY <3>1, EnterIs
    <3>4. Leave(Publish(x), FALSE)
      BY <3>1
    <3>5. text = model.candidates[k + 1]
      BY <2>1, <3>2
    <3>6. text \in Text
      <4>1. model.candidates \in Seq(Text)
        BY <2>2 DEF ContextTypeOK, Model
      <4>2. model.candidates[k + 1] \in Text
        BY <3>2, <4>1, ElementOfSeq
      <4> QED BY <3>5, <4>2
    <3> HIDE DEF x
    <3>7. Sound(x) /\ x.out.commit = (Enter.out.commit \o Staged(Enter)) \o text
      <4>1. /\ Sound(x)
            /\ x.out.commit = (Enter.out.commit \o Staged(Enter)) \o Enter.matches[k + 1].phrase
        BY <2>2, <3>2, <3>3, SelectedIs
      <4> QED BY <4>1, EnterIs
    <3> HIDE DEF text
    <3>8. before' = before \o model.settled \o text
      BY <2>5, <3>2, <3>4, <3>6, <3>7
    <3> QED BY <3>5, <3>8
  <2> QED BY <2>6, <2>7
<1>2. TableInv /\ [Next]_vars => [A]_vars
  BY <1>1
<1> QED BY <1>2, TableInvariance, PTL DEF Spec, HighlightIsDelivered

\* Where every row of a table has a phrase, a call that delivers nothing moves no key
\* and loses none: it adds the key typed, takes the last one back, or discards all.
\* A row with no phrase delivers the empty text when it is chosen by itself, and its
\* keys go with it (parse_table_source, NOSYMBOL).
THEOREM TableKeepsKeys ==
  ASSUME Phrased
  PROVE  Spec => KeepsKeys
<1> DEFINE A == Delivered(calls') = <<>> /\ Typed' # Typed =>
                  \/ Typed' = <<>>
                  \/ Typed # <<>> /\ Typed' = Front(Typed)
                  \/ \E key \in Keys : Typed' = Append(Typed, key)
<1>1. ASSUME TableInv, [Next]_vars PROVE A
  <2>1. StepKeeps
    BY <1>1, NextKeeps
  <2>2. Enter \in CallState
    BY <1>1, Entering
  <2>3. Enter' \in CallState
    <3>1. TableInv'
      BY <2>1 DEF StepKeeps
    <3>2. Stands(Enter')
      BY <3>1 DEF TableInv
    <3> QED BY <3>2 DEF Stands, Sound
  <2>4. KeysOf(Enter) = Typed
    BY <2>2, TypedIs, EnterIs DEF Typed
  <2>5. KeysOf(Enter') = Typed'
    <3>1. Enter'.segments = segments' /\ Enter'.valid = valid' /\ Enter'.invalid = invalid'
      BY DEF Enter
    <3> QED BY <2>3, <3>1, TypedIs DEF Typed
  <2>6. Delivered(calls') = <<>> => Kept(Typed', Typed)
    BY <2>1, <2>4, <2>5 DEF StepKeeps
  <2> QED BY <2>6 DEF Kept
<1>2. TableInv /\ [Next]_vars => [A]_vars
  BY <1>1
<1> QED BY <1>2, TableInvariance, PTL DEF Spec, KeepsKeys

-------------------------------------------------------------------------------
(* What one choice teaches, of those offered before it.                    *)

\* Row i is not as it was.
Wrote(new, old, i) == i \in DOMAIN old => new[i] # old[i]

\* Its phrase was offered for its keys before it was written.
Offers(rows, keys, phrase, t) ==
  \E once \in Earlier(rows) : phrase \in OfferedFor(keys, t, once)

FairRow(rows, i, t) ==
  \E once \in Earlier(rows) :
    /\ i \in DOMAIN once => once[i] # rows[i]
    /\ rows[i].phrase \in OfferedFor(rows[i].keys, t, once)

\* Every row written is of a phrase of W, and fair.
Lessoned(new, old, t, W) ==
  /\ new \in Seq(Lesson) /\ old \in Seq(Lesson) /\ Grows(new, old)
  /\ \A i \in DOMAIN new : Wrote(new, old, i) => new[i].phrase \in W /\ FairRow(new, i, t)

\* A lesson of these keys and phrase has been written.
Holds(new, old, keys, phrase) ==
  \E i \in DOMAIN new : Wrote(new, old, i) /\ new[i].keys = keys /\ new[i].phrase = phrase

\* The rows of this code and phrase are counted once more, or one is new.
Recorded(new, user, keys, phrase) ==
  /\ new \in Seq(Lesson) /\ Grows(new, user)
  /\ \A i \in 1..Len(new) :
       \/ i <= Len(user) /\ new[i] = user[i]
       \/ /\ new[i].keys = keys /\ new[i].phrase = phrase
          /\ i <= Len(user) => new[i].chosen = user[i].chosen + 1
  /\ \E i \in 1..Len(new) :
       /\ new[i].keys = keys /\ new[i].phrase = phrase
       /\ i <= Len(user) => new[i].chosen = user[i].chosen + 1

LEMMA RecordedAt ==
  ASSUME NEW user \in Seq(Lesson), NEW keys \in Text, NEW phrase \in Wording, NEW new,
         new = RecordSelection(user, keys, phrase)
  PROVE  Recorded(new, user, keys, phrase)
<1> DEFINE mine == [keys |-> keys, phrase |-> phrase, freq |-> 0, chosen |-> 1]
<1>1. new \in Seq(Lesson) /\ Grows(new, user)
  BY RecordedType
<1>2. Len(user) \in Nat /\ DOMAIN user = 1..Len(user) /\ \A i \in 1..Len(user) : user[i] \in Lesson
  OBVIOUS
<1>3. mine.keys = keys /\ mine.phrase = phrase
  OBVIOUS
<1>4. mine \in Lesson
  BY DEF Lesson
<1>5. CASE \E i \in DOMAIN user : SamePair(user[i], mine)
  <2>1. new = [i \in DOMAIN user |-> IF SamePair(user[i], mine)
                          THEN [user[i] EXCEPT !.chosen = @ + 1] ELSE user[i]]
    BY <1>5 DEF RecordSelection
  <2>2. DOMAIN new = 1..Len(user)
    BY <1>2, <2>1
  <2>3. Len(new) = Len(user)
    BY <1>1, <1>2, <2>2
  <2>4. ASSUME NEW i \in 1..Len(user), SamePair(user[i], mine)
        PROVE  /\ new[i].keys = keys /\ new[i].phrase = phrase
               /\ new[i].chosen = user[i].chosen + 1
    <3>1. user[i].keys = keys /\ user[i].phrase = phrase
      BY <1>3, <2>4 DEF SamePair
    <3>2. new[i] = [user[i] EXCEPT !.chosen = @ + 1]
      BY <1>2, <2>1, <2>4
    <3>3. user[i] \in Lesson
      BY <1>2
    <3> QED BY <3>1, <3>2, <3>3 DEF Lesson
  <2>5. ASSUME NEW i \in 1..Len(user), ~SamePair(user[i], mine) PROVE new[i] = user[i]
    BY <1>2, <2>1, <2>5
  <2>6. \E i \in 1..Len(user) : SamePair(user[i], mine)
    BY <1>2, <1>5
  <2> HIDE DEF mine
  <2>7. \A i \in 1..Len(user) : i <= Len(user)
    BY <1>2
  <2> QED BY <1>1, <2>3, <2>4, <2>5, <2>6, <2>7 DEF Recorded
<1>6. CASE ~\E i \in DOMAIN user : SamePair(user[i], mine)
  <2>1. new = Append(user, mine)
    BY <1>6 DEF RecordSelection
  <2>2. /\ Len(new) = Len(user) + 1 /\ new[Len(user) + 1] = mine
        /\ \A i \in 1..Len(user) : new[i] = user[i]
    BY <1>2, <1>4, <2>1, AppendProperties
  <2> HIDE DEF mine
  <2>3. \A i \in 1..Len(new) : (i \in 1..Len(user) /\ i <= Len(user)) \/ i = Len(user) + 1
    BY <1>2, <2>2
  <2>4. Len(user) + 1 \in 1..Len(new) /\ ~(Len(user) + 1 <= Len(user))
    BY <1>2, <2>2
  <2> QED BY <1>1, <1>3, <2>2, <2>3, <2>4 DEF Recorded
<1> QED BY <1>5, <1>6

LEMMA GrownAt ==
  ASSUME NEW new, NEW old \in Seq(Lesson), Grows(new, old)
  PROVE  /\ Len(old) <= Len(new)
         /\ \A i \in 1..Len(old) :
              /\ new[i].keys = old[i].keys /\ new[i].phrase = old[i].phrase
              /\ new[i].chosen \in Nat /\ old[i].chosen \in Nat
              /\ old[i].chosen <= new[i].chosen
              /\ new[i].chosen = old[i].chosen => new[i] = old[i]
<1>1. ASSUME NEW i \in 1..Len(old)
      PROVE  /\ new[i].keys = old[i].keys /\ new[i].phrase = old[i].phrase
             /\ new[i].chosen \in Nat /\ old[i].chosen \in Nat
             /\ old[i].chosen <= new[i].chosen
             /\ new[i].chosen = old[i].chosen => new[i] = old[i]
  <2>1. PICK n \in Nat : old[i].chosen <= n /\ new[i] = [old[i] EXCEPT !.chosen = n]
    BY <1>1 DEF Grows
  <2>2. old[i] \in Lesson
    BY <1>1
  <2> QED BY <2>1, <2>2 DEF Lesson
<1> QED BY <1>1 DEF Grows

LEMMA GrowsOn ==
  ASSUME NEW old \in Seq(Lesson), NEW mid \in Seq(Lesson), NEW new \in Seq(Lesson),
         Grows(mid, old), Grows(new, mid)
  PROVE  Grows(new, old)
<1>1. Len(old) \in Nat /\ Len(mid) \in Nat /\ Len(new) \in Nat
  OBVIOUS
<1>2. Len(old) <= Len(mid) /\ Len(mid) <= Len(new) /\ Len(old) <= Len(new)
  BY <1>1 DEF Grows
<1>3. ASSUME NEW i \in 1..Len(old)
      PROVE  \E n \in Nat : old[i].chosen <= n /\ new[i] = [old[i] EXCEPT !.chosen = n]
  <2>1. i \in 1..Len(mid)
    BY <1>1, <1>2
  <2>2. PICK n \in Nat : old[i].chosen <= n /\ mid[i] = [old[i] EXCEPT !.chosen = n]
    BY DEF Grows
  <2>3. PICK m \in Nat : mid[i].chosen <= m /\ new[i] = [mid[i] EXCEPT !.chosen = m]
    BY <2>1 DEF Grows
  <2>4. old[i] \in Lesson
    OBVIOUS
  <2>5. mid[i].chosen = n /\ new[i] = [old[i] EXCEPT !.chosen = m]
    BY <2>2, <2>3, <2>4 DEF Lesson
  <2>6. old[i].chosen \in Nat
    BY <2>4 DEF Lesson
  <2>7. old[i].chosen <= m
    BY <2>2, <2>3, <2>5, <2>6
  <2> QED BY <2>5, <2>7
<1> QED BY <1>2, <1>3 DEF Grows

\* What was written stays written, and stays fair.
LEMMA StaysWritten ==
  ASSUME NEW old \in Seq(Lesson), NEW mid \in Seq(Lesson), NEW new \in Seq(Lesson),
         Grows(mid, old), Grows(new, mid), NEW i \in DOMAIN mid, Wrote(mid, old, i)
  PROVE  i \in DOMAIN new /\ Wrote(new, old, i)
<1>1. /\ DOMAIN old = 1..Len(old) /\ DOMAIN mid = 1..Len(mid) /\ DOMAIN new = 1..Len(new)
      /\ Len(old) \in Nat /\ Len(mid) \in Nat /\ Len(new) \in Nat
  OBVIOUS
<1>2. Len(mid) <= Len(new)
  BY DEF Grows
<1>3. i \in 1..Len(new)
  BY <1>1, <1>2
<1>4. ASSUME i \in 1..Len(old) PROVE new[i] # old[i]
  <2>1. mid[i] # old[i]
    BY <1>1, <1>4 DEF Wrote
  <2>2. mid[i].chosen # old[i].chosen
    BY <1>4, <2>1, GrownAt
  <2>3. old[i].chosen <= mid[i].chosen /\ mid[i].chosen <= new[i].chosen
    BY <1>1, <1>4, GrownAt
  <2>4. old[i].chosen \in Nat /\ mid[i].chosen \in Nat /\ new[i].chosen \in Nat
    BY <1>1, <1>4, GrownAt
  <2>5. old[i].chosen # new[i].chosen
    BY <2>2, <2>3, <2>4
  <2> QED BY <2>5
<1> QED BY <1>1, <1>3, <1>4 DEF Wrote

LEMMA StillOffered ==
  ASSUME NEW mid \in Seq(Lesson), NEW new \in Seq(Lesson), Grows(new, mid),
         NEW keys, NEW phrase, NEW t, Offers(mid, keys, phrase, t)
  PROVE  Offers(new, keys, phrase, t)
BY EarlierGrows DEF Offers

\* Earlier databases have smaller counts.
LEMMA OnceLess ==
  ASSUME NEW user \in Seq(Lesson), NEW once \in Earlier(user), NEW i \in DOMAIN once
  PROVE  i \in 1..Len(user) /\ once[i].chosen \in Nat /\ once[i].chosen <= user[i].chosen
<1>1. PICK n, count : WasOnce(once, user, n, count)
  BY EarlierIs
<1>2. n \in 0..Len(user) /\ Len(user) \in Nat /\ i \in 1..n
  BY <1>1 DEF WasOnce
<1>3. i \in 1..Len(user)
  BY <1>2
<1>4. once[i] = [user[i] EXCEPT !.chosen = count[i]] /\ user[i] \in Lesson
  BY <1>1, <1>2, <1>3 DEF WasOnce
<1>5. once[i].chosen = count[i]
  BY <1>4 DEF Lesson
<1>6. count[i] \in Nat /\ count[i] <= user[i].chosen
  BY <1>1, <1>2 DEF WasOnce
<1> QED BY <1>3, <1>5, <1>6

LEMMA LessonOne ==
  ASSUME NEW t, NEW W, NEW old, NEW user, Lessoned(user, old, t, W),
         NEW keys \in Text, NEW phrase \in Wording, phrase \in W,
         Offers(user, keys, phrase, t), NEW new, new = RecordSelection(user, keys, phrase)
  PROVE  /\ Lessoned(new, old, t, W) /\ Holds(new, old, keys, phrase)
         /\ Grows(new, user)
<1>1. user \in Seq(Lesson) /\ old \in Seq(Lesson) /\ Grows(user, old)
  BY DEF Lessoned
<1>2. Recorded(new, user, keys, phrase)
  BY <1>1, RecordedAt
<1>3. Grows(new, old)
  BY <1>1, <1>2, GrowsOn DEF Recorded
<1>4. /\ DOMAIN old = 1..Len(old) /\ DOMAIN user = 1..Len(user) /\ DOMAIN new = 1..Len(new)
      /\ Len(old) \in Nat /\ Len(user) \in Nat /\ Len(new) \in Nat /\ Len(old) <= Len(user)
      /\ Len(user) <= Len(new)
  BY <1>1, <1>2 DEF Grows, Recorded
<1>5. ASSUME NEW i \in DOMAIN new, new[i].keys = keys, new[i].phrase = phrase,
             i <= Len(user) => new[i].chosen = user[i].chosen + 1
      PROVE  FairRow(new, i, t) /\ Wrote(new, old, i)
  <2>1. PICK once \in Earlier(user) : phrase \in OfferedFor(keys, t, once)
    BY DEF Offers
  <2>2. once \in Earlier(new)
    BY <1>1, <1>2, <2>1, EarlierGrows DEF Recorded
  <2>3. ASSUME i \in DOMAIN once PROVE once[i] # new[i]
    <3>1. i \in 1..Len(user) /\ once[i].chosen \in Nat /\ once[i].chosen <= user[i].chosen
      BY <1>1, <2>1, <2>3, OnceLess
    <3>2. user[i].chosen \in Nat
      <4>1. user[i] \in Lesson
        BY <1>1, <3>1
      <4> QED BY <4>1 DEF Lesson
    <3>3. new[i].chosen = user[i].chosen + 1
      BY <1>4, <1>5, <3>1
    <3>4. once[i].chosen # new[i].chosen
      BY <3>1, <3>2, <3>3
    <3> QED BY <3>4
  <2>4. FairRow(new, i, t)
    BY <1>5, <2>1, <2>2, <2>3 DEF FairRow
  <2>5. ASSUME i \in 1..Len(old) PROVE new[i] # old[i]
    <3>1. i \in 1..Len(user) /\ i <= Len(user)
      BY <1>4, <2>5
    <3>2. old[i].chosen \in Nat /\ user[i].chosen \in Nat /\ old[i].chosen <= user[i].chosen
      BY <1>1, <2>5, GrownAt
    <3>3. old[i].chosen # new[i].chosen
      BY <1>5, <3>1, <3>2
    <3> QED BY <3>3
  <2> QED BY <1>4, <2>4, <2>5 DEF Wrote
<1>6. ASSUME NEW i \in DOMAIN new, Wrote(new, old, i)
      PROVE  new[i].phrase \in W /\ FairRow(new, i, t)
  <2>1. CASE i <= Len(user) /\ new[i] = user[i]
    <3>1. i \in DOMAIN user
      BY <1>4, <2>1
    <3>2. Wrote(user, old, i)
      BY <1>6, <2>1 DEF Wrote
    <3>3. user[i].phrase \in W /\ FairRow(user, i, t)
      BY <3>1, <3>2 DEF Lessoned
    <3>4. PICK once \in Earlier(user) : /\ i \in DOMAIN once => once[i] # user[i]
                                        /\ user[i].phrase \in OfferedFor(user[i].keys, t, once)
      BY <3>3 DEF FairRow
    <3>5. once \in Earlier(new)
      BY <1>1, <1>2, <3>4, EarlierGrows DEF Recorded
    <3>6. FairRow(new, i, t)
      BY <2>1, <3>4, <3>5 DEF FairRow
    <3> QED BY <2>1, <3>3, <3>6
  <2>2. CASE /\ new[i].keys = keys /\ new[i].phrase = phrase
             /\ i <= Len(user) => new[i].chosen = user[i].chosen + 1
    BY <1>5, <2>2
  <2> QED BY <1>2, <1>4, <2>1, <2>2 DEF Recorded
<1>7. Lessoned(new, old, t, W)
  BY <1>1, <1>2, <1>3, <1>6 DEF Lessoned, Recorded
<1>8. Holds(new, old, keys, phrase)
  <2>1. PICK i \in 1..Len(new) : /\ new[i].keys = keys /\ new[i].phrase = phrase
                                 /\ i <= Len(user) => new[i].chosen = user[i].chosen + 1
    BY <1>2 DEF Recorded
  <2>2. i \in DOMAIN new
    BY <1>4
  <2>3. Wrote(new, old, i)
    BY <1>5, <2>1, <2>2
  <2> QED BY <2>1, <2>2, <2>3 DEF Holds
<1> QED BY <1>2, <1>7, <1>8 DEF Recorded

LEMMA HoldsOn ==
  ASSUME NEW old \in Seq(Lesson), NEW mid \in Seq(Lesson), NEW new \in Seq(Lesson),
         Grows(mid, old), Grows(new, mid), NEW keys, NEW phrase, Holds(mid, old, keys, phrase)
  PROVE  Holds(new, old, keys, phrase)
<1>1. PICK i \in DOMAIN mid : Wrote(mid, old, i) /\ mid[i].keys = keys /\ mid[i].phrase = phrase
  BY DEF Holds
<1>2. i \in DOMAIN new /\ Wrote(new, old, i)
  BY <1>1, StaysWritten
<1>3. i \in 1..Len(mid)
  BY <1>1
<1>4. new[i].keys = keys /\ new[i].phrase = phrase
  BY <1>1, <1>3, GrownAt
<1> QED BY <1>2, <1>4 DEF Holds

\* Of all user databases, from what they were.
Wiser(u, old, v, W) ==
  /\ u \in Learners /\ old \in Learners /\ v \in Tables
  /\ \A t \in Tables \ {v} : u[t] = old[t]
  /\ Lessoned(u[v], old[v], v, W)

\* Client and table let it be learned, and there is something to learn.
Learnable(st, phrase) ==
  /\ st.options.learning /\ Props(st).adjusts
  /\ phrase # <<>> /\ Range(phrase) \cap Props(st).unchecked = {}

LEMMA LearnGoes ==
  ASSUME NEW u, NEW old, NEW v, NEW W, Wiser(u, old, v, W),
         NEW st, st.value = v, NEW keys \in Text, keys # <<>>,
         NEW phrase \in Wording, phrase \in W, Offers(u[v], keys, phrase, v)
  PROVE  /\ Wiser(Learn(u, st, keys, phrase), old, v, W)
         /\ \/ Learn(u, st, keys, phrase)[v] = u[v]
            \/ Grows(Learn(u, st, keys, phrase)[v], u[v])
         /\ Learnable(st, phrase) =>
              Holds(Learn(u, st, keys, phrase)[v], old[v], keys, phrase)
<1> DEFINE w == Learn(u, st, keys, phrase)
           more == RecordSelection(u[v], keys, phrase)
<1>1. /\ u \in Learners /\ v \in Tables /\ Lessoned(u[v], old[v], v, W)
      /\ \A t \in Tables \ {v} : u[t] = old[t]
  BY DEF Wiser
<1>2. /\ Lessoned(more, old[v], v, W) /\ Holds(more, old[v], keys, phrase)
      /\ Grows(more, u[v])
  <2> HIDE DEF more
  <2>1. more = RecordSelection(u[v], keys, phrase)
    BY DEF more
  <2> QED BY <1>1, <2>1, LessonOne
<1>3. \/ w = u /\ ~Learnable(st, phrase)
      \/ w = [u EXCEPT ![v] = more]
  BY DEF Learn, Learnable
<1> HIDE DEF more, w
<1>4. CASE w = u /\ ~Learnable(st, phrase)
  BY <1>4 DEF w
<1>5. CASE w = [u EXCEPT ![v] = more]
  <2>1. more \in Seq(Lesson)
    BY <1>2 DEF Lessoned
  <2>2. w \in Learners /\ w[v] = more /\ \A t \in Tables \ {v} : w[t] = u[t]
    BY <1>1, <1>5, <2>1 DEF Learners
  <2>3. Wiser(w, old, v, W)
    BY <1>1, <1>2, <2>2 DEF Wiser
  <2> QED BY <1>2, <2>2, <2>3 DEF w
<1> QED BY <1>3, <1>4, <1>5

-------------------------------------------------------------------------------
(* A phrase in a text.                                                     *)

Within(w, a) == \E p \in Text, q \in Text : a = (p \o w) \o q

LEMMA WithinAt ==
  ASSUME NEW w \in Text, NEW p \in Text, NEW q \in Text
  PROVE  /\ Within(w, p \o w) /\ Within(w, (p \o w) \o q)
<1>1. p \o w \in Text /\ (p \o w) \o <<>> = p \o w
  BY ConcatText
<1> QED BY <1>1, EmptyText DEF Within

LEMMA WithinMore ==
  ASSUME NEW w \in Text, NEW a \in Text, NEW c \in Text, Within(w, a)
  PROVE  Within(w, a \o c) /\ Within(w, c \o a)
<1>1. PICK p \in Text, q \in Text : a = (p \o w) \o q
  BY DEF Within
<1>2. p \o w \in Text /\ q \o c \in Text /\ c \o p \in Text
  BY ConcatText
<1>3. a \o c = (p \o w) \o (q \o c)
  <2> DEFINE h == p \o w
  <2>1. h \in Text /\ a = h \o q
    BY <1>1, <1>2
  <2> HIDE DEF h
  <2>2. (h \o q) \o c = h \o (q \o c)
    BY <2>1, ConcatTexts
  <2> QED BY <2>1, <2>2 DEF h
<1>4. c \o a = ((c \o p) \o w) \o q
  <2>1. c \o ((p \o w) \o q) = (c \o (p \o w)) \o q
    BY <1>2, ConcatTexts
  <2>2. c \o (p \o w) = (c \o p) \o w
    BY ConcatTexts
  <2> QED BY <1>1, <2>1, <2>2
<1> QED BY <1>2, <1>3, <1>4 DEF Within

LEMMA WithinOccurs ==
  ASSUME NEW w \in Text, NEW a, Within(w, a)
  PROVE  Occurs(w, a)
<1>1. PICK p \in Text, q \in Text : a = (p \o w) \o q
  BY DEF Within
<1>2. Len(p) \in Nat /\ Len(w) \in Nat /\ Len(q) \in Nat
  BY TextIsSequence
<1>3. p \o w \in Text /\ a \in Text /\ Len(p \o w) = Len(p) + Len(w)
      /\ Len(a) = Len(p) + Len(w) + Len(q)
  BY <1>1, ConcatText
<1>4. Len(p) \in 0..(Len(a) - Len(w))
  BY <1>2, <1>3
<1>5. \A i \in 1..Len(w) : a[Len(p) + i] = w[i]
  <2> DEFINE h == p \o w
  <2>1. \A i \in 1..Len(w) : h[Len(p) + i] = w[i]
    BY <1>2, ConcatProperties DEF Text
  <2>2. h \in Seq(Scalar) /\ q \in Seq(Scalar) /\ a = h \o q /\ Len(h) = Len(p) + Len(w)
    BY <1>1, <1>3 DEF Text
  <2> HIDE DEF h
  <2>3. \A i \in 1..Len(h) : a[i] = h[i]
    BY <1>2, <2>2, ConcatProperties
  <2>4. \A i \in 1..Len(w) : Len(p) + i \in 1..Len(h)
    BY <1>2, <2>2
  <2> QED BY <2>1, <2>3, <2>4
<1>6. SubSeq(a, Len(p) + 1, Len(p) + Len(w)) = w
  <2> DEFINE s == SubSeq(a, Len(p) + 1, Len(p) + Len(w))
             m == Len(p)
             n == Len(w)
  <2>1. m \in Nat /\ n \in Nat /\ a \in Seq(Scalar) /\ w \in Seq(Scalar) /\ Len(a) >= m + n
    BY <1>2, <1>3 DEF Text
  <2>2. \A i \in 1..n : a[m + i] = w[i]
    BY <1>5
  <2> HIDE DEF m, n
  <2>3. s = SubSeq(a, m + 1, m + n) /\ n = Len(w)
    BY DEF m, n
  <2>4. \A i \in (m + 1)..(m + n) : a[i] \in Scalar
    BY <2>1
  <2>5. /\ s \in Seq(Scalar) /\ Len(s) = n
        /\ \A i \in 1..n : s[i] = a[m + i]
    <3>1. m + 1 \in Int /\ m + n \in Int
      BY <2>1
    <3>2. /\ s \in Seq(Scalar)
          /\ Len(s) = IF m + 1 <= m + n THEN (m + n) - (m + 1) + 1 ELSE 0
          /\ \A i \in 1..((m + n) - (m + 1) + 1) : s[i] = a[(m + 1) + i - 1]
      <4> HIDE DEF s
      <4> QED BY <2>3, <2>4, <3>1, SubSeqProperties
    <3>3. Len(s) = n /\ (m + n) - (m + 1) + 1 = n
      BY <2>1, <3>2
    <3>4. \A i \in 1..n : (m + 1) + i - 1 = m + i
      BY <2>1
    <3> HIDE DEF s
    <3> QED BY <3>2, <3>3, <3>4
  <2> HIDE DEF s
  <2>6. \A i \in 1..n : s[i] = w[i]
    BY <2>2, <2>5
  <2>7. s = w
    <3>1. s \in Seq(Scalar) /\ w \in Seq(Scalar) /\ Len(s) = Len(w)
      BY <2>1, <2>3, <2>5
    <3>2. \A i \in 1..Len(s) : s[i] = w[i]
      BY <2>5, <2>6
    <3> QED BY <3>1, <3>2, SeqEqual
  <2> QED BY <2>7 DEF s, m, n
<1> QED BY <1>4, <1>6 DEF Occurs

LEMMA PhrasesJoin ==
  ASSUME NEW q \in Seq(Segment), NEW r \in Seq(Segment)
  PROVE  Joined(StagedPhrases, q \o r) = Joined(StagedPhrases, q) \o Joined(StagedPhrases, r)
<1>1. Becomes(StagedPhrases, Segment, Scalar)
  BY StagedBecomes
<1> QED BY <1>1, JoinedConcat

\* What was staged holds each staged phrase.
LEMMA SegmentWithin ==
  ASSUME NEW q \in Seq(Segment), NEW n \in 1..Len(q)
  PROVE  Within(q[n].phrase, Joined(StagedPhrases, q))
<1> DEFINE a == SubSeq(q, 1, n - 1)
           r == SubSeq(q, n, n)
           h == SubSeq(q, 1, n)
           b == SubSeq(q, n + 1, Len(q))
           F == StagedPhrases
<1>1. Len(q) \in Nat /\ n \in Int /\ \A i \in 1..Len(q) : q[i] \in Segment
  OBVIOUS
<1>2. h \o b = q /\ a \o r = h
  <2>1. 1 \in 1..(Len(q) + 1) /\ n \in (1 - 1)..Len(q) /\ Len(q) \in n..Len(q)
    BY <1>1
  <2>2. SubSeq(q, 1, n) \o SubSeq(q, n + 1, Len(q)) = SubSeq(q, 1, Len(q))
    BY <1>1, <2>1, ConcatAdjacentSubSeq
  <2>3. SubSeq(q, 1, Len(q)) = q
    BY <1>1, SubSeqFull
  <2> DEFINE m == n - 1
  <2>4. m \in (1 - 1)..Len(q) /\ n \in m..Len(q) /\ m + 1 = n
    BY <1>1
  <2> HIDE DEF m
  <2>5. SubSeq(q, 1, m) \o SubSeq(q, m + 1, n) = SubSeq(q, 1, n)
    BY <1>1, <2>1, <2>4, ConcatAdjacentSubSeq
  <2>6. a = SubSeq(q, 1, m)
    BY DEF m
  <2> QED BY <2>2, <2>3, <2>4, <2>5, <2>6
<1>3. a \in Seq(Segment) /\ h \in Seq(Segment) /\ b \in Seq(Segment)
  <2>1. \A i \in 1..(n - 1) : q[i] \in Segment
    BY <1>1
  <2>2. \A i \in (n + 1)..Len(q) : q[i] \in Segment
    BY <1>1
  <2>3. \A i \in 1..n : q[i] \in Segment
    BY <1>1
  <2> QED BY <1>1, <2>1, <2>2, <2>3, SubSeqProperties
<1>4. r = <<q[n]>> /\ r \in Seq(Segment)
  <2>1. SubSeq(q, n, n) = <<q[n]>> \o SubSeq(q, n + 1, n)
    BY <1>1, SubSeqRecursiveFirst
  <2>2. SubSeq(q, n + 1, n) = <<>>
    BY <1>1, SubSeqEmpty
  <2>3. <<q[n]>> \in Seq(Segment) /\ <<q[n]>> \o <<>> = <<q[n]>>
    BY <1>1
  <2> QED BY <2>1, <2>2, <2>3
<1> HIDE DEF a, b, r, h
<1>5. Joined(F, r) = q[n].phrase
  <2>1. q[n] \in Segment
    BY <1>1
  <2> QED BY <1>4, <2>1, StagedBecomes, JoinedOne DEF StagedPhrases
<1>6. Joined(F, h) = Joined(F, a) \o Joined(F, r)
  <2>1. Joined(F, a \o r) = Joined(F, a) \o Joined(F, r)
    BY <1>3, <1>4, PhrasesJoin
  <2> QED BY <1>2, <2>1
<1>7. Joined(F, q) = Joined(F, h) \o Joined(F, b)
  <2>1. Joined(F, h \o b) = Joined(F, h) \o Joined(F, b)
    BY <1>3, PhrasesJoin
  <2> QED BY <1>2, <2>1
<1>8. Joined(F, a) \in Text /\ Joined(F, b) \in Text
  BY <1>3, StagedBecomes, JoinedType DEF Text
<1>9. Joined(F, q) = (Joined(F, a) \o q[n].phrase) \o Joined(F, b)
  BY <1>5, <1>6, <1>7
<1> QED BY <1>8, <1>9 DEF Within

\* A match was offered for the run it is listed for.
LEMMA MatchOffered ==
  ASSUME NEW st, Sound(st), InForce(st), NEW i \in 1..Len(st.matches)
  PROVE  Offers(st.users[st.value], st.valid, st.matches[i].phrase, st.value)
<1> DEFINE v == st.value
<1>1. st \in CallState /\ st.options \in Settings /\ v \in Tables /\ st.users \in Learners
  BY DEF Sound, CallState, InForce, HasTable
<1>2. PICK rows \in Earlier(st.users[v]) :
        st.matches = Found([st EXCEPT !.users[v] = rows])
  BY DEF Sound, Answers
<1> DEFINE y == [st EXCEPT !.users[v] = rows]
           x == [value |-> v, valid |-> st.valid, options |-> st.options,
                 users |-> [t \in {v} |-> rows]]
<1>3. /\ y.value = v /\ y.valid = st.valid /\ y.options = st.options /\ y.users[v] = rows
  BY <1>1 DEF CallState, Learners
<1>4. /\ x.value = v /\ x.valid = st.valid /\ x.options = st.options /\ x.users[v] = rows
  OBVIOUS
<1>5. st.matches = Found(y)
  BY <1>2
<1> HIDE DEF y
<1>6. st.matches = Found(x)
  <2> HIDE DEF x
  <2> QED BY <1>3, <1>4, <1>5, FoundSame
<1>7. st.matches[i] \in Range(Found(x))
  <2>1. st.matches \in Seq(RowOf(Wording))
    BY <1>1 DEF CallState
  <2>2. i \in DOMAIN st.matches
    BY <2>1
  <2> HIDE DEF x
  <2> QED BY <1>6, <2>2 DEF Range
<1>8. st.matches[i].phrase \in OfferedFor(st.valid, v, rows)
  BY <1>1, <1>7 DEF OfferedFor
<1> QED BY <1>2, <1>8 DEF Offers

-------------------------------------------------------------------------------
(* What a call in progress has taught, from the state b it began in.       *)

Rose(new, old) == new = old \/ Grows(new, old)

LEMMA RoseOn ==
  ASSUME NEW old \in Seq(Lesson), NEW mid \in Seq(Lesson), NEW new \in Seq(Lesson),
         Rose(mid, old), Rose(new, mid)
  PROVE  Rose(new, old)
BY GrowsOn DEF Rose

LEMMA OffersOn ==
  ASSUME NEW mid \in Seq(Lesson), NEW new \in Seq(Lesson), Rose(new, mid),
         NEW keys, NEW phrase, NEW t, Offers(mid, keys, phrase, t)
  PROVE  Offers(new, keys, phrase, t)
BY StillOffered DEF Rose

LEMMA HoldsStill ==
  ASSUME NEW old \in Seq(Lesson), NEW mid \in Seq(Lesson), NEW new \in Seq(Lesson),
         Grows(mid, old), Rose(new, mid), NEW keys, NEW phrase, Holds(mid, old, keys, phrase)
  PROVE  Holds(new, old, keys, phrase)
BY HoldsOn DEF Rose

LEMMA WiserTypes ==
  ASSUME NEW u, NEW old, NEW v, NEW W, Wiser(u, old, v, W)
  PROVE  /\ u \in Learners /\ old \in Learners /\ v \in Tables
         /\ u[v] \in Seq(Lesson) /\ old[v] \in Seq(Lesson) /\ Grows(u[v], old[v])
BY DEF Wiser, Lessoned

LEMMA WiserMore ==
  ASSUME NEW u, NEW old, NEW v, NEW W, Wiser(u, old, v, W), NEW V, W \subseteq V
  PROVE  Wiser(u, old, v, V)
<1>1. Lessoned(u[v], old[v], v, W)
  BY DEF Wiser
<1>2. Lessoned(u[v], old[v], v, V)
  BY <1>1 DEF Lessoned
<1> QED BY <1>2 DEF Wiser

Spoken(text) == {w \in Text : Within(w, text)}

AllOffered(x) ==
  \A s \in Range(x.segments) : Offers(x.users[x.value], s.keys, s.phrase, x.value)

\* Only choices of the table in force were learned, each of them is in the output, and
\* all that is staged was offered.
Fair(x, b) ==
  /\ x.value = b.value /\ x.options = b.options
  /\ Wiser(x.users, b.users, b.value, Spoken(x.out.commit))
  /\ AllOffered(x)

\* What was staged when the call began is learned.
Heard(x, b) ==
  \A s \in Range(b.segments) :
    Learnable(b, s.phrase) => Holds(x.users[b.value], b.users[b.value], s.keys, s.phrase)

Underway(x, b) ==
  /\ Fair(x, b)
  /\ \/ Heard(x, b)
     \/ x.out.commit = <<>> /\ Range(b.segments) \subseteq Range(x.segments)

\* Learning the staged phrases.
LEMMA StagedLearned ==
  ASSUME NEW x \in CallState, NEW old, NEW W, NEW v, v = x.value,
         Wiser(x.users, old, v, W),
         NEW f, LearnedSteps(f, x),
         \A n \in 1..Len(x.segments) :
           /\ x.segments[n].phrase \in W
           /\ Offers(x.users[v], x.segments[n].keys, x.segments[n].phrase, v)
  PROVE  LET w == f[Len(x.segments)]
         IN /\ Wiser(w, old, v, W) /\ Rose(w[v], x.users[v])
            /\ \A k \in 1..Len(x.segments) :
                 Learnable(x, x.segments[k].phrase) =>
                   Holds(w[v], old[v], x.segments[k].keys, x.segments[k].phrase)
<1> DEFINE N == Len(x.segments)
           key(n) == x.segments[n].keys
           ph(n) == x.segments[n].phrase
           P(n) == /\ Wiser(f[n], old, v, W) /\ Rose(f[n][v], x.users[v])
                   /\ \A k \in 1..n : Learnable(x, ph(k)) => Holds(f[n][v], old[v], key(k), ph(k))
           U == {n \in Nat : n <= N => P(n)}
<1>1. N \in Nat /\ f[0] = x.users
  BY DEF CallState, LearnedSteps
<1>2. ASSUME NEW n \in 1..N
      PROVE  /\ key(n) \in Text /\ key(n) # <<>> /\ ph(n) \in Wording /\ ph(n) \in W
             /\ Offers(x.users[v], key(n), ph(n), v)
             /\ f[n] = Learn(f[n - 1], x, key(n), ph(n))
  <2>1. x.segments[n] \in Segment
    BY DEF CallState
  <2>2. key(n) \in Text /\ key(n) # <<>> /\ ph(n) \in Wording
    BY <2>1, KeysAreText DEF Segment
  <2>3. f[n] = Learn(f[n - 1], x, key(n), ph(n))
    BY DEF LearnedSteps
  <2> QED BY <2>2, <2>3
<1> HIDE DEF N, key, ph
<1>3. 0 \in U
  <2>1. P(0)
    BY <1>1 DEF Rose
  <2> QED BY <2>1
<1>4. ASSUME NEW n \in Nat, n \in U PROVE n + 1 \in U
  <2>1. ASSUME n + 1 <= N PROVE P(n + 1)
    <3> DEFINE m == n + 1
               u == f[n]
               w == Learn(u, x, key(m), ph(m))
    <3>1. n <= N /\ m \in 1..N /\ m - 1 = n
      BY <1>1, <2>1
    <3>2. P(n)
      BY <1>4, <3>1
    <3>3. f[m] = w
      BY <1>2, <3>1
    <3>4. /\ key(m) \in Text /\ key(m) # <<>> /\ ph(m) \in Wording /\ ph(m) \in W
          /\ Offers(x.users[v], key(m), ph(m), v)
      BY <1>2, <3>1
    <3>5. /\ x.users[v] \in Seq(Lesson) /\ u[v] \in Seq(Lesson) /\ old[v] \in Seq(Lesson)
          /\ Grows(u[v], old[v])
      BY <3>2, WiserTypes
    <3> HIDE DEF m, u
    <3>6. Wiser(u, old, v, W) /\ Rose(u[v], x.users[v])
      BY <3>2 DEF u
    <3>7. Offers(u[v], key(m), ph(m), v)
      BY <3>4, <3>5, <3>6, OffersOn
    <3>8. /\ Wiser(w, old, v, W) /\ Rose(w[v], u[v])
          /\ Learnable(x, ph(m)) => Holds(w[v], old[v], key(m), ph(m))
      BY <3>4, <3>6, <3>7, LearnGoes DEF Rose
    <3> HIDE DEF w
    <3>9. w[v] \in Seq(Lesson)
      BY <3>8, WiserTypes
    <3>10. Rose(w[v], x.users[v])
      BY <3>5, <3>6, <3>8, <3>9, RoseOn
    <3>11. ASSUME NEW k \in 1..m, Learnable(x, ph(k))
           PROVE  Holds(w[v], old[v], key(k), ph(k))
      <4>1. CASE k = m
        BY <3>8, <3>11, <4>1
      <4>2. CASE k # m
        <5>1. k \in 1..n
          BY <4>2 DEF m
        <5>2. Holds(u[v], old[v], key(k), ph(k))
          BY <3>2, <3>11, <5>1 DEF u
        <5> QED BY <3>5, <3>8, <3>9, <5>2, HoldsStill
      <4> QED BY <4>1, <4>2
    <3>12. P(m)
      BY <3>3, <3>8, <3>10, <3>11
    <3> QED BY <3>12 DEF m
  <2> HIDE DEF P
  <2> QED BY <2>1
<1> HIDE DEF U
<1>5. N \in U
  BY <1>1, <1>3, <1>4, Induction
<1>6. P(N)
  BY <1>1, <1>5 DEF U
<1> QED BY <1>6 DEF N, key, ph

LEMMA CommitUnderway ==
  ASSUME NEW b, NEW x \in CallState, InForce(x), Underway(x, b),
         NEW text \in Text, NEW chosen \in Seq(Keys),
         chosen # <<>> => text \in Wording /\ Offers(x.users[x.value], chosen, text, x.value)
  PROVE  /\ Fair(CommitPhrase(x, text, chosen), b) /\ Heard(CommitPhrase(x, text, chosen), b)
         /\ Underway(CommitPhrase(x, text, chosen), b)
<1> DEFINE v == x.value
           y == CommitPhrase(x, text, chosen)
           N == Len(x.segments)
           W == Spoken(y.out.commit)
<1>1. /\ v = b.value /\ x.options = b.options /\ v \in Tables /\ x.users \in Learners
      /\ x.segments \in Seq(Segment) /\ Wiser(x.users, b.users, v, Spoken(x.out.commit))
      /\ AllOffered(x)
  BY DEF Underway, Fair, InForce, HasTable, CallState
<1>2. /\ y.out.commit = (x.out.commit \o Staged(x)) \o text
      /\ y.segments = <<>> /\ y.value = v /\ y.options = x.options
  <2>1. Committed(y, x, text)
    BY CommitPhraseIs DEF InForce
  <2> QED BY <2>1 DEF Committed
<1>3. y.users = Learned(x, text, chosen)
  BY DEF CommitPhrase, ClearState, CallState
<1>4. x.out.commit \in Text /\ Staged(x) \in Text
  BY StagedIs DEF CallState, Plainly
<1>5. Spoken(x.out.commit) \subseteq W /\ Spoken(Staged(x)) \subseteq W /\ text \in W
  <2> DEFINE a == x.out.commit
             s == Staged(x)
             h == a \o s
  <2>1. h \in Text /\ a \in Text /\ s \in Text /\ y.out.commit = h \o text
    BY <1>2, <1>4, ConcatText
  <2>2. ASSUME NEW w \in Text, Within(w, a) \/ Within(w, s) PROVE Within(w, h)
    BY <2>1, <2>2, WithinMore
  <2> HIDE DEF a, s, h, y
  <2>3. ASSUME NEW w \in Text, Within(w, h) PROVE Within(w, y.out.commit)
    BY <2>1, <2>3, WithinMore
  <2>4. Within(text, y.out.commit)
    BY <2>1, WithinAt
  <2> QED BY <2>2, <2>3, <2>4 DEF Spoken, a, s
<1> HIDE DEF W
<1>6. Wiser(x.users, b.users, v, W)
  BY <1>1, <1>5, WiserMore
<1>7. ASSUME NEW n \in 1..N
      PROVE  /\ x.segments[n] \in Range(x.segments) /\ x.segments[n].phrase \in W
             /\ Offers(x.users[v], x.segments[n].keys, x.segments[n].phrase, v)
  <2>1. x.segments[n] \in Segment /\ n \in DOMAIN x.segments
    BY <1>1
  <2>2. x.segments[n] \in Range(x.segments)
    BY <2>1 DEF Range
  <2>3. Offers(x.users[v], x.segments[n].keys, x.segments[n].phrase, v)
    BY <1>1, <2>2 DEF AllOffered
  <2>4. x.segments[n].phrase \in Spoken(Staged(x))
    <3>1. Staged(x) = Joined(StagedPhrases, x.segments)
      BY StagedIs
    <3>2. Within(x.segments[n].phrase, Joined(StagedPhrases, x.segments))
      BY <1>1, SegmentWithin
    <3>3. x.segments[n].phrase \in Text
      BY <2>1, WordingIs DEF Segment
    <3> QED BY <3>1, <3>2, <3>3 DEF Spoken
  <2> QED BY <1>5, <2>2, <2>3, <2>4
<1>8. PICK f : /\ LearnedSteps(f, x)
               /\ Learned(x, text, chosen) = IF chosen = <<>> THEN f[N] ELSE Learn(f[N], x, chosen, text)
  BY LearnedStepwise DEF InForce
<1> DEFINE w == f[N]
<1>9. /\ Wiser(w, b.users, v, W) /\ Rose(w[v], x.users[v])
      /\ \A k \in 1..N : Learnable(x, x.segments[k].phrase) =>
                           Holds(w[v], b.users[v], x.segments[k].keys, x.segments[k].phrase)
  BY <1>6, <1>7, <1>8, StagedLearned
<1> HIDE DEF w
<1>10. /\ w[v] \in Seq(Lesson) /\ x.users[v] \in Seq(Lesson) /\ b.users[v] \in Seq(Lesson)
       /\ Grows(w[v], b.users[v]) /\ Grows(x.users[v], b.users[v])
  BY <1>6, <1>9, WiserTypes
<1>11. Wiser(y.users, b.users, v, W) /\ Rose(y.users[v], w[v])
  <2>1. CASE chosen = <<>>
    BY <1>3, <1>8, <1>9, <2>1 DEF Rose, w
  <2>2. CASE chosen # <<>>
    <3>1. chosen \in Text /\ text \in Wording
      BY <2>2, KeysAreText
    <3>2. Offers(w[v], chosen, text, v)
      BY <1>9, <1>10, <2>2, OffersOn
    <3>3. y.users = Learn(w, x, chosen, text)
      BY <1>3, <1>8, <2>2 DEF w
    <3> DEFINE z == Learn(w, x, chosen, text)
    <3>4. Wiser(z, b.users, v, W) /\ Rose(z[v], w[v])
      BY <1>5, <1>9, <2>2, <3>1, <3>2, LearnGoes DEF Rose
    <3> HIDE DEF z
    <3> QED BY <3>3, <3>4 DEF z
  <2> QED BY <2>1, <2>2
<1> HIDE DEF y
<1>12. y.users[v] \in Seq(Lesson)
  BY <1>11, WiserTypes
<1>13. Fair(y, b)
  <2>1. AllOffered(y)
    BY <1>2 DEF AllOffered, Range
  <2> QED BY <1>1, <1>2, <1>11, <2>1 DEF Fair, W
<1>14. ASSUME NEW s \in Range(b.segments), Learnable(b, s.phrase)
       PROVE  Holds(y.users[v], b.users[v], s.keys, s.phrase)
  <2>1. Rose(y.users[v], x.users[v])
    BY <1>9, <1>10, <1>11, <1>12, RoseOn
  <2>2. CASE Heard(x, b)
    <3>1. Holds(x.users[v], b.users[v], s.keys, s.phrase)
      BY <1>1, <1>14, <2>2 DEF Heard
    <3> QED BY <1>10, <1>12, <2>1, <3>1, HoldsStill
  <2>3. CASE Range(b.segments) \subseteq Range(x.segments)
    <3>1. PICK k \in 1..N : s = x.segments[k]
      <4>1. DOMAIN x.segments = 1..N
        BY <1>1
      <4> QED BY <1>14, <2>3, <4>1 DEF Range
    <3>2. Learnable(x, s.phrase)
      BY <1>1, <1>14 DEF Learnable, Props
    <3>3. Holds(w[v], b.users[v], s.keys, s.phrase)
      BY <1>9, <3>1, <3>2
    <3> QED BY <1>10, <1>11, <1>12, <3>3, HoldsStill
  <2> QED BY <2>2, <2>3 DEF Underway
<1>15. Heard(y, b)
  BY <1>1, <1>14 DEF Heard
<1> QED BY <1>13, <1>15 DEF Underway, y

\* What the rest of a call says nothing of.
Schooled(y, x) ==
  /\ y.users = x.users /\ y.value = x.value /\ y.options = x.options
  /\ y.segments = x.segments /\ y.out = x.out

LEMMA SchooledAlike ==
  ASSUME NEW b, NEW x, Underway(x, b), NEW y, Schooled(y, x)
  PROVE  Underway(y, b)
<1>1. Fair(y, b)
  BY DEF Underway, Fair, AllOffered, Schooled
<1>2. Heard(x, b) => Heard(y, b)
  BY DEF Heard, Schooled
<1> QED BY <1>1, <1>2 DEF Underway, Schooled

LEMMA RefreshSchooled ==
  ASSUME NEW st \in CallState
  PROVE  Schooled(RefreshMatches(st), st)
BY DEF RefreshMatches, CallState, Schooled

LEMMA ExtendedSchooled ==
  ASSUME NEW st \in CallState, NEW key \in Keys
  PROVE  Schooled(Extended(st, key), st)
<1> DEFINE y == [st EXCEPT !.valid = Append(@, key)]
<1>1. Append(st.valid, key) \in Seq(Keys)
  BY AppendProperties DEF CallState
<1>2. y \in CallState /\ Schooled(y, st)
  BY <1>1 DEF CallState, Schooled
<1> HIDE DEF y
<1>3. Schooled(RefreshMatches(y), y)
  BY <1>2, RefreshSchooled
<1>4. Schooled(RefreshMatches(y), st)
  BY <1>2, <1>3 DEF Schooled
<1> QED BY <1>4 DEF Extended, y

LEMMA MissedSchooled ==
  ASSUME NEW st \in CallState, NEW key
  PROVE  /\ Schooled(Missed(st, key), st)
         /\ Schooled([st EXCEPT !.invalid = Append(@, key)], st)
         /\ Schooled([st EXCEPT !.cursor = 0], st)
BY DEF Missed, CallState, Schooled

\* The hovered candidate is one of the list.
LEMMA HoveredOffered ==
  ASSUME NEW st, Sound(st), InForce(st), st.matches # <<>>
  PROVE  /\ Hovered(st).phrase \in Wording /\ Hovered(st).phrase \in Text
         /\ Offers(st.users[st.value], st.valid, Hovered(st).phrase, st.value)
<1>1. st \in CallState /\ st.matches \in Seq(RowOf(Wording)) /\ st.cursor \in Nat
  BY DEF Sound, CallState
<1>2. Len(st.matches) \in Nat /\ Len(st.matches) > 0
  BY <1>1, EmptySeq, LenProperties
<1>3. (IF st.cursor < Len(st.matches) THEN st.cursor + 1 ELSE 1) \in 1..Len(st.matches)
  BY <1>1, <1>2
<1>4. PICK i \in 1..Len(st.matches) : Hovered(st) = st.matches[i]
  BY <1>3 DEF Hovered
<1>5. Offers(st.users[st.value], st.valid, st.matches[i].phrase, st.value)
  BY MatchOffered
<1> QED BY <1>1, <1>4, <1>5, HoveredType

LEMMA ChosenUnderway ==
  ASSUME NEW b, NEW st, Sound(st), InForce(st), Underway(st, b), NEW text \in Wording,
         Offers(st.users[st.value], st.valid, text, st.value)
  PROVE  /\ Fair(CommitPhrase(st, text, st.valid), b)
         /\ Heard(CommitPhrase(st, text, st.valid), b)
         /\ Underway(CommitPhrase(st, text, st.valid), b)
<1> DEFINE keys == st.valid
<1>1. st \in CallState /\ keys \in Seq(Keys) /\ text \in Text
  BY WordingIs DEF Sound, CallState
<1>2. keys # <<>> => text \in Wording /\ Offers(st.users[st.value], keys, text, st.value)
  OBVIOUS
<1> HIDE DEF keys
<1>3. /\ Fair(CommitPhrase(st, text, keys), b) /\ Heard(CommitPhrase(st, text, keys), b)
      /\ Underway(CommitPhrase(st, text, keys), b)
  BY <1>1, <1>2, CommitUnderway
<1> QED BY <1>3 DEF keys

LEMMA MatchedUnderway ==
  ASSUME NEW b, NEW st, Sound(st), InForce(st), Underway(st, b)
  PROVE  Underway(Matched(st), b)
<1> DEFINE text == st.matches[1].phrase
<1>1. CASE Len(st.matches) = 1
  <2>1. st \in CallState /\ st.matches # <<>> /\ 1 \in 1..Len(st.matches)
    BY <1>1 DEF Sound
  <2>2. text \in Wording
    BY <2>1, HoveredType
  <2>3. Offers(st.users[st.value], st.valid, text, st.value)
    BY <2>1, MatchOffered
  <2> HIDE DEF text
  <2>4. Underway(CommitPhrase(st, text, st.valid), b)
    BY <2>2, <2>3, ChosenUnderway
  <2>5. Matched(st) \in {st, CommitPhrase(st, text, st.valid)}
    BY DEF Matched, text
  <2> QED BY <2>4, <2>5
<1>2. CASE Len(st.matches) # 1
  BY <1>2 DEF Matched
<1> QED BY <1>1, <1>2

LEMMA BeginUnderway ==
  ASSUME NEW b, NEW st, Sound(st), InForce(st), Underway(st, b), NEW key \in Keys
  PROVE  /\ Underway(Matched(Extended(st, key)), b) /\ Underway(Missed(st, key), b)
         /\ Underway(Begin(st, key), b)
<1> DEFINE y == Extended(st, key)
<1>1. st \in CallState
  BY DEF Sound
<1>2. Going(y, st) /\ Schooled(y, st)
  BY <1>1, ExtendedGoes, ExtendedSchooled
<1>3. Underway(Missed(st, key), b)
  BY <1>1, MissedSchooled, SchooledAlike
<1>4. Begin(st, key) \in {Matched(y), Missed(st, key)}
  BY DEF Begin
<1> HIDE DEF y
<1>5. Underway(y, b) /\ Sound(y) /\ InForce(y)
  BY <1>2, SchooledAlike DEF Going
<1>6. Underway(Matched(y), b)
  BY <1>5, MatchedUnderway
<1> QED BY <1>3, <1>4, <1>6 DEF y

\* stage_segment, of a candidate of the list
LEMMA StageUnderway ==
  ASSUME NEW b, NEW st, Sound(st), InForce(st), Bounded(st), Underway(st, b)
  PROVE  Underway(StageSegment(st), b)
<1> DEFINE s == [keys |-> st.valid, phrase |-> Hovered(st).phrase]
           y == [st EXCEPT !.segments = Append(@, s), !.valid = <<>>, !.invalid = <<>>]
<1>1. /\ st \in CallState /\ st.valid \in Seq(Keys) /\ st.segments \in Seq(Segment)
      /\ st.valid # <<>> /\ st.matches # <<>>
  BY DEF Sound, Bounded, CallState
<1>2. /\ Hovered(st).phrase \in Wording
      /\ Offers(st.users[st.value], st.valid, Hovered(st).phrase, st.value)
  BY <1>1, HoveredOffered
<1>3. s \in Segment
  BY <1>1, <1>2 DEF Segment
<1>4. Offers(st.users[st.value], s.keys, s.phrase, st.value)
  BY <1>2
<1> HIDE DEF s
<1>5. Append(st.segments, s) \in Seq(Segment) /\ <<>> \in Seq(Keys)
  BY <1>1, <1>3
<1>6. /\ y \in CallState /\ y.segments = Append(st.segments, s) /\ y.users = st.users
      /\ y.value = st.value /\ y.options = st.options /\ y.out = st.out
  BY <1>1, <1>5 DEF CallState
<1>7. StageSegment(st) = RefreshMatches(y)
  BY DEF StageSegment, s
<1> HIDE DEF y
<1>8. Range(y.segments) = Range(st.segments) \cup {s}
  <2>1. /\ DOMAIN y.segments = 1..(Len(st.segments) + 1) /\ Len(st.segments) \in Nat
        /\ DOMAIN st.segments = 1..Len(st.segments)
        /\ y.segments[Len(st.segments) + 1] = s
        /\ \A i \in 1..Len(st.segments) : y.segments[i] = st.segments[i]
    BY <1>1, <1>3, <1>6, AppendProperties
  <2> QED BY <2>1 DEF Range
<1>9. AllOffered(y)
  BY <1>4, <1>6, <1>8 DEF AllOffered, Underway, Fair
<1>10. Fair(y, b) /\ (Heard(st, b) => Heard(y, b))
  BY <1>6, <1>9 DEF Fair, Underway, Heard
<1>11. Underway(y, b)
  BY <1>6, <1>8, <1>10 DEF Underway
<1> QED BY <1>6, <1>7, <1>11, RefreshSchooled, SchooledAlike

LEMMA ContinueUnderway ==
  ASSUME NEW b, NEW st, Sound(st), InForce(st), Underway(st, b), NEW key \in Keys
  PROVE  Underway(Continue(st, key), b)
<1> DEFINE tail == [st EXCEPT !.invalid = Append(@, key)]
           y == [st EXCEPT !.cursor = 0]
           z == CommitHovered(y)
<1>1. st \in CallState
  BY DEF Sound
<1>2. Underway(tail, b) /\ Underway(y, b)
  BY <1>1, MissedSchooled, SchooledAlike
<1>3. Underway(Missed(st, key), b) /\ Underway(Matched(Extended(st, key)), b)
  BY BeginUnderway
<1>4. ASSUME st.matches # <<>> PROVE Underway(Begin(z, key), b)
  <2>1. /\ y \in CallState /\ y.matches = st.matches /\ y.valid = st.valid
        /\ y.invalid = st.invalid /\ y.segments = st.segments /\ y.users = st.users
        /\ y.value = st.value /\ y.options = st.options /\ y.cursor = 0
    BY <1>1 DEF CallState
  <2>2. z = CommitPhrase(y, Hovered(y).phrase, y.valid)
    BY DEF CommitHovered
  <2> HIDE DEF y, z
  <2>3. InForce(y)
    BY <2>1 DEF InForce, HasTable
  <2>4. Sound(y)
    <3>1. Answers(y)
      BY <1>1, <2>1, AnswersSame DEF Sound
    <3> QED BY <2>1, <2>3, <3>1 DEF Sound, Pointed
  <2>5. /\ Hovered(y).phrase \in Wording
        /\ Offers(y.users[y.value], y.valid, Hovered(y).phrase, y.value)
    BY <1>4, <2>1, <2>3, <2>4, HoveredOffered
  <2>6. Underway(z, b)
    BY <1>2, <2>2, <2>3, <2>4, <2>5, ChosenUnderway
  <2>7. Going(z, y)
    BY <2>1, <2>2, <2>3, <2>5, ChosenGoes
  <2> QED BY <2>6, <2>7, BeginUnderway DEF Going
<1>5. \/ Continue(st, key) = tail
      \/ Continue(st, key) = Matched(Extended(st, key)) /\ st.invalid = <<>>
      \/ Continue(st, key) = Begin(z, key) /\ st.matches # <<>>
      \/ Continue(st, key) = Missed(st, key)
  BY DEF Continue
<1> HIDE DEF tail, y, z
<1> QED BY <1>2, <1>3, <1>4, <1>5

LEMMA TakeInputUnderway ==
  ASSUME NEW b, NEW st, Sound(st), InForce(st), Underway(st, b), NEW key \in Keys
  PROVE  Underway(TakeInput(st, key), b)
<1> DEFINE y == StageSegment(st)
<1>1. Underway(Continue(st, key), b)
  BY ContinueUnderway
<1>2. ASSUME Bounded(st) PROVE Underway(Continue(y, key), b)
  <2>1. Going(y, st) /\ Underway(y, b)
    BY <1>2, StageGoes, StageUnderway
  <2> HIDE DEF y
  <2> QED BY <2>1, ContinueUnderway DEF Going
<1>3. \/ TakeInput(st, key) = st
      \/ TakeInput(st, key) = Continue(y, key) /\ Bounded(st)
      \/ TakeInput(st, key) = Continue(st, key)
  BY DEF TakeInput
<1> QED BY <1>1, <1>2, <1>3

-------------------------------------------------------------------------------
(* What a call that ends has taught.                                       *)

LEMMA GrowsSelf ==
  ASSUME NEW rows \in Seq(Lesson)
  PROVE  Grows(rows, rows)
<1>1. Len(rows) \in Nat
  OBVIOUS
<1>2. ASSUME NEW i \in 1..Len(rows)
      PROVE  \E n \in Nat : rows[i].chosen <= n /\ rows[i] = [rows[i] EXCEPT !.chosen = n]
  <2>1. rows[i] \in Lesson
    OBVIOUS
  <2>2. rows[i].chosen \in Nat /\ rows[i] = [rows[i] EXCEPT !.chosen = rows[i].chosen]
    BY <2>1 DEF Lesson
  <2>3. rows[i].chosen <= rows[i].chosen
    BY <2>2
  <2> QED BY <2>2, <2>3
<1> QED BY <1>1, <1>2 DEF Grows

LEMMA UnderwayStarts ==
  ASSUME NEW b \in CallState, b.value \in Tables, b.out = NoOutput, AllOffered(b)
  PROVE  Underway(b, b)
<1> DEFINE v == b.value
           W == Spoken(b.out.commit)
<1>1. b.users \in Learners /\ b.users[v] \in Seq(Lesson)
  BY DEF CallState, Learners
<1>2. Lessoned(b.users[v], b.users[v], v, W)
  BY <1>1, GrowsSelf DEF Lessoned, Wrote
<1>3. Wiser(b.users, b.users, v, W)
  BY <1>1, <1>2 DEF Wiser
<1>4. b.out.commit = <<>>
  BY DEF NoOutput
<1> QED BY <1>3, <1>4 DEF Underway, Fair

\* What is put behind what was delivered.
LEMMA FairMore ==
  ASSUME NEW b, NEW x, Fair(x, b), Heard(x, b), x.out.commit \in Text, NEW y,
         y.users = x.users, y.value = x.value, y.options = x.options,
         y.segments = x.segments, NEW c \in Text, y.out.commit = x.out.commit \o c
  PROVE  Fair(y, b) /\ Heard(y, b)
<1>1. Spoken(x.out.commit) \subseteq Spoken(y.out.commit)
  BY WithinMore DEF Spoken
<1>2. Wiser(y.users, b.users, b.value, Spoken(y.out.commit))
  BY <1>1, WiserMore DEF Fair
<1> QED BY <1>2 DEF Fair, Heard, AllOffered

\* Ending the composition.
LEMMA EndUnderway ==
  ASSUME NEW b, NEW st, Sound(st), InForce(st), Underway(st, b)
  PROVE  /\ Fair(CommitTyped(st), b) /\ Heard(CommitTyped(st), b)
         /\ st.matches # <<>> => Fair(CommitHovered(st), b) /\ Heard(CommitHovered(st), b)
<1>1. st \in CallState
  BY DEF Sound
<1>2. Fair(CommitTyped(st), b) /\ Heard(CommitTyped(st), b)
  <2> DEFINE text == TypedRun(st)
             chosen == <<>>
  <2>1. text \in Text
    <3>1. st.valid \in Text /\ st.invalid \in Text
      BY <1>1, KeysAreText DEF CallState
    <3> QED BY <3>1, ConcatText DEF TypedRun
  <2>2. chosen \in Seq(Keys) /\ ~(chosen # <<>>)
    OBVIOUS
  <2> HIDE DEF text, chosen
  <2>3. Fair(CommitPhrase(st, text, chosen), b) /\ Heard(CommitPhrase(st, text, chosen), b)
    BY <1>1, <2>1, <2>2, CommitUnderway
  <2> QED BY <2>3 DEF text, chosen, CommitTyped
<1>3. ASSUME st.matches # <<>>
      PROVE  Fair(CommitHovered(st), b) /\ Heard(CommitHovered(st), b)
  <2>1. /\ Hovered(st).phrase \in Wording
        /\ Offers(st.users[st.value], st.valid, Hovered(st).phrase, st.value)
    BY <1>3, HoveredOffered
  <2> QED BY <2>1, ChosenUnderway DEF CommitHovered
<1> QED BY <1>2, <1>3

\* The state a call begins in.
LEMMA SyncUsers ==
  ASSUME NEW st \in CallState
  PROVE  SyncTable(st).users = st.users /\ SyncTable(st).options = st.options
BY DEF SyncTable, ClearState, CallState

LEMMA Starts ==
  ASSUME TableInv, AllOffered(Enter), NEW b \in {Enter, Synced}
  PROVE  /\ Sound(b) /\ b \in CallState /\ b.users = users /\ b.options = options
         /\ b.out = NoOutput /\ AllOffered(b)
         /\ segments # <<>> => b = Enter /\ Synced = Enter /\ b.segments = segments
         /\ ~Composing(b) => segments = <<>>
         /\ InForce(b) => b.value \in Tables /\ Underway(b, b)
<1>1. /\ Sound(b) /\ b \in CallState /\ b.out = NoOutput
      /\ Sound(Enter) /\ Enter \in CallState
      /\ Composing(Enter) => Synced = Enter
  BY Entering, EnterIs
<1>2. b.users = users /\ b.options = options
  BY <1>1, SyncUsers, EnterIs DEF Synced
<1>3. segments # <<>> => Composing(Enter)
  BY EnterIs DEF Composing
<1>4. Composing(Synced) <=> Composing(Enter)
  BY <1>1, SyncIs DEF Synced
<1>5. ~Composing(b) => b.segments = <<>> /\ ~Composing(Enter)
  BY <1>4 DEF Composing
<1>6. AllOffered(b)
  <2>1. CASE Composing(Enter)
    BY <1>1, <2>1
  <2>2. CASE ~Composing(Enter)
    <3>1. b.segments = <<>>
      BY <1>4, <1>5, <2>2
    <3> QED BY <3>1 DEF AllOffered, Range
  <2> QED BY <2>1, <2>2
<1>7. ASSUME InForce(b) PROVE b.value \in Tables /\ Underway(b, b)
  <2>1. b.value \in Tables
    BY <1>1, <1>7 DEF CallState, InForce, HasTable
  <2> QED BY <1>1, <1>6, <2>1, UnderwayStarts
<1> QED BY <1>1, <1>2, <1>3, <1>5, <1>6, <1>7, EnterIs

Lawful == AllOffered(Enter)' /\ TeachesTheChosen

\* What the end of a call leaves of it.
LEMMA LeaveTells ==
  ASSUME TableInv, NEW x, Sound(x), NEW force \in BOOLEAN,
         owed' \in {"nothing", "insert", "erase"},
         \/ Leave(Publish(x), force)
         \/ Stands(x) /\ Leave(x, force)
  PROVE  /\ Delivered(calls') = x.out.commit /\ users' = x.users /\ value' = x.value
         /\ segments' = x.segments /\ value' \in Tables \cup {none}
<1>1. ContextTypeOK /\ x \in CallState
  BY DEF TableInv, Sound
<1>2. CASE Leave(Publish(x), force)
  <2> DEFINE y == Publish(x)
  <2>1. Stands(y) /\ Alike(y, x) /\ y.out = x.out
    BY PublishStands
  <2> HIDE DEF y
  <2>2. Leave(y, force)
    BY <1>2 DEF y
  <2>3. Delivered(calls') = y.out.commit
    BY <1>1, <2>1, <2>2, LeaveKeeps
  <2>4. users' = y.users /\ value' = y.value /\ segments' = y.segments
    BY <2>2 DEF Leave
  <2> QED BY <1>1, <2>1, <2>3, <2>4 DEF Alike, CallState
<1>3. CASE Stands(x) /\ Leave(x, force)
  <2>1. Delivered(calls') = x.out.commit
    BY <1>1, <1>3, LeaveKeeps
  <2>2. users' = x.users /\ value' = x.value /\ segments' = x.segments
    BY <1>3 DEF Leave
  <2> QED BY <1>1, <2>1, <2>2 DEF CallState
<1> QED BY <1>2, <1>3

LEMMA OfferedThen ==
  ASSUME NEW x, AllOffered(x), users' = x.users, value' = x.value, segments' = x.segments
  PROVE  AllOffered(Enter)'
<1>1. Enter'.users = users' /\ Enter'.value = value' /\ Enter'.segments = segments'
  BY DEF Enter
<1> QED BY <1>1 DEF AllOffered

LEMMA FairLeaves ==
  ASSUME TableInv, AllOffered(Enter), NEW b \in {Enter, Synced}, InForce(b),
         NEW x, Sound(x), Fair(x, b), Heard(x, b) \/ x.out.commit = <<>>,
         Leave(Publish(x), FALSE), owed' = "nothing"
  PROVE  Lawful
<1> DEFINE v == b.value
           text == Delivered(calls')
<1>1. /\ text = x.out.commit /\ users' = x.users /\ value' = v /\ segments' = x.segments
  BY LeaveTells DEF Fair
<1>2. /\ b.users = users /\ b.options = options /\ v \in Tables /\ v # none
      /\ segments # <<>> => b = Enter /\ Synced = Enter /\ b.segments = segments
  <2>1. v # none
    BY DEF InForce, HasTable
  <2> QED BY <2>1, Starts
<1>3. AllOffered(Enter)'
  <2>1. AllOffered(x) /\ x.value = v
    BY DEF Fair
  <2> QED BY <1>1, <2>1, OfferedThen
<1>4. Wiser(users', users, v, Spoken(text))
  BY <1>1, <1>2 DEF Fair
<1>5. Lessons = {i \in DOMAIN users'[v] : Wrote(users'[v], users[v], i)}
  BY <1>1, <1>2 DEF Lessons, Wrote
<1>6. \A t \in Tables \ {value'} : users'[t] = users[t]
  BY <1>1, <1>4 DEF Wiser
<1> HIDE DEF text
<1>7. ASSUME NEW i \in Lessons
      PROVE  /\ Occurs(users'[value'][i].phrase, text)
             /\ \E rows \in Earlier(users'[value']) :
                  /\ i \in DOMAIN rows => rows[i] # users'[value'][i]
                  /\ users'[value'][i].phrase \in OfferedFor(users'[value'][i].keys, value', rows)
  <2>1. users'[v][i].phrase \in Spoken(text) /\ FairRow(users'[v], i, v)
    BY <1>4, <1>5, <1>7 DEF Wiser, Lessoned
  <2>2. Occurs(users'[v][i].phrase, text)
    BY <2>1, WithinOccurs DEF Spoken
  <2> QED BY <1>1, <2>1, <2>2 DEF FairRow
<1>8. ASSUME text # <<>>, options.learning, Props(Synced).adjusts, NEW s \in Range(segments)
      PROVE  \/ \E i \in Lessons : SamePair(users'[value'][i], s)
             \/ s.phrase = <<>> \/ Range(s.phrase) \cap Props(Synced).unchecked # {}
  <2>1. segments # <<>>
    BY <1>8 DEF Range
  <2>2. Synced = b /\ b.segments = segments
    BY <1>2, <2>1
  <2>3. Heard(x, b)
    BY <1>1, <1>8
  <2>4. CASE Learnable(b, s.phrase)
    <3>1. Holds(users'[v], users[v], s.keys, s.phrase)
      BY <1>1, <1>2, <1>8, <2>2, <2>3, <2>4 DEF Heard
    <3>2. PICK i \in DOMAIN users'[v] : /\ Wrote(users'[v], users[v], i)
                                        /\ users'[v][i].keys = s.keys
                                        /\ users'[v][i].phrase = s.phrase
      BY <3>1 DEF Holds
    <3> QED BY <1>1, <1>5, <3>2 DEF SamePair
  <2>5. CASE ~Learnable(b, s.phrase)
    BY <1>2, <1>8, <2>2, <2>5 DEF Learnable
  <2> QED BY <2>4, <2>5
<1>9. TeachesTheChosen
  BY <1>6, <1>7, <1>8 DEF TeachesTheChosen, text
<1> QED BY <1>3, <1>9 DEF Lawful

\* A call that teaches nothing, and delivers nothing that was staged.
LEMMA QuietLeaves ==
  ASSUME TableInv, NEW x, Sound(x), x.users = users, AllOffered(x),
         x.out.commit = <<>> \/ segments = <<>>, NEW force \in BOOLEAN,
         owed' \in {"nothing", "insert", "erase"},
         \/ Leave(Publish(x), force)
         \/ Stands(x) /\ Leave(x, force)
  PROVE  Lawful
<1>1. /\ Delivered(calls') = x.out.commit /\ users' = users /\ value' = x.value
      /\ segments' = x.segments
  BY LeaveTells
<1>2. AllOffered(Enter)'
  BY <1>1, OfferedThen
<1>3. Lessons = {}
  BY <1>1 DEF Lessons
<1>4. segments = <<>> => Range(segments) = {}
  BY DEF Range
<1>5. TeachesTheChosen
  BY <1>1, <1>3, <1>4 DEF TeachesTheChosen
<1> QED BY <1>2, <1>5 DEF Lawful

-------------------------------------------------------------------------------
(* What each call teaches.                                                 *)

LEMMA TypeInputTeaches ==
  ASSUME TableInv, AllOffered(Enter), NEW key \in Keys, TypeInput(key)
  PROVE  Lawful
<1> DEFINE b == Synced
           x == TakeInput(b, key)
<1>1. Leave(Publish(x), FALSE) /\ HasTable(b) /\ owed' = "nothing"
  BY DEF TypeInput, Handled
<1>2. InForce(b) /\ Sound(b)
  BY <1>1, Entering
<1>3. Underway(b, b)
  BY <1>2, Starts
<1> HIDE DEF b
<1>4. Took(x, b, key) /\ Underway(x, b)
  BY <1>2, <1>3, TakeInputGoes, TakeInputUnderway
<1>5. Sound(x) /\ b \in {Enter, Synced}
  BY <1>4 DEF Took, Going, b
<1> HIDE DEF x
<1> QED BY <1>1, <1>2, <1>4, <1>5, FairLeaves DEF Underway

\* Converting, Return, commit, and a key outside the alphabet.
LEMMA EndTeaches ==
  ASSUME TableInv, AllOffered(Enter), NEW b \in {Enter, Synced}, Composing(b),
         NEW x, x = CommitTyped(b) \/ (x = CommitHovered(b) /\ b.matches # <<>>),
         Leave(Publish(x), FALSE), owed' = "nothing"
  PROVE  Lawful
<1>1. Sound(b) /\ InForce(b) /\ Underway(b, b)
  BY Starts DEF Sound
<1>2. Fair(x, b) /\ Heard(x, b)
  BY <1>1, EndUnderway
<1>3. Sound(x)
  BY <1>1, CommitGoes DEF Committed
<1> QED BY <1>1, <1>2, <1>3, FairLeaves

LEMMA TypeEndingTeaches ==
  ASSUME TableInv, AllOffered(Enter), NEW key \in Keys, TypeEnding(key)
  PROVE  Lawful
<1> DEFINE b == Synced
           y == Observe(b)
           z == EndForKey(y)
           x == Shaped(z, key)
<1>1. Leave(Publish(x), FALSE) /\ Composing(b) /\ owed' = "nothing"
  BY DEF TypeEnding, Handled
<1>2. b \in {Enter, Synced} /\ Sound(b) /\ b \in CallState /\ InForce(b) /\ Underway(b, b)
  BY <1>1, Starts DEF Sound
<1> HIDE DEF b
<1>3. y \in CallState /\ Alike(y, b) /\ y.out = b.out
  BY <1>2, ObserveIs
<1> HIDE DEF y
<1>4. Sound(y) /\ Composing(y) /\ InForce(y)
  BY <1>1, <1>2, <1>3, AlikeSound DEF Sound
<1>5. Underway(y, b)
  <2>1. Schooled(y, b)
    BY <1>3 DEF Alike, Schooled
  <2> QED BY <1>2, <2>1, SchooledAlike
<1>6. z = CommitTyped(y) \/ (z = CommitHovered(y) /\ y.matches # <<>>)
  BY DEF EndForKey
<1>7. Sound(z) /\ z \in CallState /\ Fair(z, b) /\ Heard(z, b)
  BY <1>4, <1>5, <1>6, CommitGoes, EndUnderway DEF Committed, Sound
<1> HIDE DEF z
<1>8. x \in CallState /\ Alike(x, z)
  BY <1>7, ShapedIs
<1>9. PICK c \in Text : x.out.commit = z.out.commit \o c
  BY <1>7, ShapedIs
<1> HIDE DEF x
<1>10. Sound(x)
  BY <1>7, <1>8, AlikeSound
<1>11. z.out.commit \in Text
  BY <1>7 DEF CallState, Plainly
<1>12. Fair(x, b) /\ Heard(x, b)
  BY <1>7, <1>8, <1>9, <1>11, FairMore DEF Alike
<1> QED BY <1>1, <1>2, <1>10, <1>12, FairLeaves

LEMMA TypeTextTeaches ==
  ASSUME TableInv, AllOffered(Enter), NEW key \in Keys \cup {space}, TypeText(key)
  PROVE  Lawful
<1> DEFINE b == Synced
           y == Observe(b)
           x == Shaped(y, key)
<1>1. /\ owed' \in {"nothing", "insert", "erase"} /\ ~Composing(b)
      /\ Leave(Publish(x), FALSE) \/ Leave(y, FALSE)
  BY DEF TypeText, Handled
<1>2. /\ Sound(b) /\ b \in CallState /\ b.users = users /\ segments = <<>>
      /\ Stands(b)
  BY <1>1, Starts, Entering
<1> HIDE DEF b
<1>3. y \in CallState /\ Alike(y, b) /\ y.model = b.model
  BY <1>2, ObserveIs
<1> HIDE DEF y
<1>4. Sound(y) /\ Staged(y) = Staged(b) /\ y.segments = <<>> /\ y.users = users
  BY <1>1, <1>2, <1>3, AlikeSound DEF Composing, Alike
<1>5. Stands(y)
  BY <1>2, <1>3, <1>4 DEF Stands
<1>6. x \in CallState /\ Alike(x, y)
  BY <1>3, ShapedIs
<1> HIDE DEF x
<1>7. Sound(x) /\ x.segments = <<>> /\ x.users = users
  BY <1>4, <1>6, AlikeSound DEF Alike
<1>8. AllOffered(x) /\ AllOffered(y)
  BY <1>4, <1>7 DEF AllOffered, Range
<1> QED BY <1>1, <1>2, <1>4, <1>5, <1>7, <1>8, QuietLeaves

\* What leaves nothing composed and delivers nothing.
LEMMA EmptiedTeaches ==
  ASSUME TableInv, NEW x, Sound(x), ~Composing(x), x.users = users, x.out.commit = <<>>,
         \/ Leave(Publish(x), FALSE)
         \/ Stands(x) /\ Leave(x, FALSE),
         owed' = "nothing"
  PROVE  Lawful
<1>1. AllOffered(x)
  BY DEF AllOffered, Range, Composing
<1> QED BY <1>1, QuietLeaves

\* Taking back leaves the staged ones, or all but the last.
LEMMA BackspaceTeaches ==
  ASSUME TableInv, AllOffered(Enter), BackspaceKey
  PROVE  Lawful
<1> DEFINE b == Synced
           x == TakeBackspace(b)
           keys == Last(b.segments).keys
           less == [b EXCEPT !.segments = Front(@),
                             !.valid = IF keys = <<>> THEN keys ELSE Front(keys)]
           y == [b EXCEPT !.valid = Front(@)]
           z == [b EXCEPT !.invalid = Front(@)]
<1>1. Leave(Publish(x), FALSE) /\ Composing(b) /\ owed' = "nothing"
  BY DEF BackspaceKey, Handled
<1>2. /\ Sound(b) /\ b \in CallState /\ b.users = users /\ AllOffered(b) /\ b.out = NoOutput
  BY Starts
<1> HIDE DEF b
<1>3. LostOne(x, b)
  BY <1>1, <1>2, BackspaceGoes
<1>4. /\ x.users = b.users /\ x.value = b.value
      /\ \/ x.segments = b.segments
         \/ b.segments # <<>> /\ x.segments = Front(b.segments)
  <2>1. CASE b.invalid # <<>>
    <3>1. x = z
      BY <2>1 DEF TakeBackspace
    <3>2. z.users = b.users /\ z.value = b.value /\ z.segments = b.segments
      BY <1>2 DEF CallState
    <3> HIDE DEF x, z
    <3> QED BY <3>1, <3>2
  <2>2. CASE b.invalid = <<>> /\ b.valid # <<>>
    <3>1. x = RefreshMatches(y)
      BY <2>2 DEF TakeBackspace
    <3>2. /\ RefreshMatches(y).users = y.users /\ RefreshMatches(y).value = y.value
          /\ RefreshMatches(y).segments = y.segments
      BY <1>2 DEF RefreshMatches, CallState
    <3>3. y.users = b.users /\ y.value = b.value /\ y.segments = b.segments
      BY <1>2 DEF CallState
    <3> HIDE DEF x, y
    <3> QED BY <3>1, <3>2, <3>3
  <2>3. CASE b.invalid = <<>> /\ b.valid = <<>>
    <3>1. x = RefreshMatches(less) /\ b.segments # <<>>
      BY <1>1, <2>3 DEF TakeBackspace, Composing
    <3>2. /\ RefreshMatches(less).users = less.users /\ RefreshMatches(less).value = less.value
          /\ RefreshMatches(less).segments = less.segments
      BY <1>2 DEF RefreshMatches, CallState
    <3>3. less.users = b.users /\ less.value = b.value /\ less.segments = Front(b.segments)
      BY <1>2 DEF CallState
    <3> HIDE DEF x, less
    <3> QED BY <3>1, <3>2, <3>3
  <2> QED BY <2>1, <2>2, <2>3
<1>5. Range(x.segments) \subseteq Range(b.segments)
  <2>1. CASE b.segments # <<>> /\ x.segments = Front(b.segments)
    <3> DEFINE q == b.segments
    <3>1. q \in Seq(Segment) /\ q # <<>>
      BY <1>2, <2>1 DEF CallState
    <3> HIDE DEF q
    <3>2. Front(q) \in Seq(Segment) /\ Last(q) \in Segment /\ q = Append(Front(q), Last(q))
      BY <3>1, FrontAndLast
    <3> DEFINE f == Front(q)
    <3>3. \A i \in 1..Len(f) : q[i] = f[i] /\ i \in 1..Len(q)
      <4> HIDE DEF f
      <4>1. f \in Seq(Segment) /\ q = Append(f, Last(q)) /\ Last(q) \in Segment
        BY <3>2 DEF f
      <4> QED BY <4>1, AppendProperties
    <3>4. DOMAIN f = 1..Len(f) /\ DOMAIN q = 1..Len(q)
      BY <3>1, <3>2
    <3> HIDE DEF f
    <3>5. Range(f) \subseteq Range(q)
      BY <3>3, <3>4 DEF Range
    <3> QED BY <2>1, <3>5 DEF f, q
  <2> QED BY <1>4, <2>1
<1> HIDE DEF x
<1>6. AllOffered(x)
  BY <1>2, <1>4, <1>5 DEF AllOffered
<1>7. Sound(x) /\ x.out.commit = <<>> /\ x.users = users
  BY <1>2, <1>3, <1>4 DEF LostOne, Going, NoOutput
<1> QED BY <1>1, <1>6, <1>7, QuietLeaves

LEMMA EndingKeysTeach ==
  ASSUME TableInv, AllOffered(Enter), Convert \/ Return \/ Escape_ \/ BackspaceKey \/ TypeOther
  PROVE  Lawful
<1> DEFINE st == Synced
<1>1. CASE Convert
  <2> DEFINE x == IF st.matches # <<>> THEN CommitHovered(st) ELSE CommitTyped(st)
  <2>1. Composing(st) /\ Leave(Publish(x), FALSE) /\ owed' = "nothing"
    BY <1>1 DEF Convert, Handled
  <2>2. x = CommitTyped(st) \/ (x = CommitHovered(st) /\ st.matches # <<>>)
    OBVIOUS
  <2> HIDE DEF x, st
  <2>3. st \in {Enter, Synced}
    BY DEF st
  <2> QED BY <2>1, <2>2, <2>3, EndTeaches
<1>2. CASE Return
  <2>1. Composing(st) /\ Leave(Publish(CommitTyped(st)), FALSE) /\ owed' = "nothing"
    BY <1>2 DEF Return, Handled
  <2> QED BY <2>1, EndTeaches
<1>3. CASE Escape_
  <2> DEFINE x == ClearState(st)
  <2>1. Leave(Publish(x), FALSE) /\ owed' = "nothing"
    BY <1>3 DEF Escape_, Handled
  <2>2. st \in CallState /\ st.users = users /\ st.out = NoOutput
    BY Starts
  <2>3. Sound(x) /\ ~Composing(x) /\ x.users = users /\ x.out.commit = <<>>
    BY <2>2, ClearSound DEF NoOutput
  <2> HIDE DEF x
  <2> QED BY <2>1, <2>3, EmptiedTeaches
<1>4. CASE BackspaceKey
  BY <1>4, BackspaceTeaches
<1>5. CASE TypeOther
  <2>1. Leave(st, FALSE) /\ owed' \in {"nothing", "insert", "erase"}
    BY <1>5 DEF TypeOther
  <2>2. /\ Sound(st) /\ st.users = users /\ AllOffered(st) /\ Stands(st)
        /\ st.out.commit = <<>>
    BY Starts, Entering DEF NoOutput
  <2> HIDE DEF st
  <2> QED BY <2>1, <2>2, QuietLeaves
<1> QED BY <1>1, <1>2, <1>3, <1>4, <1>5

LEMMA CommitResetTeach ==
  ASSUME TableInv, AllOffered(Enter), Commit \/ Reset
  PROVE  Lawful
<1> DEFINE st == Enter
<1>1. CASE Commit
  <2>1. /\ owed' = "nothing"
        /\ \/ Composing(st) /\ Leave(Publish(CommitTyped(st)), FALSE)
           \/ Leave(st, FALSE)
    BY <1>1 DEF Commit, Handled
  <2>2. /\ Sound(st) /\ st.users = users /\ AllOffered(st) /\ Stands(st)
        /\ st.out.commit = <<>>
    BY Starts DEF TableInv, NoOutput
  <2>3. CASE Composing(st) /\ Leave(Publish(CommitTyped(st)), FALSE)
    BY <2>1, <2>3, EndTeaches
  <2>4. CASE Leave(st, FALSE)
    <3> HIDE DEF st
    <3> QED BY <2>1, <2>2, <2>4, QuietLeaves
  <2> QED BY <2>1, <2>3, <2>4
<1>2. CASE Reset
  <2> DEFINE x == ResetState(st)
  <2>1. Leave(x, FALSE) /\ owed' = "nothing"
    BY <1>2 DEF Reset, Handled
  <2>2. st \in CallState /\ st.users = users /\ st.out = NoOutput
    BY Starts
  <2>3. Stands(x) /\ ~Composing(x)
    BY <2>2, ResetIs
  <2>4. x.users = users /\ x.out.commit = <<>>
    BY <2>2 DEF ResetState, ClearState, CallState, NoOutput
  <2> HIDE DEF x
  <2> QED BY <2>1, <2>3, <2>4, EmptiedTeaches DEF Stands
<1> QED BY <1>1, <1>2

LEMMA ChoosingTeaches ==
  ASSUME TableInv, AllOffered(Enter), SelectCandidate \/ MoveCursor
  PROVE  Lawful
<1> DEFINE n == Len(model.candidates)
<1>1. CASE SelectCandidate
  <2>1. PICK k \in 0..(n - 1) :
          /\ k < Len(matches)
          /\ Leave(Publish(RefreshMatches(
               CommitPhrase(Enter, matches[k + 1].phrase, valid))), FALSE)
    BY <1>1 DEF SelectCandidate, Select
  <2> DEFINE b == Enter
             text == b.matches[k + 1].phrase
             y == CommitPhrase(b, text, b.valid)
             x == RefreshMatches(y)
  <2>2. owed' = "nothing" /\ k \in Nat /\ k + 1 \in 1..Len(matches) /\ Len(matches) \in Nat
    <3>1. owed' = "nothing"
      BY <1>1 DEF SelectCandidate, Select, Handled
    <3>2. n \in Nat /\ Len(matches) \in Nat
      BY ShownMany
    <3> HIDE DEF n
    <3> QED BY <2>1, <3>1, <3>2
  <2>3. Leave(Publish(x), FALSE)
    BY <2>1, EnterIs
  <2>4. b.matches = matches /\ b \in {Enter, Synced} /\ Sound(b) /\ b \in CallState
    BY Entering, EnterIs
  <2> HIDE DEF b
  <2>5. k + 1 \in 1..Len(b.matches) /\ k < Len(b.matches) /\ b.matches # <<>>
        /\ b.matches \in Seq(RowOf(Wording))
    BY <2>2, <2>4 DEF CallState
  <2>6. InForce(b)
    BY <2>4, <2>5, ListedInForce
  <2>7. Underway(b, b)
    BY <2>4, <2>6, Starts
  <2>8. text \in Wording
    <3>1. b.matches[k + 1] \in RowOf(Wording)
      BY <2>5, ElementOfSeq
    <3> QED BY <3>1 DEF RowOf
  <2>9. Offers(b.users[b.value], b.valid, text, b.value)
    BY <2>4, <2>5, <2>6, MatchOffered
  <2>10. Sound(x)
    BY <2>2, <2>4, <2>5, SelectedIs
  <2> HIDE DEF text
  <2>11. Fair(y, b) /\ Heard(y, b) /\ Underway(y, b)
    BY <2>4, <2>6, <2>7, <2>8, <2>9, ChosenUnderway
  <2>12. y \in CallState
    BY <2>4, <2>6, <2>8, ChosenGoes DEF Committed, Sound
  <2> HIDE DEF y
  <2>13. Schooled(x, y)
    BY <2>12, RefreshSchooled
  <2> HIDE DEF x
  <2>14. Underway(x, b)
    BY <2>11, <2>13, SchooledAlike
  <2>15. Fair(x, b) /\ (Heard(x, b) \/ x.out.commit = <<>>)
    BY <2>14 DEF Underway
  <2> QED BY <2>2, <2>3, <2>4, <2>6, <2>10, <2>15, FairLeaves
<1>2. CASE MoveCursor
  <2>1. PICK k \in 0..(n - 1) :
          k < Len(matches) /\ Leave([Enter EXCEPT !.cursor = k, !.model.cursor = k], FALSE)
    BY <1>2 DEF MoveCursor
  <2> DEFINE x == [Enter EXCEPT !.cursor = k, !.model.cursor = k]
  <2>2. owed' = "nothing" /\ k \in Nat /\ k < Capped(Len(matches), options.cap)
    <3>1. owed' = "nothing"
      BY <1>2 DEF MoveCursor, Handled
    <3>2. n = Capped(Len(matches), options.cap) /\ n \in Nat
      BY ShownMany
    <3> HIDE DEF n
    <3> QED BY <2>1, <3>1, <3>2
  <2>3. Leave(x, FALSE)
    BY <2>1
  <2>4. /\ Stands(x) /\ x.out = NoOutput
        /\ x.users = users /\ x.value = value /\ x.segments = segments
    BY <2>2, MovedIs
  <2> HIDE DEF x
  <2>5. AllOffered(x)
    BY <2>4, EnterIs DEF AllOffered
  <2>6. Sound(x) /\ x.out.commit = <<>>
    BY <2>4 DEF Stands, NoOutput
  <2> QED BY <2>2, <2>3, <2>4, <2>5, <2>6, QuietLeaves
<1> QED BY <1>1, <1>2

\* Another value of an option leaves the choices, and what is staged with its table.
LEMMA OptionsTeachNothing ==
  ASSUME NEW e \in CallState, NEW chosen \in Settings,
         NEW z, z = SyncTable([e EXCEPT !.options = chosen]),
         NEW y, y = IF HasTable(z) THEN RefreshMatches(z) ELSE z
  PROVE  /\ y.users = e.users
         /\ y.segments = <<>> \/ (y.segments = e.segments /\ y.value = e.value)
<1> DEFINE u == [e EXCEPT !.options = chosen]
<1>1. /\ u \in CallState /\ u.users = e.users /\ u.segments = e.segments
      /\ u.value = e.value
  BY DEF CallState
<1>2. z = SyncTable(u)
  OBVIOUS
<1> HIDE DEF u
<1>3. /\ z.users = u.users
      /\ z.segments = <<>> \/ (z.segments = u.segments /\ z.value = u.value)
  <2>1. CASE u.options.table = u.value
    BY <1>2, <2>1 DEF SyncTable
  <2>2. CASE u.options.table # u.value
    BY <1>1, <1>2, <2>2 DEF SyncTable, ClearState, CallState
  <2> QED BY <2>1, <2>2
<1>4. z \in CallState
  <2> DEFINE w == ClearState(u)
  <2>1. u.options.table \in Tables \cup {none}
    BY <1>1, TableInputAssumption DEF CallState, Options
  <2>2. w \in CallState
    BY <1>1, ClearSound DEF Sound
  <2>3. z = u \/ z = [w EXCEPT !.value = u.options.table]
    BY <1>2 DEF SyncTable
  <2> HIDE DEF w
  <2> QED BY <1>1, <2>1, <2>2, <2>3 DEF CallState
<1>5. y.users = z.users /\ y.segments = z.segments /\ y.value = z.value
  BY <1>4 DEF RefreshMatches, CallState
<1> QED BY <1>1, <1>3, <1>5

LEMMA SetOptionTeaches ==
  ASSUME TableInv, AllOffered(Enter), SetOption
  PROVE  Lawful
<1>1. PICK chosen \in Settings :
        LET st == [Enter EXCEPT !.options = chosen]
        IN IF chosen.table # options.table THEN Leave(ResetState(st), FALSE)
           ELSE Leave(OptionsChanged(st), TRUE)
  BY DEF SetOption
<1> DEFINE e == Enter
           st == [e EXCEPT !.options = chosen]
<1>2. /\ e \in CallState /\ Sound(e) /\ e.options = options /\ e.out = NoOutput
      /\ e.users = users /\ AllOffered(e)
  BY Entering, EnterIs
<1>3. owed' = "nothing"
  BY DEF SetOption, Handled
<1>4. CASE chosen.table # options.table
  <2> DEFINE x == ResetState(st)
  <2>1. Leave(x, FALSE)
    BY <1>1, <1>4
  <2> HIDE DEF e
  <2>2. st \in CallState /\ st.users = users /\ st.out = NoOutput
    BY <1>2 DEF CallState
  <2> HIDE DEF st
  <2>3. Stands(x) /\ ~Composing(x)
    BY <2>2, ResetIs
  <2>4. x.users = users /\ x.out.commit = <<>>
    BY <2>2 DEF ResetState, ClearState, CallState, NoOutput
  <2> HIDE DEF x
  <2> QED BY <1>3, <2>1, <2>3, <2>4, EmptiedTeaches DEF Stands
<1>5. CASE chosen.table = options.table
  <2> DEFINE z == SyncTable(st)
             y == IF HasTable(z) THEN RefreshMatches(z) ELSE z
  <2>1. Leave(Publish(y), TRUE)
    BY <1>1, <1>5 DEF OptionsChanged
  <2>2. Sound(y) /\ y.out = e.out
    <3> HIDE DEF e
    <3> QED BY <1>2, <1>5, OptionsChangedIs
  <2>3. /\ y.users = e.users
        /\ y.segments = <<>> \/ (y.segments = e.segments /\ y.value = e.value)
    <3> HIDE DEF e
    <3> QED BY <1>2, OptionsTeachNothing
  <2> HIDE DEF y, e
  <2>4. AllOffered(y)
    BY <1>2, <2>3 DEF AllOffered, Range
  <2>5. y.users = users /\ y.out.commit = <<>>
    BY <1>2, <2>2, <2>3 DEF NoOutput
  <2> QED BY <1>3, <2>1, <2>2, <2>4, <2>5, QuietLeaves
<1> QED BY <1>4, <1>5

\* What another context learns was never taken away: it still offers what is staged.
LEMMA LearnElsewhereOffers ==
  ASSUME TableInv, AllOffered(Enter), LearnElsewhere
  PROVE  AllOffered(Enter)'
<1>1. users \in Learners /\ Sound(Enter)
  BY Entering, EnterIs DEF CallState
<1>2. /\ users' \in Learners
      /\ \A s \in Tables : users'[s] = users[s] \/ Grows(users'[s], users[s])
  BY ElsewhereGrows
<1>3. value' = value /\ segments' = segments
  BY DEF LearnElsewhere
<1>4. ASSUME NEW s \in Range(segments)
      PROVE  Offers(users'[value], s.keys, s.phrase, value)
  <2>1. segments # <<>>
    BY <1>4 DEF Range
  <2>2. value \in Tables
    <3>1. InForce(Enter)
      BY <1>1, <2>1, EnterIs DEF Sound, Composing
    <3>2. value \in Tables \cup {none} /\ value # none
      BY <1>1, <3>1, EnterIs DEF Sound, CallState, InForce, HasTable
    <3> QED BY <3>2
  <2>3. users[value] \in Seq(Lesson) /\ users'[value] \in Seq(Lesson)
    BY <1>1, <1>2, <2>2 DEF Learners
  <2>4. Rose(users'[value], users[value])
    BY <1>2, <2>2 DEF Rose
  <2>5. Offers(users[value], s.keys, s.phrase, value)
    BY <1>4, EnterIs DEF AllOffered
  <2> QED BY <2>3, <2>4, <2>5, OffersOn
<1>5. /\ Enter'.users = users' /\ Enter'.value = value'
      /\ Enter'.segments = segments'
  BY DEF Enter
<1> QED BY <1>3, <1>4, <1>5 DEF AllOffered

\* A step which is no call of this context, or one which tells the client nothing,
\* teaches nothing by it.
Teaches == calls' # <<>> /\ (users' # users \/ segments # <<>>) => TeachesTheChosen

LEMMA OutsideTeaches ==
  ASSUME TableInv, AllOffered(Enter),
         LearnElsewhere \/ MoveElsewhere \/ Fallback \/ UNCHANGED vars
  PROVE  AllOffered(Enter)' /\ (UNCHANGED vars \/ Teaches)
<1>1. CASE LearnElsewhere
  <2>1. calls' = <<>>
    BY <1>1 DEF LearnElsewhere
  <2> QED BY <1>1, <2>1, LearnElsewhereOffers DEF Teaches
<1>2. CASE MoveElsewhere \/ Fallback \/ UNCHANGED vars
  <2>1. UNCHANGED tableVars
    BY <1>2 DEF MoveElsewhere, Fallback, vars
  <2>2. AllOffered(Enter)'
    BY <2>1, EnterIs DEF AllOffered, Enter, tableVars
  <2>3. CASE MoveElsewhere \/ Fallback
    <3>1. calls' = <<>>
      BY <2>3 DEF MoveElsewhere, Fallback, ClientActs
    <3> QED BY <2>2, <3>1 DEF Teaches
  <2> QED BY <1>2, <2>2, <2>3
<1> QED BY <1>1, <1>2

LEMMA NextTeaches ==
  ASSUME TableInv, AllOffered(Enter), [Next]_vars
  PROVE  AllOffered(Enter)' /\ (UNCHANGED vars \/ Teaches)
<1>1. ASSUME NEW key \in Keys, TypeInput(key) \/ TypeEnding(key) PROVE Lawful
  BY <1>1, TypeInputTeaches, TypeEndingTeaches
<1>2. ASSUME NEW key \in Keys \cup {space}, TypeText(key) PROVE Lawful
  BY <1>2, TypeTextTeaches
<1>3. CASE Convert \/ Return \/ Escape_ \/ BackspaceKey \/ TypeOther
  BY <1>3, EndingKeysTeach DEF Lawful, Teaches
<1>4. CASE Commit \/ Reset
  BY <1>4, CommitResetTeach DEF Lawful, Teaches
<1>5. CASE SelectCandidate \/ MoveCursor
  BY <1>5, ChoosingTeaches DEF Lawful, Teaches
<1>6. CASE SetOption
  BY <1>6, SetOptionTeaches DEF Lawful, Teaches
<1>7. CASE LearnElsewhere \/ MoveElsewhere \/ Fallback \/ UNCHANGED vars
  BY <1>7, OutsideTeaches
<1>8. CASE \E key \in Keys : TypeInput(key) \/ TypeEnding(key)
  BY <1>1, <1>8 DEF Lawful, Teaches
<1>9. CASE \E key \in Keys \cup {space} : TypeText(key)
  BY <1>2, <1>9 DEF Lawful, Teaches
<1> QED BY <1>3, <1>4, <1>5, <1>6, <1>7, <1>8, <1>9 DEF Next

\* A lesson is a choice: what a call learns it learns in the table in force, of what it
\* delivers, and of what was offered for those keys before it was learned; and it
\* learns each staged phrase it delivers, where client and table let it be (learn,
\* commit_phrase, record_selection). Every staged phrase was once offered: with
\* TableInv this is inductive.
THEOREM TableLearnsTheChosen == Spec => LearnsTheChosen
<1>1. Init => TableInv /\ AllOffered(Enter)
  <2> SUFFICES ASSUME Init PROVE TableInv /\ AllOffered(Enter)
    OBVIOUS
  <2>1. segments = <<>>
    BY DEF Init
  <2> QED BY <2>1, InitHolds, EnterIs DEF AllOffered, Range
<1>2. /\ TableInv /\ AllOffered(Enter) /\ [Next]_vars
      => TableInv' /\ AllOffered(Enter)' /\ (UNCHANGED vars \/ Teaches)
  BY NextKeeps, NextTeaches DEF StepKeeps
<1>3. (UNCHANGED vars \/ Teaches)
      => [calls' # <<>> /\ (users' # users \/ segments # <<>>) => TeachesTheChosen]_vars
  BY DEF Teaches
<1> QED BY <1>1, <1>2, <1>3, PTL DEF Spec, LearnsTheChosen

-------------------------------------------------------------------------------
(* The compiler: one which stops leaves no half of a table, for every      *)
(* source and setting and whatever file stood at the path before.          *)

\* The inductive invariant: what the file is at each stage.
FileByStage ==
  /\ stage \in {"reading", "preparing", "creating"} => disk \in Former
  /\ stage = "writing" => disk = Created
  /\ stage = "written" => disk = Image(source)
  /\ stage = "failed" => disk \in Former \cup {Absent}
  /\ stage = "stopped" => disk \in Former \cup {Created}
  /\ stage \in {"reading", "preparing", "creating", "writing", "written", "failed",
               "stopped"}

LEMMA FileByStageKept == FileByStage /\ [CompilerNext]_compilerVars => FileByStage'
<1> SUFFICES ASSUME FileByStage, [CompilerNext]_compilerVars PROVE FileByStage'
  OBVIOUS
<1>1. ASSUME NEW line \in Lines,
             BeginSection(line) \/ EndSection(line) \/ Content(line)
      PROVE  FileByStage'
  BY <1>1 DEF BeginSection, EndSection, Content, Refuse, FileByStage
<1>2. CASE EndOfFile
  BY <1>2 DEF EndOfFile, Refuse, FileByStage
<1>3. CASE Prepare
  BY <1>3 DEF Prepare, FileByStage
<1>4. CASE Create
  BY <1>4 DEF Create, FileByStage
<1>5. CASE CommitTable
  <2>1. disk' = Image(source) /\ source' = source /\ stage' = "written"
    BY <1>5 DEF CommitTable
  <2>2. disk' = Image(source)'
    BY <2>1
  <2> QED BY <2>1, <2>2 DEF FileByStage
<1>6. CASE Fail
  BY <1>6 DEF Fail, FileByStage
<1>7. CASE Stop
  BY <1>7 DEF Stop, FileByStage
<1>8. CASE UNCHANGED compilerVars
  BY <1>8 DEF compilerVars, FileByStage
<1> QED BY <1>1, <1>2, <1>3, <1>4, <1>5, <1>6, <1>7, <1>8 DEF CompilerNext

\* Neither the empty file nor none is a table, so what opens is a former file or
\* the whole image of this source (OpensWhole).
THEOREM WholeTable == CompilerSpec => []OpensWhole
<1>1. CompilerInit => FileByStage
  BY DEF CompilerInit, FileByStage
<1>2. FileByStage => OpensWhole
  <2>1. ~Opens(Absent) /\ ~Opens(Created)
    BY DEF Opens, Absent, Created
  <2> QED BY <2>1 DEF FileByStage, OpensWhole
<1> QED BY <1>1, <1>2, FileByStageKept, PTL DEF CompilerSpec

-------------------------------------------------------------------------------
(* What is computed by recursion, and the places of the parts of a         *)
(* sequence.                                                               *)

\* G makes one table of values of another, and of a place it asks only for those of
\* lower places.
Yields(G, D, V) == \A f \in [D -> V] : G[f] \in [D -> V]
AsksBelow(G, D, V, rank) ==
  \A f, g \in [D -> V] : \A x \in D :
    (\A y \in D : rank[y] < rank[x] => f[y] = g[y]) => G[f][x] = G[g][x]

\* There is a table which is what G makes of it.
LEMMA RecursionExists ==
  ASSUME NEW D, NEW V, V # {}, NEW N \in Nat, NEW rank \in [D -> 0..N], NEW G,
         Yields(G, D, V), AsksBelow(G, D, V, rank)
  PROVE  \E f \in [D -> V] : f = G[f]
<1>1. /\ \A f \in [D -> V] : G[f] \in [D -> V]
      /\ \A f, g \in [D -> V] : \A x \in D :
           (\A y \in D : rank[y] < rank[x] => f[y] = g[y]) => G[f][x] = G[g][x]
  BY DEF Yields, AsksBelow
<1> DEFINE Up(n, f) == f \in [D -> V] /\ \A x \in D : rank[x] < n => f[x] = G[f][x]
           T == {n \in Nat : \E f : Up(n, f)}
<1>2. 0 \in T
  <2>1. PICK v \in V : TRUE
    OBVIOUS
  <2> DEFINE f == [x \in D |-> v]
  <2>2. f \in [D -> V]
    OBVIOUS
  <2>3. \A x \in D : ~(rank[x] < 0)
    OBVIOUS
  <2> HIDE DEF f
  <2>4. Up(0, f)
    BY <2>2, <2>3
  <2> QED BY <2>4
<1>3. ASSUME NEW n \in Nat, n \in T PROVE n + 1 \in T
  <2>1. PICK f : Up(n, f)
    BY <1>3
  <2> DEFINE g == G[f]
  <2>2. f \in [D -> V] /\ g \in [D -> V]
    BY <1>1, <2>1
  <2>3. ASSUME NEW x \in D, rank[x] < n + 1 PROVE g[x] = G[g][x]
    <3>1. ASSUME NEW y \in D, rank[y] < rank[x] PROVE f[y] = g[y]
      <4>1. rank[y] \in Nat /\ rank[x] \in Nat
        OBVIOUS
      <4>2. rank[y] < n
        BY <2>3, <3>1, <4>1
      <4> QED BY <2>1, <4>2
    <3> HIDE DEF g
    <3>2. G[f][x] = G[g][x]
      BY <1>1, <2>2, <3>1
    <3> QED BY <3>2 DEF g
  <2> HIDE DEF g
  <2>4. Up(n + 1, g)
    BY <2>2, <2>3
  <2> QED BY <2>4
<1> HIDE DEF T
<1>4. Nat \subseteq T
  BY <1>2, <1>3, Induction
<1>5. N + 1 \in T
  BY <1>4
<1>6. PICK f : Up(N + 1, f)
  BY <1>5 DEF T
<1>7. \A x \in D : f[x] = G[f][x]
  <2>1. \A x \in D : rank[x] < N + 1
    OBVIOUS
  <2> QED BY <1>6, <2>1
<1>8. f \in [D -> V] /\ G[f] \in [D -> V]
  BY <1>1, <1>6
<1>9. f = G[f]
  BY <1>7, <1>8
<1> QED BY <1>8, <1>9

\* Part i of q stands in s from at[i] on, up to at[i + 1].
Placed(q, s, at) ==
  /\ at \in [1..(Len(q) + 1) -> 1..(Len(s) + 1)]
  /\ at[1] = 1 /\ at[Len(q) + 1] = Len(s) + 1
  /\ \A i \in 1..Len(q) :
       /\ at[i + 1] = at[i] + Len(q[i])
       /\ \A j \in 1..Len(q[i]) : s[at[i] + (j - 1)] = q[i][j]

\* Each part of what is joined has its place.
LEMMA PlacesExist ==
  ASSUME NEW S, NEW q \in Seq(Seq(S))
  PROVE  \E at : Placed(q, FlattenSeq(q), at)
<1> DEFINE P == {r \in Seq(Seq(S)) : \E at : Placed(r, FlattenSeq(r), at)}
<1>1. <<>> \in P
  <2> DEFINE at == [i \in 1..1 |-> 1]
  <2>1. FlattenSeq(<<>>) = <<>> /\ Len(<<>>) = 0
    BY FlattenEmpty
  <2>2. Placed(<<>>, <<>>, at)
    BY DEF Placed
  <2> HIDE DEF at
  <2> QED BY <2>1, <2>2
<1>2. ASSUME NEW r \in Seq(Seq(S)), NEW x \in Seq(S), r \in P PROVE Append(r, x) \in P
  <2> DEFINE a == Append(r, x)
             s == FlattenSeq(r)
             t == s \o x
  <2>1. PICK at : Placed(r, s, at)
    BY <1>2
  <2>2. FlattenSeq(a) = t /\ s \in Seq(S)
    BY FlattenAppend, FlattenType
  <2>3. /\ a \in Seq(Seq(S)) /\ Len(a) = Len(r) + 1 /\ Len(r) \in Nat
        /\ a[Len(r) + 1] = x /\ \A i \in 1..Len(r) : a[i] = r[i]
    BY AppendProperties, LenProperties
  <2> HIDE DEF a, s
  <2>4. /\ Len(s) \in Nat /\ Len(x) \in Nat /\ Len(t) = Len(s) + Len(x)
        /\ \A k \in 1..Len(s) : t[k] = s[k]
        /\ \A k \in 1..Len(x) : t[Len(s) + k] = x[k]
    BY <2>2, ConcatProperties, LenProperties
  <2> HIDE DEF t
  <2> DEFINE up == [i \in 1..(Len(a) + 1) |-> IF i = Len(a) + 1 THEN Len(t) + 1 ELSE at[i]]
  <2>5. /\ at \in [1..(Len(r) + 1) -> 1..(Len(s) + 1)]
        /\ at[1] = 1 /\ at[Len(r) + 1] = Len(s) + 1
        /\ \A i \in 1..Len(r) :
             /\ at[i + 1] = at[i] + Len(r[i])
             /\ \A j \in 1..Len(r[i]) : s[at[i] + (j - 1)] = r[i][j]
    BY <2>1 DEF Placed
  <2>6. /\ \A i \in 1..(Len(r) + 1) : up[i] = at[i]
        /\ up[Len(r) + 2] = Len(t) + 1
    BY <2>3
  <2>7. up \in [1..(Len(a) + 1) -> 1..(Len(t) + 1)]
    <3>1. ASSUME NEW i \in 1..(Len(a) + 1) PROVE up[i] \in 1..(Len(t) + 1)
      <4>1. CASE i = Len(r) + 2
        BY <2>4, <2>6, <4>1
      <4>2. CASE i # Len(r) + 2
        <5>1. i \in 1..(Len(r) + 1)
          BY <2>3, <4>2
        <5>2. at[i] \in 1..(Len(s) + 1)
          BY <2>5, <5>1
        <5> QED BY <2>4, <2>6, <5>1, <5>2
      <4> QED BY <4>1, <4>2
    <3> QED BY <3>1
  <2> HIDE DEF up
  <2>8. ASSUME NEW i \in 1..Len(a)
        PROVE  /\ up[i + 1] = up[i] + Len(a[i])
               /\ \A j \in 1..Len(a[i]) : t[up[i] + (j - 1)] = a[i][j]
    <3>1. CASE i = Len(r) + 1
      <4>1. up[i] = Len(s) + 1 /\ up[i + 1] = Len(t) + 1 /\ a[i] = x
        BY <2>3, <2>5, <2>6, <3>1
      <4>2. ASSUME NEW j \in 1..Len(x) PROVE t[up[i] + (j - 1)] = x[j]
        <5>1. up[i] + (j - 1) = Len(s) + j
          BY <2>4, <4>1
        <5> QED BY <2>4, <5>1
      <4> QED BY <2>4, <4>1, <4>2
    <3>2. CASE i # Len(r) + 1
      <4>1. i \in 1..Len(r) /\ i \in 1..(Len(r) + 1) /\ i + 1 \in 1..(Len(r) + 1)
        BY <2>3, <3>2
      <4>2. a[i] = r[i] /\ up[i] = at[i] /\ up[i + 1] = at[i + 1]
        BY <2>3, <2>6, <4>1
      <4>3. /\ at[i] \in 1..(Len(s) + 1) /\ at[i + 1] \in 1..(Len(s) + 1)
            /\ at[i + 1] = at[i] + Len(r[i])
        BY <2>5, <4>1
      <4>4. Len(r[i]) \in Nat
        BY <4>1
      <4>5. ASSUME NEW j \in 1..Len(r[i]) PROVE t[at[i] + (j - 1)] = r[i][j]
        <5>0. /\ j \in Int /\ 1 <= j /\ j <= Len(r[i]) /\ at[i] \in Int /\ 1 <= at[i]
              /\ at[i] + Len(r[i]) <= Len(s) + 1
          BY <4>3, <4>4
        <5>1. at[i] + (j - 1) \in 1..Len(s)
          BY <2>4, <4>4, <5>0
        <5> QED BY <2>4, <2>5, <4>1, <5>1
      <4> QED BY <4>2, <4>3, <4>5
    <3> QED BY <3>1, <3>2
  <2>9. up[1] = 1 /\ up[Len(a) + 1] = Len(t) + 1
    BY <2>3, <2>5, <2>6
  <2>10. Placed(a, t, up)
    BY <2>7, <2>8, <2>9 DEF Placed
  <2> QED BY <2>2, <2>3, <2>10 DEF a
<1> HIDE DEF P
<1>3. Seq(Seq(S)) \subseteq P
  BY <1>1, <1>2, SequenceInduction
<1> QED BY <1>3 DEF P

-------------------------------------------------------------------------------
(* What LIKE matches.                                                      *)

\* from[i] is where what is left of the pattern matches what is left of the text.
Escapes_(pattern, escape, i) == i < Len(pattern) /\ pattern[i] = escape

MatchesFrom(text, pattern, escape, from) ==
  /\ from \in [1..(Len(pattern) + 1) -> SUBSET (1..(Len(text) + 1))]
  /\ from[Len(pattern) + 1] = {Len(text) + 1}
  /\ \A i \in 1..Len(pattern) :
       /\ Escapes_(pattern, escape, i)
          => from[i] = {j \in 1..Len(text) : text[j] = pattern[i + 1] /\ j + 1 \in from[i + 2]}
       /\ ~Escapes_(pattern, escape, i) /\ pattern[i] = percent
          => from[i] = {j \in 1..(Len(text) + 1) : \E k \in from[i + 1] : j <= k}
       /\ ~Escapes_(pattern, escape, i) /\ pattern[i] # percent
          => from[i] = {j \in 1..Len(text) :
                          pattern[i] \in {underscore, text[j]} /\ j + 1 \in from[i + 1]}

LEMMA LikeIs ==
  ASSUME NEW text, Len(text) \in Nat, DOMAIN text = 1..Len(text),
         NEW pattern, Len(pattern) \in Nat, NEW escape, escape # percent
  PROVE  \E from : /\ MatchesFrom(text, pattern, escape, from)
                   /\ Like(text, pattern, escape) <=> 1 \in from[1]
<1> DEFINE P == Len(pattern)
           end == Len(text) + 1
           D == 1..(Len(pattern) + 1)
           V == SUBSET (1..end)
           step(f, i) ==
             CASE i > Len(pattern) -> {end}
               [] i < Len(pattern) /\ pattern[i] = escape ->
                    {j \in DOMAIN text : text[j] = pattern[i + 1] /\ j + 1 \in f[i + 2]}
               [] i <= Len(pattern) /\ pattern[i] = percent ->
                    {j \in 1..end : \E k \in f[i + 1] : j <= k}
               [] OTHER ->
                    {j \in DOMAIN text : pattern[i] \in {underscore, text[j]} /\ j + 1 \in f[i + 1]}
           F(f) == [i \in D |-> step(f, i)]
           c == CHOOSE f : f = F(f)
           G == [f \in [D -> V] |-> F(f)]
           rank == [i \in D |-> (P + 1) - i]
<1>1. ASSUME NEW f, NEW i \in D
      PROVE  /\ i = P + 1 => step(f, i) = {end}
             /\ i \in 1..P /\ Escapes_(pattern, escape, i)
                => step(f, i) = {j \in DOMAIN text : text[j] = pattern[i + 1] /\ j + 1 \in f[i + 2]}
             /\ i \in 1..P /\ ~Escapes_(pattern, escape, i) /\ pattern[i] = percent
                => step(f, i) = {j \in 1..end : \E k \in f[i + 1] : j <= k}
             /\ i \in 1..P /\ ~Escapes_(pattern, escape, i) /\ pattern[i] # percent
                => step(f, i) = {j \in DOMAIN text : pattern[i] \in {underscore, text[j]}
                                                     /\ j + 1 \in f[i + 1]}
             /\ i \in 1..P \/ i = P + 1
  <2>1. i \in 1..P \/ i = P + 1
    OBVIOUS
  <2>2. CASE i = P + 1
    <3>1. i > Len(pattern) /\ i \notin 1..P
      BY <2>2
    <3> QED BY <2>2, <3>1
  <2>3. CASE i \in 1..P /\ Escapes_(pattern, escape, i)
    <3>1. /\ ~(i > Len(pattern)) /\ i < Len(pattern) /\ pattern[i] = escape /\ i # P + 1
          /\ pattern[i] # percent
      BY <2>3 DEF Escapes_
    <3>2. step(f, i) = {j \in DOMAIN text : text[j] = pattern[i + 1] /\ j + 1 \in f[i + 2]}
      BY <3>1
    <3> HIDE DEF step
    <3> QED BY <2>3, <3>1, <3>2
  <2>4. CASE i \in 1..P /\ ~Escapes_(pattern, escape, i) /\ pattern[i] = percent
    <3>1. /\ ~(i > Len(pattern)) /\ ~(i < Len(pattern) /\ pattern[i] = escape)
          /\ i <= Len(pattern) /\ i # P + 1
      BY <2>4 DEF Escapes_
    <3>2. step(f, i) = {j \in 1..end : \E k \in f[i + 1] : j <= k}
      BY <2>4, <3>1
    <3> HIDE DEF step
    <3> QED BY <2>4, <3>1, <3>2
  <2>5. CASE i \in 1..P /\ ~Escapes_(pattern, escape, i) /\ pattern[i] # percent
    <3>1. /\ ~(i > Len(pattern)) /\ ~(i < Len(pattern) /\ pattern[i] = escape)
          /\ ~(i <= Len(pattern) /\ pattern[i] = percent) /\ i # P + 1
      BY <2>5 DEF Escapes_
    <3>2. step(f, i) = {j \in DOMAIN text : pattern[i] \in {underscore, text[j]}
                                            /\ j + 1 \in f[i + 1]}
      BY <3>1
    <3> HIDE DEF step
    <3> QED BY <2>5, <3>1, <3>2
  <2> HIDE DEF step
  <2> QED BY <2>1, <2>2, <2>3, <2>4, <2>5
<1> HIDE DEF step
<1>2. P \in Nat /\ end \in Nat /\ V # {} /\ rank \in [D -> 0..(P + 1)]
      /\ P + 1 \in D /\ 1 \in D /\ 1..P \subseteq D
  <2>1. P \in Nat /\ end \in Nat /\ P + 1 \in D /\ 1 \in D /\ 1..P \subseteq D
    OBVIOUS
  <2>2. {} \in V
    OBVIOUS
  <2>3. \A i \in D : (P + 1) - i \in 0..(P + 1)
    OBVIOUS
  <2>4. rank \in [D -> 0..(P + 1)]
    BY <2>3
  <2> HIDE DEF V, rank, D, P
  <2> QED BY <2>1, <2>2, <2>4
<1>3. ASSUME NEW f, NEW i \in D PROVE step(f, i) \in V
  <2> QED BY <1>1, <1>2
<1>4. Yields(G, D, V)
  BY <1>3 DEF Yields
<1>5. AsksBelow(G, D, V, rank)
  <2>1. ASSUME NEW f \in [D -> V], NEW g \in [D -> V], NEW x \in D,
               \A y \in D : rank[y] < rank[x] => f[y] = g[y]
        PROVE  step(f, x) = step(g, x)
    <3>1. x \in 1..P => f[x + 1] = g[x + 1]
      <4> SUFFICES ASSUME x \in 1..P PROVE f[x + 1] = g[x + 1]
        OBVIOUS
      <4>1. x + 1 \in D /\ rank[x + 1] < rank[x]
        BY <1>2
      <4> QED BY <2>1, <4>1
    <3>2. x \in 1..P /\ Escapes_(pattern, escape, x) => f[x + 2] = g[x + 2]
      <4> SUFFICES ASSUME x \in 1..P, Escapes_(pattern, escape, x) PROVE f[x + 2] = g[x + 2]
        OBVIOUS
      <4>1. x + 2 \in D /\ rank[x + 2] < rank[x]
        BY <1>2 DEF Escapes_
      <4> QED BY <2>1, <4>1
    <3> HIDE DEF P, end, rank, D, V
    <3>3. CASE x = P + 1
      BY <1>1, <3>3
    <3>4. CASE x \in 1..P /\ Escapes_(pattern, escape, x)
      <4>1. step(f, x) = {j \in DOMAIN text : text[j] = pattern[x + 1] /\ j + 1 \in f[x + 2]}
        BY <1>1, <3>4
      <4>2. step(g, x) = {j \in DOMAIN text : text[j] = pattern[x + 1] /\ j + 1 \in g[x + 2]}
        BY <1>1, <3>4
      <4> QED BY <3>2, <3>4, <4>1, <4>2
    <3>5. CASE x \in 1..P /\ ~Escapes_(pattern, escape, x) /\ pattern[x] = percent
      <4>1. step(f, x) = {j \in 1..end : \E k \in f[x + 1] : j <= k}
        BY <1>1, <3>5
      <4>2. step(g, x) = {j \in 1..end : \E k \in g[x + 1] : j <= k}
        BY <1>1, <3>5
      <4> QED BY <3>1, <3>5, <4>1, <4>2
    <3>6. CASE x \in 1..P /\ ~Escapes_(pattern, escape, x) /\ pattern[x] # percent
      <4>1. step(f, x) = {j \in DOMAIN text : pattern[x] \in {underscore, text[j]} /\ j + 1 \in f[x + 1]}
        BY <1>1, <3>6
      <4>2. step(g, x) = {j \in DOMAIN text : pattern[x] \in {underscore, text[j]} /\ j + 1 \in g[x + 1]}
        BY <1>1, <3>6
      <4> QED BY <3>1, <3>6, <4>1, <4>2
    <3> QED BY <1>1, <3>3, <3>4, <3>5, <3>6
  <2>2. \A f \in [D -> V] : \A x \in D : G[f][x] = step(f, x)
    OBVIOUS
  <2> HIDE DEF G, rank, V, D
  <2> QED BY <2>1, <2>2 DEF AsksBelow
<1>6. PICK h \in [D -> V] : h = G[h]
  <2> HIDE DEF G, D, V, rank, P
  <2> QED BY <1>2, <1>4, <1>5, RecursionExists
<1>7. h = F(h)
  BY <1>6
<1>8. c = F(c)
  <2> HIDE DEF F
  <2> QED BY <1>7
<1>9. Like(text, pattern, escape) <=> 1 \in c[1]
  BY DEF Like, step
<1> HIDE DEF c
<1>10. c \in [D -> V] /\ \A i \in D : c[i] = step(c, i)
  <2>1. \A i \in D : c[i] = step(c, i)
    BY <1>8
  <2>2. \A i \in D : step(c, i) \in V
    BY <1>3
  <2>3. F(c) \in [D -> V]
    BY <2>2
  <2> QED BY <1>8, <2>1, <2>3
<1>11. MatchesFrom(text, pattern, escape, c)
  <2>1. c[P + 1] = {end}
    BY <1>1, <1>2, <1>10
  <2>2. ASSUME NEW i \in 1..P
        PROVE  /\ Escapes_(pattern, escape, i)
                  => c[i] = {j \in 1..Len(text) : text[j] = pattern[i + 1] /\ j + 1 \in c[i + 2]}
               /\ ~Escapes_(pattern, escape, i) /\ pattern[i] = percent
                  => c[i] = {j \in 1..end : \E k \in c[i + 1] : j <= k}
               /\ ~Escapes_(pattern, escape, i) /\ pattern[i] # percent
                  => c[i] = {j \in 1..Len(text) :
                               pattern[i] \in {underscore, text[j]} /\ j + 1 \in c[i + 1]}
    <3>1. i \in D /\ c[i] = step(c, i)
      BY <1>2, <1>10
    <3> HIDE DEF D, P, end
    <3> QED BY <1>1, <3>1
  <2> QED BY <1>10, <2>1, <2>2 DEF MatchesFrom
<1> QED BY <1>9, <1>11

-------------------------------------------------------------------------------
(* The pattern of a run.                                                   *)

\* Of three escape characters two wildcards leave one, which LIKE gives no other
\* meaning.
LEMMA EscapeIs ==
  ASSUME NEW p, NEW a, NEW b, p.single \subseteq {a}, p.multi \subseteq {b}
  PROVE  Escape(p) \in Scalar \ {percent, underscore}
<1> DEFINE I == {i \in DOMAIN Escapes : ~IsWildcard(p, Escapes[i])}
<1>1. /\ Escapes \in Seq(Scalar) /\ Cardinality(Range(Escapes)) >= 3
      /\ {percent, underscore} \cap Range(Escapes) = {}
  BY TableDataAssumption
<1>2. /\ DOMAIN Escapes = 1..Len(Escapes) /\ Len(Escapes) \in Nat
      /\ Range(Escapes) = {Escapes[i] : i \in DOMAIN Escapes}
      /\ \A i \in DOMAIN Escapes : Escapes[i] \in Scalar /\ Escapes[i] \in Range(Escapes)
  BY <1>1 DEF Range
<1>3. I # {}
  <2> SUFFICES ASSUME I = {} PROVE FALSE
    OBVIOUS
  <2>1. Range(Escapes) \in SUBSET {a, b}
    BY <1>2 DEF IsWildcard
  <2>2. IsFiniteSet({a, b}) /\ Cardinality({a, b}) <= 2
    <3>1. /\ IsFiniteSet({a}) /\ Cardinality({a}) = 1
      BY FS_Singleton
    <3>2. /\ IsFiniteSet({a} \cup {b})
          /\ Cardinality({a} \cup {b}) = IF b \in {a} THEN 1 ELSE 1 + 1
      BY <3>1, FS_AddElement
    <3>3. {a} \cup {b} = {a, b}
      OBVIOUS
    <3> QED BY <3>2, <3>3
  <2>3. /\ IsFiniteSet(Range(Escapes))
        /\ Cardinality(Range(Escapes)) <= Cardinality({a, b})
    BY <2>1, <2>2, FS_Subset
  <2>4. Cardinality(Range(Escapes)) \in Nat /\ Cardinality({a, b}) \in Nat
    BY <2>2, <2>3, FS_CardinalityType
  <2> QED BY <1>1, <2>2, <2>3, <2>4
<1>4. PICK m \in I : \A k \in I : m <= k
  <2>1. I \subseteq Nat
    BY <1>2
  <2> HIDE DEF I
  <2> QED BY <1>3, <2>1, LeastNatural
<1> DEFINE Is(i) == /\ ~IsWildcard(p, Escapes[i])
                    /\ \A j \in 1..(i - 1) : IsWildcard(p, Escapes[j])
<1>5. m \in DOMAIN Escapes /\ Is(m)
  <2>1. ASSUME NEW j \in 1..(m - 1) PROVE IsWildcard(p, Escapes[j])
    <3>1. j \in DOMAIN Escapes /\ j \in Nat /\ m \in Nat /\ ~(m <= j)
      BY <1>2
    <3>2. j \notin I
      <4> HIDE DEF I
      <4> QED BY <1>4, <3>1
    <3> QED BY <3>1, <3>2
  <2> QED BY <2>1
<1>6. \E i \in DOMAIN Escapes : Is(i)
  BY <1>5
<1> DEFINE c == CHOOSE i \in DOMAIN Escapes : Is(i)
<1>7. c \in DOMAIN Escapes
  <2> HIDE DEF Is
  <2> QED BY <1>6
<1>8. Escape(p) = Escapes[c]
  BY DEF Escape
<1> HIDE DEF c
<1> QED BY <1>1, <1>2, <1>7, <1>8

\* The pattern of one key.
Wild(p, key, first) == IsWildcardAt(p, key, first)
Special(p, key) == key \in {Escape(p), percent, underscore}

LEMMA PatternOfIs ==
  ASSUME NEW p, NEW key, NEW first
  PROVE  /\ Wild(p, key, first)
            => PatternOf(p, key, first) = <<underscore>> \/ PatternOf(p, key, first) = <<percent>>
         /\ ~Wild(p, key, first) /\ Special(p, key) => PatternOf(p, key, first) = <<Escape(p), key>>
         /\ ~Wild(p, key, first) /\ ~Special(p, key) => PatternOf(p, key, first) = <<key>>
<1> DEFINE w == IsWildcardAt(p, key, first)
           s == key \in p.single
           plain == IF key \in {Escape(p), percent, underscore} THEN <<Escape(p), key>> ELSE <<key>>
<1>1. PatternOf(p, key, first) = CASE w /\ s -> <<underscore>> [] w /\ ~s -> <<percent>>
                                   [] ~w -> plain
  BY DEF PatternOf
<1> HIDE DEF w, s, plain
<1>2. w /\ s => PatternOf(p, key, first) = <<underscore>>
  BY <1>1
<1>3. w /\ ~s => PatternOf(p, key, first) = <<percent>>
  BY <1>1
<1>4. ~w => PatternOf(p, key, first) = plain
  BY <1>1
<1> QED BY <1>2, <1>3, <1>4 DEF Wild, Special, w, plain

\* The pattern of a run is those of its keys, and of a prefix what follows.
Parts(p, run) == [i \in DOMAIN run |-> PatternOf(p, run[i], i = 1)]

\* How a pattern is laid out: its parts, each at its place, and what follows them.
Lays(p, run, pattern, flat, at) ==
  /\ flat \in Text /\ Placed(Parts(p, run), flat, at)
  /\ pattern = flat \o (IF p.prefix THEN <<percent>> ELSE <<>>)

LEMMA PatternPlaces ==
  ASSUME NEW p, Escape(p) \in Scalar, NEW run \in Text
  PROVE  /\ Parts(p, run) \in Seq(Text) /\ Len(Parts(p, run)) = Len(run)
         /\ \A i \in 1..Len(run) : Parts(p, run)[i] = PatternOf(p, run[i], i = 1)
         /\ \E at, flat : Lays(p, run, LikePattern(p, run), flat, at)
<1>1. {percent, underscore} \subseteq Scalar
  BY TableDataAssumption
<1>2. DOMAIN run = 1..Len(run) /\ Len(run) \in Nat /\ \A i \in 1..Len(run) : run[i] \in Scalar
  BY TextIsSequence
<1>3. ASSUME NEW i \in 1..Len(run) PROVE PatternOf(p, run[i], i = 1) \in Text
  <2>1. /\ <<underscore>> \in Seq(Scalar) /\ <<percent>> \in Seq(Scalar)
        /\ <<Escape(p), run[i]>> \in Seq(Scalar) /\ <<run[i]>> \in Seq(Scalar)
    BY <1>1, <1>2
  <2> DEFINE first == i = 1
             key == run[i]
  <2>2. \/ PatternOf(p, key, first) = <<underscore>> \/ PatternOf(p, key, first) = <<percent>>
        \/ PatternOf(p, key, first) = <<Escape(p), key>> \/ PatternOf(p, key, first) = <<key>>
    <3> HIDE DEF first, key
    <3> QED BY PatternOfIs
  <2> QED BY <2>1, <2>2 DEF Text
<1> DEFINE q == Parts(p, run)
<1>4. q = [i \in 1..Len(run) |-> PatternOf(p, run[i], i = 1)]
  BY <1>2 DEF Parts
<1>5. q \in [1..Len(run) -> Text]
  BY <1>3, <1>4
<1>6. \A i \in 1..Len(run) : q[i] = PatternOf(p, run[i], i = 1)
  BY <1>4
<1> HIDE DEF q
<1>7. q \in Seq(Text) /\ Len(q) = Len(run)
  BY <1>2, <1>5, IsASeq
<1>8. q \in Seq(Seq(Scalar))
  BY <1>7 DEF Text
<1>9. PICK at : Placed(q, FlattenSeq(q), at)
  BY <1>8, PlacesExist
<1>10. FlattenSeq(q) \in Text
  BY <1>8, FlattenType DEF Text
<1>11. LikePattern(p, run) = FlattenSeq(q) \o (IF p.prefix THEN <<percent>> ELSE <<>>)
  BY DEF LikePattern, q, Parts
<1>12. Lays(p, run, LikePattern(p, run), FlattenSeq(q), at)
  BY <1>9, <1>10, <1>11 DEF Lays, q
<1> QED BY <1>6, <1>7, <1>12 DEF q

\* Where what follows the keys of a run begins.
LEMMA PatternEnds ==
  ASSUME NEW p, Escape(p) \in Scalar, NEW run \in Text, NEW at, NEW flat, NEW pattern,
         Lays(p, run, pattern, flat, at)
  PROVE  /\ Len(pattern) = Len(flat) + (IF p.prefix THEN 1 ELSE 0) /\ Len(flat) \in Nat
         /\ Len(pattern) \in Nat /\ pattern \in Text
         /\ at[Len(run) + 1] = Len(flat) + 1 /\ at[1] = 1
         /\ p.prefix => pattern[Len(flat) + 1] = percent
         /\ \A k \in 1..Len(flat) : pattern[k] = flat[k]
         /\ Len(run) \in Nat /\ DOMAIN run = 1..Len(run)
<1>0. /\ flat \in Text /\ Placed(Parts(p, run), flat, at)
      /\ pattern = flat \o (IF p.prefix THEN <<percent>> ELSE <<>>)
      /\ Len(Parts(p, run)) = Len(run)
  BY PatternPlaces DEF Lays
<1>1. Len(run) \in Nat /\ DOMAIN run = 1..Len(run) /\ flat \in Seq(Scalar)
  BY <1>0, TextIsSequence DEF Text
<1>2. percent \in Scalar
  BY TableDataAssumption
<1>3. at[Len(run) + 1] = Len(flat) + 1 /\ at[1] = 1
  BY <1>0 DEF Placed
<1>4. CASE p.prefix
  <2>1. pattern = flat \o <<percent>> /\ <<percent>> \in Seq(Scalar)
        /\ Len(<<percent>>) = 1 /\ <<percent>>[1] = percent
    BY <1>0, <1>2, <1>4
  <2>2. /\ pattern \in Seq(Scalar) /\ Len(pattern) = Len(flat) + 1 /\ Len(flat) \in Nat
        /\ \A k \in 1..Len(flat) : pattern[k] = flat[k]
        /\ pattern[Len(flat) + 1] = percent
    BY <1>1, <2>1, ConcatProperties, LenProperties
  <2> QED BY <1>1, <1>3, <1>4, <2>2 DEF Text
<1>5. CASE ~p.prefix
  <2>1. pattern = flat \o <<>>
    BY <1>0, <1>5
  <2>2. pattern = flat /\ Len(flat) \in Nat
    BY <1>1, <2>1, ConcatEmptySeq, LenProperties
  <2> QED BY <1>1, <1>3, <1>5, <2>2 DEF Text
<1> QED BY <1>4, <1>5

\* What LIKE takes of one key: that key, unless it is a wildcard.
LEMMA KeyMatches ==
  ASSUME NEW p, Escape(p) \in Scalar \ {percent, underscore}, NEW run \in Text,
         NEW text \in Text, NEW pattern, NEW flat, NEW at, NEW from,
         Lays(p, run, pattern, flat, at), MatchesFrom(text, pattern, Escape(p), from),
         NEW i \in 1..Len(run)
  PROVE  LET rest == from[at[i + 1]]
         IN /\ ~Wild(p, run[i], i = 1)
               => from[at[i]] = {j \in 1..Len(text) : text[j] = run[i] /\ j + 1 \in rest}
            /\ Wild(p, run[i], i = 1)
               => {j \in 1..Len(text) : j + 1 \in rest} \subseteq from[at[i]]
<1> DEFINE q == Parts(p, run)
           E == Escape(p)
           a == at[i]
           b == at[i + 1]
           key == run[i]
           part == PatternOf(p, run[i], i = 1)
           P == Len(pattern)
           T == Len(text)
           rest == from[b]
<1>1. /\ q \in Seq(Text) /\ Len(q) = Len(run) /\ q[i] = part /\ Len(run) \in Nat
      /\ key \in Scalar
  BY PatternPlaces, TextIsSequence
<1>2. flat \in Text /\ Placed(q, flat, at)
  BY DEF Lays
<1>3. /\ P = Len(flat) + (IF p.prefix THEN 1 ELSE 0) /\ Len(flat) \in Nat /\ P \in Nat
      /\ \A k \in 1..Len(flat) : pattern[k] = flat[k]
  BY PatternEnds
<1>4. /\ a \in 1..(Len(flat) + 1) /\ b \in 1..(Len(flat) + 1)
      /\ b = a + Len(part)
      /\ \A j \in 1..Len(part) : flat[a + (j - 1)] = part[j]
  <2>1. /\ at \in [1..(Len(q) + 1) -> 1..(Len(flat) + 1)]
        /\ at[i + 1] = at[i] + Len(q[i])
        /\ \A j \in 1..Len(q[i]) : flat[at[i] + (j - 1)] = q[i][j]
    BY <1>1, <1>2 DEF Placed
  <2>2. i \in 1..(Len(q) + 1) /\ i + 1 \in 1..(Len(q) + 1)
    BY <1>1
  <2> HIDE DEF q, part
  <2> QED BY <1>1, <2>1, <2>2
<1>5. T \in Nat /\ \A j \in 1..T : text[j] \in Scalar
  BY TextIsSequence
<1>6. /\ from \in [1..(P + 1) -> SUBSET (1..(T + 1))]
      /\ \A k \in 1..P :
           /\ Escapes_(pattern, E, k)
              => from[k] = {j \in 1..T : text[j] = pattern[k + 1] /\ j + 1 \in from[k + 2]}
           /\ ~Escapes_(pattern, E, k) /\ pattern[k] = percent
              => from[k] = {j \in 1..(T + 1) : \E l \in from[k + 1] : j <= l}
           /\ ~Escapes_(pattern, E, k) /\ pattern[k] # percent
              => from[k] = {j \in 1..T : pattern[k] \in {underscore, text[j]}
                                         /\ j + 1 \in from[k + 1]}
  BY DEF MatchesFrom
<1>7. percent # underscore
  BY TableDataAssumption
<1> HIDE DEF q, part, a, b, P, T, E
<1>8. ASSUME NEW x, part = <<x>>, x # E
      PROVE  /\ b = a + 1 /\ a \in 1..P
             /\ x = percent => from[a] = {j \in 1..(T + 1) : \E l \in rest : j <= l}
             /\ x # percent => from[a] = {j \in 1..T : x \in {underscore, text[j]} /\ j + 1 \in rest}
  <2>1. Len(part) = 1 /\ part[1] = x
    BY <1>8
  <2>2. b = a + 1 /\ a \in 1..P /\ a \in 1..Len(flat)
    BY <1>3, <1>4, <2>1
  <2>3. pattern[a] = x
    BY <1>3, <1>4, <2>1, <2>2
  <2>4. ~Escapes_(pattern, E, a)
    BY <1>8, <2>3 DEF Escapes_
  <2>5. CASE x = percent
    BY <1>6, <2>2, <2>3, <2>4, <2>5
  <2>6. CASE x # percent
    BY <1>6, <2>2, <2>3, <2>4, <2>6
  <2> QED BY <2>2, <2>5, <2>6
<1>9. CASE Wild(p, key, i = 1)
  <2>1. part = <<underscore>> \/ part = <<percent>>
    BY <1>9, PatternOfIs DEF part
  <2>2. CASE part = <<underscore>>
    <3>1. from[a] = {j \in 1..T : underscore \in {underscore, text[j]} /\ j + 1 \in rest}
      BY <1>7, <1>8, <2>2 DEF E
    <3>2. {j \in 1..T : j + 1 \in rest} \subseteq from[a]
      BY <3>1
    <3> QED BY <1>9, <3>2 DEF a, b, T
  <2>3. CASE part = <<percent>>
    <3>1. from[a] = {j \in 1..(T + 1) : \E l \in rest : j <= l}
      BY <1>8, <2>3 DEF E
    <3>2. ASSUME NEW j \in 1..T, j + 1 \in rest PROVE j \in from[a]
      <4>1. j \in 1..(T + 1) /\ j <= j + 1
        BY <1>5
      <4> QED BY <3>1, <3>2, <4>1
    <3>3. {j \in 1..T : j + 1 \in rest} \subseteq from[a]
      BY <3>2
    <3> QED BY <1>9, <3>3 DEF a, b, T
  <2> QED BY <2>1, <2>2, <2>3
<1>10. CASE ~Wild(p, key, i = 1) /\ Special(p, key)
  <2>1. part = <<E, key>>
    BY <1>10, PatternOfIs DEF part, E
  <2>2. Len(part) = 2 /\ part[1] = E /\ part[2] = key
    BY <2>1
  <2>3. b = a + 2 /\ a \in 1..P /\ a < P /\ a \in 1..Len(flat) /\ a + 1 \in 1..Len(flat)
    BY <1>3, <1>4, <2>2
  <2>4. pattern[a] = E /\ pattern[a + 1] = key
    <3>1. flat[a + (1 - 1)] = part[1] /\ flat[a + (2 - 1)] = part[2]
      BY <1>4, <2>2
    <3>2. a + (1 - 1) = a /\ a + (2 - 1) = a + 1
      BY <2>3
    <3> QED BY <1>3, <2>2, <2>3, <3>1, <3>2
  <2>5. Escapes_(pattern, E, a)
    BY <2>3, <2>4 DEF Escapes_, P
  <2>6. from[a] = {j \in 1..T : text[j] = key /\ j + 1 \in rest}
    BY <1>6, <2>3, <2>4, <2>5
  <2> QED BY <1>10, <2>6 DEF a, b, T
<1>11. CASE ~Wild(p, key, i = 1) /\ ~Special(p, key)
  <2>1. part = <<key>> /\ key # E /\ key # percent /\ key # underscore
    BY <1>11, PatternOfIs DEF part, Special, E
  <2>2. from[a] = {j \in 1..T : key \in {underscore, text[j]} /\ j + 1 \in rest}
    BY <1>8, <2>1
  <2>3. from[a] = {j \in 1..T : text[j] = key /\ j + 1 \in rest}
    BY <2>1, <2>2
  <2> QED BY <1>11, <2>3 DEF a, b, T
<1> QED BY <1>9, <1>10, <1>11

\* A run finds itself.
LEMMA LikeItself ==
  ASSUME NEW p, Escape(p) \in Scalar \ {percent, underscore}, NEW run \in Text
  PROVE  Like(run, LikePattern(p, run), Escape(p))
<1> DEFINE n == Len(run)
           E == Escape(p)
           pattern == LikePattern(p, run)
<1>1. n \in Nat /\ DOMAIN run = 1..n
  BY TextIsSequence DEF Text
<1>3. PICK at, flat : Lays(p, run, pattern, flat, at)
  BY PatternPlaces
<1>4. /\ Len(pattern) = Len(flat) + (IF p.prefix THEN 1 ELSE 0) /\ Len(flat) \in Nat
      /\ Len(pattern) \in Nat /\ at[n + 1] = Len(flat) + 1 /\ at[1] = 1
      /\ p.prefix => pattern[Len(flat) + 1] = percent
  BY <1>3, PatternEnds
<1> HIDE DEF pattern
<1>5. PICK from : /\ MatchesFrom(run, pattern, E, from)
                  /\ Like(run, pattern, E) <=> 1 \in from[1]
  BY <1>1, <1>4, LikeIs
<1>6. n + 1 \in from[at[n + 1]]
  <2>1. /\ from[Len(pattern) + 1] = {n + 1}
        /\ \A k \in 1..Len(pattern) : ~Escapes_(pattern, E, k) /\ pattern[k] = percent
             => from[k] = {j \in 1..(n + 1) : \E l \in from[k + 1] : j <= l}
    BY <1>5 DEF MatchesFrom
  <2>2. CASE p.prefix
    <3> DEFINE k == Len(pattern)
    <3>1. k = Len(flat) + 1 /\ k \in 1..k /\ pattern[k] = percent
      BY <1>4, <2>2
    <3>2. ~Escapes_(pattern, E, k)
      BY <1>4 DEF Escapes_
    <3>3. from[k] = {j \in 1..(n + 1) : \E l \in {n + 1} : j <= l}
      BY <2>1, <3>1, <3>2
    <3> HIDE DEF k
    <3> QED BY <1>1, <1>4, <3>1, <3>3
  <2>3. CASE ~p.prefix
    BY <1>4, <2>1, <2>3
  <2> QED BY <2>2, <2>3
<1> DEFINE K == {k \in Nat : k <= n => (n + 1) - k \in from[at[(n + 1) - k]]}
<1>7. 0 \in K
  BY <1>1, <1>6
<1>8. ASSUME NEW k \in Nat, k \in K PROVE k + 1 \in K
  <2> SUFFICES ASSUME k + 1 <= n PROVE (n + 1) - (k + 1) \in from[at[(n + 1) - (k + 1)]]
    BY DEF K
  <2> DEFINE i == (n + 1) - (k + 1)
  <2>1. i \in 1..n /\ i + 1 = (n + 1) - k /\ k <= n
    BY <1>1
  <2>2. i + 1 \in from[at[i + 1]]
    BY <1>8, <2>1
  <2> HIDE DEF i, K, n
  <2>3. LET rest == from[at[i + 1]]
        IN /\ ~Wild(p, run[i], i = 1)
              => from[at[i]] = {j \in 1..Len(run) : run[j] = run[i] /\ j + 1 \in rest}
           /\ Wild(p, run[i], i = 1)
              => {j \in 1..Len(run) : j + 1 \in rest} \subseteq from[at[i]]
    BY <1>3, <1>5, <2>1, KeyMatches DEF n, E
  <2>4. i \in from[at[i]]
    BY <2>1, <2>2, <2>3 DEF n
  <2> QED BY <2>4 DEF i
<1> HIDE DEF K
<1>9. n \in K
  BY <1>1, <1>7, <1>8, Induction
<1>10. 1 \in from[at[1]]
  BY <1>1, <1>9 DEF K
<1> QED BY <1>4, <1>5, <1>10 DEF pattern

\* Without wildcards and prefixes it finds nothing else.
LEMMA LikeNoOther ==
  ASSUME NEW p, Escape(p) \in Scalar \ {percent, underscore}, NEW run \in Text, ~p.prefix,
         \A i \in 1..Len(run) : ~Wild(p, run[i], i = 1),
         NEW text \in Text, Like(text, LikePattern(p, run), Escape(p))
  PROVE  text = run
<1> DEFINE n == Len(run)
           T == Len(text)
           E == Escape(p)
           pattern == LikePattern(p, run)
<1>1. n \in Nat /\ DOMAIN run = 1..n /\ T \in Nat /\ DOMAIN text = 1..T
  BY TextIsSequence DEF Text
<1>3. PICK at, flat : Lays(p, run, pattern, flat, at)
  BY PatternPlaces
<1>4. /\ Len(pattern) = Len(flat) /\ Len(flat) \in Nat
      /\ Len(pattern) \in Nat /\ at[n + 1] = Len(flat) + 1 /\ at[1] = 1
  BY <1>3, PatternEnds
<1> HIDE DEF pattern
<1>5. PICK from : /\ MatchesFrom(text, pattern, E, from)
                  /\ Like(text, pattern, E) <=> 1 \in from[1]
  BY <1>1, <1>4, LikeIs
<1>6. from[at[n + 1]] = {T + 1}
  BY <1>4, <1>5 DEF MatchesFrom
<1> DEFINE Rest(i) == \A j \in from[at[i]] :
                        /\ j \in 1..(T + 1) /\ (T + 1) - j = (n + 1) - i
                        /\ \A k \in i..n : text[j + (k - i)] = run[k]
           K == {k \in Nat : k <= n => Rest((n + 1) - k)}
<1>7. 0 \in K
  <2>1. Rest(n + 1)
    BY <1>1, <1>6
  <2>2. (n + 1) - 0 = n + 1
    BY <1>1
  <2> HIDE DEF Rest
  <2> QED BY <2>1, <2>2
<1>8. ASSUME NEW k \in Nat, k \in K PROVE k + 1 \in K
  <2> SUFFICES ASSUME k + 1 <= n PROVE Rest((n + 1) - (k + 1))
    BY DEF K
  <2> DEFINE i == (n + 1) - (k + 1)
  <2>1. i \in 1..n /\ i + 1 = (n + 1) - k /\ k <= n
    BY <1>1
  <2>2. Rest(i + 1)
    BY <1>8, <2>1
  <2>3. from[at[i]] = {j \in 1..T : text[j] = run[i] /\ j + 1 \in from[at[i + 1]]}
    <3> HIDE DEF i, K, Rest
    <3> QED BY <1>3, <1>5, <2>1, KeyMatches DEF n, E
  <2> HIDE DEF i, K
  <2>4. ASSUME NEW j \in from[at[i]]
        PROVE  /\ j \in 1..(T + 1) /\ (T + 1) - j = (n + 1) - i
               /\ \A l \in i..n : text[j + (l - i)] = run[l]
    <3>1. j \in 1..T /\ text[j] = run[i] /\ j + 1 \in from[at[i + 1]]
      BY <2>3
    <3>2. /\ (T + 1) - (j + 1) = (n + 1) - (i + 1)
          /\ \A l \in (i + 1)..n : text[(j + 1) + (l - (i + 1))] = run[l]
      BY <2>2, <3>1
    <3>3. ASSUME NEW l \in i..n PROVE text[j + (l - i)] = run[l]
      <4>1. CASE l = i
        <5>1. j + (l - i) = j
          BY <1>1, <2>1, <3>1, <4>1
        <5> QED BY <3>1, <4>1, <5>1
      <4>2. CASE l # i
        <5>1. l \in (i + 1)..n /\ (j + 1) + (l - (i + 1)) = j + (l - i)
          BY <1>1, <2>1, <3>1, <4>2
        <5> QED BY <3>2, <5>1
      <4> QED BY <4>1, <4>2
    <3>4. j \in 1..(T + 1) /\ (T + 1) - j = (n + 1) - i
      BY <1>1, <2>1, <3>1, <3>2
    <3> QED BY <3>3, <3>4
  <2>5. Rest(i)
    BY <2>4
  <2> QED BY <2>5 DEF i
<1> HIDE DEF K
<1>9. n \in K
  BY <1>1, <1>7, <1>8, Induction
<1>10. Rest(1)
  <2>1. (n + 1) - n = 1
    BY <1>1
  <2> HIDE DEF Rest
  <2> QED BY <1>9, <2>1 DEF K
<1>11. 1 \in from[at[1]]
  BY <1>4, <1>5 DEF pattern
<1>12. (T + 1) - 1 = (n + 1) - 1 /\ \A k \in 1..n : text[1 + (k - 1)] = run[k]
  BY <1>10, <1>11
<1>13. T = n /\ \A k \in 1..n : text[k] = run[k]
  <2>1. T = n
    <3>1. T \in Nat /\ n \in Nat /\ (T + 1) - 1 = (n + 1) - 1
      BY <1>1, <1>12
    <3> HIDE DEF T, n
    <3> QED BY <3>1
  <2>2. ASSUME NEW k \in 1..n PROVE text[k] = run[k]
    <3>1. 1 + (k - 1) = k
      OBVIOUS
    <3> QED BY <1>12, <3>1
  <2> QED BY <2>1, <2>2
<1>14. run \in Seq(Scalar) /\ text \in Seq(Scalar)
  BY DEF Text
<1> QED BY <1>13, <1>14, SeqEqual

\* A lookup answers each row whose code the pattern matches, and no other code.
LEMMA LookupFinds ==
  ASSUME NEW rows \in Seq(Row), NEW p, NEW run
  PROVE  LET answer == Range(Lookup(p, rows, <<>>, run))
             agrees(keys) == Like(keys, LikePattern(p, run), Escape(p))
         IN /\ \A i \in 1..Len(rows) : agrees(rows[i].keys)
                 => Pair(rows[i]) \in {Pair(m) : m \in answer}
            /\ \A m \in answer : \E i \in 1..Len(rows) :
                 agrees(rows[i].keys) /\ m.keys = rows[i].keys
<1> DEFINE all == rows \o <<>>
           agrees(keys) == Like(keys, LikePattern(p, run), Escape(p))
           good == {r \in Range(all) : agrees(r.keys)}
           found == Only(all, good)
           at == [i \in DOMAIN found |-> i]
           fresh == {i \in DOMAIN found : FirstOfPair(found, i)}
           firsts == Only(at, fresh)
           list == [i \in DOMAIN firsts |-> Merged(found, found[firsts[i]])]
<1>1. Lookup(p, rows, <<>>, run) = list
  BY DEF Lookup
<1> HIDE DEF agrees
<1>2. all = rows /\ Len(rows) \in Nat
  BY ConcatEmptySeq
<1>3. Range(all) = {rows[i] : i \in 1..Len(rows)}
  BY <1>2 DEF Range
<1> HIDE DEF all, good
<1>4. found \in Seq(Row \cap good) /\ Keeps(found, rows, good)
  BY <1>2, OnlyIs
<1> HIDE DEF found
<1>5. /\ found \in Seq(Row) /\ DOMAIN found = 1..Len(found) /\ Len(found) \in Nat
      /\ \A i \in 1..Len(found) : found[i] \in Row /\ found[i] \in good
  <2>1. /\ DOMAIN found = 1..Len(found) /\ Len(found) \in Nat
        /\ \A i \in 1..Len(found) : found[i] \in Row /\ found[i] \in good
    BY <1>4
  <2>2. found \in Seq(Row)
    BY <1>4
  <2> QED BY <2>1, <2>2
<1>6. at \in Seq(1..Len(found)) /\ Len(at) = Len(found) /\ \A i \in 1..Len(found) : at[i] = i
  <2>1. at \in [1..Len(found) -> 1..Len(found)] /\ \A i \in 1..Len(found) : at[i] = i
    BY <1>5
  <2> HIDE DEF at
  <2> QED BY <1>5, <2>1, IsASeq
<1> HIDE DEF at, fresh
<1>7. firsts \in Seq((1..Len(found)) \cap fresh) /\ Keeps(firsts, at, fresh)
  BY <1>6, OnlyIs
<1> HIDE DEF firsts
<1>8. /\ Len(firsts) \in Nat /\ DOMAIN firsts = 1..Len(firsts)
      /\ \A i \in 1..Len(firsts) : firsts[i] \in 1..Len(found)
  BY <1>7
<1>9. ASSUME NEW i \in 1..Len(found)
      PROVE  SamePair(Merged(found, found[i]), found[i])
  <2>1. RowOf(Text) = Row /\ Text \in SUBSET Text
    BY RowKinds
  <2>2. found \in Seq(RowOf(Text)) /\ i \in DOMAIN found
    BY <1>5, <2>1
  <2> QED BY <2>1, <2>2, MergedType
<1>10. Range(list) = {Merged(found, found[firsts[k]]) : k \in 1..Len(firsts)}
  BY <1>8 DEF Range
<1> HIDE DEF list
<1>11. ASSUME NEW i \in 1..Len(rows), agrees(rows[i].keys)
       PROVE  Pair(rows[i]) \in {Pair(m) : m \in Range(list)}
  <2>1. rows[i] \in good
    BY <1>3, <1>11 DEF good
  <2>2. PICK k0 \in 1..Len(found) : found[k0] = rows[i]
    BY <1>4, <2>1 DEF Keeps
  <2> DEFINE J == {k \in 1..Len(found) : SamePair(found[k], rows[i])}
  <2>3. k0 \in J
    BY <2>2 DEF SamePair
  <2>4. PICK k \in J : \A l \in J : k <= l
    <3>1. J \subseteq Nat
      OBVIOUS
    <3> HIDE DEF J
    <3> QED BY <2>3, <3>1, LeastNatural
  <2>5. FirstOfPair(found, k)
    <3>1. ASSUME NEW j \in 1..(k - 1), SamePair(found[j], found[k]) PROVE FALSE
      <4>1. j \in 1..Len(found) /\ j \in Nat /\ k \in Nat /\ ~(k <= j)
        BY <1>5
      <4>2. j \in J
        BY <3>1, <4>1 DEF SamePair
      <4> HIDE DEF J
      <4> QED BY <2>4, <4>1, <4>2
    <3> QED BY <3>1 DEF FirstOfPair
  <2>6. at[k] \in fresh
    BY <1>5, <1>6, <2>5 DEF fresh
  <2>7. PICK l \in 1..Len(firsts) : firsts[l] = k
    BY <1>6, <1>7, <2>6 DEF Keeps
  <2> DEFINE m == Merged(found, found[k])
  <2>8. m \in Range(list)
    BY <1>10, <2>7
  <2>9. SamePair(m, found[k]) /\ SamePair(found[k], rows[i])
    BY <1>9
  <2> HIDE DEF m
  <2>10. Pair(rows[i]) = Pair(m)
    BY <2>9 DEF SamePair, Pair
  <2> QED BY <2>8, <2>10
<1>12. ASSUME NEW m \in Range(list)
       PROVE  \E i \in 1..Len(rows) : agrees(rows[i].keys) /\ m.keys = rows[i].keys
  <2>1. PICK k \in 1..Len(firsts) : m = Merged(found, found[firsts[k]])
    BY <1>10
  <2>2. firsts[k] \in 1..Len(found)
    BY <1>8
  <2>3. m.keys = found[firsts[k]].keys
    BY <1>9, <2>1, <2>2 DEF SamePair
  <2>4. found[firsts[k]] \in good
    BY <1>5, <2>2
  <2>5. found[firsts[k]] \in {rows[i] : i \in 1..Len(rows)} /\ agrees(found[firsts[k]].keys)
    BY <1>3, <2>4 DEF good
  <2> QED BY <2>3, <2>5
<1> QED BY <1>1, <1>11, <1>12 DEF agrees

-------------------------------------------------------------------------------
(* The prompts, written and read back.                                     *)

\* The members of a finite set of naturals, lowest first.
Increasing(q, K) ==
  /\ q \in [1..Cardinality(K) -> K]
  /\ \A i, j \in 1..Cardinality(K) : i < j => q[i] < q[j]

LEMMA OrderExists ==
  ASSUME NEW K, IsFiniteSet(K), K \subseteq Nat
  PROVE  \E q : Increasing(q, K)
<1> DEFINE Sets == {M \in SUBSET Nat : IsFiniteSet(M)}
           T == {n \in Nat : \A M \in Sets : Cardinality(M) = n => \E q : Increasing(q, M)}
<1>1. 0 \in T
  <2>1. ASSUME NEW M \in Sets, Cardinality(M) = 0 PROVE \E q : Increasing(q, M)
    <3> DEFINE q == [i \in 1..0 |-> i]
    <3>1. q \in [1..0 -> M] /\ 1..0 = {}
      OBVIOUS
    <3> HIDE DEF q
    <3>2. Increasing(q, M)
      BY <2>1, <3>1 DEF Increasing
    <3> QED BY <3>2
  <2> QED BY <2>1
<1>2. ASSUME NEW n \in Nat, n \in T PROVE n + 1 \in T
  <2>1. ASSUME NEW M \in Sets, Cardinality(M) = n + 1 PROVE \E q : Increasing(q, M)
    <3>1. IsFiniteSet(M) /\ M \subseteq Nat
      OBVIOUS
    <3>2. PICK f \in [1..(n + 1) -> M] : \A x \in M : \E i \in 1..(n + 1) : f[i] = x
      <4>1. ExistsBijection(1..(n + 1), M)
        BY <2>1, <3>1, FS_CardinalityType
      <4> QED BY <4>1 DEF ExistsBijection, Bijection, Surjection, Injection
    <3>3. PICK a \in 1..(n + 1) : \A j \in 1..(n + 1) : f[j] <= f[a]
      <4> DEFINE N == n + 1
                 I == 1..N
      <4>1. N \in Nat /\ 1 \in I
        OBVIOUS
      <4>2. f \in [1..N -> Int]
        <5>1. M \subseteq Int
          BY <3>1
        <5> QED BY <3>2, <5>1
      <4>3. I \in SUBSET (1..N) /\ I # {}
        BY <4>1
      <4> HIDE DEF N, I
      <4>4. \E i \in I : \A j \in I : f[j] <= f[i]
        BY <4>1, <4>2, <4>3, LargestOf
      <4> QED BY <4>4 DEF I, N
    <3> DEFINE top == f[a]
               L == M \ {top}
    <3>4. top \in M /\ \A x \in M : x <= top
      BY <3>2, <3>3
    <3> HIDE DEF top
    <3>5. L \in Sets /\ Cardinality(L) = n
      <4>1. IsFiniteSet(L) /\ Cardinality(L) = Cardinality(M) - 1
        BY <3>1, <3>4, FS_RemoveElement
      <4>2. L \in SUBSET Nat
        BY <3>1
      <4>3. (n + 1) - 1 = n
        OBVIOUS
      <4> HIDE DEF L
      <4> QED BY <2>1, <4>1, <4>2, <4>3
    <3>6. PICK p : Increasing(p, L)
      BY <1>2, <3>5
    <3>7. p \in [1..n -> L] /\ \A i, j \in 1..n : i < j => p[i] < p[j]
      BY <3>5, <3>6 DEF Increasing
    <3> DEFINE q == [i \in 1..(n + 1) |-> IF i = n + 1 THEN top ELSE p[i]]
    <3>8. q \in [1..(n + 1) -> M]
      BY <3>4, <3>7
    <3>9. ASSUME NEW i \in 1..(n + 1), NEW j \in 1..(n + 1), i < j PROVE q[i] < q[j]
      <4>1. i \in 1..n /\ i # n + 1 /\ q[i] = p[i] /\ p[i] \in L
        BY <3>7, <3>9
      <4>2. CASE j = n + 1
        <5>1. q[j] = top /\ p[i] \in Nat /\ top \in Nat /\ p[i] # top /\ p[i] <= top
          BY <3>1, <3>4, <4>1, <4>2
        <5> QED BY <4>1, <5>1
      <4>3. CASE j # n + 1
        <5>1. j \in 1..n /\ q[j] = p[j]
          BY <4>3
        <5> QED BY <3>7, <3>9, <4>1, <5>1
      <4> QED BY <4>2, <4>3
    <3> HIDE DEF q
    <3>10. Increasing(q, M)
      BY <2>1, <3>8, <3>9 DEF Increasing
    <3> QED BY <3>10
  <2> QED BY <2>1
<1> HIDE DEF T
<1>3. Nat \subseteq T
  BY <1>1, <1>2, Induction
<1>4. Cardinality(K) \in T
  BY <1>3, FS_CardinalityType
<1> QED BY <1>4 DEF T

\* It lists each of them, once.
LEMMA OrderIs ==
  ASSUME NEW K, IsFiniteSet(K), K \subseteq Nat, NEW q, Increasing(q, K)
  PROVE  /\ Cardinality(K) \in Nat
         /\ \A i, j \in 1..Cardinality(K) : q[i] = q[j] => i = j
         /\ \A x \in K : \E i \in 1..Cardinality(K) : q[i] = x
<1> DEFINE n == Cardinality(K)
<1>1. n \in Nat
  BY FS_CardinalityType
<1>2. q \in [1..n -> K] /\ \A i, j \in 1..n : i < j => q[i] < q[j]
  BY DEF Increasing
<1> HIDE DEF n
<1>3. ASSUME NEW i \in 1..n, NEW j \in 1..n, q[i] = q[j] PROVE i = j
  <2>1. q[i] \in Nat /\ q[j] \in Nat
    BY <1>2
  <2>2. ~(i < j) /\ ~(j < i)
    BY <1>2, <1>3, <2>1
  <2> QED BY <2>2
<1>4. q \in Injection(1..n, K)
  BY <1>2, <1>3 DEF Injection, IsInjective
<1>5. IsFiniteSet(1..n) /\ Cardinality(1..n) = n
  BY <1>1, FS_Interval
<1>6. q \in Surjection(1..n, K)
  BY <1>4, <1>5, FS_Injection DEF n
<1> QED BY <1>1, <1>3, <1>6 DEF n, Surjection

\* strings[i] is what is quoted in a literal from i on.
Quoted(literal, strings) ==
  LET n == Len(literal)
      ends(i) == {j \in (i + 1)..n : literal[j] = literal[i]}
  IN /\ strings \in [1..(n + 1) -> Seq(Text)]
     /\ strings[n + 1] = <<>>
     /\ \A i \in 1..n : literal[i] \notin {quote, apostrophe} => strings[i] = strings[i + 1]
     /\ \A i \in 1..n : literal[i] \in {quote, apostrophe} =>
          \A j \in ends(i) : (\A e \in ends(i) : j <= e) =>
            strings[i] = <<SubSeq(literal, i + 1, j - 1)>> \o strings[j + 1]

LEMMA QuotedStringsIs ==
  ASSUME NEW literal \in Text
  PROVE  \E strings : Quoted(literal, strings) /\ QuotedStrings(literal) = strings[1]
<1> DEFINE n == Len(literal)
           D == 1..(n + 1)
           V == Seq(Text)
           ends(i) == {j \in (i + 1)..n : literal[j] = literal[i]}
           step(f, i) ==
             IF i > n THEN <<>>
             ELSE CASE literal[i] \notin {quote, apostrophe} -> f[i + 1]
                    [] literal[i] \in {quote, apostrophe} /\ ends(i) = {} -> <<>>
                    [] OTHER -> LET j == CHOOSE e \in ends(i) : \A g \in ends(i) : e <= g
                                IN <<SubSeq(literal, i + 1, j - 1)>> \o f[j + 1]
           F(f) == [i \in D |-> step(f, i)]
           c == CHOOSE f : f = F(f)
           G == [f \in [D -> V] |-> F(f)]
           rank == [i \in D |-> (n + 1) - i]
           mark(i) == literal[i] \in {quote, apostrophe}
           first(i) == CHOOSE e \in ends(i) : \A g \in ends(i) : e <= g
<1>1. n \in Nat /\ DOMAIN literal = 1..n
  BY TextIsSequence DEF Text
<1>2. ASSUME NEW f, NEW i \in D
      PROVE  /\ i = n + 1 => step(f, i) = <<>>
             /\ i \in 1..n /\ ~mark(i) => step(f, i) = f[i + 1]
             /\ i \in 1..n /\ mark(i) /\ ends(i) = {} => step(f, i) = <<>>
             /\ i \in 1..n /\ mark(i) /\ ends(i) # {}
                => step(f, i) = <<SubSeq(literal, i + 1, first(i) - 1)>> \o f[first(i) + 1]
             /\ i \in 1..n \/ i = n + 1
  <2>1. (i \in 1..n \/ i = n + 1) /\ (i \in 1..n => ~(i > n)) /\ (i = n + 1 => i > n /\ i \notin 1..n)
    BY <1>1
  <2> DEFINE m == mark(i)
             E == ends(i)
             x == f[i + 1]
             y == <<SubSeq(literal, i + 1, first(i) - 1)>> \o f[first(i) + 1]
  <2>2. step(f, i) = IF i > n THEN <<>> ELSE CASE ~m -> x [] m /\ E = {} -> <<>> [] OTHER -> y
    OBVIOUS
  <2> HIDE DEF step, n, m, E, x, y
  <2>3. i = n + 1 => step(f, i) = <<>>
    BY <2>1, <2>2
  <2>4. i \in 1..n /\ ~m => step(f, i) = x
    BY <2>1, <2>2
  <2>5. i \in 1..n /\ m /\ E = {} => step(f, i) = <<>>
    BY <2>1, <2>2
  <2>6. i \in 1..n /\ m /\ E # {} => step(f, i) = y
    BY <2>1, <2>2
  <2> QED BY <2>1, <2>3, <2>4, <2>5, <2>6 DEF m, E, x, y
<1> HIDE DEF step
<1>3. ASSUME NEW i \in 1..n, ends(i) # {}
      PROVE  /\ first(i) \in ends(i) /\ \A g \in ends(i) : first(i) <= g
             /\ first(i) \in (i + 1)..n
  <2> DEFINE E == ends(i)
  <2>1. E \subseteq Nat /\ E \subseteq (i + 1)..n
    BY <1>1
  <2> HIDE DEF E
  <2>2. \E e \in E : \A g \in E : e <= g
    BY <1>3, <2>1, LeastNatural DEF E
  <2> DEFINE k == CHOOSE e \in E : \A g \in E : e <= g
  <2>3. k \in E /\ \A g \in E : k <= g
    BY <2>2
  <2>4. k = first(i)
    BY DEF E
  <2> HIDE DEF k
  <2> QED BY <2>1, <2>3, <2>4 DEF E
<1>4. <<>> \in V /\ \A t \in Text : \A s \in V : <<t>> \o s \in V
  <2>1. <<>> \in V
    OBVIOUS
  <2>2. ASSUME NEW t \in Text, NEW s \in V PROVE <<t>> \o s \in V
    <3>1. <<t>> \in Seq(Text)
      OBVIOUS
    <3> QED BY <3>1, ConcatProperties
  <2> QED BY <2>1, <2>2
<1>5. ASSUME NEW i \in 1..n, ends(i) # {}
      PROVE  SubSeq(literal, i + 1, first(i) - 1) \in Text /\ first(i) + 1 \in D
  <2>1. i + 1 \in Int /\ first(i) - 1 \in Int /\ i + 1 >= 1 /\ first(i) - 1 <= n /\ first(i) + 1 \in D
    <3>1. first(i) \in (i + 1)..n
      BY <1>3, <1>5
    <3> HIDE DEF first, n
    <3> QED BY <1>1, <3>1
  <2> HIDE DEF first
  <2> QED BY <2>1, SubText
<1> HIDE DEF first, V
<1>6. ASSUME NEW f \in [D -> V], NEW i \in D PROVE step(f, i) \in V
  <2>1. CASE i = n + 1
    BY <1>2, <1>4, <2>1
  <2>2. CASE i \in 1..n /\ ~mark(i)
    <3>1. i + 1 \in D
      BY <1>1, <2>2
    <3>2. step(f, i) = f[i + 1]
      BY <1>2, <2>2
    <3> QED BY <3>1, <3>2
  <2>3. CASE i \in 1..n /\ mark(i) /\ ends(i) = {}
    <3>1. step(f, i) = <<>>
      BY <1>2, <2>3
    <3> QED BY <1>4, <3>1
  <2>4. CASE i \in 1..n /\ mark(i) /\ ends(i) # {}
    <3>1. step(f, i) = <<SubSeq(literal, i + 1, first(i) - 1)>> \o f[first(i) + 1]
      BY <1>2, <2>4
    <3>2. SubSeq(literal, i + 1, first(i) - 1) \in Text /\ f[first(i) + 1] \in V
      BY <1>5, <2>4
    <3> QED BY <1>4, <3>1, <3>2
  <2> QED BY <1>2, <2>1, <2>2, <2>3, <2>4
<1>7. \A f \in [D -> V] : F(f) \in [D -> V] /\ \A i \in D : F(f)[i] = step(f, i)
  BY <1>6
<1>8. Yields(G, D, V)
  <2>1. \A f \in [D -> V] : G[f] = F(f)
    OBVIOUS
  <2> HIDE DEF F, G
  <2> QED BY <1>7, <2>1 DEF Yields
<1>9. AsksBelow(G, D, V, rank)
  <2>1. ASSUME NEW f \in [D -> V], NEW g \in [D -> V], NEW i \in D,
               \A y \in D : rank[y] < rank[i] => f[y] = g[y]
        PROVE  step(f, i) = step(g, i)
    <3>0. \A j \in D : j \in (i + 1)..(n + 1) => f[j] = g[j]
      <4> SUFFICES ASSUME NEW j \in D, j \in (i + 1)..(n + 1) PROVE f[j] = g[j]
        OBVIOUS
      <4>1. rank[j] < rank[i]
        BY <1>1
      <4> QED BY <2>1, <4>1
    <3>1. CASE i = n + 1
      BY <1>2, <3>1
    <3>2. CASE i \in 1..n /\ ~mark(i)
      <4>1. i + 1 \in D /\ i + 1 \in (i + 1)..(n + 1)
        BY <1>1, <3>2
      <4>2. step(f, i) = f[i + 1] /\ step(g, i) = g[i + 1]
        BY <1>2, <3>2
      <4> QED BY <3>0, <4>1, <4>2
    <3>3. CASE i \in 1..n /\ mark(i) /\ ends(i) = {}
      <4>1. step(f, i) = <<>> /\ step(g, i) = <<>>
        BY <1>2, <3>3
      <4> QED BY <4>1
    <3>4. CASE i \in 1..n /\ mark(i) /\ ends(i) # {}
      <4>1. /\ step(f, i) = <<SubSeq(literal, i + 1, first(i) - 1)>> \o f[first(i) + 1]
            /\ step(g, i) = <<SubSeq(literal, i + 1, first(i) - 1)>> \o g[first(i) + 1]
        BY <1>2, <3>4
      <4>2. first(i) + 1 \in D /\ first(i) + 1 \in (i + 1)..(n + 1)
        BY <1>1, <1>3, <1>5, <3>4
      <4>3. f[first(i) + 1] = g[first(i) + 1]
        BY <3>0, <4>2
      <4> QED BY <4>1, <4>3
    <3> QED BY <1>2, <3>1, <3>2, <3>3, <3>4
  <2>2. \A f \in [D -> V] : \A i \in D : G[f][i] = step(f, i)
    OBVIOUS
  <2> HIDE DEF G, rank, D
  <2> QED BY <2>1, <2>2 DEF AsksBelow
<1>10. \E f \in [D -> V] : f = G[f]
  <2>1. V # {} /\ n + 1 \in Nat
    BY <1>1, <1>4
  <2>2. rank \in [D -> 0..(n + 1)]
    <3>1. \A i \in D : (n + 1) - i \in 0..(n + 1)
      BY <1>1
    <3> QED BY <3>1
  <2> HIDE DEF G, rank, D, n
  <2> QED BY <1>8, <1>9, <2>1, <2>2, RecursionExists
<1>11. PICK h \in [D -> V] : h = G[h]
  BY <1>10
<1>12. h = F(h)
  BY <1>11
<1>13. c = F(c)
  <2> HIDE DEF F
  <2> QED BY <1>12
<1>14. QuotedStrings(literal) = c[1]
  BY DEF QuotedStrings, step
<1> HIDE DEF c
<1>15. \A i \in D : c[i] = step(c, i)
  BY <1>13
<1>16. c \in [D -> V]
  <2>2. \A i \in D : (\A j \in D : j > i => c[j] \in V) => c[i] \in V
    <3> SUFFICES ASSUME NEW i \in D, \A j \in D : j > i => c[j] \in V PROVE step(c, i) \in V
      BY <1>15
    <3> DEFINE d == [j \in D |-> IF j > i THEN c[j] ELSE <<>>]
    <3>1. d \in [D -> V]
      BY <1>4
    <3>2. \A j \in D : j \in (i + 1)..(n + 1) => d[j] = c[j]
      BY <1>1
    <3> HIDE DEF d
    <3>3. step(d, i) \in V
      BY <1>6, <3>1
    <3>4. step(d, i) = step(c, i)
      <4>1. CASE i = n + 1
        BY <1>2, <4>1
      <4>2. CASE i \in 1..n /\ ~mark(i)
        <5>1. i + 1 \in D /\ i + 1 \in (i + 1)..(n + 1)
          BY <1>1, <4>2
        <5>2. step(d, i) = d[i + 1] /\ step(c, i) = c[i + 1]
          BY <1>2, <4>2
        <5> QED BY <3>2, <5>1, <5>2
      <4>3. CASE i \in 1..n /\ mark(i) /\ ends(i) = {}
        <5>1. step(d, i) = <<>> /\ step(c, i) = <<>>
          BY <1>2, <4>3
        <5> QED BY <5>1
      <4>4. CASE i \in 1..n /\ mark(i) /\ ends(i) # {}
        <5>1. /\ step(d, i) = <<SubSeq(literal, i + 1, first(i) - 1)>> \o d[first(i) + 1]
              /\ step(c, i) = <<SubSeq(literal, i + 1, first(i) - 1)>> \o c[first(i) + 1]
          BY <1>2, <4>4
        <5>2. first(i) + 1 \in D /\ first(i) + 1 \in (i + 1)..(n + 1)
          BY <1>1, <1>3, <1>5, <4>4
        <5> QED BY <3>2, <5>1, <5>2
      <4> QED BY <1>2, <4>1, <4>2, <4>3, <4>4
    <3> QED BY <3>3, <3>4
  <2> DEFINE B == {i \in D : c[i] \notin V}
  <2>3. B = {}
    <3> SUFFICES ASSUME B # {} PROVE FALSE
      OBVIOUS
    <3> DEFINE C == {(n + 1) - i : i \in B}
    <3>1. C \subseteq Nat /\ C # {}
      BY <1>1
    <3>2. PICK k \in C : \A l \in C : k <= l
      <4> HIDE DEF C
      <4> QED BY <3>1, LeastNatural
    <3>3. PICK i \in B : k = (n + 1) - i
      OBVIOUS
    <3>4. \A j \in D : j > i => c[j] \in V
      <4> SUFFICES ASSUME NEW j \in D, j > i, c[j] \notin V PROVE FALSE
        OBVIOUS
      <4>1. (n + 1) - j \in C
        OBVIOUS
      <4>2. (n + 1) - i <= (n + 1) - j
        BY <3>2, <3>3, <4>1
      <4> QED BY <1>1, <4>2
    <3> QED BY <2>2, <3>4
  <2>4. \A i \in D : c[i] \in V
    BY <2>3
  <2> QED BY <1>13, <2>4
<1>17. Quoted(literal, c)
  <2>1. c[n + 1] = <<>>
    <3>1. n + 1 \in D
      BY <1>1
    <3>2. c[n + 1] = step(c, n + 1)
      BY <1>15, <3>1
    <3>3. step(c, n + 1) = <<>>
      BY <1>2, <3>1
    <3> QED BY <3>2, <3>3
  <2>2. ASSUME NEW i \in 1..n, literal[i] \notin {quote, apostrophe} PROVE c[i] = c[i + 1]
    <3>1. i \in D
      BY <1>1
    <3> QED BY <1>2, <1>15, <2>2, <3>1
  <2>3. ASSUME NEW i \in 1..n, literal[i] \in {quote, apostrophe}, NEW j \in ends(i),
               \A e \in ends(i) : j <= e
        PROVE  c[i] = <<SubSeq(literal, i + 1, j - 1)>> \o c[j + 1]
    <3>1. i \in D /\ ends(i) # {} /\ mark(i)
      BY <1>1, <2>3
    <3>2. first(i) \in ends(i) /\ first(i) <= j
      BY <1>3, <3>1
    <3>3. j <= first(i)
      BY <2>3, <3>2
    <3>4. first(i) = j
      BY <3>2, <3>3
    <3>5. c[i] = <<SubSeq(literal, i + 1, first(i) - 1)>> \o c[first(i) + 1]
      BY <1>2, <1>15, <3>1
    <3> QED BY <3>4, <3>5
  <2> QED BY <1>16, <2>1, <2>2, <2>3 DEF Quoted, V
<1> QED BY <1>14, <1>17

\* Of two sequences the second stands behind the first.
LEMMA ConcatIs ==
  ASSUME NEW S, NEW a \in Seq(S), NEW b \in Seq(S)
  PROVE  LET c == a \o b
         IN /\ c \in Seq(S) /\ Len(c) = Len(a) + Len(b) /\ Len(a) \in Nat /\ Len(b) \in Nat
            /\ \A i \in 1..Len(a) : c[i] = a[i]
            /\ \A i \in 1..Len(b) : c[Len(a) + i] = b[i]
<1> DEFINE c == a \o b
           m == Len(a)
           n == Len(b)
<1>1. /\ c \in Seq(S) /\ Len(c) = m + n /\ m \in Nat /\ n \in Nat
      /\ \A i \in 1..(m + n) : c[i] = IF i <= m THEN a[i] ELSE b[i - m]
  BY ConcatProperties, LenProperties
<1> HIDE DEF c, m, n
<1>2. ASSUME NEW i \in 1..m PROVE c[i] = a[i]
  <2>1. i \in 1..(m + n) /\ i <= m
    BY <1>1
  <2> QED BY <1>1, <2>1
<1>3. ASSUME NEW i \in 1..n PROVE c[m + i] = b[i]
  <2>1. m + i \in 1..(m + n) /\ ~(m + i <= m) /\ (m + i) - m = i
    BY <1>1
  <2> QED BY <1>1, <2>1
<1> QED BY <1>1, <1>2, <1>3 DEF c, m, n

\* A key and its prompt, each in quotes.
QuotedOnce(text) == <<apostrophe>> \o text \o <<apostrophe>>
Prompted(key, text) ==
  QuotedOnce(<<key>>) \o <<separator>> \o QuotedOnce(text) \o <<separator>>

\* Where its quotes and separators stand.
LEMMA PromptedIs ==
  ASSUME NEW key \in Scalar, NEW text \in Text
  PROVE  LET w == Len(text)
             s == Prompted(key, text)
         IN
         /\ s \in Text /\ Len(s) = w + 7 /\ w \in Nat
         /\ s[1] = apostrophe /\ s[2] = key /\ s[3] = apostrophe /\ s[4] = separator
         /\ s[5] = apostrophe /\ s[w + 6] = apostrophe /\ s[w + 7] = separator
         /\ \A k \in 1..w : s[5 + k] = text[k]
<1>1. {apostrophe, separator} \subseteq Scalar
  BY TableSourceAssumption
<1> DEFINE w == Len(text)
           s == Prompted(key, text)
           a == <<apostrophe>>
           b == <<separator>>
           k == <<key>>
           u == a \o k \o a
           v == a \o text \o a
           x == u \o b
           y == x \o v
<1>2. s = y \o b
  BY DEF Prompted, QuotedOnce, s
<1> HIDE DEF s
<1>3. /\ a \in Seq(Scalar) /\ Len(a) = 1 /\ a[1] = apostrophe
      /\ b \in Seq(Scalar) /\ Len(b) = 1 /\ b[1] = separator
      /\ k \in Seq(Scalar) /\ Len(k) = 1 /\ k[1] = key
      /\ text \in Seq(Scalar) /\ w \in Nat
  BY <1>1, TextIsSequence DEF Text
<1> HIDE DEF a, b, k, w
<1>0. a \in Seq(Scalar) /\ b \in Seq(Scalar)
  BY <1>3
<1>4. ASSUME NEW t \in Seq(Scalar)
      PROVE  LET q == a \o t \o a
             IN /\ q \in Seq(Scalar) /\ Len(q) = Len(t) + 2 /\ Len(t) \in Nat
                /\ q[1] = apostrophe /\ q[Len(t) + 2] = apostrophe
                /\ \A i \in 1..Len(t) : q[1 + i] = t[i]
  <2> DEFINE r == a \o t
             q == r \o a
  <2>1. /\ r \in Seq(Scalar) /\ Len(r) = Len(t) + 1 /\ Len(t) \in Nat
        /\ \A i \in 1..1 : r[i] = a[i]
        /\ \A i \in 1..Len(t) : r[1 + i] = t[i]
    <3>1. r = a \o t /\ Len(t) \in Nat
      BY LenProperties
    <3> HIDE DEF r
    <3>2. /\ r \in Seq(Scalar) /\ Len(r) = Len(a) + Len(t)
          /\ \A i \in 1..Len(a) : r[i] = a[i]
          /\ \A i \in 1..Len(t) : r[Len(a) + i] = t[i]
      BY <1>0, <3>1, ConcatIs
    <3>3. 1 + Len(t) = Len(t) + 1
      BY <3>1
    <3> QED BY <1>3, <3>1, <3>2, <3>3
  <2> HIDE DEF r
  <2>2. /\ q \in Seq(Scalar) /\ Len(q) = Len(r) + 1
        /\ \A i \in 1..Len(r) : q[i] = r[i]
        /\ \A i \in 1..1 : q[Len(r) + i] = a[i]
    <3>0. r \in Seq(Scalar)
      BY <2>1
    <3>1. q = r \o a
      OBVIOUS
    <3> HIDE DEF q
    <3>2. /\ q \in Seq(Scalar) /\ Len(q) = Len(r) + Len(a)
          /\ \A i \in 1..Len(r) : q[i] = r[i]
          /\ \A i \in 1..Len(a) : q[Len(r) + i] = a[i]
      BY <1>0, <3>0, <3>1, ConcatIs
    <3> QED BY <1>3, <3>2
  <2> HIDE DEF q
  <2>3. q[1] = apostrophe
    BY <1>3, <2>1, <2>2
  <2>4. q[Len(t) + 2] = apostrophe
    <3>1. Len(r) + 1 = Len(t) + 2
      BY <2>1
    <3> QED BY <1>3, <2>2, <3>1
  <2>5. ASSUME NEW i \in 1..Len(t) PROVE q[1 + i] = t[i]
    <3>1. 1 + i \in 1..Len(r)
      BY <2>1
    <3> QED BY <2>1, <2>2, <3>1
  <2> QED BY <2>1, <2>2, <2>3, <2>4, <2>5 DEF q, r
<1>5. /\ u \in Seq(Scalar) /\ Len(u) = 3 /\ u[1] = apostrophe /\ u[2] = key /\ u[3] = apostrophe
  <2>1. LET q == a \o k \o a
        IN /\ q \in Seq(Scalar) /\ Len(q) = Len(k) + 2 /\ Len(k) \in Nat
           /\ q[1] = apostrophe /\ q[Len(k) + 2] = apostrophe
           /\ \A i \in 1..Len(k) : q[1 + i] = k[i]
    BY <1>3, <1>4
  <2> QED BY <1>3, <2>1
<1>6. /\ v \in Seq(Scalar) /\ Len(v) = w + 2 /\ v[1] = apostrophe /\ v[w + 2] = apostrophe
      /\ \A i \in 1..w : v[1 + i] = text[i]
  BY <1>3, <1>4 DEF w
<1> HIDE DEF u, v
<1>7. /\ x \in Seq(Scalar) /\ Len(x) = 4 /\ \A i \in 1..3 : x[i] = u[i]
      /\ \A i \in 1..1 : x[3 + i] = b[i]
  <2>0. u \in Seq(Scalar)
    BY <1>5
  <2>1. x = u \o b
    OBVIOUS
  <2> HIDE DEF x
  <2>2. /\ x \in Seq(Scalar) /\ Len(x) = Len(u) + Len(b)
        /\ \A i \in 1..Len(u) : x[i] = u[i]
        /\ \A i \in 1..Len(b) : x[Len(u) + i] = b[i]
    BY <1>0, <2>0, <2>1, ConcatIs
  <2> QED BY <1>3, <1>5, <2>2
<1> HIDE DEF x
<1>8. /\ y \in Seq(Scalar) /\ Len(y) = 4 + (w + 2) /\ \A i \in 1..4 : y[i] = x[i]
      /\ \A i \in 1..(w + 2) : y[4 + i] = v[i]
  <2>0. x \in Seq(Scalar) /\ v \in Seq(Scalar)
    BY <1>6, <1>7
  <2>1. y = x \o v
    OBVIOUS
  <2> HIDE DEF y
  <2>2. /\ y \in Seq(Scalar) /\ Len(y) = Len(x) + Len(v)
        /\ \A i \in 1..Len(x) : y[i] = x[i]
        /\ \A i \in 1..Len(v) : y[Len(x) + i] = v[i]
    BY <1>0, <2>0, <2>1, ConcatIs
  <2> QED BY <1>6, <1>7, <2>2
<1> HIDE DEF y
<1>9. /\ s \in Seq(Scalar) /\ Len(s) = (4 + (w + 2)) + 1
      /\ \A i \in 1..(4 + (w + 2)) : s[i] = y[i]
      /\ \A i \in 1..1 : s[(4 + (w + 2)) + i] = b[i]
  <2>1. /\ s \in Seq(Scalar) /\ Len(s) = Len(y) + Len(b)
        /\ \A i \in 1..Len(y) : s[i] = y[i]
        /\ \A i \in 1..Len(b) : s[Len(y) + i] = b[i]
    <3>1. y \in Seq(Scalar)
      BY <1>8
    <3> QED BY <1>2, <1>0, <3>1, ConcatIs
  <2> QED BY <1>3, <1>8, <2>1
<1>10. s \in Text /\ Len(s) = w + 7
  BY <1>3, <1>9 DEF Text
<1>11. /\ s[1] = apostrophe /\ s[2] = key /\ s[3] = apostrophe /\ s[4] = separator
  <2>1. /\ 1 \in 1..(4 + (w + 2)) /\ 2 \in 1..(4 + (w + 2)) /\ 3 \in 1..(4 + (w + 2))
        /\ 4 \in 1..(4 + (w + 2))
    BY <1>3
  <2>2. x[1] = u[1] /\ x[2] = u[2] /\ x[3] = u[3] /\ x[4] = b[1]
    BY <1>7
  <2> QED BY <1>3, <1>5, <1>8, <1>9, <2>1, <2>2
<1>12. \A i \in 1..(w + 2) : s[4 + i] = v[i]
  <2> SUFFICES ASSUME NEW i \in 1..(w + 2) PROVE s[4 + i] = v[i]
    OBVIOUS
  <2>1. 4 + i \in 1..(4 + (w + 2))
    BY <1>3
  <2> QED BY <1>8, <1>9, <2>1
<1>13. s[5] = apostrophe /\ s[w + 6] = apostrophe
  <2>1. 1 \in 1..(w + 2) /\ w + 2 \in 1..(w + 2) /\ 4 + 1 = 5 /\ 4 + (w + 2) = w + 6
    BY <1>3
  <2>2. s[4 + 1] = v[1] /\ s[4 + (w + 2)] = v[w + 2]
    BY <1>12, <2>1
  <2> QED BY <1>6, <2>1, <2>2
<1>14. s[w + 7] = separator
  <2>1. (4 + (w + 2)) + 1 = w + 7
    BY <1>3
  <2> QED BY <1>3, <1>9, <2>1
<1>15. ASSUME NEW i \in 1..w PROVE s[5 + i] = text[i]
  <2>1. 1 + i \in 1..(w + 2) /\ 4 + (1 + i) = 5 + i
    BY <1>3
  <2> QED BY <1>6, <1>12, <2>1
<1> QED BY <1>3, <1>10, <1>11, <1>13, <1>14, <1>15 DEF w, s

\* What is quoted from a key on: the key, its prompt, and what is quoted after it.
LEMMA ReadsPrompted ==
  ASSUME NEW literal \in Text, NEW strings, Quoted(literal, strings),
         NEW key \in Scalar, NEW text \in Text, Plain(<<key>>), Plain(text),
         NEW a \in 1..(Len(literal) + 1), NEW b \in 1..(Len(literal) + 1),
         b = a + Len(Prompted(key, text)),
         \A j \in 1..Len(Prompted(key, text)) : literal[a + (j - 1)] = Prompted(key, text)[j]
  PROVE  strings[a] = <<<<key>>>> \o (<<text>> \o strings[b])
<1> DEFINE s == Prompted(key, text)
           n == Len(literal)
           w == Len(text)
           ends(i) == {j \in (i + 1)..n : literal[j] = literal[i]}
<1>1. n \in Nat /\ literal \in Seq(Scalar) /\ \A i \in 1..n : literal[i] \in Scalar
  BY TextIsSequence DEF Text
<1>2. /\ s \in Text /\ Len(s) = w + 7 /\ w \in Nat
      /\ s[1] = apostrophe /\ s[2] = key /\ s[3] = apostrophe /\ s[4] = separator
      /\ s[5] = apostrophe /\ s[w + 6] = apostrophe /\ s[w + 7] = separator
      /\ \A k \in 1..w : s[5 + k] = text[k]
  <2>1. w = Len(text)
    OBVIOUS
  <2> HIDE DEF w
  <2> QED BY <2>1, PromptedIs
<1>16. b = a + Len(s) /\ \A j \in 1..Len(s) : literal[a + (j - 1)] = s[j]
  OBVIOUS
<1> HIDE DEF s
<1>3. /\ b = a + (w + 7) /\ a \in Nat /\ a >= 1 /\ a + w + 6 <= n
  BY <1>1, <1>2, <1>16
<1>4. ASSUME NEW d \in 0..(w + 6) PROVE literal[a + d] = s[d + 1] /\ a + d \in 1..n
  <2>1. d + 1 \in 1..Len(s) /\ (d + 1) - 1 = d /\ a + d \in 1..n
    BY <1>1, <1>2, <1>3
  <2>2. literal[a + ((d + 1) - 1)] = s[d + 1]
    BY <1>16, <2>1
  <2> QED BY <2>1, <2>2
<1>5. /\ strings \in [1..(n + 1) -> Seq(Text)]
      /\ \A i \in 1..n : literal[i] \notin {quote, apostrophe} => strings[i] = strings[i + 1]
      /\ \A i \in 1..n : literal[i] \in {quote, apostrophe} =>
           \A j \in ends(i) : (\A e \in ends(i) : j <= e) =>
             strings[i] = <<SubSeq(literal, i + 1, j - 1)>> \o strings[j + 1]
  BY DEF Quoted
<1>6. separator \notin {quote, apostrophe}
  BY TableSourceAssumption
<1>7. key # apostrophe /\ \A k \in 1..w : text[k] # apostrophe
  <2>1. key \in Range(<<key>>)
    BY DEF Range
  <2>2. \A k \in 1..w : text[k] \in Range(text)
    <3>1. DOMAIN text = 1..w
      BY DEF Text
    <3> QED BY <3>1 DEF Range
  <2> QED BY <2>1, <2>2 DEF Plain
<1>8. strings[a] = <<<<key>>>> \o strings[a + 3]
  <2>1. /\ literal[a] = apostrophe /\ literal[a + 1] = key /\ literal[a + 2] = apostrophe
        /\ a \in 1..n /\ a + 1 \in 1..n /\ a + 2 \in 1..n
    <3>1. 0 \in 0..(w + 6) /\ 1 \in 0..(w + 6) /\ 2 \in 0..(w + 6) /\ a + 0 = a
      BY <1>2, <1>3
    <3>2. /\ literal[a + 0] = s[0 + 1] /\ literal[a + 1] = s[1 + 1] /\ literal[a + 2] = s[2 + 1]
          /\ a + 0 \in 1..n /\ a + 1 \in 1..n /\ a + 2 \in 1..n
      BY <1>4, <3>1
    <3> QED BY <1>2, <3>1, <3>2
  <2>2. a + 2 \in ends(a)
    BY <1>3, <2>1
  <2>3. ASSUME NEW e \in ends(a) PROVE a + 2 <= e
    <3>1. e \in (a + 1)..n /\ literal[e] = apostrophe
      BY <2>1
    <3>2. e # a + 1
      BY <1>7, <2>1, <3>1
    <3> QED BY <1>1, <1>3, <3>1, <3>2
  <2> HIDE DEF ends
  <2>4. strings[a] = <<SubSeq(literal, a + 1, (a + 2) - 1)>> \o strings[(a + 2) + 1]
    BY <1>5, <2>1, <2>2, <2>3
  <2>5. (a + 2) - 1 = a + 1 /\ (a + 2) + 1 = a + 3
    BY <1>3
  <2>6. SubSeq(literal, a + 1, a + 1) = <<key>>
    <3> DEFINE t == SubSeq(literal, a + 1, a + 1)
    <3>1. /\ t \in Seq(Scalar) /\ Len(t) = 1 /\ t[1] = literal[a + 1]
      <4>1. \A i \in (a + 1)..(a + 1) : literal[i] \in Scalar
        BY <1>1, <1>3, <2>1
      <4>2. /\ t \in Seq(Scalar)
            /\ Len(t) = IF a + 1 <= a + 1 THEN ((a + 1) - (a + 1)) + 1 ELSE 0
            /\ \A i \in 1..(((a + 1) - (a + 1)) + 1) : t[i] = literal[((a + 1) + i) - 1]
        BY <1>3, <4>1, SubSeqProperties
      <4>3. ((a + 1) - (a + 1)) + 1 = 1 /\ ((a + 1) + 1) - 1 = a + 1
        BY <1>3
      <4> QED BY <1>3, <4>2, <4>3
    <3>2. /\ <<key>> \in Seq(Scalar) /\ Len(<<key>>) = 1 /\ <<key>>[1] = key
      OBVIOUS
    <3> HIDE DEF t
    <3>3. \A i \in 1..1 : t[i] = <<key>>[i]
      BY <2>1, <3>1, <3>2
    <3> DEFINE g == <<key>>
    <3>4. g \in Seq(Scalar) /\ Len(g) = 1 /\ \A i \in 1..1 : t[i] = g[i]
      BY <3>2, <3>3
    <3> HIDE DEF g
    <3>5. t = g
      BY <3>1, <3>4, SeqEqual
    <3> QED BY <3>5 DEF t, g
  <2> QED BY <2>4, <2>5, <2>6
<1>9. strings[a + 3] = strings[a + 4]
  <2>1. 3 \in 0..(w + 6)
    BY <1>2
  <2>2. literal[a + 3] = s[3 + 1] /\ a + 3 \in 1..n
    BY <1>4, <2>1
  <2>3. (a + 3) + 1 = a + 4
    BY <1>3
  <2> QED BY <1>2, <1>5, <1>6, <2>2, <2>3
<1>10. strings[a + 4] = <<text>> \o strings[a + (w + 6)]
  <2> DEFINE i == a + 4
             e == a + (w + 5)
  <2>1. /\ literal[i] = apostrophe /\ literal[e] = apostrophe /\ i \in 1..n /\ e \in 1..n
        /\ \A k \in 1..w : literal[i + k] = text[k]
    <3>1. 4 \in 0..(w + 6) /\ w + 5 \in 0..(w + 6) /\ (w + 5) + 1 = w + 6
      BY <1>2
    <3>2. /\ literal[a + 4] = s[4 + 1] /\ literal[a + (w + 5)] = s[(w + 5) + 1]
          /\ a + 4 \in 1..n /\ a + (w + 5) \in 1..n
      BY <1>4, <3>1
    <3>3. ASSUME NEW k \in 1..w PROVE literal[(a + 4) + k] = text[k]
      <4>1. 4 + k \in 0..(w + 6) /\ a + (4 + k) = (a + 4) + k /\ (4 + k) + 1 = 5 + k
        BY <1>2, <1>3
      <4>2. literal[a + (4 + k)] = s[(4 + k) + 1]
        BY <1>4, <4>1
      <4> QED BY <1>2, <4>1, <4>2
    <3> QED BY <1>2, <3>1, <3>2, <3>3
  <2>2. i + w + 1 = e /\ i \in Nat /\ e \in Nat
    BY <1>2, <1>3
  <2> HIDE DEF i, e
  <2>3. e \in ends(i)
    BY <1>2, <2>1, <2>2
  <2>4. ASSUME NEW g \in ends(i) PROVE e <= g
    <3>1. g \in (i + 1)..n /\ literal[g] = apostrophe
      BY <2>1
    <3>2. CASE g < e
      <4> DEFINE k == g - i
      <4>1. k \in 1..w /\ i + k = g
        BY <1>1, <1>2, <2>2, <3>1, <3>2
      <4> HIDE DEF k
      <4> QED BY <1>7, <2>1, <3>1, <4>1
    <3> QED BY <1>1, <2>2, <3>1, <3>2
  <2> HIDE DEF ends
  <2>5. strings[i] = <<SubSeq(literal, i + 1, e - 1)>> \o strings[e + 1]
    BY <1>5, <2>1, <2>3, <2>4
  <2>6. SubSeq(literal, i + 1, e - 1) = text
    <3> DEFINE t == SubSeq(literal, i + 1, e - 1)
    <3>1. t \in Seq(Scalar) /\ Len(t) = w /\ \A k \in 1..w : t[k] = literal[i + k]
      <4>1. \A k \in (i + 1)..(e - 1) : literal[k] \in Scalar
        BY <1>1, <2>1, <2>2
      <4>2. /\ t \in Seq(Scalar)
            /\ Len(t) = IF i + 1 <= e - 1 THEN ((e - 1) - (i + 1)) + 1 ELSE 0
            /\ \A k \in 1..(((e - 1) - (i + 1)) + 1) : t[k] = literal[((i + 1) + k) - 1]
        BY <2>2, <4>1, SubSeqProperties
      <4>3. ((e - 1) - (i + 1)) + 1 = w /\ (i + 1 <= e - 1 \/ w = 0)
        BY <1>2, <2>2
      <4> HIDE DEF t
      <4>4. Len(t) = w
        BY <1>2, <2>2, <4>2, <4>3
      <4>5. ASSUME NEW k \in 1..w PROVE t[k] = literal[i + k]
        <5>1. ((i + 1) + k) - 1 = i + k
          BY <2>2
        <5> QED BY <4>2, <4>3, <5>1
      <4> QED BY <4>2, <4>4, <4>5
    <3>2. text \in Seq(Scalar)
      BY DEF Text
    <3> HIDE DEF t
    <3>3. \A k \in 1..w : t[k] = text[k]
      BY <2>1, <3>1
    <3>4. t = text
      BY <3>1, <3>2, <3>3, SeqEqual
    <3> QED BY <3>4 DEF t
  <2>7. e + 1 = a + (w + 6)
    BY <1>2, <1>3 DEF e
  <2> QED BY <2>5, <2>6, <2>7 DEF i
<1>11. strings[a + (w + 6)] = strings[b]
  <2>1. w + 6 \in 0..(w + 6) /\ (w + 6) + 1 = w + 7 /\ (a + (w + 6)) + 1 = b
    BY <1>2, <1>3
  <2>2. literal[a + (w + 6)] = s[(w + 6) + 1] /\ a + (w + 6) \in 1..n
    BY <1>4, <2>1
  <2> QED BY <1>2, <1>5, <1>6, <2>1, <2>2
<1> QED BY <1>8, <1>9, <1>10, <1>11

\* Two in front of a sequence.
LEMMA TwoInFront ==
  ASSUME NEW S, NEW a \in S, NEW b \in S, NEW s \in Seq(S)
  PROVE  LET c == <<a>> \o (<<b>> \o s)
         IN /\ c \in Seq(S) /\ Len(c) = Len(s) + 2 /\ Len(s) \in Nat /\ c[1] = a /\ c[2] = b
            /\ \A k \in 1..Len(s) : c[k + 2] = s[k]
<1> DEFINE u == <<a>>
           v == <<b>>
           d == v \o s
           c == u \o d
           n == Len(s)
<1>1. /\ u \in Seq(S) /\ Len(u) = 1 /\ u[1] = a
      /\ v \in Seq(S) /\ Len(v) = 1 /\ v[1] = b
  OBVIOUS
<1> HIDE DEF u, v
<1>2. u \in Seq(S) /\ v \in Seq(S)
  BY <1>1
<1>3. /\ d \in Seq(S) /\ Len(d) = Len(v) + n /\ n \in Nat
      /\ \A i \in 1..Len(v) : d[i] = v[i]
      /\ \A i \in 1..n : d[Len(v) + i] = s[i]
  BY <1>2, ConcatIs
<1> HIDE DEF d, n
<1>4. d \in Seq(S)
  BY <1>3
<1>5. /\ c \in Seq(S) /\ Len(c) = Len(u) + Len(d)
      /\ \A i \in 1..Len(u) : c[i] = u[i]
      /\ \A i \in 1..Len(d) : c[Len(u) + i] = d[i]
  BY <1>2, <1>4, ConcatIs
<1> HIDE DEF c
<1>6. Len(c) = n + 2 /\ c[1] = a
  BY <1>1, <1>3, <1>5
<1>7. c[2] = b
  <2>1. 1 \in 1..Len(d) /\ 1 \in 1..Len(v) /\ Len(u) + 1 = 2
    BY <1>1, <1>3
  <2>2. c[Len(u) + 1] = d[1] /\ d[1] = v[1]
    BY <1>3, <1>5, <2>1
  <2> QED BY <1>1, <2>1, <2>2
<1>8. ASSUME NEW k \in 1..n PROVE c[k + 2] = s[k]
  <2>1. /\ 1 + k \in 1..Len(d) /\ Len(u) + (1 + k) = k + 2 /\ Len(v) + k = 1 + k
    BY <1>1, <1>3
  <2>2. c[Len(u) + (1 + k)] = d[1 + k] /\ d[Len(v) + k] = s[k]
    BY <1>3, <1>5, <2>1
  <2> QED BY <2>1, <2>2
<1> QED BY <1>3, <1>5, <1>6, <1>7, <1>8 DEF c, d, u, v, n

\* The prompts of keys.
Prompting(prompts) ==
  /\ IsFiniteSet(DOMAIN prompts) /\ DOMAIN prompts \subseteq Scalar
  /\ prompts \in [DOMAIN prompts -> Text \ {<<>>}]

\* How a literal of prompts is laid out: its keys in order, each with its prompt.
Written(prompts, literal, q, pieces, at) ==
  /\ Increasing(q, DOMAIN prompts)
  /\ pieces = [i \in 1..Cardinality(DOMAIN prompts) |-> Prompted(q[i], prompts[q[i]])]
  /\ literal \in Text /\ Placed(pieces, literal, at)

LEMMA LiteralIs ==
  ASSUME NEW prompts, Prompting(prompts)
  PROVE  \E q, pieces, at : Written(prompts, CharPromptsLiteral(prompts), q, pieces, at)
<1> DEFINE K == DOMAIN prompts
           N == Cardinality(K)
           Sorts(o) == \A i, j \in DOMAIN o : i < j => o[i] < o[j]
           q == CHOOSE o \in [1..N -> K] : Sorts(o)
           pieces == [i \in 1..N |-> Prompted(q[i], prompts[q[i]])]
           literal == CharPromptsLiteral(prompts)
<1>1. IsFiniteSet(K) /\ K \subseteq Scalar /\ K \subseteq Nat /\ prompts \in [K -> Text \ {<<>>}]
      /\ N \in Nat
  BY FS_CardinalityType, TableDataAssumption DEF Prompting
<1>2. Increasing(q, K)
  <2>1. PICK o : Increasing(o, K)
    BY <1>1, OrderExists
  <2>2. o \in [1..N -> K] /\ Sorts(o)
    BY <2>1 DEF Increasing
  <2>3. q \in [1..N -> K] /\ Sorts(q)
    <3> HIDE DEF Sorts, N, K
    <3> QED BY <2>2
  <2> HIDE DEF q
  <2> QED BY <2>3 DEF Increasing
<1>3. literal = FlattenSeq(pieces)
  <2>1. q \in [1..N -> K]
    BY <1>2 DEF Increasing
  <2> DEFINE quoted(text) == <<apostrophe>> \o text \o <<apostrophe>>
             parts == [i \in DOMAIN q |->
               quoted(<<q[i]>>) \o <<separator>> \o quoted(prompts[q[i]]) \o <<separator>>]
  <2>2. literal = FlattenSeq(parts)
    BY DEF CharPromptsLiteral
  <2> HIDE DEF q
  <2>3. parts = pieces
    BY <2>1 DEF Prompted, QuotedOnce
  <2> HIDE DEF parts, pieces, literal
  <2> QED BY <2>2, <2>3
<1> HIDE DEF q
<1>4. pieces \in Seq(Seq(Scalar))
  <2>1. ASSUME NEW i \in 1..N PROVE Prompted(q[i], prompts[q[i]]) \in Seq(Scalar)
    <3>1. q[i] \in Scalar /\ prompts[q[i]] \in Text
      BY <1>1, <1>2 DEF Increasing
    <3>2. Prompted(q[i], prompts[q[i]]) \in Text
      BY <3>1, PromptedIs
    <3> QED BY <3>2 DEF Text
  <2> QED BY <1>1, <2>1, IsASeq
<1> HIDE DEF pieces
<1>5. literal \in Text
  <2>1. FlattenSeq(pieces) \in Seq(Scalar)
    BY <1>4, FlattenType
  <2> HIDE DEF literal
  <2> QED BY <1>3, <2>1 DEF Text
<1>6. PICK at : Placed(pieces, literal, at)
  <2>1. \E at : Placed(pieces, FlattenSeq(pieces), at)
    BY <1>4, PlacesExist
  <2> HIDE DEF literal
  <2> QED BY <1>3, <2>1
<1> QED BY <1>2, <1>5, <1>6 DEF Written, pieces

\* What is read of a literal of plain prompts: keys and prompts in turn.
LEMMA LiteralReads ==
  ASSUME NEW prompts, Prompting(prompts), NEW literal, NEW q, NEW pieces, NEW at,
         Written(prompts, literal, q, pieces, at),
         \A k \in DOMAIN prompts : Plain(<<k>>) /\ Plain(prompts[k])
  PROVE  LET s == QuotedStrings(literal)
             N == Cardinality(DOMAIN prompts)
         IN /\ s \in Seq(Text) /\ Len(s) = 2 * N
            /\ \A m \in 1..N : s[2 * m - 1] = <<q[m]>> /\ s[2 * m] = prompts[q[m]]
<1> DEFINE K == DOMAIN prompts
           N == Cardinality(K)
<1>1. /\ IsFiniteSet(K) /\ K \subseteq Scalar /\ N \in Nat /\ q \in [1..N -> K]
      /\ \A i \in 1..N : q[i] \in Scalar /\ prompts[q[i]] \in Text /\ <<q[i]>> \in Text
      /\ \A i \in 1..N : Plain(<<q[i]>>) /\ Plain(prompts[q[i]])
  <2>1. IsFiniteSet(K) /\ K \subseteq Scalar /\ N \in Nat /\ q \in [1..N -> K]
    BY FS_CardinalityType DEF Prompting, Written, Increasing
  <2>2. prompts \in [K -> Text \ {<<>>}]
    BY DEF Prompting
  <2>3. ASSUME NEW k \in Scalar PROVE <<k>> \in Text
    BY DEF Text
  <2> QED BY <2>1, <2>2, <2>3
<1>2. PICK strings : Quoted(literal, strings) /\ QuotedStrings(literal) = strings[1]
  BY QuotedStringsIs DEF Written
<1> HIDE DEF K, N
<1>3. /\ literal \in Text /\ Len(pieces) = N
      /\ \A i \in 1..N : pieces[i] = Prompted(q[i], prompts[q[i]])
      /\ at \in [1..(N + 1) -> 1..(Len(literal) + 1)]
      /\ at[1] = 1 /\ at[N + 1] = Len(literal) + 1
      /\ \A i \in 1..N :
           /\ at[i + 1] = at[i] + Len(pieces[i])
           /\ \A j \in 1..Len(pieces[i]) : literal[at[i] + (j - 1)] = pieces[i][j]
  <2>1. Placed(pieces, literal, at) /\ literal \in Text
        /\ pieces = [i \in 1..N |-> Prompted(q[i], prompts[q[i]])]
    BY DEF Written, N, K
  <2>2. Len(pieces) = N
    BY <1>1, <2>1
  <2> QED BY <2>1, <2>2 DEF Placed
<1>4. strings \in [1..(Len(literal) + 1) -> Seq(Text)] /\ strings[Len(literal) + 1] = <<>>
  BY <1>2 DEF Quoted
<1>5. ASSUME NEW i \in 1..N
      PROVE  LET rest == strings[at[i + 1]]
             IN /\ strings[at[i]] = <<<<q[i]>>>> \o (<<prompts[q[i]]>> \o rest)
                /\ rest \in Seq(Text)
  <2> DEFINE a == at[i]
             b == at[i + 1]
             s == pieces[i]
  <2>1. /\ a \in 1..(Len(literal) + 1) /\ b \in 1..(Len(literal) + 1)
        /\ s = Prompted(q[i], prompts[q[i]]) /\ b = a + Len(s)
        /\ \A j \in 1..Len(s) : literal[a + (j - 1)] = s[j]
    <3>1. i \in 1..(N + 1) /\ i + 1 \in 1..(N + 1)
      BY <1>1
    <3> QED BY <1>3, <3>1
  <2> DEFINE key == q[i]
             text == prompts[q[i]]
  <2>2. strings[a] = <<<<key>>>> \o (<<text>> \o strings[b])
    <3>1. key \in Scalar /\ text \in Text /\ Plain(<<key>>) /\ Plain(text)
      BY <1>1
    <3>2. /\ b = a + Len(Prompted(key, text))
          /\ \A j \in 1..Len(Prompted(key, text)) : literal[a + (j - 1)] = Prompted(key, text)[j]
      BY <2>1
    <3> HIDE DEF a, b, s, key, text
    <3>3. Quoted(literal, strings) /\ literal \in Text
      BY <1>2, <1>3
    <3>4. a \in 1..(Len(literal) + 1) /\ b \in 1..(Len(literal) + 1)
      BY <2>1
    <3> QED BY <3>1, <3>2, <3>3, <3>4, ReadsPrompted
  <2> QED BY <1>4, <2>1, <2>2 DEF a, b
<1> DEFINE Reads(d) ==
             LET i == (N + 1) - d
                 s == strings[at[i]]
             IN /\ s \in Seq(Text) /\ Len(s) = 2 * d
                /\ \A m \in i..N : /\ s[2 * (m - i) + 1] = <<q[m]>>
                                   /\ s[2 * (m - i) + 2] = prompts[q[m]]
           T == {d \in Nat : d <= N => Reads(d)}
<1>6. 0 \in T
  <2>1. (N + 1) - 0 = N + 1 /\ (N + 1)..N = {} /\ 0 \in Nat
    BY <1>1
  <2>2. strings[at[N + 1]] = <<>>
    BY <1>3, <1>4
  <2>4. <<>> \in Seq(Text) /\ Len(<<>>) = 2 * 0
    BY EmptySeq
  <2> HIDE DEF N
  <2>3. Reads(0)
    <3> SUFFICES LET s == strings[at[N + 1]]
                 IN /\ s \in Seq(Text) /\ Len(s) = 2 * 0
                    /\ \A m \in (N + 1)..N : /\ s[2 * (m - (N + 1)) + 1] = <<q[m]>>
                                             /\ s[2 * (m - (N + 1)) + 2] = prompts[q[m]]
      BY <2>1
    <3> DEFINE s == strings[at[N + 1]]
    <3>1. s = <<>>
      BY <2>2
    <3> HIDE DEF s
    <3>2. s \in Seq(Text) /\ Len(s) = 2 * 0
      BY <2>4, <3>1
    <3>3. \A m \in (N + 1)..N : /\ s[2 * (m - (N + 1)) + 1] = <<q[m]>>
                                /\ s[2 * (m - (N + 1)) + 2] = prompts[q[m]]
      BY <2>1
    <3> QED BY <3>2, <3>3 DEF s
  <2> HIDE DEF Reads
  <2> QED BY <2>1, <2>3
<1>7. ASSUME NEW d \in Nat, d \in T PROVE d + 1 \in T
  <2>1. SUFFICES ASSUME d + 1 <= N PROVE Reads(d + 1)
    BY DEF T
  <2> DEFINE i == (N + 1) - (d + 1)
             s == strings[at[i]]
             r == strings[at[i + 1]]
  <2>2. i \in 1..N /\ i + 1 = (N + 1) - d /\ d <= N /\ i \in Nat
    BY <1>1, <2>1
  <2> HIDE DEF i
  <2>3. /\ r \in Seq(Text) /\ Len(r) = 2 * d
        /\ \A m \in (i + 1)..N : /\ r[2 * (m - (i + 1)) + 1] = <<q[m]>>
                                 /\ r[2 * (m - (i + 1)) + 2] = prompts[q[m]]
    BY <1>7, <2>2
  <2>4. s = <<<<q[i]>>>> \o (<<prompts[q[i]]>> \o r)
    BY <1>5, <2>2
  <2> HIDE DEF r, s
  <2>5. /\ s \in Seq(Text) /\ Len(s) = Len(r) + 2 /\ s[1] = <<q[i]>> /\ s[2] = prompts[q[i]]
        /\ \A k \in 1..Len(r) : s[k + 2] = r[k]
    <3> DEFINE x == <<q[i]>>
               y == prompts[q[i]]
    <3>1. x \in Text /\ y \in Text /\ r \in Seq(Text) /\ s = <<x>> \o (<<y>> \o r)
      BY <1>1, <2>2, <2>3, <2>4
    <3> HIDE DEF x, y
    <3>2. /\ s \in Seq(Text) /\ Len(s) = Len(r) + 2 /\ s[1] = x /\ s[2] = y
          /\ \A k \in 1..Len(r) : s[k + 2] = r[k]
      BY <3>1, TwoInFront
    <3> QED BY <3>2 DEF x, y
  <2>6. Len(s) = 2 * (d + 1)
    BY <2>3, <2>5
  <2>7. ASSUME NEW m \in i..N
        PROVE  s[2 * (m - i) + 1] = <<q[m]>> /\ s[2 * (m - i) + 2] = prompts[q[m]]
    <3>1. CASE m = i
      <4>1. 2 * (m - i) + 1 = 1 /\ 2 * (m - i) + 2 = 2
        BY <2>2, <3>1
      <4> QED BY <2>5, <3>1, <4>1
    <3>2. CASE m # i
      <4> DEFINE k == 2 * (m - (i + 1)) + 1
                 l == 2 * (m - (i + 1)) + 2
      <4>1. /\ m \in (i + 1)..N /\ k \in 1..(2 * d) /\ l \in 1..(2 * d)
            /\ k + 2 = 2 * (m - i) + 1 /\ l + 2 = 2 * (m - i) + 2
        BY <1>1, <2>2, <3>2 DEF i
      <4>2. r[k] = <<q[m]>> /\ r[l] = prompts[q[m]]
        BY <2>3, <4>1
      <4> HIDE DEF k, l
      <4>3. s[k + 2] = r[k] /\ s[l + 2] = r[l]
        BY <2>3, <2>5, <4>1
      <4> QED BY <4>1, <4>2, <4>3
    <3> QED BY <3>1, <3>2
  <2> QED BY <2>5, <2>6, <2>7 DEF i, s
<1> HIDE DEF T
<1>8. N \in T
  <2>1. Nat \subseteq T
    BY <1>6, <1>7, Induction
  <2> QED BY <1>1, <2>1
<1>9. /\ strings[1] \in Seq(Text) /\ Len(strings[1]) = 2 * N
      /\ \A m \in 1..N : /\ strings[1][2 * (m - 1) + 1] = <<q[m]>>
                         /\ strings[1][2 * (m - 1) + 2] = prompts[q[m]]
  <2>1. (N + 1) - N = 1 /\ N <= N
    BY <1>1
  <2>2. Reads(N)
    <3> HIDE DEF Reads
    <3> QED BY <1>8, <2>1 DEF T
  <2> DEFINE i == (N + 1) - N
             r == strings[at[i]]
  <2>3. /\ r \in Seq(Text) /\ Len(r) = 2 * N
        /\ \A m \in i..N : r[2 * (m - i) + 1] = <<q[m]>> /\ r[2 * (m - i) + 2] = prompts[q[m]]
    BY <2>2
  <2>4. i = 1
    BY <2>1
  <2> HIDE DEF i, Reads
  <2>5. r = strings[1]
    BY <1>3, <2>4
  <2> HIDE DEF r
  <2> QED BY <2>3, <2>4, <2>5
<1>10. ASSUME NEW m \in 1..N
       PROVE  strings[1][2 * m - 1] = <<q[m]>> /\ strings[1][2 * m] = prompts[q[m]]
  <2>1. 2 * (m - 1) + 1 = 2 * m - 1 /\ 2 * (m - 1) + 2 = 2 * m
    BY <1>1
  <2> QED BY <1>9, <2>1
<1> QED BY <1>2, <1>9, <1>10 DEF N, K

\* Plain prompts are read back as they were.
LEMMA PromptsReread ==
  ASSUME NEW prompts, Prompting(prompts),
         \A k \in DOMAIN prompts : Plain(<<k>>) /\ Plain(prompts[k])
  PROVE  ParseCharPrompts(CharPromptsLiteral(prompts)) = prompts
<1> DEFINE K == DOMAIN prompts
           N == Cardinality(K)
           literal == CharPromptsLiteral(prompts)
           s == QuotedStrings(literal)
           pairs == {i \in 1..(Len(s) \div 2) : s[2 * i - 1] # <<>> /\ s[2 * i] # <<>>}
           of(key) == {i \in pairs : s[2 * i - 1][1] = key}
           keys == {s[2 * i - 1][1] : i \in pairs}
           last(key) == CHOOSE i \in of(key) : \A j \in of(key) : j <= i
           read == [key \in keys |-> s[2 * last(key)]]
<1>1. ParseCharPrompts(literal) = read
  BY DEF ParseCharPrompts
<1>2. PICK q, pieces, at : Written(prompts, literal, q, pieces, at)
  BY LiteralIs
<1>3. /\ IsFiniteSet(K) /\ K \subseteq Nat /\ N \in Nat /\ q \in [1..N -> K]
      /\ prompts \in [K -> Text \ {<<>>}] /\ Increasing(q, K)
  BY <1>2, FS_CardinalityType, TableDataAssumption DEF Prompting, Written, Increasing
<1>4. /\ \A i, j \in 1..N : q[i] = q[j] => i = j
      /\ \A x \in K : \E i \in 1..N : q[i] = x
  BY <1>3, OrderIs
<1> HIDE DEF literal
<1>5. Len(s) = 2 * N /\ \A m \in 1..N : s[2 * m - 1] = <<q[m]>> /\ s[2 * m] = prompts[q[m]]
  BY <1>2, LiteralReads
<1> HIDE DEF s, K, N
<1>6. /\ pairs = 1..N
      /\ \A m \in 1..N : s[2 * m - 1][1] = q[m]
  <2>1. Len(s) \div 2 = N
    BY <1>3, <1>5
  <2>2. ASSUME NEW m \in 1..N PROVE s[2 * m - 1] # <<>> /\ s[2 * m] # <<>>
    <3>1. s[2 * m - 1] = <<q[m]>> /\ s[2 * m] = prompts[q[m]]
      BY <1>5
    <3>2. q[m] \in K /\ prompts[q[m]] # <<>>
      BY <1>3
    <3>3. <<q[m]>> # <<>>
      OBVIOUS
    <3> QED BY <3>1, <3>2, <3>3
  <2>3. \A m \in 1..N : s[2 * m - 1][1] = q[m]
    BY <1>5
  <2> QED BY <2>1, <2>2, <2>3
<1> HIDE DEF pairs
<1>7. keys = K
  <2>1. keys = {q[i] : i \in 1..N}
    BY <1>6
  <2>2. \A i \in 1..N : q[i] \in K
    BY <1>3
  <2> HIDE DEF keys
  <2> QED BY <1>4, <2>1, <2>2
<1>8. ASSUME NEW key \in K PROVE s[2 * last(key)] = prompts[key]
  <2>1. PICK i \in 1..N : q[i] = key
    BY <1>4
  <2>2. of(key) = {i}
    BY <1>4, <1>6, <2>1
  <2>3. last(key) = i
    <3>1. i <= i
      BY <1>3
    <3> HIDE DEF of
    <3> QED BY <2>2, <3>1
  <2> HIDE DEF last, of
  <2> QED BY <1>5, <2>1, <2>3
<1>9. read = prompts
  <2>1. prompts = [key \in K |-> prompts[key]]
    BY <1>3
  <2> HIDE DEF keys, last
  <2> QED BY <1>7, <1>8, <2>1
<1> QED BY <1>1, <1>9 DEF literal

-------------------------------------------------------------------------------
(* What the engine will read back, at each stage of the compiler.          *)

\* What the raw attributes set a field to.
Reread(attrs, field) ==
  IF field \in DOMAIN attrs THEN SetField(attrs[field], Defaults)[field] ELSE Defaults[field]

Fields ==
  {"valid", "start", "unchecked", "single", "multi", "max", "least", "rules", "above", "prefix",
   "adjusts", "define", "language", "cjk", "chinese", "prompts"}

Alphabets == {"valid", "start", "single", "multi"}

\* An attribute stands under the field it sets.
Declares(line, field) ==
  /\ line.key = field
  /\ field \in Alphabets =>
       line.chars \in Text /\ line = [is |-> "chars", key |-> field, chars |-> line.chars]
  /\ field = "language" => line.is = "language"

\* A source as the reader makes it.
WellRead(s) ==
  /\ s = [props |-> s.props, attrs |-> s.attrs, rows |-> s.rows, codes |-> s.codes]
  /\ s.props = [field \in Fields |-> s.props[field]]
  /\ Prompting(s.props.prompts)
  /\ s.rows \in Seq(Row)
  /\ \A field \in DOMAIN s.attrs : Declares(s.attrs[field], field)

\* The declaration is what its attributes set ...
AsRead(s) ==
  \A field \in Alphabets \cup {"language"} : s.props[field] = Reread(s.attrs, field)

\* ... and, once finalized, what they would set again.
Faithful(s) ==
  /\ \A field \in {"start", "single", "multi"} : s.props[field] = Reread(s.attrs, field)
  /\ s.props.valid = IF Reread(s.attrs, "valid") = {} THEN LatinLetters
                     ELSE Reread(s.attrs, "valid")
  /\ s.props.cjk = (Reread(s.attrs, "language") \in {"zh", "ja"})

\* A line of the declaration sets its field, to what it would set it to anywhere, and
\* no other.
LEMMA SetFieldIs ==
  ASSUME NEW line \in Line, line.is \in {"chars", "word", "language"},
         NEW p, p = [field \in Fields |-> p[field]]
  PROVE  LET q == SetField(line, p)
         IN /\ q = [field \in Fields |-> q[field]]
            /\ line.key \in Fields \ {"prompts"} /\ Declares(line, line.key)
            /\ \A field \in Fields : field # line.key => q[field] = p[field]
            /\ line.key \in Alphabets \cup {"language"}
               => q[line.key] = SetField(line, Defaults)[line.key]
<1>0. DOMAIN Defaults = Fields
  BY DEF Defaults, Fields
<1>1. CASE line.is = "chars"
  <2>1. line \in [is : {"chars"}, key : {"valid", "start", "unchecked", "single", "multi"}, chars : Text]
    BY <1>1 DEF Line
  <2>2. /\ line.key \in {"valid", "start", "unchecked", "single", "multi"} /\ line.chars \in Text
        /\ line = [is |-> "chars", key |-> line.key, chars |-> line.chars]
    BY <2>1
  <2> DEFINE v == IF line.key \in {"single", "multi"} THEN First(line.chars) ELSE Range(line.chars)
  <2>3. SetField(line, p) = [p EXCEPT ![line.key] = v]
        /\ SetField(line, Defaults) = [Defaults EXCEPT ![line.key] = v]
    BY <1>1 DEF SetField
  <2> HIDE DEF v
  <2>4. line.key \in Fields \ {"prompts"}
    BY <2>2 DEF Fields
  <2>5. Declares(line, line.key)
    BY <2>2 DEF Declares
  <2> QED BY <1>0, <2>3, <2>4, <2>5
<1>2. CASE line.is = "word"
  <2>1. line \in [is : {"word"}, key : {"define", "adjusts", "prefix"}, word : {"true", "false", "junk"}]
    BY <1>2 DEF Line
  <2>2. line.key \in {"define", "adjusts", "prefix"}
    BY <2>1
  <2> DEFINE v == IF line.word = "junk" THEN p[line.key] ELSE line.word = "true"
  <2>3. SetField(line, p) = [p EXCEPT ![line.key] = v]
    BY <1>2 DEF SetField
  <2> HIDE DEF v
  <2>4. line.key \in Fields \ {"prompts"} /\ line.key \notin Alphabets \cup {"language"}
    BY <2>2 DEF Fields, Alphabets
  <2>5. Declares(line, line.key)
    BY <2>4 DEF Declares
  <2> QED BY <2>3, <2>4, <2>5
<1>3. CASE line.is = "language"
  <2>1. line \in [is : {"language"}, key : {"language"}, word : {"zh", "ja", "en"}]
    BY <1>3 DEF Line
  <2>2. line.key = "language"
    BY <2>1
  <2> DEFINE v == line.word
  <2>3. SetField(line, p) = [p EXCEPT ![line.key] = v]
        /\ SetField(line, Defaults) = [Defaults EXCEPT ![line.key] = v]
    BY <1>3 DEF SetField
  <2> HIDE DEF v
  <2>4. line.key \in Fields \ {"prompts"} /\ line.key \notin Alphabets
    BY <2>2 DEF Fields, Alphabets
  <2>5. Declares(line, line.key)
    BY <1>3, <2>2, <2>4 DEF Declares
  <2> QED BY <1>0, <2>3, <2>4, <2>5
<1> QED BY <1>1, <1>2, <1>3

\* One line more.
LEMMA TakenIs ==
  ASSUME NEW s, WellRead(s), AsRead(s), NEW line \in Line, line.is \notin {"begin", "end"}
  PROVE  WellRead(Taken(s, line)) /\ AsRead(Taken(s, line))
<1>1. /\ s = [props |-> s.props, attrs |-> s.attrs, rows |-> s.rows, codes |-> s.codes]
      /\ s.props = [field \in Fields |-> s.props[field]]
      /\ Prompting(s.props.prompts)
      /\ s.rows \in Seq(Row)
      /\ \A field \in DOMAIN s.attrs : Declares(s.attrs[field], field)
  BY DEF WellRead
<1>2. "prompts" \in Fields /\ "prompts" \notin Alphabets \cup {"language"}
      /\ Alphabets \cup {"language"} \subseteq Fields
  BY DEF Fields, Alphabets
<1>3. CASE line.is \in {"chars", "word", "language"}
  <2> DEFINE q == SetField(line, s.props)
             k == line.key
             a == Put(s.attrs, k, line)
             t == Taken(s, line)
  <2>1. t = [s EXCEPT !.props = q, !.attrs = a]
    BY <1>3 DEF Taken
  <2>2. /\ q = [field \in Fields |-> q[field]]
        /\ k \in Fields \ {"prompts"} /\ Declares(line, k)
        /\ \A field \in Fields : field # k => q[field] = s.props[field]
        /\ k \in Alphabets \cup {"language"} => q[k] = SetField(line, Defaults)[k]
    BY <1>1, <1>3, SetFieldIs
  <2>3. /\ DOMAIN a = {k} \cup DOMAIN s.attrs /\ a[k] = line
        /\ \A field \in DOMAIN s.attrs : field # k => a[field] = s.attrs[field]
    BY DEF Put
  <2> HIDE DEF q, a, k, t
  <2>4. /\ t.props = q /\ t.attrs = a /\ t.rows = s.rows /\ t.codes = s.codes
        /\ t = [props |-> q, attrs |-> a, rows |-> s.rows, codes |-> s.codes]
    BY <1>1, <2>1
  <2>5. q.prompts = s.props.prompts
    BY <1>2, <2>2
  <2>6. WellRead(t)
    <3>1. \A field \in DOMAIN a : Declares(a[field], field)
      BY <1>1, <2>2, <2>3
    <3> QED BY <1>1, <2>2, <2>4, <2>5, <3>1 DEF WellRead
  <2>7. ASSUME NEW field \in Alphabets \cup {"language"} PROVE q[field] = Reread(a, field)
    <3>1. CASE field = k
      BY <2>2, <2>3, <2>7, <3>1 DEF Reread
    <3>2. CASE field # k
      <4>1. s.props[field] = Reread(s.attrs, field)
        BY DEF AsRead
      <4>2. Reread(a, field) = Reread(s.attrs, field)
        BY <2>3, <3>2 DEF Reread
      <4> QED BY <1>2, <2>2, <3>2, <4>1, <4>2
    <3> QED BY <3>1, <3>2
  <2> QED BY <2>4, <2>6, <2>7 DEF AsRead, t
<1>4. CASE line.is = "row" /\ line.counts
  <2> DEFINE r == [keys |-> line.keys, phrase |-> line.phrase, freq |-> line.freq, chosen |-> 0]
             t == Taken(s, line)
  <2>1. line \in [is : {"row"}, keys : Text, phrase : Text, freq : Int, counts : BOOLEAN]
    BY <1>4 DEF Line
  <2>2. r \in Row
    BY <2>1 DEF Row
  <2>3. t = [s EXCEPT !.rows = Append(@, r)]
    BY <1>4 DEF Taken
  <2> HIDE DEF r, t
  <2>4. Append(s.rows, r) \in Seq(Row)
    BY <1>1, <2>2, AppendProperties
  <2>5. /\ t.props = s.props /\ t.attrs = s.attrs /\ t.rows = Append(s.rows, r)
        /\ t = [props |-> t.props, attrs |-> t.attrs, rows |-> t.rows, codes |-> t.codes]
    BY <1>1, <2>3
  <2> QED BY <1>1, <2>4, <2>5 DEF AsRead, WellRead, t
<1>5. CASE line.is = "row" /\ ~line.counts
  BY <1>5 DEF Taken
<1>6. CASE line.is = "code"
  <2> DEFINE t == Taken(s, line)
             c == Put(s.codes, line.zi, line.code)
  <2>1. t = [s EXCEPT !.codes = c]
    BY <1>6 DEF Taken
  <2> HIDE DEF c, t
  <2>2. /\ t.props = s.props /\ t.attrs = s.attrs /\ t.rows = s.rows
        /\ t = [props |-> t.props, attrs |-> t.attrs, rows |-> t.rows, codes |-> t.codes]
    BY <1>1, <2>1
  <2> QED BY <1>1, <2>2 DEF AsRead, WellRead, t
<1>7. CASE line.is = "prompt" /\ line.text = <<>>
  BY <1>7 DEF Taken
<1>8. CASE line.is = "prompt" /\ line.text # <<>>
  <2> DEFINE t == Taken(s, line)
             o == s.props.prompts
             n == Put(o, line.of, line.text)
  <2>1. line \in [is : {"prompt"}, of : Scalar, text : Text]
    BY <1>8 DEF Line
  <2>2. t = [s EXCEPT !.props.prompts = n]
    BY <1>8 DEF Taken
  <2>3. /\ DOMAIN n = {line.of} \cup DOMAIN o /\ n[line.of] = line.text
        /\ \A k \in DOMAIN o : k # line.of => n[k] = o[k]
        /\ n = [k \in DOMAIN n |-> n[k]]
    BY DEF Put
  <2> HIDE DEF n, t
  <2>4. /\ t.props = [s.props EXCEPT !.prompts = n] /\ t.attrs = s.attrs /\ t.rows = s.rows
        /\ t = [props |-> t.props, attrs |-> t.attrs, rows |-> t.rows, codes |-> t.codes]
    BY <1>1, <2>2
  <2>5. /\ t.props = [field \in Fields |-> t.props[field]] /\ t.props.prompts = n
        /\ \A field \in Fields : field # "prompts" => t.props[field] = s.props[field]
    BY <1>1, <1>2, <2>4
  <2>6. Prompting(n)
    <3>1. IsFiniteSet(DOMAIN o) /\ DOMAIN o \subseteq Scalar /\ o \in [DOMAIN o -> Text \ {<<>>}]
      BY <1>1 DEF Prompting
    <3>2. IsFiniteSet(DOMAIN n)
      <4>1. IsFiniteSet(DOMAIN o \cup {line.of})
        BY <3>1, FS_AddElement
      <4>2. DOMAIN o \cup {line.of} = DOMAIN n
        BY <2>3
      <4> QED BY <4>1, <4>2
    <3>3. line.of \in Scalar /\ line.text \in Text \ {<<>>}
      BY <1>8, <2>1
    <3> HIDE DEF o
    <3>4. \A k \in DOMAIN n : n[k] \in Text \ {<<>>}
      BY <2>3, <3>1, <3>3
    <3>5. n \in [DOMAIN n -> Text \ {<<>>}]
      BY <2>3, <3>4
    <3> QED BY <2>3, <3>1, <3>2, <3>3, <3>5 DEF Prompting
  <2>7. AsRead(t)
    BY <1>2, <2>4, <2>5 DEF AsRead
  <2> QED BY <1>1, <2>4, <2>5, <2>6, <2>7 DEF WellRead, t
<1>9. CASE line.is = "text"
  BY <1>9 DEF Taken
<1>10. line.is \in {"chars", "word", "language", "row", "code", "prompt", "text"}
  BY DEF Line
<1>11. line.is = "row" => line.counts \in BOOLEAN
  <2>1. ASSUME line.is = "row"
        PROVE  line \in [is : {"row"}, keys : Text, phrase : Text, freq : Int, counts : BOOLEAN]
    BY <2>1 DEF Line
  <2> QED BY <2>1
<1> QED BY <1>3, <1>4, <1>5, <1>6, <1>7, <1>8, <1>9, <1>10

\* The end of the file.
LEMMA FinalizeIs ==
  ASSUME NEW s, WellRead(s), AsRead(s), NEW t, t = [s EXCEPT !.props = Finalize(@)]
  PROVE  WellRead(t) /\ Faithful(t)
<1>1. /\ s = [props |-> s.props, attrs |-> s.attrs, rows |-> s.rows, codes |-> s.codes]
      /\ s.props = [field \in Fields |-> s.props[field]]
  BY DEF WellRead
<1> DEFINE p == s.props
           q == Finalize(p)
<1>2. /\ t.props = q /\ t.attrs = s.attrs /\ t.rows = s.rows
      /\ t = [props |-> t.props, attrs |-> t.attrs, rows |-> t.rows, codes |-> t.codes]
  BY <1>1
<1>3. /\ q = [field \in Fields |-> q[field]]
      /\ q.valid = (IF p.valid = {} THEN LatinLetters ELSE p.valid)
      /\ q.cjk = (p.language \in {"zh", "ja"})
      /\ q.start = p.start /\ q.single = p.single /\ q.multi = p.multi /\ q.prompts = p.prompts
  BY <1>1 DEF Finalize, Fields
<1>4. /\ p.valid = Reread(s.attrs, "valid") /\ p.start = Reread(s.attrs, "start")
      /\ p.single = Reread(s.attrs, "single") /\ p.multi = Reread(s.attrs, "multi")
      /\ p.language = Reread(s.attrs, "language")
  BY DEF AsRead, Alphabets
<1> HIDE DEF p, q
<1>5. WellRead(t)
  BY <1>2, <1>3 DEF WellRead, p
<1>6. Faithful(t)
  BY <1>2, <1>3, <1>4 DEF Faithful
<1> QED BY <1>5, <1>6

\* What Only leaves of a text.
LEMMA OnlyOfText ==
  ASSUME NEW text \in Text, NEW keys
  PROVE  LET left == Only(text, Range(text) \ keys)
         IN left \in Text /\ Range(left) = Range(text) \ keys
<1> DEFINE good == Range(text) \ keys
           left == Only(text, good)
<1>1. text \in Seq(Scalar) /\ DOMAIN text = 1..Len(text)
  BY TextIsSequence DEF Text
<1>2. left \in Seq(Scalar \cap good) /\ Keeps(left, text, good)
  BY <1>1, OnlyIs
<1>3. Range(text) = {text[i] : i \in 1..Len(text)}
  BY <1>1 DEF Range
<1> HIDE DEF left, good
<1>4. left \in Seq(Scalar) /\ DOMAIN left = 1..Len(left) /\ \A i \in 1..Len(left) : left[i] \in good
  BY <1>2
<1>5. Range(left) = {left[i] : i \in 1..Len(left)}
  BY <1>4 DEF Range
<1>6. ASSUME NEW x \in good PROVE x \in Range(left)
  <2>1. PICK i \in 1..Len(text) : text[i] = x
    BY <1>3 DEF good
  <2>2. PICK k \in 1..Len(left) : left[k] = text[i]
    BY <1>2, <1>6, <2>1 DEF Keeps
  <2> QED BY <1>5, <2>1, <2>2
<1>7. Range(left) = good
  BY <1>4, <1>5, <1>6
<1>8. left \in Text
  BY <1>4 DEF Text
<1> QED BY <1>7, <1>8 DEF left, good

\* What Only leaves of rows.
LEMMA OnlyOfRows ==
  ASSUME NEW rows \in Seq(Row), NEW good
  PROVE  LET left == Only(rows, good)
         IN /\ left \in Seq(Row)
            /\ \A i \in DOMAIN rows : rows[i] \in good => \E j \in DOMAIN left : left[j] = rows[i]
            /\ \A j \in DOMAIN left : left[j] \in good
<1> DEFINE left == Only(rows, good)
<1>1. left \in Seq(Row \cap good) /\ Keeps(left, rows, good)
  BY OnlyIs
<1> HIDE DEF left
<1>2. left \in Seq(Row) /\ DOMAIN left = 1..Len(left) /\ \A j \in 1..Len(left) : left[j] \in good
  BY <1>1
<1>3. DOMAIN rows = 1..Len(rows)
  OBVIOUS
<1> QED BY <1>1, <1>2, <1>3 DEF Keeps, left

\* A transformation that leaves the declaration as it is.
LEMMA RowsAlone ==
  ASSUME NEW s, WellRead(s), Faithful(s), NEW rows \in Seq(Row), NEW codes, NEW t,
         t = [props |-> s.props, attrs |-> s.attrs, rows |-> rows, codes |-> codes]
  PROVE  WellRead(t) /\ Faithful(t)
<1>1. t.props = s.props /\ t.attrs = s.attrs /\ t.rows = rows /\ t.codes = codes
  OBVIOUS
<1>2. t = [props |-> t.props, attrs |-> t.attrs, rows |-> t.rows, codes |-> t.codes]
  BY <1>1
<1> QED BY <1>1, <1>2 DEF WellRead, Faithful

\* The keys that are stripped, and what is left without them.
LEMMA StrippedIs ==
  ASSUME NEW s, WellRead(s), Faithful(s)
  PROVE  LET K == Stripped(s)
         IN /\ K \subseteq s.props.valid \cap PunctuationKeys
            /\ s.props.valid # {} /\ s.props.valid \ K # {}
            /\ \A i \in DOMAIN s.rows : Len(s.rows[i].keys) >= 2 => Range(s.rows[i].keys) \cap K = {}
<1> DEFINE K == Stripped(s)
           spelled == UNION {Range(r.keys) : r \in {q \in Range(s.rows) : Len(q.keys) >= 2}}
           loose == {k \in s.props.valid \cap PunctuationKeys : ~IsWildcard(s.props, k)} \ spelled
           rows == s.rows
           inputs == s.props.valid
<1>1. K = IF ~s.props.cjk THEN {} ELSE IF loose = inputs THEN {} ELSE loose
  BY DEF Stripped
<1>2. loose \subseteq inputs \cap PunctuationKeys /\ loose \cap spelled = {}
  OBVIOUS
<1>3. ASSUME NEW i \in DOMAIN rows, Len(rows[i].keys) >= 2
      PROVE  Range(rows[i].keys) \subseteq spelled
  <2>1. rows[i] \in Range(rows)
    BY DEF Range
  <2> HIDE DEF rows
  <2> QED BY <1>3, <2>1 DEF rows
<1>4. inputs # {}
  BY TableSourceAssumption DEF Faithful
<1> HIDE DEF K, spelled, loose, inputs
<1>5. K \subseteq loose /\ inputs \ K # {}
  BY <1>1, <1>2, <1>4
<1> QED BY <1>2, <1>3, <1>4, <1>5 DEF K, inputs

\* Stripping keeps both forms of the declaration the same, and the rows of other codes.
LEMMA StripIs ==
  ASSUME NEW s, WellRead(s), Faithful(s)
  PROVE  LET t == StripPunctuationKeys(s)
             K == Stripped(s)
         IN
         /\ WellRead(t) /\ Faithful(t)
         /\ t.props.valid = s.props.valid \ K /\ t.props.start = s.props.start \ K
         /\ t.props.single = s.props.single /\ t.props.multi = s.props.multi
         /\ \A i \in DOMAIN s.rows :
              Len(s.rows[i].keys) # 1 \/ s.rows[i].keys[1] \notin K
              => \E j \in DOMAIN t.rows : t.rows[j] = s.rows[i]
<1> DEFINE t == StripPunctuationKeys(s)
           K == Stripped(s)
           kept(prompts) == [k \in DOMAIN prompts \ K |-> prompts[k]]
           p == s.props
           q == [p EXCEPT !.valid = @ \ K, !.start = @ \ K, !.prompts = kept(@)]
           a == [k \in DOMAIN s.attrs |-> IF k \in {"valid", "start"} THEN Without(s.attrs[k], K)
                                          ELSE s.attrs[k]]
           good == {r \in Range(s.rows) : Len(r.keys) # 1 \/ r.keys[1] \notin K}
           left == Only(s.rows, good)
<1>1. /\ s = [props |-> s.props, attrs |-> s.attrs, rows |-> s.rows, codes |-> s.codes]
      /\ p = [field \in Fields |-> p[field]]
      /\ Prompting(p.prompts) /\ s.rows \in Seq(Row)
      /\ \A field \in DOMAIN s.attrs : Declares(s.attrs[field], field)
  BY DEF WellRead
<1>2. /\ t.props = q /\ t.attrs = a /\ t.rows = left /\ t.codes = s.codes
      /\ t = [props |-> t.props, attrs |-> t.attrs, rows |-> t.rows, codes |-> t.codes]
  <2>1. t = [s EXCEPT !.rows = NotKeyedBy(@, K), !.props = q, !.attrs = a]
    BY DEF StripPunctuationKeys
  <2>2. NotKeyedBy(s.rows, K) = left
    BY DEF NotKeyedBy
  <2> HIDE DEF q, a, left, t
  <2> QED BY <1>1, <2>1, <2>2
<1> HIDE DEF t, K
<1>3. /\ q = [field \in Fields |-> q[field]]
      /\ q.valid = p.valid \ K /\ q.start = p.start \ K /\ q.prompts = kept(p.prompts)
      /\ q.single = p.single /\ q.multi = p.multi /\ q.cjk = p.cjk
  <2> DEFINE v == kept(p.prompts)
  <2> HIDE DEF v
  <2>1. q = [p EXCEPT !.valid = @ \ K, !.start = @ \ K, !.prompts = v]
    BY DEF v
  <2> HIDE DEF q
  <2>2. /\ q = [field \in Fields |-> q[field]]
        /\ q.valid = p.valid \ K /\ q.start = p.start \ K /\ q.prompts = v
        /\ q.single = p.single /\ q.multi = p.multi /\ q.cjk = p.cjk
    <3> HIDE DEF p
    <3> QED BY <1>1, <2>1 DEF Fields
  <2> QED BY <2>2 DEF v
<1>4. Prompting(q.prompts)
  <2> DEFINE o == p.prompts
             n == kept(o)
  <2>1. IsFiniteSet(DOMAIN o) /\ DOMAIN o \subseteq Scalar /\ o \in [DOMAIN o -> Text \ {<<>>}]
    BY <1>1 DEF Prompting
  <2> HIDE DEF o
  <2>2. DOMAIN n = DOMAIN o \ K /\ n \in [DOMAIN n -> Text \ {<<>>}] /\ DOMAIN n \subseteq DOMAIN o
    BY <2>1
  <2> HIDE DEF n
  <2>3. IsFiniteSet(DOMAIN n)
    BY <2>1, <2>2, FS_Subset
  <2>4. Prompting(n)
    BY <2>1, <2>2, <2>3 DEF Prompting
  <2> HIDE DEF q, p
  <2> QED BY <1>3, <2>4 DEF n, o
<1> HIDE DEF q
<1>5. ASSUME NEW field \in {"valid", "start"}, field \in DOMAIN s.attrs
      PROVE  LET old == s.attrs[field]
                 new == a[field]
             IN /\ Declares(new, field)
                /\ SetField(new, Defaults)[field] = SetField(old, Defaults)[field] \ K
                /\ SetField(old, Defaults)[field] = Range(old.chars)
  <2> DEFINE old == s.attrs[field]
             left_ == Only(old.chars, Range(old.chars) \ K)
             new == a[field]
  <2>1. /\ field \in Alphabets /\ old.key = field /\ old.chars \in Text
        /\ old = [is |-> "chars", key |-> field, chars |-> old.chars]
    BY <1>1, <1>5 DEF Declares, Alphabets
  <2>2. new = [old EXCEPT !.chars = left_]
    BY <1>5 DEF Without
  <2> HIDE DEF old
  <2>3. left_ \in Text /\ Range(left_) = Range(old.chars) \ K
    BY <2>1, OnlyOfText
  <2> HIDE DEF left_, new
  <2>4. /\ new.chars = left_ /\ new.key = field /\ new.is = "chars" /\ old.is = "chars"
        /\ new = [is |-> "chars", key |-> field, chars |-> left_]
    BY <2>1, <2>2
  <2>5. Declares(new, field)
    BY <1>5, <2>3, <2>4 DEF Declares
  <2>6. field \in DOMAIN Defaults /\ field \notin {"single", "multi"}
    BY <1>5 DEF Defaults
  <2>7. SetField(new, Defaults) = [Defaults EXCEPT ![field] = Range(left_)]
        /\ SetField(old, Defaults) = [Defaults EXCEPT ![field] = Range(old.chars)]
    BY <2>1, <2>4, <2>6 DEF SetField
  <2>8. SetField(new, Defaults)[field] = Range(left_) /\ SetField(old, Defaults)[field] = Range(old.chars)
    BY <2>6, <2>7
  <2> QED BY <2>3, <2>5, <2>8 DEF old, new
<1>6. DOMAIN a = DOMAIN s.attrs /\ \A k \in DOMAIN s.attrs : k \notin {"valid", "start"} => a[k] = s.attrs[k]
  OBVIOUS
<1> HIDE DEF a
<1>7. \A field \in DOMAIN a : Declares(a[field], field)
  BY <1>1, <1>5, <1>6
<1>8. left \in Seq(Row) /\ \A i \in DOMAIN s.rows : s.rows[i] \in good => \E j \in DOMAIN left : left[j] = s.rows[i]
  <2>1. s.rows \in Seq(Row)
    BY <1>1
  <2> HIDE DEF good
  <2> QED BY <2>1, OnlyOfRows
<1>9. ASSUME NEW i \in DOMAIN s.rows, Len(s.rows[i].keys) # 1 \/ s.rows[i].keys[1] \notin K
      PROVE  s.rows[i] \in good
  <2>1. s.rows[i] \in Range(s.rows)
    BY DEF Range
  <2> QED BY <1>9, <2>1
<1> HIDE DEF left, good
<1>10. WellRead(t)
  BY <1>2, <1>3, <1>4, <1>7, <1>8 DEF WellRead
<1>11. /\ \A field \in {"single", "multi", "language"} : Reread(a, field) = Reread(s.attrs, field)
       /\ \A field \in {"valid", "start"} : Reread(a, field) = Reread(s.attrs, field) \ K
  <2>1. \A field \in {"single", "multi", "language"} : Reread(a, field) = Reread(s.attrs, field)
    BY <1>6 DEF Reread
  <2>2. ASSUME NEW field \in {"valid", "start"} PROVE Reread(a, field) = Reread(s.attrs, field) \ K
    <3>1. CASE field \in DOMAIN s.attrs
      BY <1>5, <1>6, <3>1 DEF Reread
    <3>2. CASE field \notin DOMAIN s.attrs
      <4>1. Defaults[field] = {}
        BY DEF Defaults
      <4> QED BY <1>6, <3>2, <4>1 DEF Reread
    <3> QED BY <3>1, <3>2
  <2> QED BY <2>1, <2>2
<1>12. Faithful(t)
  <2> DEFINE v == Reread(s.attrs, "valid")
  <2>1. /\ p.start = Reread(s.attrs, "start") /\ p.single = Reread(s.attrs, "single")
        /\ p.multi = Reread(s.attrs, "multi")
        /\ p.valid = (IF v = {} THEN LatinLetters ELSE v)
        /\ p.cjk = (Reread(s.attrs, "language") \in {"zh", "ja"})
    BY DEF Faithful
  <2>2. K \subseteq p.valid \cap PunctuationKeys /\ p.valid \ K # {}
    BY StrippedIs DEF K
  <2>3. LatinLetters \cap PunctuationKeys = {}
    BY TableSourceAssumption
  <2> HIDE DEF p, v
  <2>4. p.valid \ K = IF v \ K = {} THEN LatinLetters ELSE v \ K
    BY <2>1, <2>2, <2>3
  <2>5. Reread(a, "valid") = v \ K
    BY <1>11 DEF v
  <2> QED BY <1>2, <1>3, <1>11, <2>1, <2>4, <2>5 DEF Faithful
<1> QED BY <1>2, <1>3, <1>8, <1>9, <1>10, <1>12 DEF t, K

\* Replacing frequencies leaves codes and phrases.
LEMMA TransferIs ==
  ASSUME NEW s, WellRead(s), Faithful(s), NEW ranked \in Seq(Row), NEW threshold \in Int
  PROVE  LET t == ApplyFrequencyTransfer(s, ranked, threshold)
         IN /\ WellRead(t) /\ Faithful(t) /\ t.props = s.props
            /\ \A i \in DOMAIN s.rows : \E j \in DOMAIN t.rows : Pair(t.rows[j]) = Pair(s.rows[i])
<1> DEFINE of(phrase) == {i \in DOMAIN ranked : ranked[i].phrase = phrase}
           last(phrase) == CHOOSE i \in of(phrase) : \A j \in of(phrase) : j <= i
           use(phrase) == IF of(phrase) = {} THEN 0 ELSE ranked[last(phrase)].freq
           rows == [i \in DOMAIN s.rows |->
                      IF s.rows[i].freq < threshold THEN s.rows[i]
                      ELSE [s.rows[i] EXCEPT !.freq = use(s.rows[i].phrase) + threshold]]
           t == ApplyFrequencyTransfer(s, ranked, threshold)
<1>1. /\ s = [props |-> s.props, attrs |-> s.attrs, rows |-> s.rows, codes |-> s.codes]
      /\ s.rows \in Seq(Row) /\ DOMAIN s.rows = 1..Len(s.rows) /\ Len(s.rows) \in Nat
  BY DEF WellRead
<1>2. t = [s EXCEPT !.rows = rows]
  BY DEF ApplyFrequencyTransfer
<1>3. ASSUME NEW phrase PROVE use(phrase) \in Int
  <2>1. CASE of(phrase) = {}
    BY <2>1
  <2>2. CASE of(phrase) # {}
    <3> DEFINE n == Len(ranked)
               I == of(phrase)
               f == [i \in 1..n |-> i]
    <3>1. n \in Nat /\ I \in SUBSET (1..n) /\ f \in [1..n -> Int] /\ DOMAIN ranked = 1..n
      OBVIOUS
    <3>2. \E i \in I : \A j \in I : f[j] <= f[i]
      <4> HIDE DEF I, f, n
      <4> QED BY <2>2, <3>1, LargestOf DEF I
    <3>3. \E i \in I : \A j \in I : j <= i
      <4>1. \A i \in I : f[i] = i
        BY <3>1
      <4> HIDE DEF f, I
      <4> QED BY <3>2, <4>1
    <3>4. last(phrase) \in of(phrase)
      <4> HIDE DEF of
      <4> QED BY <3>3 DEF I
    <3>5. last(phrase) \in DOMAIN ranked
      BY <3>4
    <3> HIDE DEF last
    <3>6. ranked[last(phrase)] \in Row
      BY <3>5
    <3>7. ranked[last(phrase)].freq \in Int
      BY <3>6 DEF Row
    <3> HIDE DEF of
    <3> QED BY <2>2, <3>7
  <2> QED BY <2>1, <2>2
<1> HIDE DEF use, t
<1>4. ASSUME NEW i \in DOMAIN s.rows
      PROVE  rows[i] \in Row /\ Pair(rows[i]) = Pair(s.rows[i])
  <2> DEFINE r == s.rows[i]
             u == use(r.phrase) + threshold
  <2>1. r \in Row /\ u \in Int
    BY <1>1, <1>3
  <2>2. rows[i] = IF r.freq < threshold THEN r ELSE [r EXCEPT !.freq = u]
    OBVIOUS
  <2> HIDE DEF r, u, rows
  <2>3. rows[i] \in Row /\ rows[i].keys = r.keys /\ rows[i].phrase = r.phrase
    BY <2>1, <2>2 DEF Row
  <2> QED BY <2>3 DEF Pair, r
<1>5. rows \in Seq(Row) /\ DOMAIN rows = DOMAIN s.rows
  <2>1. rows \in [1..Len(s.rows) -> Row] /\ DOMAIN rows = DOMAIN s.rows
    BY <1>1, <1>4
  <2> HIDE DEF rows
  <2> QED BY <1>1, <2>1
<1> HIDE DEF rows
<1>6. t = [props |-> s.props, attrs |-> s.attrs, rows |-> rows, codes |-> s.codes]
  BY <1>1, <1>2
<1>7. WellRead(t) /\ Faithful(t)
  BY <1>5, <1>6, RowsAlone
<1>8. t.props = s.props /\ t.rows = rows
  BY <1>6
<1> QED BY <1>4, <1>5, <1>7, <1>8 DEF t

\* Leaving out what no glyph shows leaves the rest.
LEMMA FilterIs ==
  ASSUME NEW s, WellRead(s), Faithful(s)
  PROVE  LET t == ApplyCoverageFilter(s)
         IN /\ WellRead(t) /\ Faithful(t) /\ t.props = s.props
            /\ \A i \in DOMAIN s.rows : Range(s.rows[i].phrase) \subseteq Covered
                 => \E j \in DOMAIN t.rows : Pair(t.rows[j]) = Pair(s.rows[i])
<1> DEFINE good == {r \in Range(s.rows) : Range(r.phrase) \subseteq Covered}
           left == Only(s.rows, good)
           t == ApplyCoverageFilter(s)
<1>1. /\ s = [props |-> s.props, attrs |-> s.attrs, rows |-> s.rows, codes |-> s.codes]
      /\ s.rows \in Seq(Row)
  BY DEF WellRead
<1>2. t = [s EXCEPT !.rows = left]
  BY DEF ApplyCoverageFilter
<1>3. \A i \in DOMAIN s.rows : Range(s.rows[i].phrase) \subseteq Covered => s.rows[i] \in good
  <2>1. \A i \in DOMAIN s.rows : s.rows[i] \in Range(s.rows)
    BY DEF Range
  <2> QED BY <2>1
<1>4. left \in Seq(Row) /\ \A i \in DOMAIN s.rows : s.rows[i] \in good => \E j \in DOMAIN left : left[j] = s.rows[i]
  <2>1. s.rows \in Seq(Row)
    BY <1>1
  <2> HIDE DEF good
  <2> QED BY <2>1, OnlyOfRows
<1> HIDE DEF left, good, t
<1>5. t = [props |-> s.props, attrs |-> s.attrs, rows |-> left, codes |-> s.codes]
  BY <1>1, <1>2
<1>6. WellRead(t) /\ Faithful(t)
  BY <1>4, <1>5, RowsAlone
<1>7. t.props = s.props /\ t.rows = left
  BY <1>5
<1>8. ASSUME NEW i \in DOMAIN s.rows, Range(s.rows[i].phrase) \subseteq Covered
      PROVE  \E j \in DOMAIN left : Pair(left[j]) = Pair(s.rows[i])
  <2>1. PICK j \in DOMAIN left : left[j] = s.rows[i]
    BY <1>3, <1>4, <1>8
  <2> QED BY <2>1
<1> QED BY <1>6, <1>7, <1>8 DEF t

\* The codes of characters are beside the declaration and the rows.
LEMMA GoucimaIs ==
  ASSUME NEW s, WellRead(s), Faithful(s)
  PROVE  LET t == DeriveGoucima(s)
         IN WellRead(t) /\ Faithful(t) /\ t.props = s.props /\ t.rows = s.rows
<1> DEFINE longer(codes, r) ==
             IF Len(r.phrase) # 1 THEN codes
             ELSE IF r.phrase \in DOMAIN codes /\ Size(codes[r.phrase]) >= Size(r.keys) THEN codes
             ELSE Put(codes, r.phrase, r.keys)
           c == FoldLeft(longer, s.codes, s.rows)
           t == DeriveGoucima(s)
<1>1. /\ s = [props |-> s.props, attrs |-> s.attrs, rows |-> s.rows, codes |-> s.codes]
      /\ s.rows \in Seq(Row)
  BY DEF WellRead
<1>2. t = [s EXCEPT !.codes = c]
  BY DEF DeriveGoucima
<1> HIDE DEF c, t
<1>3. t = [props |-> s.props, attrs |-> s.attrs, rows |-> s.rows, codes |-> c]
  BY <1>1, <1>2
<1>4. t.props = s.props /\ t.rows = s.rows
  BY <1>3
<1> QED BY <1>1, <1>3, <1>4, RowsAlone DEF t

\* A wildcard the compiler adds is the only one, and no code holds it but in front.
LEMMA WildIs ==
  ASSUME NEW s, WellRead(s), Faithful(s), NEW key \in Scalar
  PROVE  LET t == DeriveSingleWildcard(s, key)
         IN /\ WellRead(t) /\ Faithful(t) /\ t.rows = s.rows
            /\ t.props.valid = s.props.valid /\ t.props.start = s.props.start
            /\ \/ t.props.single = s.props.single /\ t.props.multi = s.props.multi
               \/ /\ s.props.single = {} /\ s.props.multi = {}
                  /\ t.props.single = {key} /\ t.props.multi = {}
                  /\ \A i \in DOMAIN s.rows : \A j \in 2..Len(s.rows[i].keys) : s.rows[i].keys[j] # key
<1> DEFINE p == s.props
           idle == \/ p.single \cup p.multi # {}
                   \/ \E r \in Range(s.rows) : \E i \in 2..Len(r.keys) : r.keys[i] = key
           line == [is |-> "chars", key |-> "single", chars |-> <<key>>]
           a == Put(s.attrs, "single", line)
           q == [p EXCEPT !.single = {key}]
           t == DeriveSingleWildcard(s, key)
<1>1. /\ s = [props |-> s.props, attrs |-> s.attrs, rows |-> s.rows, codes |-> s.codes]
      /\ p = [field \in Fields |-> p[field]] /\ Prompting(p.prompts)
      /\ s.rows \in Seq(Row)
      /\ \A field \in DOMAIN s.attrs : Declares(s.attrs[field], field)
  BY DEF WellRead
<1>2. t = IF idle THEN s ELSE [s EXCEPT !.props.single = {key}, !.attrs = a]
  BY DEF DeriveSingleWildcard
<1>3. CASE idle
  <2>1. t = s
    BY <1>2, <1>3
  <2> HIDE DEF t
  <2> QED BY <2>1 DEF t
<1>4. CASE ~idle
  <2>1. p.single = {} /\ p.multi = {}
    BY <1>4
  <2>2. \A i \in DOMAIN s.rows : \A j \in 2..Len(s.rows[i].keys) : s.rows[i].keys[j] # key
    <3>1. \A i \in DOMAIN s.rows : s.rows[i] \in Range(s.rows)
      BY DEF Range
    <3> QED BY <1>4, <3>1
  <2>3. t = [s EXCEPT !.props.single = {key}, !.attrs = a]
    BY <1>2, <1>4
  <2> HIDE DEF idle, t, a
  <2>4. /\ t.props = q /\ t.attrs = a /\ t.rows = s.rows
        /\ t = [props |-> t.props, attrs |-> t.attrs, rows |-> t.rows, codes |-> t.codes]
    BY <1>1, <2>3
  <2>5. /\ q = [field \in Fields |-> q[field]]
        /\ q.single = {key} /\ q.multi = p.multi /\ q.valid = p.valid /\ q.start = p.start
        /\ q.prompts = p.prompts /\ q.cjk = p.cjk
    <3> HIDE DEF p
    <3> QED BY <1>1 DEF Fields
  <2> HIDE DEF q
  <2>6. /\ DOMAIN a = {"single"} \cup DOMAIN s.attrs /\ a["single"] = line
        /\ \A field \in DOMAIN s.attrs : field # "single" => a[field] = s.attrs[field]
    <3> HIDE DEF line
    <3> QED BY DEF Put, a
  <2>7. Declares(line, "single") /\ SetField(line, Defaults)["single"] = {key}
    <3>1. <<key>> \in Text /\ First(<<key>>) = {key}
      BY DEF First, Text
    <3> DEFINE v == <<key>>
    <3> HIDE DEF v
    <3>2. line.key = "single" /\ line.chars = v /\ line.is = "chars"
          /\ line = [is |-> "chars", key |-> "single", chars |-> line.chars]
      BY DEF v
    <3> HIDE DEF line
    <3>3. Declares(line, "single")
      BY <3>1, <3>2 DEF Declares, v
    <3>4. "single" \in DOMAIN Defaults
      BY DEF Defaults
    <3>5. SetField(line, Defaults) = [Defaults EXCEPT !["single"] = First(v)]
      BY <3>2 DEF SetField
    <3>6. SetField(line, Defaults)["single"] = First(v)
      BY <3>4, <3>5
    <3> QED BY <3>1, <3>3, <3>6 DEF v
  <2> HIDE DEF line
  <2>8. \A field \in DOMAIN a : Declares(a[field], field)
    BY <1>1, <2>6, <2>7
  <2>9. WellRead(t)
    BY <1>1, <2>4, <2>5, <2>8 DEF WellRead
  <2>10. /\ Reread(a, "single") = {key}
         /\ \A field \in {"valid", "start", "multi", "language"} : Reread(a, field) = Reread(s.attrs, field)
    BY <2>6, <2>7 DEF Reread
  <2>11. Faithful(t)
    BY <2>4, <2>5, <2>10 DEF Faithful
  <2> QED BY <2>1, <2>2, <2>4, <2>5, <2>9, <2>11 DEF t
<1> QED BY <1>3, <1>4

\* What of a table the compiler leaves, when it strips these keys.
Leaves(s, t, K) ==
  /\ t.props.valid = s.props.valid \ K /\ t.props.start = s.props.start \ K
  /\ \/ t.props.single = s.props.single /\ t.props.multi = s.props.multi
     \/ /\ s.props.single = {} /\ s.props.multi = {}
        /\ \E key \in Scalar :
             /\ t.props.single = {key} /\ t.props.multi = {}
             /\ \A i \in DOMAIN t.rows : \A j \in 2..Len(t.rows[i].keys) : t.rows[i].keys[j] # key
  /\ \A i \in DOMAIN s.rows :
       /\ Len(s.rows[i].keys) # 1 \/ s.rows[i].keys[1] \notin K
       /\ setting.filter => Range(s.rows[i].phrase) \subseteq Covered
       => \E j \in DOMAIN t.rows : Pair(t.rows[j]) = Pair(s.rows[i])

\* The transformations, one after the other.
LEMMA PreparedIs ==
  ASSUME NEW s, WellRead(s), Faithful(s), setting \in Setting
  PROVE  LET t == Prepared(s)
         IN /\ WellRead(t) /\ Faithful(t)
            /\ \E K : /\ K = {} \/ (setting.strip /\ K = Stripped(s))
                      /\ Leaves(s, t, K)
<1> DEFINE K == IF setting.strip THEN Stripped(s) ELSE {}
           a == IF setting.strip THEN StripPunctuationKeys(s) ELSE s
           b == IF setting.transfers
                THEN ApplyFrequencyTransfer(a, setting.ranked, setting.threshold) ELSE a
           c == IF setting.filter THEN ApplyCoverageFilter(b) ELSE b
           key == CHOOSE k \in setting.wildcard : TRUE
           d == IF setting.wildcard # {} THEN DeriveSingleWildcard(c, key) ELSE c
           t == Prepared(s)
<1>1. t = IF d.props.define THEN DeriveGoucima(d) ELSE d
  BY DEF Prepared
<1>2. /\ setting.wildcard \subseteq Scalar /\ setting.ranked \in Seq(Row) /\ setting.threshold \in Int
  BY DEF Setting
<1>3. setting.wildcard # {} => key \in Scalar
  BY <1>2
<1> HIDE DEF key, t
<1>4. /\ WellRead(a) /\ Faithful(a)
      /\ a.props.valid = s.props.valid \ K /\ a.props.start = s.props.start \ K
      /\ a.props.single = s.props.single /\ a.props.multi = s.props.multi
      /\ \A i \in DOMAIN s.rows :
           Len(s.rows[i].keys) # 1 \/ s.rows[i].keys[1] \notin K
           => \E j \in DOMAIN a.rows : Pair(a.rows[j]) = Pair(s.rows[i])
  <2>1. CASE setting.strip
    <3> DEFINE M == Stripped(s)
               u == StripPunctuationKeys(s)
    <3>1. /\ WellRead(u) /\ Faithful(u)
          /\ u.props.valid = s.props.valid \ M /\ u.props.start = s.props.start \ M
          /\ u.props.single = s.props.single /\ u.props.multi = s.props.multi
          /\ \A i \in DOMAIN s.rows :
               Len(s.rows[i].keys) # 1 \/ s.rows[i].keys[1] \notin M
               => \E j \in DOMAIN u.rows : u.rows[j] = s.rows[i]
      BY StripIs
    <3>2. a = u /\ K = M
      BY <2>1
    <3> HIDE DEF a, u, K, M
    <3>3. ASSUME NEW i \in DOMAIN s.rows, Len(s.rows[i].keys) # 1 \/ s.rows[i].keys[1] \notin M
          PROVE  \E j \in DOMAIN u.rows : Pair(u.rows[j]) = Pair(s.rows[i])
      <4>1. PICK j \in DOMAIN u.rows : u.rows[j] = s.rows[i]
        BY <3>1, <3>3
      <4> QED BY <4>1
    <3> QED BY <3>1, <3>2, <3>3
  <2>2. CASE ~setting.strip
    <3>1. a = s /\ K = {}
      BY <2>2
    <3> HIDE DEF a, K
    <3> QED BY <3>1
  <2> QED BY <2>1, <2>2
<1>5. K = {} \/ (setting.strip /\ K = Stripped(s))
  OBVIOUS
<1> HIDE DEF K, a
<1>6. /\ WellRead(b) /\ Faithful(b) /\ b.props = a.props
      /\ \A i \in DOMAIN a.rows : \E j \in DOMAIN b.rows : Pair(b.rows[j]) = Pair(a.rows[i])
  <2>1. CASE setting.transfers
    <3>1. b = ApplyFrequencyTransfer(a, setting.ranked, setting.threshold)
      BY <2>1
    <3> HIDE DEF b
    <3> QED BY <1>2, <1>4, <3>1, TransferIs
  <2>2. CASE ~setting.transfers
    <3>1. b = a
      BY <2>2
    <3> HIDE DEF b
    <3> QED BY <1>4, <3>1
  <2> QED BY <2>1, <2>2
<1> HIDE DEF b
<1>7. /\ WellRead(c) /\ Faithful(c) /\ c.props = b.props
      /\ \A i \in DOMAIN b.rows : (setting.filter => Range(b.rows[i].phrase) \subseteq Covered)
           => \E j \in DOMAIN c.rows : Pair(c.rows[j]) = Pair(b.rows[i])
  <2>1. CASE setting.filter
    <3>1. c = ApplyCoverageFilter(b)
      BY <2>1
    <3> HIDE DEF c
    <3> QED BY <1>6, <2>1, <3>1, FilterIs
  <2>2. CASE ~setting.filter
    <3>1. c = b
      BY <2>2
    <3> HIDE DEF c
    <3> QED BY <1>6, <3>1
  <2> QED BY <2>1, <2>2
<1> HIDE DEF c
<1>8. /\ WellRead(d) /\ Faithful(d) /\ d.rows = c.rows
      /\ d.props.valid = c.props.valid /\ d.props.start = c.props.start
      /\ \/ d.props.single = c.props.single /\ d.props.multi = c.props.multi
         \/ /\ c.props.single = {} /\ c.props.multi = {} /\ key \in Scalar
            /\ d.props.single = {key} /\ d.props.multi = {}
            /\ \A i \in DOMAIN c.rows : \A j \in 2..Len(c.rows[i].keys) : c.rows[i].keys[j] # key
  <2>1. CASE setting.wildcard # {}
    <3>1. d = DeriveSingleWildcard(c, key) /\ key \in Scalar
      BY <1>3, <2>1
    <3> HIDE DEF d
    <3> QED BY <1>7, <3>1, WildIs
  <2>2. CASE setting.wildcard = {}
    <3>1. d = c
      BY <2>2
    <3> HIDE DEF d
    <3> QED BY <1>7, <3>1
  <2> QED BY <2>1, <2>2
<1> HIDE DEF d
<1>9. WellRead(t) /\ Faithful(t) /\ t.props = d.props /\ t.rows = d.rows
  <2>1. CASE d.props.define
    BY <1>1, <1>8, <2>1, GoucimaIs
  <2>2. CASE ~d.props.define
    BY <1>1, <1>8, <2>2
  <2> QED BY <2>1, <2>2
<1>10. ASSUME NEW i \in DOMAIN s.rows, Len(s.rows[i].keys) # 1 \/ s.rows[i].keys[1] \notin K,
              setting.filter => Range(s.rows[i].phrase) \subseteq Covered
       PROVE  \E j \in DOMAIN t.rows : Pair(t.rows[j]) = Pair(s.rows[i])
  <2>1. PICK j \in DOMAIN a.rows : Pair(a.rows[j]) = Pair(s.rows[i])
    BY <1>4, <1>10
  <2>2. PICK k \in DOMAIN b.rows : Pair(b.rows[k]) = Pair(a.rows[j])
    BY <1>6
  <2>3. b.rows[k].phrase = s.rows[i].phrase
    BY <2>1, <2>2 DEF Pair
  <2>4. PICK l \in DOMAIN c.rows : Pair(c.rows[l]) = Pair(b.rows[k])
    BY <1>7, <1>10, <2>3
  <2> QED BY <1>8, <1>9, <2>1, <2>2, <2>4
<1>11. Leaves(s, t, K)
  <2>1. \/ t.props.single = s.props.single /\ t.props.multi = s.props.multi
        \/ /\ s.props.single = {} /\ s.props.multi = {} /\ key \in Scalar
           /\ t.props.single = {key} /\ t.props.multi = {}
           /\ \A i \in DOMAIN t.rows : \A j \in 2..Len(t.rows[i].keys) : t.rows[i].keys[j] # key
    BY <1>4, <1>6, <1>7, <1>8, <1>9
  <2>2. t.props.valid = s.props.valid \ K /\ t.props.start = s.props.start \ K
    BY <1>4, <1>6, <1>7, <1>8, <1>9
  <2> QED BY <1>10, <2>1, <2>2 DEF Leaves
<1> QED BY <1>5, <1>9, <1>11 DEF t

\* The inductive invariant of the declaration: the attributes, from which the engine
\* reads it back, say the same at each stage.
Compiling ==
  /\ setting \in Setting /\ WellRead(source)
  /\ stage = "reading" => AsRead(source)
  /\ stage \in {"preparing", "creating", "writing", "written"} => Faithful(source)

LEMMA CompilingInit == CompilerInit => Compiling
<1> SUFFICES ASSUME CompilerInit PROVE Compiling
  OBVIOUS
<1>1. stage = "reading" /\ source = EmptySource /\ setting \in Setting
  BY TableSourceAssumption DEF CompilerInit
<1>2. /\ source.props = Defaults /\ source.attrs = <<>> /\ source.rows = <<>>
      /\ source = [props |-> source.props, attrs |-> source.attrs, rows |-> source.rows,
                   codes |-> source.codes]
  BY <1>1 DEF EmptySource
<1>3. Defaults = [field \in Fields |-> Defaults[field]] /\ Defaults.prompts = <<>>
  BY DEF Defaults, Fields
<1>4. Prompting(<<>>) /\ DOMAIN <<>> = {}
  <2>1. DOMAIN <<>> = {} /\ <<>> \in [{} -> Text \ {<<>>}]
    OBVIOUS
  <2> QED BY <2>1, FS_EmptySet DEF Prompting
<1>5. WellRead(source)
  BY <1>2, <1>3, <1>4, EmptySeq DEF WellRead
<1>6. AsRead(source)
  BY <1>2, <1>4 DEF AsRead, Reread
<1> QED BY <1>1, <1>5, <1>6 DEF Compiling

LEMMA CompilingKept == Compiling /\ [CompilerNext]_compilerVars => Compiling'
<1> SUFFICES ASSUME Compiling, [CompilerNext]_compilerVars PROVE Compiling'
  OBVIOUS
<1>1. setting \in Setting /\ WellRead(source)
  BY DEF Compiling
<1>2. ASSUME NEW line \in Lines, BeginSection(line) \/ EndSection(line) PROVE Compiling'
  BY <1>2 DEF BeginSection, EndSection, Refuse, Compiling
<1>3. ASSUME NEW line \in Lines, Content(line) PROVE Compiling'
  <2>1. line \in Line /\ line.is \notin {"begin", "end"} /\ stage = "reading" /\ setting' = setting
    BY <1>3, TableSourceAssumption DEF Content
  <2>2. CASE source' = Taken(source, line) /\ stage' = stage
    <3>1. WellRead(source') /\ AsRead(source')
      BY <1>1, <2>1, <2>2, TakenIs DEF Compiling
    <3> QED BY <1>1, <2>1, <2>2, <3>1 DEF Compiling
  <2>3. CASE Refuse
    BY <1>1, <2>1, <2>3 DEF Refuse, Compiling
  <2> QED BY <1>3, <2>2, <2>3 DEF Content
<1>4. CASE EndOfFile
  <2>1. stage = "reading" /\ setting' = setting /\ AsRead(source)
    BY <1>4 DEF EndOfFile, Compiling
  <2>2. CASE source' = [source EXCEPT !.props = Finalize(@)] /\ stage' = "preparing"
    <3>1. WellRead(source') /\ Faithful(source')
      BY <1>1, <2>1, <2>2, FinalizeIs
    <3> QED BY <1>1, <2>1, <2>2, <3>1 DEF Compiling
  <2>3. CASE Refuse
    BY <1>1, <2>1, <2>3 DEF Refuse, Compiling
  <2> QED BY <1>4, <2>2, <2>3 DEF EndOfFile
<1>5. CASE Prepare
  <2>1. /\ stage = "preparing" /\ setting' = setting /\ stage' = "creating"
        /\ source' = Prepared(source) /\ Faithful(source)
    BY <1>5 DEF Prepare, Compiling
  <2>2. WellRead(source') /\ Faithful(source')
    BY <1>1, <2>1, PreparedIs
  <2> QED BY <1>1, <2>1, <2>2 DEF Compiling
<1>6. CASE Create \/ CommitTable \/ Fail \/ Stop
  BY <1>6 DEF Create, CommitTable, Fail, Stop, Compiling
<1>7. CASE UNCHANGED compilerVars
  BY <1>7 DEF compilerVars, Compiling
<1> QED BY <1>2, <1>3, <1>4, <1>5, <1>6, <1>7 DEF CompilerNext

\* What the engine reads back of a faithful source.
LEMMA ReopenedIs ==
  ASSUME NEW s, WellRead(s), Faithful(s), NEW file, file.attrs = s.attrs
  PROVE  LET p == Reopened(file)
         IN /\ p.valid = s.props.valid /\ p.start = s.props.start /\ p.single = s.props.single
            /\ p.multi = s.props.multi /\ p.cjk = s.props.cjk
            /\ p.prompts = ParseCharPrompts(file.literal)
<1> DEFINE a == s.attrs
           d == [Defaults EXCEPT
                   !.valid = Reread(a, "valid"), !.start = Reread(a, "start"),
                   !.unchecked = Reread(a, "unchecked"), !.single = Reread(a, "single"),
                   !.multi = Reread(a, "multi"), !.define = Reread(a, "define"),
                   !.adjusts = Reread(a, "adjusts"), !.prefix = Reread(a, "prefix"),
                   !.language = Reread(a, "language"), !.prompts = ParseCharPrompts(file.literal)]
           p == Reopened(file)
<1>1. p = Finalize(d)
  BY DEF Reopened, Reread
<1>2. /\ d.valid = Reread(a, "valid") /\ d.start = Reread(a, "start")
      /\ d.single = Reread(a, "single") /\ d.multi = Reread(a, "multi")
      /\ d.language = Reread(a, "language") /\ d.prompts = ParseCharPrompts(file.literal)
      /\ d = [field \in Fields |-> d[field]]
  BY DEF Defaults, Fields
<1> HIDE DEF d, p
<1>3. /\ p.valid = (IF d.valid = {} THEN LatinLetters ELSE d.valid)
      /\ p.start = d.start /\ p.single = d.single /\ p.multi = d.multi
      /\ p.cjk = (d.language \in {"zh", "ja"}) /\ p.prompts = d.prompts
  BY <1>1, <1>2 DEF Finalize, Fields
<1>4. /\ s.props.start = Reread(a, "start") /\ s.props.single = Reread(a, "single")
      /\ s.props.multi = Reread(a, "multi")
      /\ s.props.valid = (IF Reread(a, "valid") = {} THEN LatinLetters ELSE Reread(a, "valid"))
      /\ s.props.cjk = (Reread(a, "language") \in {"zh", "ja"})
  BY DEF Faithful
<1> QED BY <1>2, <1>3, <1>4 DEF p

\* The engine reads back what the compiler decided, for every source and setting.
THEOREM ReopenedAsPrepared == CompilerSpec => []ReopensAsPrepared
<1>1. FileByStage /\ Compiling => ReopensAsPrepared
  <2> SUFFICES ASSUME FileByStage, Compiling, stage = "written"
               PROVE  LET p == Reopened(disk)
                      IN /\ \A f \in {"valid", "start", "single", "multi", "cjk"} :
                              p[f] = source.props[f]
                         /\ (\A k \in DOMAIN source.props.prompts :
                               Plain(<<k>>) /\ Plain(source.props.prompts[k]))
                            => p.prompts = source.props.prompts
    BY DEF ReopensAsPrepared
  <2>1. WellRead(source) /\ Faithful(source) /\ disk = Image(source)
    BY DEF Compiling, FileByStage
  <2>2. disk.attrs = source.attrs /\ disk.literal = CharPromptsLiteral(source.props.prompts)
    BY <2>1 DEF Image
  <2> DEFINE p == Reopened(disk)
             o == source.props.prompts
  <2>3. /\ p.valid = source.props.valid /\ p.start = source.props.start
        /\ p.single = source.props.single /\ p.multi = source.props.multi
        /\ p.cjk = source.props.cjk /\ p.prompts = ParseCharPrompts(disk.literal)
    BY <2>1, <2>2, ReopenedIs
  <2>4. Prompting(o)
    BY <2>1 DEF WellRead
  <2>5. ASSUME \A k \in DOMAIN o : Plain(<<k>>) /\ Plain(o[k])
        PROVE  ParseCharPrompts(CharPromptsLiteral(o)) = o
    <3> HIDE DEF o
    <3> QED BY <2>4, <2>5, PromptsReread
  <2> HIDE DEF p
  <2> QED BY <2>2, <2>3, <2>5 DEF p
<1>2. CompilerInit => FileByStage
  BY DEF CompilerInit, FileByStage
<1> QED BY <1>1, <1>2, FileByStageKept, CompilingInit, CompilingKept, PTL DEF CompilerSpec

\* A code that is not one stripped key is typed as before.
LEMMA StaysTypable ==
  ASSUME NEW p, NEW q, NEW K, NEW run \in Text, Typable(p, run),
         q.valid = p.valid \ K, q.start = p.start \ K,
         p.single \subseteq q.single, p.multi \subseteq q.multi,
         \A i \in 1..Len(run) : run[i] \notin K
  PROVE  Typable(q, run)
<1>1. /\ run # <<>> /\ IsStartChar(p, run[1]) /\ \A i \in 2..Len(run) : IsInputChar(p, run[i])
  BY DEF Typable
<1>2. 1 \in 1..Len(run) /\ 2..Len(run) \subseteq 1..Len(run)
  <2>1. run \in Seq(Scalar)
    BY DEF Text
  <2>2. Len(run) \in Nat \ {0}
    BY <1>1, <2>1, EmptySeq
  <2> QED BY <2>2
<1>3. ASSUME NEW i \in 1..Len(run), IsInputChar(p, run[i]) PROVE IsInputChar(q, run[i])
  BY <1>3 DEF IsInputChar, IsWildcard
<1>4. IsStartChar(q, run[1])
  <2>1. IsWildcard(p, run[1]) => IsWildcard(q, run[1])
    BY DEF IsWildcard
  <2>2. run[1] \notin K
    BY <1>2
  <2>3. CASE p.start = {}
    <3>1. q.start = {} /\ IsInputChar(p, run[1])
      BY <1>1, <2>3 DEF IsStartChar
    <3> QED BY <1>2, <1>3, <3>1 DEF IsStartChar
  <2>4. CASE p.start # {} /\ run[1] \in p.start
    BY <2>2, <2>4 DEF IsStartChar
  <2>5. CASE p.start # {} /\ IsWildcard(p, run[1])
    BY <2>1, <2>5 DEF IsStartChar, IsInputChar
  <2> QED BY <1>1, <2>3, <2>4, <2>5 DEF IsStartChar
<1> QED BY <1>1, <1>2, <1>3, <1>4 DEF Typable

\* Nothing in it is a wildcard the compiler added.
LEMMA NothingWild ==
  ASSUME NEW s, NEW t, NEW K, Leaves(s, t, K), NEW q,
         q.valid = t.props.valid, q.single = t.props.single, q.multi = t.props.multi,
         NEW run \in Text, Typable(s.props, run), \A i \in 1..Len(run) : run[i] \notin K,
         \E j \in DOMAIN t.rows : t.rows[j].keys = run,
         s.props.single \cup s.props.multi = {}, s.props.start \subseteq s.props.valid
  PROVE  \A i \in 1..Len(run) : ~Wild(q, run[i], i = 1)
<1> SUFFICES ASSUME NEW i \in 1..Len(run), Wild(q, run[i], i = 1) PROVE FALSE
  OBVIOUS
<1>1. IsWildcard(q, run[i]) /\ (i = 1 => run[i] \notin q.valid)
  BY DEF Wild, IsWildcardAt
<1>2. PICK key \in Scalar :
        /\ t.props.single = {key} /\ t.props.multi = {}
        /\ \A k \in DOMAIN t.rows : \A j \in 2..Len(t.rows[k].keys) : t.rows[k].keys[j] # key
  BY <1>1 DEF Leaves, IsWildcard
<1>3. run[i] = key
  BY <1>1, <1>2 DEF IsWildcard
<1>4. Len(run) \in Nat
  BY TextIsSequence DEF Text
<1>5. i = 1
  <2>1. i \notin 2..Len(run)
    BY <1>2, <1>3
  <2> QED BY <1>4, <2>1
<1>6. run[1] \in s.props.valid
  BY DEF Typable, IsStartChar, IsInputChar, IsWildcard
<1>7. run[1] \in t.props.valid
  BY <1>5, <1>6 DEF Leaves
<1> QED BY <1>1, <1>5, <1>7

\* Of a row a stripped key stands in the code only if it is the code.
LEMMA StrippedAlone ==
  ASSUME NEW s, WellRead(s), Faithful(s), NEW i \in DOMAIN s.rows, NEW run, run = s.rows[i].keys
  PROVE  /\ run \in Text
         /\ Len(run) # 1 \/ run[1] \notin Stripped(s)
            => \A k \in 1..Len(run) : run[k] \notin Stripped(s)
<1> DEFINE K == Stripped(s)
<1>1. \A j \in DOMAIN s.rows : Len(s.rows[j].keys) >= 2 => Range(s.rows[j].keys) \cap K = {}
  BY StrippedIs
<1> HIDE DEF K
<1>2. run \in Text
  <2>1. s.rows \in Seq(Row)
    BY DEF WellRead
  <2>2. s.rows[i] \in Row
    BY <2>1
  <2> QED BY <2>2 DEF Row
<1>3. Len(run) \in Nat /\ DOMAIN run = 1..Len(run)
  BY <1>2, TextIsSequence DEF Text
<1>4. ASSUME Len(run) # 1 \/ run[1] \notin K, NEW k \in 1..Len(run) PROVE run[k] \notin K
  <2>1. CASE Len(run) = 1
    <3>1. k = 1
      BY <1>4, <2>1
    <3> QED BY <1>4, <2>1, <3>1
  <2>2. CASE Len(run) # 1
    <3> DEFINE n == Len(run)
    <3>1. n >= 2
      <4>1. n \in Nat /\ n # 1 /\ k \in 1..n
        BY <1>3, <1>4, <2>2
      <4> HIDE DEF n
      <4> QED BY <4>1
    <3>2. run[k] \in Range(run)
      BY <1>3 DEF Range
    <3> QED BY <1>1, <3>1, <3>2
  <2> QED BY <2>1, <2>2
<1> QED BY <1>2, <1>4 DEF K

\* An attribute declares one wildcard at most.
LEMMA RereadOne ==
  ASSUME NEW s, WellRead(s), NEW field \in {"single", "multi"}
  PROVE  \E a : Reread(s.attrs, field) \subseteq {a}
<1> DEFINE line == s.attrs[field]
<1>1. CASE field \in DOMAIN s.attrs
  <2>1. /\ field \in Alphabets /\ Declares(line, field)
    BY <1>1 DEF WellRead, Alphabets
  <2> HIDE DEF line
  <2>2. line.is = "chars" /\ line.key = field
    BY <2>1 DEF Declares
  <2>3. field \in DOMAIN Defaults
    BY DEF Defaults
  <2>4. SetField(line, Defaults) = [Defaults EXCEPT ![field] = First(line.chars)]
    BY <2>2 DEF SetField
  <2>5. Reread(s.attrs, field) = First(line.chars)
    BY <1>1, <2>3, <2>4 DEF Reread, line
  <2> QED BY <2>5 DEF First
<1>2. CASE field \notin DOMAIN s.attrs
  <2>1. Defaults[field] = {}
    BY DEF Defaults
  <2> QED BY <1>2, <2>1 DEF Reread
<1> QED BY <1>1, <1>2

\* Of one row: what the compiled table answers when its code is typed.
LEMMA CodeStaysTypable ==
  ASSUME NEW s, WellRead(s), Faithful(s), setting \in Setting, NEW t, t = Prepared(s),
         NEW i \in DOMAIN s.rows, NEW r, r = s.rows[i], Typable(s.props, r.keys),
         ~(setting.filter /\ ~(Range(r.phrase) \subseteq Covered)),
         NEW p, p = Reopened(Image(t)),
         ~(setting.strip /\ Len(r.keys) = 1 /\ r.keys[1] \in PunctuationKeys \ p.valid)
  PROVE  LET found == Range(Lookup(p, t.rows, <<>>, r.keys))
         IN /\ Typable(p, r.keys)
            /\ Pair(r) \in {Pair(m) : m \in found}
            /\ /\ ~p.prefix /\ s.props.single \cup s.props.multi = {}
               /\ s.props.start \subseteq s.props.valid
               => \A m \in found : m.keys = r.keys
<1> DEFINE run == r.keys
           found == Range(Lookup(p, t.rows, <<>>, run))
           agrees(keys) == Like(keys, LikePattern(p, run), Escape(p))
<1>1. PICK K : /\ K = {} \/ (setting.strip /\ K = Stripped(s))
               /\ Leaves(s, t, K)
  BY PreparedIs
<1>2. WellRead(t) /\ Faithful(t)
  BY PreparedIs
<1>3. /\ p.valid = t.props.valid /\ p.start = t.props.start
      /\ p.single = t.props.single /\ p.multi = t.props.multi
  <2> DEFINE file == Image(t)
  <2>1. file.attrs = t.attrs
    BY DEF Image
  <2> HIDE DEF file
  <2>2. p = Reopened(file)
    BY DEF file
  <2> QED BY <1>2, <2>1, <2>2, ReopenedIs
<1>4. /\ t.props.valid = s.props.valid \ K /\ t.props.start = s.props.start \ K
      /\ s.props.single \subseteq t.props.single /\ s.props.multi \subseteq t.props.multi
      /\ \/ t.props.single = s.props.single /\ t.props.multi = s.props.multi
         \/ \E key : t.props.single = {key} /\ t.props.multi = {}
  BY <1>1 DEF Leaves
<1>5. run \in Text /\ \A k \in 1..Len(run) : run[k] \notin K
  <2>1. run \in Text /\ (Len(run) # 1 \/ run[1] \notin Stripped(s)
                         => \A k \in 1..Len(run) : run[k] \notin Stripped(s))
    BY StrippedAlone
  <2>2. CASE K = {}
    BY <2>1, <2>2
  <2>3. CASE setting.strip /\ K = Stripped(s)
    <3>1. K \subseteq s.props.valid \cap PunctuationKeys
      BY <2>3, StrippedIs
    <3>2. Len(run) # 1 \/ run[1] \notin K
      BY <1>3, <1>4, <2>3, <3>1
    <3> QED BY <2>1, <2>3, <3>2
  <2> QED BY <1>1, <2>2, <2>3
<1>6. PICK j \in DOMAIN t.rows : Pair(t.rows[j]) = Pair(r)
  <2>1. Len(run) # 1 \/ run[1] \notin K
    BY <1>5
  <2> QED BY <1>1, <2>1 DEF Leaves
<1>7. t.rows[j].keys = run
  BY <1>6 DEF Pair
<1>8. Typable(p, run)
  BY <1>3, <1>4, <1>5, StaysTypable
<1>9. t.rows \in Seq(Row) /\ DOMAIN t.rows = 1..Len(t.rows)
  BY <1>2 DEF WellRead
<1>10. Escape(p) \in Scalar \ {percent, underscore}
  <2>1. \E a : p.single \subseteq {a}
    <3>1. \/ \E a : p.single = {a}
          \/ p.single = Reread(s.attrs, "single")
      BY <1>3, <1>4 DEF Faithful
    <3>2. \E a : Reread(s.attrs, "single") \subseteq {a}
      BY RereadOne
    <3> QED BY <3>1, <3>2
  <2>2. \E b : p.multi \subseteq {b}
    <3>1. \/ p.multi = {}
          \/ p.multi = Reread(s.attrs, "multi")
      BY <1>3, <1>4 DEF Faithful
    <3>2. \E a : Reread(s.attrs, "multi") \subseteq {a}
      BY RereadOne
    <3> QED BY <3>1, <3>2
  <2> QED BY <2>1, <2>2, EscapeIs
<1>11. /\ \A k \in 1..Len(t.rows) : agrees(t.rows[k].keys)
            => Pair(t.rows[k]) \in {Pair(m) : m \in found}
       /\ \A m \in found : \E k \in 1..Len(t.rows) : agrees(t.rows[k].keys) /\ m.keys = t.rows[k].keys
  BY <1>9, LookupFinds
<1>12. agrees(run)
  BY <1>5, <1>10, LikeItself
<1> HIDE DEF agrees, found
<1>13. Pair(r) \in {Pair(m) : m \in found}
  BY <1>6, <1>7, <1>9, <1>11, <1>12
<1>14. ASSUME ~p.prefix, s.props.single \cup s.props.multi = {}, s.props.start \subseteq s.props.valid,
              NEW m \in found
       PROVE  m.keys = run
  <2>1. PICK k \in 1..Len(t.rows) : agrees(t.rows[k].keys) /\ m.keys = t.rows[k].keys
    BY <1>11
  <2>2. t.rows[k].keys \in Text
    <3>1. t.rows[k] \in Row
      BY <1>9
    <3> QED BY <3>1 DEF Row
  <2>3. \A l \in 1..Len(run) : ~Wild(p, run[l], l = 1)
    <3>1. \E l \in DOMAIN t.rows : t.rows[l].keys = run
      BY <1>7
    <3>2. Typable(s.props, run)
      OBVIOUS
    <3> HIDE DEF run
    <3> QED BY <1>1, <1>3, <1>5, <1>14, <3>1, <3>2, NothingWild
  <2> QED BY <1>5, <1>10, <1>14, <2>1, <2>2, <2>3, LikeNoOther DEF agrees
<1> QED BY <1>8, <1>13, <1>14 DEF found

\* Stripping punctuation keys, filtering phrases and adding a wildcard lose no code
\* of what is left, for every source and setting; and an added wildcard brings in no
\* row of another code where the table neither completes nor has wildcards of its own
\* and each key it may start with is one it takes (CodesStayTypable).
THEOREM CodesStay == CompilerSpec => CodesStayTypable
<1>1. ASSUME Compiling, Prepare
      PROVE  LET p == Reopened(Image(source'))
             IN \A r \in Range(source.rows) : Typable(source.props, r.keys) =>
                  \/ setting.filter /\ ~(Range(r.phrase) \subseteq Covered)
                  \/ setting.strip /\ Len(r.keys) = 1 /\ r.keys[1] \in PunctuationKeys \ p.valid
                  \/ LET found == Range(Lookup(p, source'.rows, <<>>, r.keys))
                     IN /\ Typable(p, r.keys)
                        /\ Pair(r) \in {Pair(m) : m \in found}
                        /\ /\ ~p.prefix /\ source.props.single \cup source.props.multi = {}
                           /\ source.props.start \subseteq source.props.valid
                           => \A m \in found : m.keys = r.keys
  <2> DEFINE p == Reopened(Image(source'))
  <2>1. WellRead(source) /\ Faithful(source) /\ setting \in Setting /\ source' = Prepared(source)
    BY <1>1 DEF Prepare, Compiling
  <2>2. ASSUME NEW r \in Range(source.rows), Typable(source.props, r.keys),
               ~(setting.filter /\ ~(Range(r.phrase) \subseteq Covered)),
               ~(setting.strip /\ Len(r.keys) = 1 /\ r.keys[1] \in PunctuationKeys \ p.valid)
        PROVE  LET found == Range(Lookup(p, source'.rows, <<>>, r.keys))
               IN /\ Typable(p, r.keys)
                  /\ Pair(r) \in {Pair(m) : m \in found}
                  /\ /\ ~p.prefix /\ source.props.single \cup source.props.multi = {}
                     /\ source.props.start \subseteq source.props.valid
                     => \A m \in found : m.keys = r.keys
    <3>1. PICK i \in DOMAIN source.rows : r = source.rows[i]
      BY DEF Range
    <3>2. p = Reopened(Image(source'))
      OBVIOUS
    <3> HIDE DEF p
    <3> QED BY <2>1, <2>2, <3>1, <3>2, CodeStaysTypable
  <2> QED BY <2>2
<1>2. Compiling /\ [CompilerNext]_compilerVars
      => [Prepare =>
            LET p == Reopened(Image(source'))
            IN \A r \in Range(source.rows) : Typable(source.props, r.keys) =>
                 \/ setting.filter /\ ~(Range(r.phrase) \subseteq Covered)
                 \/ setting.strip /\ Len(r.keys) = 1 /\ r.keys[1] \in PunctuationKeys \ p.valid
                 \/ LET found == Range(Lookup(p, source'.rows, <<>>, r.keys))
                    IN /\ Typable(p, r.keys)
                       /\ Pair(r) \in {Pair(m) : m \in found}
                       /\ /\ ~p.prefix /\ source.props.single \cup source.props.multi = {}
                          /\ source.props.start \subseteq source.props.valid
                          => \A m \in found : m.keys = r.keys]_compilerVars
  BY <1>1
<1> QED BY <1>2, CompilingInit, CompilingKept, PTL DEF CompilerSpec, CodesStayTypable
================================================================================
