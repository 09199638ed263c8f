----------------------------- MODULE ContextProofs -----------------------------
(***************************************************************************)
(* Facts about texts, the dispatch step and the client's document on which *)
(* the proofs about the adapters rest.                                     *)
(***************************************************************************)
EXTENDS ContextCore, SequencesExt, SequenceTheorems, NaturalsInduction,
        WellFoundedInduction, TLAPS

\* An output an adapter may produce: a deletion ends at the caret.
AdapterOutput == {out \in Output : out.offset = -out.count}

-------------------------------------------------------------------------------
(* Induction, and what FlattenSeq makes of a sequence of sequences.        *)

\* A set of naturals that is not empty has a least element.
LEMMA LeastNatural ==
  ASSUME NEW T, T \subseteq Nat, T # {}
  PROVE  \E m \in T : \A k \in T : m <= k
<1> DEFINE R == {p \in Nat \X Nat : p[1] < p[2]}
<1>1. IsWellFoundedOn(R, Nat)
  <2>1. OpToRel(<, Nat) = R
    BY DEF OpToRel
  <2> QED BY <2>1, NatLessThanWellFounded
<1>2. PICK m \in T : \A k \in T : ~(<<k, m>> \in R)
  <2> HIDE DEF R
  <2> QED BY <1>1, WFMin
<1>3. ASSUME NEW k \in T PROVE m <= k
  <2>1. m \in Nat /\ k \in Nat
    OBVIOUS
  <2>2. CASE k < m
    <3>1. <<k, m>> \in Nat \X Nat
      BY <2>1
    <3>2. <<k, m>>[1] < <<k, m>>[2]
      BY <2>2
    <3>3. <<k, m>> \in R
      BY <3>1, <3>2, Zenon
    <3> QED BY <1>2, <3>3
  <2> QED BY <2>1, <2>2
<1> QED BY <1>3

\* Induction over the naturals.
LEMMA Induction ==
  ASSUME NEW T, 0 \in T, \A i \in Nat : i \in T => i + 1 \in T
  PROVE  Nat \subseteq T
<1> SUFFICES ASSUME NEW n \in Nat, n \notin T PROVE FALSE
  OBVIOUS
<1> DEFINE U == Nat \ T
<1>1. PICK m \in U : \A k \in U : m <= k
  <2>1. U \subseteq Nat /\ U # {}
    OBVIOUS
  <2> HIDE DEF U
  <2> QED BY <2>1, LeastNatural
<1>2. m - 1 \in Nat /\ m - 1 \notin U
  BY <1>1
<1> QED BY <1>2

\* f[i] is what the first i of the sequences amount to.
Sums(q, f) ==
  /\ f[1] = q[1]
  /\ \A i \in 2..Len(q) : f[i] = f[i - 1] \o q[i]

LEMMA SumsExist ==
  ASSUME NEW S, NEW q \in Seq(Seq(S)), q # <<>>
  PROVE  \E f \in [1..Len(q) -> Seq(S)] : Sums(q, f)
<1>1. Len(q) \in Nat /\ Len(q) # 0 /\ \A i \in 1..Len(q) : q[i] \in Seq(S)
  OBVIOUS
<1> DEFINE Up(n, f) == /\ f \in [1..n -> Seq(S)] /\ f[1] = q[1]
                       /\ \A i \in 2..n : f[i] = f[i - 1] \o q[i]
           Some(n) == \E f : Up(n, f)
           T == {n \in Nat : n + 1 <= Len(q) => Some(n + 1)}
<1>2. Some(1)
  <2> DEFINE f == [i \in 1..1 |-> q[1]]
  <2>1. f \in [1..1 -> Seq(S)] /\ f[1] = q[1] /\ \A i \in 2..1 : f[i] = f[i - 1] \o q[i]
    BY <1>1
  <2> HIDE DEF f
  <2> QED BY <2>1
<1>3. ASSUME NEW m \in Nat \ {0}, m + 1 <= Len(q), Some(m) PROVE Some(m + 1)
  <2>1. PICK f : Up(m, f)
    BY <1>3
  <2> DEFINE g == [i \in 1..(m + 1) |-> IF i = m + 1 THEN f[m] \o q[m + 1] ELSE f[i]]
  <2>2. q[m + 1] \in Seq(S) /\ f[m] \in Seq(S)
    BY <1>1, <1>3, <2>1
  <2>3. f[m] \o q[m + 1] \in Seq(S)
    BY <2>2, ConcatProperties
  <2>4. g \in [1..(m + 1) -> Seq(S)]
    BY <2>1, <2>3
  <2>5. g[1] = q[1]
    BY <2>1
  <2>6. ASSUME NEW i \in 2..(m + 1) PROVE g[i] = g[i - 1] \o q[i]
    <3>1. CASE i = m + 1
      <4>1. i - 1 = m /\ i \in 1..(m + 1) /\ i - 1 \in 1..(m + 1) /\ i - 1 # m + 1
        BY <3>1
      <4>2. g[i] = f[m] \o q[m + 1]
        BY <3>1, <4>1
      <4>3. g[i - 1] = f[i - 1]
        BY <4>1
      <4> QED BY <3>1, <4>1, <4>2, <4>3
    <3>2. CASE i # m + 1
      <4>1. i \in 2..m /\ i - 1 \in 1..m
        BY <3>2
      <4>2. g[i] = f[i] /\ g[i - 1] = f[i - 1]
        BY <3>2, <4>1
      <4> QED BY <2>1, <4>1, <4>2
    <3> QED BY <3>1, <3>2
  <2> HIDE DEF g
  <2>7. Up(m + 1, g)
    BY <2>4, <2>5, <2>6
  <2> QED BY <2>7
<1> HIDE DEF Some
<1>4. 0 \in T
  BY <1>2
<1>5. ASSUME NEW n \in Nat, n \in T PROVE n + 1 \in T
  <2> SUFFICES ASSUME (n + 1) + 1 <= Len(q) PROVE Some((n + 1) + 1)
    OBVIOUS
  <2>1. n + 1 <= Len(q) /\ n + 1 \in Nat \ {0}
    BY <1>1
  <2>2. Some(n + 1)
    BY <1>5, <2>1
  <2> QED BY <1>3, <2>1, <2>2
<1>6. Nat \subseteq T
  <2> HIDE DEF T
  <2> QED BY <1>4, <1>5, Induction
<1>7. Some(Len(q))
  <2>1. Len(q) - 1 \in Nat /\ (Len(q) - 1) + 1 = Len(q)
    BY <1>1
  <2>2. Len(q) - 1 \in T
    BY <1>6, <2>1
  <2> QED BY <2>1, <2>2
<1> QED BY <1>7 DEF Some, Sums

LEMMA SumsUnique ==
  ASSUME NEW q, Len(q) \in Nat, NEW f, NEW g, Sums(q, f), Sums(q, g)
  PROVE  \A i \in 1..Len(q) : f[i] = g[i]
<1> DEFINE T == {n \in Nat : n + 1 <= Len(q) => f[n + 1] = g[n + 1]}
<1>1. 0 \in T
  BY DEF Sums
<1>2. ASSUME NEW n \in Nat, n \in T PROVE n + 1 \in T
  <2> SUFFICES ASSUME n + 2 <= Len(q) PROVE f[n + 2] = g[n + 2]
    OBVIOUS
  <2>1. f[n + 1] = g[n + 1] /\ n + 2 \in 2..Len(q) /\ (n + 2) - 1 = n + 1
    BY <1>2
  <2> QED BY <2>1 DEF Sums
<1>3. Nat \subseteq T
  <2> HIDE DEF T
  <2> QED BY <1>1, <1>2, Induction
<1>4. ASSUME NEW i \in 1..Len(q) PROVE f[i] = g[i]
  <2>1. i - 1 \in Nat /\ i - 1 \in T
    BY <1>3
  <2> QED BY <2>1
<1> QED BY <1>4

\* FlattenSeq is the last of the sums.
LEMMA FlattenIsSum ==
  ASSUME NEW S, NEW q \in Seq(Seq(S)), q # <<>>, NEW f, Sums(q, f)
  PROVE  FlattenSeq(q) = f[Len(q)]
<1> DEFINE D == 1..Len(q)
           F(h) == [i \in D |-> IF i = 1 THEN q[i] ELSE h[i - 1] \o q[i]]
           c == CHOOSE h : h = F(h)
<1>1. Len(q) \in Nat /\ Len(q) # 0 /\ 1 \in D /\ Len(q) \in D
  OBVIOUS
<1>2. \E h : h = F(h)
  <2>1. PICK e \in [D -> Seq(S)] : Sums(q, e)
    BY SumsExist
  <2>2. e[1] = q[1] /\ \A i \in 2..Len(q) : e[i] = e[i - 1] \o q[i]
    BY <2>1 DEF Sums
  <2>3. ASSUME NEW i \in D PROVE e[i] = IF i = 1 THEN q[i] ELSE e[i - 1] \o q[i]
    <3>1. i = 1 \/ i \in 2..Len(q)
      BY <1>1
    <3>2. CASE i = 1
      BY <2>2, <3>2
    <3>3. CASE i \in 2..Len(q)
      BY <2>2, <3>3
    <3> QED BY <3>1, <3>2, <3>3
  <2>4. e = F(e)
    BY <2>1, <2>3
  <2> QED BY <2>4
<1>3. c = F(c)
  BY <1>2
<1>4. FlattenSeq(q) = c[Len(q)]
  BY <1>1 DEF FlattenSeq
<1> HIDE DEF c
<1>5. c[1] = q[1] /\ \A i \in 2..Len(q) : c[i] = c[i - 1] \o q[i]
  <2>1. \A i \in D : c[i] = IF i = 1 THEN q[i] ELSE c[i - 1] \o q[i]
    BY <1>3
  <2>2. c[1] = q[1]
    BY <1>1, <2>1
  <2>3. ASSUME NEW i \in 2..Len(q) PROVE c[i] = c[i - 1] \o q[i]
    <3>1. i \in D /\ i # 1
      OBVIOUS
    <3> QED BY <2>1, <3>1
  <2> QED BY <2>2, <2>3
<1>6. c[Len(q)] = f[Len(q)]
  <2>1. Sums(q, c)
    BY <1>5 DEF Sums
  <2>2. \A i \in 1..Len(q) : c[i] = f[i]
    BY <1>1, <2>1, SumsUnique
  <2> QED BY <1>1, <2>2
<1> QED BY <1>4, <1>6

LEMMA FlattenEmpty == FlattenSeq(<<>>) = <<>>
BY DEF FlattenSeq

LEMMA FlattenType ==
  ASSUME NEW S, NEW q \in Seq(Seq(S))
  PROVE  FlattenSeq(q) \in Seq(S)
<1>1. CASE q = <<>>
  <2>1. FlattenSeq(q) = <<>>
    BY <1>1, FlattenEmpty, Zenon
  <2> QED BY <2>1
<1>2. CASE q # <<>>
  <2>1. PICK f \in [1..Len(q) -> Seq(S)] : Sums(q, f)
    BY <1>2, SumsExist
  <2>2. FlattenSeq(q) = f[Len(q)] /\ Len(q) \in 1..Len(q)
    BY <1>2, <2>1, FlattenIsSum
  <2> QED BY <2>2
<1> QED BY <1>1, <1>2

LEMMA FlattenAppend ==
  ASSUME NEW S, NEW q \in Seq(Seq(S)), NEW x \in Seq(S)
  PROVE  FlattenSeq(Append(q, x)) = FlattenSeq(q) \o x
<1> DEFINE r == Append(q, x)
<1>1. /\ r \in Seq(Seq(S)) /\ r # <<>> /\ Len(r) = Len(q) + 1 /\ Len(q) \in Nat
      /\ r[Len(q) + 1] = x /\ \A i \in 1..Len(q) : r[i] = q[i]
  BY AppendProperties
<1> HIDE DEF r
<1>2. PICK f \in [1..Len(r) -> Seq(S)] : Sums(r, f)
  BY <1>1, SumsExist
<1>3. FlattenSeq(r) = f[Len(q) + 1]
  BY <1>1, <1>2, FlattenIsSum
<1>4. CASE q = <<>>
  <2>1. Len(q) = 0 /\ f[1] = x
    BY <1>1, <1>2, <1>4 DEF Sums
  <2> QED BY <1>3, <1>4, <2>1, FlattenEmpty, ConcatEmptySeq DEF r
<1>5. CASE q # <<>>
  <2>1. Len(q) >= 1
    BY <1>1, <1>5
  <2>2. f[1] = r[1] /\ \A i \in 2..Len(r) : f[i] = f[i - 1] \o r[i]
    BY <1>2 DEF Sums
  <2>3. f[Len(q) + 1] = f[Len(q)] \o x
    <3>1. Len(q) + 1 \in 2..Len(r) /\ (Len(q) + 1) - 1 = Len(q)
      BY <1>1, <2>1
    <3> QED BY <1>1, <2>2, <3>1
  <2>4. f[1] = q[1]
    BY <1>1, <2>1, <2>2
  <2>5. ASSUME NEW i \in 2..Len(q) PROVE f[i] = f[i - 1] \o q[i]
    <3>1. i \in 2..Len(r) /\ i \in 1..Len(q)
      BY <1>1
    <3> QED BY <1>1, <2>2, <3>1
  <2>6. Sums(q, f)
    BY <2>4, <2>5 DEF Sums
  <2>7. FlattenSeq(q) = f[Len(q)]
    BY <1>5, <2>6, FlattenIsSum
  <2> QED BY <1>3, <2>3, <2>7 DEF r
<1> QED BY <1>4, <1>5

LEMMA FlattenOne ==
  ASSUME NEW S, NEW x \in Seq(S)
  PROVE  FlattenSeq(<<x>>) = x
<1>1. <<x>> = Append(<<>>, x) /\ <<>> \in Seq(Seq(S))
  OBVIOUS
<1>2. FlattenSeq(<<x>>) = FlattenSeq(<<>>) \o x
  BY <1>1, FlattenAppend
<1>3. <<>> \o x = x
  BY ConcatEmptySeq
<1> QED BY <1>2, <1>3, FlattenEmpty, Zenon

\* Flattening takes a concatenation to a concatenation.
LEMMA FlattenConcat ==
  ASSUME NEW S, NEW q \in Seq(Seq(S)), NEW r \in Seq(Seq(S))
  PROVE  FlattenSeq(q \o r) = FlattenSeq(q) \o FlattenSeq(r)
<1> DEFINE T == {n \in Nat : \A s \in Seq(Seq(S)) :
                    Len(s) = n => FlattenSeq(q \o s) = FlattenSeq(q) \o FlattenSeq(s)}
<1>1. 0 \in T
  <2>1. ASSUME NEW s \in Seq(Seq(S)), Len(s) = 0
        PROVE  FlattenSeq(q \o s) = FlattenSeq(q) \o FlattenSeq(s)
    <3>1. s = <<>>
      BY <2>1, EmptySeq
    <3>2. FlattenSeq(q) \in Seq(S)
      BY FlattenType
    <3> QED BY <3>1, <3>2, FlattenEmpty, ConcatEmptySeq
  <2> QED BY <2>1
<1>2. ASSUME NEW n \in Nat, n \in T PROVE n + 1 \in T
  <2>1. ASSUME NEW s \in Seq(Seq(S)), Len(s) = n + 1
        PROVE  FlattenSeq(q \o s) = FlattenSeq(q) \o FlattenSeq(s)
    <3> DEFINE front == SubSeq(s, 1, n)
               x == s[n + 1]
    <3>1. /\ front \in Seq(Seq(S)) /\ Len(front) = n /\ x \in Seq(S)
          /\ s = Append(front, x)
      <4>1. \A i \in 1..n : s[i] \in Seq(S)
        BY <2>1
      <4>2. front \in Seq(Seq(S)) /\ Len(front) = n /\ \A i \in 1..n : front[i] = s[i]
        BY <4>1, SubSeqProperties
      <4>3. x \in Seq(S)
        BY <2>1
      <4> HIDE DEF front, x
      <4>4. Append(front, x) \in Seq(Seq(S)) /\ Len(Append(front, x)) = n + 1
        BY <4>2, <4>3, AppendProperties
      <4>5. \A i \in 1..(n + 1) : Append(front, x)[i] = s[i]
        BY <4>2, <4>3, AppendProperties DEF x
      <4>6. s = Append(front, x)
        BY <2>1, <4>4, <4>5, SeqEqual
      <4> QED BY <4>2, <4>3, <4>6
    <3> HIDE DEF front, x
    <3>2. q \o s = Append(q \o front, x) /\ q \o front \in Seq(Seq(S))
      <4>1. q \o front \in Seq(Seq(S)) /\ Append(q \o front, x) \in Seq(Seq(S))
        BY <3>1, ConcatProperties, AppendProperties
      <4>2. \A t \in Seq(Seq(S)) : Append(t, x) = t \o <<x>>
        BY <3>1, AppendIsConcat
      <4>3. <<x>> \in Seq(Seq(S))
        BY <3>1
      <4>4. q \o (front \o <<x>>) = (q \o front) \o <<x>>
        BY <3>1, <4>3, ConcatAssociative
      <4> QED BY <3>1, <4>1, <4>2, <4>4
    <3>3. /\ FlattenSeq(q \o front) = FlattenSeq(q) \o FlattenSeq(front)
          /\ FlattenSeq(s) = FlattenSeq(front) \o x
          /\ FlattenSeq(q \o s) = FlattenSeq(q \o front) \o x
      BY <1>2, <3>1, <3>2, FlattenAppend
    <3>4. FlattenSeq(q) \in Seq(S) /\ FlattenSeq(front) \in Seq(S)
      BY <3>1, FlattenType
    <3>5. (FlattenSeq(q) \o FlattenSeq(front)) \o x
            = FlattenSeq(q) \o (FlattenSeq(front) \o x)
      BY <3>1, <3>4, ConcatAssociative
    <3> QED BY <3>3, <3>5
  <2> QED BY <2>1
<1>3. Nat \subseteq T
  <2> HIDE DEF T
  <2> QED BY <1>1, <1>2, Induction
<1>4. Len(r) \in Nat /\ Len(r) \in T
  BY <1>3
<1> QED BY <1>4

\* What the elements of a sequence become, one behind the other.
Joined(F, q) == FlattenSeq([i \in DOMAIN q |-> F[q[i]]])

Becomes(F, S, T) == \A x \in S : F[x] \in Seq(T)

LEMMA EachBecomes ==
  ASSUME NEW S, NEW T, NEW F, Becomes(F, S, T), NEW q \in Seq(S),
         NEW c, c = [i \in DOMAIN q |-> F[q[i]]]
  PROVE  /\ c \in Seq(Seq(T)) /\ Len(c) = Len(q) /\ Len(q) \in Nat
         /\ \A i \in 1..Len(q) : c[i] = F[q[i]]
<1>1. DOMAIN q = 1..Len(q) /\ Len(q) \in Nat /\ \A i \in 1..Len(q) : q[i] \in S
  OBVIOUS
<1>2. \A i \in 1..Len(q) : F[q[i]] \in Seq(T)
  BY <1>1 DEF Becomes
<1>3. c \in [1..Len(q) -> Seq(T)]
  BY <1>1, <1>2
<1>4. c \in Seq(Seq(T)) /\ Len(c) = Len(q)
  BY <1>1, <1>3, IsASeq, LenProperties
<1> QED BY <1>1, <1>4

LEMMA JoinedType ==
  ASSUME NEW S, NEW T, NEW F, Becomes(F, S, T), NEW q \in Seq(S)
  PROVE  Joined(F, q) \in Seq(T)
<1> DEFINE c == [i \in DOMAIN q |-> F[q[i]]]
<1>1. c \in Seq(Seq(T))
  BY EachBecomes
<1> HIDE DEF c
<1>2. FlattenSeq(c) \in Seq(T)
  BY <1>1, FlattenType
<1> QED BY <1>2 DEF Joined, c

LEMMA JoinedEmpty ==
  ASSUME NEW F
  PROVE  Joined(F, <<>>) = <<>>
<1> DEFINE S == {}
           c == [i \in DOMAIN <<>> |-> F[<<>>[i]]]
<1>1. <<>> \in Seq(S) /\ Becomes(F, S, S)
  BY DEF Becomes
<1> HIDE DEF S
<1>2. \A q \in Seq(S) : \A d : d = [i \in DOMAIN q |-> F[q[i]]] =>
        d \in Seq(Seq(S)) /\ Len(d) = Len(q)
  BY <1>1, EachBecomes
<1>3. c \in Seq(Seq(S)) /\ Len(c) = Len(<<>>)
  BY <1>1, <1>2, Zenon
<1> HIDE DEF c
<1>4. c = <<>>
  BY <1>3, EmptySeq
<1> QED BY <1>4, FlattenEmpty DEF Joined, c

LEMMA JoinedOne ==
  ASSUME NEW S, NEW T, NEW F, Becomes(F, S, T), NEW x \in S
  PROVE  Joined(F, <<x>>) = F[x]
<1> DEFINE q == <<x>>
           c == [i \in DOMAIN q |-> F[q[i]]]
           d == <<F[x]>>
<1>1. q \in Seq(S) /\ Len(q) = 1 /\ q[1] = x
  OBVIOUS
<1> HIDE DEF q
<1>2. c \in Seq(Seq(T)) /\ Len(c) = 1 /\ c[1] = F[x]
  <2>1. \A e : e = [i \in DOMAIN q |-> F[q[i]]] =>
          /\ e \in Seq(Seq(T)) /\ Len(e) = Len(q)
          /\ \A i \in 1..Len(q) : e[i] = F[q[i]]
    BY <1>1, EachBecomes
  <2>2. /\ c \in Seq(Seq(T)) /\ Len(c) = Len(q)
        /\ \A i \in 1..Len(q) : c[i] = F[q[i]]
    BY <2>1, Zenon
  <2> HIDE DEF c
  <2> QED BY <1>1, <2>2
<1> HIDE DEF c
<1>3. d \in Seq(Seq(T)) /\ Len(d) = 1 /\ d[1] = F[x]
  BY DEF Becomes
<1>4. FlattenSeq(d) = F[x]
  BY FlattenOne DEF Becomes
<1> HIDE DEF d
<1>5. c = d
  <2>1. \A i \in 1..Len(c) : c[i] = d[i]
    BY <1>2, <1>3
  <2> QED BY <1>2, <1>3, <2>1, SeqEqual
<1> QED BY <1>4, <1>5 DEF Joined, c, q

LEMMA JoinedConcat ==
  ASSUME NEW S, NEW T, NEW F, Becomes(F, S, T),
         NEW q \in Seq(S), NEW r \in Seq(S)
  PROVE  Joined(F, q \o r) = Joined(F, q) \o Joined(F, r)
<1> DEFINE p == q \o r
           a == [i \in DOMAIN q |-> F[q[i]]]
           b == [i \in DOMAIN r |-> F[r[i]]]
           c == [i \in DOMAIN p |-> F[p[i]]]
<1>1. /\ p \in Seq(S) /\ Len(p) = Len(q) + Len(r)
      /\ \A i \in 1..(Len(q) + Len(r)) :
           p[i] = IF i <= Len(q) THEN q[i] ELSE r[i - Len(q)]
  BY ConcatProperties
<1> HIDE DEF p
<1>2. /\ a \in Seq(Seq(T)) /\ Len(a) = Len(q) /\ Len(q) \in Nat
      /\ \A i \in 1..Len(q) : a[i] = F[q[i]]
  BY EachBecomes
<1>3. /\ b \in Seq(Seq(T)) /\ Len(b) = Len(r) /\ Len(r) \in Nat
      /\ \A i \in 1..Len(r) : b[i] = F[r[i]]
  BY EachBecomes
<1>4. /\ c \in Seq(Seq(T)) /\ Len(c) = Len(p)
      /\ \A i \in 1..Len(p) : c[i] = F[p[i]]
  <2>1. \A d : d = [i \in DOMAIN p |-> F[p[i]]] =>
          /\ d \in Seq(Seq(T)) /\ Len(d) = Len(p)
          /\ \A i \in 1..Len(p) : d[i] = F[p[i]]
    <3>1. p \in Seq(S)
      BY <1>1
    <3> QED BY <3>1, EachBecomes
  <2> QED BY <2>1, Zenon
<1> HIDE DEF a, b, c
<1>5. /\ a \o b \in Seq(Seq(T)) /\ Len(a \o b) = Len(a) + Len(b)
      /\ \A i \in 1..(Len(a) + Len(b)) :
           (a \o b)[i] = IF i <= Len(a) THEN a[i] ELSE b[i - Len(a)]
  BY <1>2, <1>3, ConcatProperties
<1>6. ASSUME NEW i \in 1..Len(c) PROVE c[i] = (a \o b)[i]
  <2>1. CASE i <= Len(q)
    <3>1. i \in 1..Len(q) /\ i \in 1..(Len(q) + Len(r))
      BY <1>1, <1>2, <1>3, <1>4, <2>1
    <3>2. c[i] = F[p[i]] /\ p[i] = q[i]
      BY <1>1, <1>4, <2>1, <3>1
    <3>3. (a \o b)[i] = a[i]
      BY <1>2, <1>3, <1>5, <2>1, <3>1
    <3>4. a[i] = F[q[i]]
      BY <1>2, <3>1
    <3> QED BY <3>2, <3>3, <3>4
  <2>2. CASE ~(i <= Len(q))
    <3>1. i - Len(q) \in 1..Len(r) /\ i \in 1..(Len(q) + Len(r))
      BY <1>1, <1>2, <1>3, <1>4, <2>2
    <3> QED BY <1>1, <1>2, <1>3, <1>4, <1>5, <2>2, <3>1
  <2> QED BY <2>1, <2>2
<1>7. c = a \o b
  BY <1>1, <1>2, <1>3, <1>4, <1>5, <1>6, SeqEqual
<1>8. FlattenSeq(a \o b) = FlattenSeq(a) \o FlattenSeq(b)
  BY <1>2, <1>3, FlattenConcat
<1> QED BY <1>7, <1>8 DEF Joined, a, b, c, p

\* Two ways that agree on the elements make the same of a sequence.
LEMMA JoinedAlike ==
  ASSUME NEW S, NEW F, NEW G, NEW q \in Seq(S), \A i \in 1..Len(q) : F[q[i]] = G[q[i]]
  PROVE  Joined(F, q) = Joined(G, q)
<1>1. DOMAIN q = 1..Len(q)
  OBVIOUS
<1>2. [i \in DOMAIN q |-> F[q[i]]] = [i \in DOMAIN q |-> G[q[i]]]
  BY <1>1
<1> QED BY <1>2 DEF Joined

\* Induction over sequences, element by element.
LEMMA SequenceInduction ==
  ASSUME NEW S, NEW P, <<>> \in P,
         \A q \in Seq(S), x \in S : q \in P => Append(q, x) \in P
  PROVE  Seq(S) \subseteq P
<1> DEFINE T == {n \in Nat : \A q \in Seq(S) : Len(q) = n => q \in P}
<1>1. 0 \in T
  <2>1. ASSUME NEW q \in Seq(S), Len(q) = 0 PROVE q \in P
    <3>1. q = <<>>
      BY <2>1, EmptySeq
    <3> QED BY <3>1
  <2> QED BY <2>1
<1>2. ASSUME NEW n \in Nat, n \in T PROVE n + 1 \in T
  <2>1. ASSUME NEW q \in Seq(S), Len(q) = n + 1 PROVE q \in P
    <3>1. q # <<>>
      BY <2>1
    <3>2. PICK front \in Seq(S), x \in S : q = Append(front, x)
      BY <3>1, SequenceEmptyOrAppend
    <3>3. Len(front) = n
      BY <2>1, <3>2, AppendProperties
    <3>4. front \in P
      BY <1>2, <3>3
    <3> QED BY <3>2, <3>4
  <2> QED BY <2>1
<1>3. Nat \subseteq T
  <2> HIDE DEF T
  <2> QED BY <1>1, <1>2, Induction
<1>4. ASSUME NEW q \in Seq(S) PROVE q \in P
  <2>1. Len(q) \in Nat /\ Len(q) \in T
    BY <1>3
  <2> QED BY <2>1
<1> QED BY <1>4

\* The last element of a sequence, and what is before it.
LEMMA FrontOfAppend ==
  ASSUME NEW S, NEW q \in Seq(S), NEW x \in S
  PROVE  /\ Append(q, x) # <<>> /\ Last(Append(q, x)) = x
         /\ Front(Append(q, x)) = q
<1> DEFINE a == Append(q, x)
<1>1. /\ a \in Seq(S) /\ Len(a) = Len(q) + 1 /\ Len(q) \in Nat
      /\ a[Len(q) + 1] = x /\ \A i \in 1..Len(q) : a[i] = q[i]
  BY AppendProperties, LenProperties
<1> HIDE DEF a
<1>2. a # <<>> /\ Last(a) = x
  BY <1>1 DEF Last
<1>3. Front(a) = SubSeq(a, 1, Len(q))
  BY <1>1 DEF Front
<1>4. /\ SubSeq(a, 1, Len(q)) \in Seq(S) /\ Len(SubSeq(a, 1, Len(q))) = Len(q)
      /\ \A i \in 1..Len(q) : SubSeq(a, 1, Len(q))[i] = a[i]
  <2>1. \A i \in 1..Len(q) : a[i] \in S
    BY <1>1
  <2> QED BY <1>1, <2>1, SubSeqProperties
<1>5. Front(a) = q
  BY <1>1, <1>3, <1>4, SeqEqual
<1> QED BY <1>2, <1>5 DEF a

\* A sequence cut in two, and the second part cut again.
Cut(q, u, r, S) ==
  /\ SubSeq(q, 1, u) \in Seq(S) /\ r \in Seq(S)
  /\ SubSeq(q, 1, u) \o r = q
  /\ Len(r) = Len(q) - u
  /\ Len(q) \in Nat /\ Len(r) \in Nat
  /\ q = <<>> => r = <<>>
  /\ \A n \in 0..Len(r) :
       /\ SubSeq(r, 1, n) \in Seq(S)
       /\ SubSeq(q, 1, u + n) = SubSeq(q, 1, u) \o SubSeq(r, 1, n)

LEMMA SplitSequence ==
  ASSUME NEW S, NEW q \in Seq(S), NEW u \in Nat, u <= Len(q)
  PROVE  Cut(q, u, SubSeq(q, u + 1, Len(q)), S)
<1> DEFINE r == SubSeq(q, u + 1, Len(q))
<1>1. Len(q) \in Nat /\ \A i \in 1..Len(q) : q[i] \in S
  OBVIOUS
<1>2. r = SubSeq(q, u + 1, Len(q))
  OBVIOUS
<1> HIDE DEF r
<1>3. SubSeq(q, 1, u) \in Seq(S)
  <2>1. \A i \in 1..u : q[i] \in S
    BY <1>1
  <2> QED BY <1>1, <2>1, SubSeqProperties
<1>4. r \in Seq(S) /\ Len(r) = Len(q) - u
  <2>1. \A i \in (u + 1)..Len(q) : q[i] \in S
    BY <1>1
  <2>2. u + 1 \in Int /\ Len(q) \in Int
    BY <1>1
  <2>3. r \in Seq(S) /\ Len(r) = IF u + 1 <= Len(q) THEN Len(q) - (u + 1) + 1 ELSE 0
    BY <1>2, <2>1, <2>2, SubSeqProperties
  <2> QED BY <1>1, <2>3
<1>5. SubSeq(q, 1, u) \o r = q
  <2>1. 1 \in 1..(Len(q) + 1) /\ u \in (1 - 1)..Len(q) /\ Len(q) \in u..Len(q)
    BY <1>1
  <2>2. SubSeq(q, 1, u) \o SubSeq(q, u + 1, Len(q)) = SubSeq(q, 1, Len(q))
    BY <1>1, <2>1, ConcatAdjacentSubSeq
  <2>3. SubSeq(q, 1, Len(q)) = q
    BY <1>1, SubSeqFull
  <2> QED BY <1>2, <2>2, <2>3
<1>6. q = <<>> => r = <<>>
  <2>1. q = <<>> => Len(r) = 0
    BY <1>1, <1>4
  <2> QED BY <1>4, <2>1, EmptySeq
<1>7. ASSUME NEW n \in 0..Len(r)
      PROVE  /\ SubSeq(r, 1, n) \in Seq(S)
             /\ SubSeq(q, 1, u + n) = SubSeq(q, 1, u) \o SubSeq(r, 1, n)
  <2>1. n \in Int /\ n >= 0 /\ n <= Len(r) /\ Len(r) \in Nat
    BY <1>1, <1>4
  <2>2. SubSeq(r, 1, n) \in Seq(S)
    <3>1. \A i \in 1..n : r[i] \in S
      BY <1>4, <2>1
    <3> QED BY <2>1, <3>1, SubSeqProperties
  <2>3. SubSeq(q, 1, u) \o SubSeq(q, u + 1, u + n) = SubSeq(q, 1, u + n)
    <3>1. /\ 1 \in 1..(Len(q) + 1) /\ u \in (1 - 1)..Len(q)
          /\ u + n \in u..Len(q)
      BY <1>1, <1>4, <2>1
    <3> QED BY <1>1, <3>1, ConcatAdjacentSubSeq
  <2>4. SubSeq(r, 1, n) = SubSeq(q, u + 1, u + n)
    <3>1. CASE n = 0
      <4>1. SubSeq(r, 1, 0) = <<>> /\ SubSeq(q, u + 1, u + 0) = <<>>
        BY <1>1, <1>4, SubSeqEmpty
      <4> QED BY <3>1, <4>1
    <3>2. CASE n # 0
      <4>1. /\ u + 1 \in 1..Len(q) /\ Len(q) \in 1..Len(q)
            /\ 1 \in 1..(Len(q) - (u + 1) + 1) /\ n \in 1..(Len(q) - (u + 1) + 1)
            /\ (u + 1) + 1 - 1 = u + 1 /\ (u + 1) + n - 1 = u + n
        BY <1>1, <1>4, <2>1, <3>2
      <4>2. SubSeq(SubSeq(q, u + 1, Len(q)), 1, n)
              = SubSeq(q, (u + 1) + 1 - 1, (u + 1) + n - 1)
        BY <1>1, <4>1, SubSeqOfSubSeq
      <4> QED BY <1>2, <4>1, <4>2
    <3> QED BY <3>1, <3>2
  <2> QED BY <2>2, <2>3, <2>4
<1>8. Len(r) \in Nat
  BY <1>1, <1>4
<1>9. \A n \in 0..Len(r) :
        /\ SubSeq(r, 1, n) \in Seq(S)
        /\ SubSeq(q, 1, u + n) = SubSeq(q, 1, u) \o SubSeq(r, 1, n)
  BY <1>7
<1>10. Cut(q, u, r, S)
  BY <1>1, <1>3, <1>4, <1>5, <1>6, <1>8, <1>9, Zenon DEF Cut
<1> QED BY <1>10 DEF r

-------------------------------------------------------------------------------
(* Texts.                                                                  *)

\* A text is a sequence: its length and its elements.
LEMMA TextIsSequence ==
  ASSUME NEW t \in Text
  PROVE  /\ Len(t) \in Nat
         /\ \A i \in 1..Len(t) : t[i] \in Scalar
         /\ t # <<>> => Len(t) > 0
BY LenProperties, EmptySeq DEF Text

\* Concatenation stays within Text, and the empty text is its unit.
LEMMA ConcatText ==
  ASSUME NEW s \in Text, NEW t \in Text
  PROVE  /\ s \o t \in Text
         /\ Len(s \o t) = Len(s) + Len(t)
         /\ s \o <<>> = s
         /\ <<>> \o s = s
BY ConcatProperties, ConcatEmptySeq DEF Text

LEMMA ConcatTexts ==
  ASSUME NEW s \in Text, NEW t \in Text, NEW u \in Text
  PROVE  (s \o t) \o u = s \o (t \o u)
BY ConcatAssociative DEF Text

LEMMA EmptyText == <<>> \in Text /\ Len(<<>>) = 0
BY EmptySeq DEF Text

\* Part of a text is a text.
LEMMA SubText ==
  ASSUME NEW t \in Text, NEW m \in Int, NEW n \in Int, m >= 1, n <= Len(t)
  PROVE  SubSeq(t, m, n) \in Text
<1>1. \A i \in m..n : t[i] \in Scalar
  BY TextIsSequence
<1> QED BY <1>1, SubSeqProperties DEF Text

\* A caret splits a text into two.
LEMMA SplitText ==
  ASSUME NEW t \in Text, NEW n, n = Len(t), NEW k \in 0..n
  PROVE  /\ SubSeq(t, 1, k) \in Text
         /\ SubSeq(t, k + 1, n) \in Text
<1>1. n \in Nat /\ k \in Int /\ k + 1 \in Int /\ k >= 0 /\ k <= n
  BY TextIsSequence
<1>2. SubSeq(t, 1, k) \in Text
  BY <1>1, SubText
<1>3. SubSeq(t, k + 1, n) \in Text
  BY <1>1, SubText
<1> QED BY <1>2, <1>3

\* So does dropping the last scalar of one, if there is one.
LEMMA ButLast ==
  ASSUME NEW t \in Text
  PROVE  SubSeq(t, 1, Len(t) - 1) \in Text
<1>1. Len(t) \in Nat
  BY TextIsSequence
<1> QED BY <1>1, SubText

\* What the client removes for a deletion, and what it keeps, are texts.
LEMMA RemovedType ==
  ASSUME NEW doc \in Text, NEW count \in Nat
  PROVE  /\ Removed(doc, -count, count) \in Text
         /\ Remaining(doc, -count, count) \in Text
<1> DEFINE start == Start(doc, -count)
<1>1. Len(doc) \in Nat
  BY TextIsSequence
<1>2. start \in 0..Len(doc)
  BY <1>1 DEF Start
<1>3. Len(doc) + (-count) + count = Len(doc)
  BY <1>1
<1> HIDE DEF start
<1>4. SubSeq(doc, start + 1, Len(doc)) \in Text
  BY <1>1, <1>2, SubText
<1>5. SubSeq(doc, 1, start) \in Text
  BY <1>1, <1>2, SubText
<1>6. SubSeq(doc, Len(doc) + 1, Len(doc)) \in Text
  BY <1>1, SubText
<1> QED BY <1>3, <1>4, <1>5, <1>6, ConcatText DEF Removed, Remaining, start

\* Deleting the end of a document removes just that and leaves the rest.
LEMMA DeleteSuffix ==
  ASSUME NEW base \in Text, NEW tail \in Text
  PROVE  /\ Removed(base \o tail, -Len(tail), Len(tail)) = tail
         /\ Remaining(base \o tail, -Len(tail), Len(tail)) = base
<1> DEFINE doc == base \o tail
<1>1. /\ Len(base) \in Nat /\ Len(tail) \in Nat
      /\ doc \in Text /\ Len(doc) = Len(base) + Len(tail)
  BY TextIsSequence, ConcatText
<1>2. Start(doc, -Len(tail)) = Len(base)
  BY <1>1 DEF Start
<1>3. Len(doc) + (-Len(tail)) + Len(tail) = Len(doc)
  BY <1>1
<1>4. SubSeq(doc, Len(base) + 1, Len(doc)) = tail
  <2>1. CASE tail = <<>>
    BY <2>1, <1>1, EmptyText, SubSeqEmpty
  <2>2. CASE tail # <<>>
    <3>1. SubSeq(doc, Len(base) + 1, Len(doc)) = SubSeq(tail, 1, Len(tail))
      <4>1. /\ Len(tail) > 0
            /\ (Len(base) + 1) - Len(base) = 1
            /\ Len(doc) - Len(base) = Len(tail)
            /\ Len(base) + 1 \in Len(base) + 1 .. Len(base) + Len(tail)
            /\ Len(doc) \in Len(base) + 1 .. Len(base) + Len(tail)
        BY <1>1, <2>2, TextIsSequence
      <4> HIDE DEF doc
      <4>2. SubSeq(base \o tail, Len(base) + 1, Len(doc))
              = SubSeq(tail, (Len(base) + 1) - Len(base), Len(doc) - Len(base))
        BY <4>1, SubSeqOfConcat2 DEF Text
      <4> QED BY <4>1, <4>2 DEF doc
    <3> QED BY <3>1, SubSeqFull DEF Text
  <2> QED BY <2>1, <2>2
<1>5. SubSeq(doc, 1, Len(base)) = base
  <2>1. CASE base = <<>>
    BY <2>1, EmptyText, SubSeqEmpty
  <2>2. CASE base # <<>>
    <3>1. SubSeq(doc, 1, Len(base)) = SubSeq(base, 1, Len(base))
      BY <1>1, <2>2, TextIsSequence, SubSeqOfConcat1 DEF Text
    <3> QED BY <3>1, SubSeqFull DEF Text
  <2> QED BY <2>1, <2>2
<1>6. SubSeq(doc, Len(doc) + 1, Len(doc)) = <<>>
  BY <1>1, SubSeqEmpty
<1> HIDE DEF doc
<1>7. Removed(doc, -Len(tail), Len(tail)) = tail
  BY <1>2, <1>3, <1>4 DEF Removed
<1>8. Remaining(doc, -Len(tail), Len(tail)) = base \o <<>>
  BY <1>2, <1>3, <1>5, <1>6 DEF Remaining
<1> QED BY <1>7, <1>8, ConcatText DEF doc

\* The part left of a suffix, as SubSeq picks it out.
LEMMA SuffixSplit ==
  ASSUME NEW base \in Text, NEW tail \in Text
  PROVE  SubSeq(base \o tail, 1, Len(base \o tail) - Len(tail)) = base
<1>1. Len(base) \in Nat /\ Len(tail) \in Nat
  BY TextIsSequence
<1>2. Len(base \o tail) - Len(tail) = Len(base)
  BY <1>1, ConcatText
<1>3. CASE base = <<>>
  BY <1>2, <1>3, EmptyText, SubSeqEmpty
<1>4. CASE base # <<>>
  <2>1. SubSeq(base \o tail, 1, Len(base)) = SubSeq(base, 1, Len(base))
    BY <1>1, <1>4, TextIsSequence, SubSeqOfConcat1 DEF Text
  <2> QED BY <2>1, <1>2, SubSeqFull DEF Text
<1> QED BY <1>3, <1>4

\* Cutting the beginning of a list to the cap and adding what the list has beyond
\* it is cutting the list.
LEMMA RefilledList ==
  ASSUME NEW list \in Seq(Text), NEW cap \in Nat \ {0}, NEW had,
         had = <<>> \/ \E n \in 0..Len(list) : had = SubSeq(list, 1, n)
  PROVE  SubSeq(had, 1, Capped(Len(had), cap))
           \o SubSeq(list, Len(had) + 1, Capped(Len(list), cap))
         = SubSeq(list, 1, Capped(Len(list), cap))
<1>1. Len(list) \in Nat
  OBVIOUS
<1>2. PICK n \in 0..Len(list) : had = SubSeq(list, 1, n)
  <2>1. 0 \in 0..Len(list) /\ SubSeq(list, 1, 0) = <<>>
    BY <1>1, SubSeqEmpty
  <2> QED BY <2>1
<1>3. had \in Seq(Text) /\ Len(had) = n
  <2>1. \A i \in 1..n : list[i] \in Text
    BY <1>1
  <2> QED BY <1>2, <2>1, SubSeqProperties
<1> DEFINE kept == Capped(n, cap)
           all == Capped(Len(list), cap)
<1>4. /\ kept \in 0..n /\ all \in 0..Len(list) /\ kept <= all
      /\ (kept = n \/ (all = kept /\ all < n /\ kept \in 1..n))
  BY <1>1 DEF Capped
<1> HIDE DEF kept, all
<1>5. CASE kept = n
  <2>1. SubSeq(had, 1, n) = had
    BY <1>3, SubSeqFull
  <2>2. 1 \in 1..(Len(list) + 1) /\ n \in (1 - 1)..Len(list) /\ all \in n..Len(list)
    BY <1>1, <1>4, <1>5
  <2>3. SubSeq(list, 1, n) \o SubSeq(list, n + 1, all) = SubSeq(list, 1, all)
    BY <2>2, ConcatAdjacentSubSeq
  <2> QED BY <1>2, <1>3, <1>5, <2>1, <2>3 DEF kept, all
<1>6. CASE all = kept /\ all < n /\ kept \in 1..n
  <2>1. SubSeq(list, n + 1, all) = <<>>
    BY <1>1, <1>4, <1>6, SubSeqEmpty
  <2>2. SubSeq(had, 1, kept) = SubSeq(list, 1, kept)
    <3>1. /\ 1 \in 1..Len(list) /\ n \in 1..Len(list)
          /\ 1 \in 1..(n - 1 + 1) /\ kept \in 1..(n - 1 + 1)
          /\ 1 + 1 - 1 = 1 /\ 1 + kept - 1 = kept
      BY <1>1, <1>6
    <3> QED BY <1>2, <3>1, SubSeqOfSubSeq
  <2>3. SubSeq(list, 1, kept) \in Seq(Text)
    <3>1. \A i \in 1..kept : list[i] \in Text
      BY <1>1, <1>4
    <3>2. kept \in Int
      BY <1>4
    <3> QED BY <3>1, <3>2, SubSeqProperties
  <2> QED BY <1>3, <1>6, <2>1, <2>2, <2>3, ConcatEmptySeq DEF kept, all
<1> QED BY <1>4, <1>5, <1>6

\* What a model projects to is a flat composition.
LEMMA ProjectType ==
  ASSUME NEW m \in Model
  PROVE  Project(m) \in Flat
<1>1. /\ m.settled \in Text /\ m.active \in Text /\ m.tail \in Text
      /\ m.candidates \in Seq(Text) /\ m.cursor \in Nat
  BY DEF Model
<1>2. m.settled \o m.active \o m.tail \in Text
  BY <1>1, ConcatText
<1>3. Len(m.settled) \in Nat /\ Len(m.candidates) \in Nat
  BY <1>1, TextIsSequence, LenProperties
<1> QED BY <1>1, <1>2, <1>3 DEF Project, Flat

LEMMA EmptyModelType == EmptyModel \in Model
BY EmptySeq DEF EmptyModel, Model, Text

\* The dispatch step keeps the types of everything it assigns.
LEMMA RefreshType ==
  ASSUME ContextTypeOK,
         NEW m \in Model, NEW out \in AdapterOutput, NEW force \in BOOLEAN,
         Refresh(m, out, force)
  PROVE  /\ model' \in Model
         /\ published' \in Flat
         /\ snapshot' \in Snapshot
         /\ callbacks' \in SUBSET {"delete", "changed"}
         /\ before' \in Text
         /\ after' \in Text
         /\ shown' \in Flat
         /\ calls' \in Seq(Call)
<1> DEFINE removed == Removed(before, out.offset, out.count)
           cut == Remaining(before, out.offset, out.count)
           one == <<[cb |-> "delete", text |-> removed]>>
           two == <<[cb |-> "commit", text |-> out.commit]>>
           three == <<[cb |-> "changed", text |-> Project(m).preedit]>>
<1>1. Project(m) \in Flat
  BY ProjectType
<1>2. out.commit \in Text /\ out.count \in Nat /\ out.offset = -out.count
  BY DEF AdapterOutput, Output
<1>3. before \in Text /\ after \in Text
  BY DEF ContextTypeOK
<1>4. removed \in Text /\ cut \in Text
  BY <1>2, <1>3, RemovedType
<1>5. before' \in Text
  BY <1>2, <1>3, <1>4, ConcatText DEF Refresh
<1>6. snapshot' \in Snapshot
  BY EmptyText DEF Refresh, SnapshotAfter, ContextTypeOK, NoSnapshot, Snapshot
<1>7. shown' \in Flat /\ published' \in Flat /\ model' \in Model
  BY <1>1 DEF Refresh, ContextTypeOK
<1>8. /\ [cb |-> "delete", text |-> removed] \in Call
      /\ [cb |-> "commit", text |-> out.commit] \in Call
      /\ [cb |-> "changed", text |-> Project(m).preedit] \in Call
  BY <1>1, <1>2, <1>4 DEF Call, Flat
<1>9. one \in Seq(Call) /\ two \in Seq(Call) /\ three \in Seq(Call)
      /\ <<>> \in Seq(Call)
  BY <1>8
<1>10. calls' \in Seq(Call)
  <2> DEFINE x == IF Deletes(out) THEN one ELSE <<>>
             y == IF out.commit # <<>> THEN two ELSE <<>>
             z == IF (force \/ Differs(Project(m))) /\ "changed" \in callbacks
                  THEN three ELSE <<>>
  <2>1. x \in Seq(Call) /\ y \in Seq(Call) /\ z \in Seq(Call)
    BY <1>9
  <2>2. calls' = x \o y \o z
    BY DEF Refresh
  <2> HIDE DEF x, y, z
  <2> QED BY <2>1, <2>2, ConcatProperties
<1> QED BY <1>3, <1>5, <1>6, <1>7, <1>10 DEF Refresh, ContextTypeOK

\* The calls of a dispatch step ask for no deletion but the one in its output.
LEMMA RefreshDeletes ==
  ASSUME NEW m, NEW out, NEW force, Refresh(m, out, force),
         NEW i \in DOMAIN calls', calls'[i].cb = "delete"
  PROVE  /\ Deletes(out)
         /\ calls'[i].text = Removed(before, out.offset, out.count)
<1> DEFINE one == <<[cb |-> "delete",
                     text |-> Removed(before, out.offset, out.count)]>>
           x == IF Deletes(out) THEN one ELSE <<>>
           y == IF out.commit # <<>>
                THEN <<[cb |-> "commit", text |-> out.commit]>> ELSE <<>>
           z == IF (force \/ Differs(Project(m))) /\ "changed" \in callbacks
                THEN <<[cb |-> "changed", text |-> Project(m).preedit]>> ELSE <<>>
<1>1. calls' = x \o y \o z
  BY DEF Refresh
<1>2. \A j \in DOMAIN y : y[j].cb = "commit"
  OBVIOUS
<1>3. \A j \in DOMAIN z : z[j].cb = "changed"
  OBVIOUS
<1>4. x = IF Deletes(out) THEN one ELSE <<>>
  OBVIOUS
<1>5. \E S : x \in Seq(S) /\ y \in Seq(S) /\ z \in Seq(S)
  <2> DEFINE d == [cb |-> "delete",
                   text |-> Removed(before, out.offset, out.count)]
             c == [cb |-> "commit", text |-> out.commit]
             n == [cb |-> "changed", text |-> Project(m).preedit]
             S == {d, c, n}
  <2>1. x \in {<<>>, <<d>>} /\ y \in {<<>>, <<c>>} /\ z \in {<<>>, <<n>>}
    OBVIOUS
  <2>2. d \in S /\ c \in S /\ n \in S
    OBVIOUS
  <2> HIDE DEF x, y, z, d, c, n, S
  <2>3. <<>> \in Seq(S) /\ <<d>> \in Seq(S) /\ <<c>> \in Seq(S) /\ <<n>> \in Seq(S)
    BY <2>2
  <2>4. x \in Seq(S) /\ y \in Seq(S) /\ z \in Seq(S)
    BY <2>1, <2>3
  <2> QED BY <2>4
<1> HIDE DEF x, y, z
<1>6. i \in 1..Len(x) /\ calls'[i] = x[i]
  <2>1. PICK S : x \in Seq(S) /\ y \in Seq(S) /\ z \in Seq(S)
    BY <1>5
  <2>2. /\ Len(x) \in Nat /\ Len(y) \in Nat /\ Len(z) \in Nat
        /\ DOMAIN y = 1..Len(y) /\ DOMAIN z = 1..Len(z)
    BY <2>1, LenProperties
  <2>3. /\ x \o y \in Seq(S) /\ Len(x \o y) = Len(x) + Len(y)
        /\ \A j \in 1..(Len(x) + Len(y)) :
             (x \o y)[j] = IF j <= Len(x) THEN x[j] ELSE y[j - Len(x)]
    BY <2>1, ConcatProperties
  <2>4. /\ calls' \in Seq(S) /\ Len(calls') = Len(x) + Len(y) + Len(z)
        /\ \A j \in 1..(Len(x) + Len(y) + Len(z)) :
             calls'[j] = IF j <= Len(x) + Len(y) THEN (x \o y)[j]
                         ELSE z[j - (Len(x) + Len(y))]
    BY <2>1, <2>2, <2>3, <1>1, ConcatProperties
  <2>5. i \in 1..(Len(x) + Len(y) + Len(z))
    BY <2>4, LenProperties
  <2>6. CASE i > Len(x) + Len(y)
    <3>1. i - (Len(x) + Len(y)) \in DOMAIN z
      BY <2>2, <2>5, <2>6
    <3>2. calls'[i] = z[i - (Len(x) + Len(y))]
      BY <2>2, <2>4, <2>5, <2>6
    <3> QED BY <3>1, <3>2, <1>3
  <2>7. CASE i > Len(x) /\ i <= Len(x) + Len(y)
    <3>1. i - Len(x) \in DOMAIN y
      BY <2>2, <2>5, <2>7
    <3>2. calls'[i] = y[i - Len(x)]
      BY <2>2, <2>3, <2>4, <2>5, <2>7
    <3> QED BY <3>1, <3>2, <1>2
  <2>8. CASE i <= Len(x)
    BY <2>2, <2>3, <2>4, <2>5, <2>8
  <2> QED BY <2>2, <2>5, <2>6, <2>7, <2>8
<1>7. Deletes(out) /\ x = one
  BY <1>4, <1>6
<1>8. i = 1
  BY <1>6, <1>7
<1> QED BY <1>6, <1>7, <1>8

\* After the dispatch step a client that listens has been shown what is
\* published, provided it had been before.
LEMMA RefreshShows ==
  ASSUME NEW m, NEW out, NEW force, Refresh(m, out, force),
         "changed" \in callbacks => shown = published
  PROVE  "changed" \in callbacks' => shown' = published'
BY DEF Refresh, Differs

\* A fragment of the document around the caret is a snapshot.
LEMMA AroundType ==
  ASSUME NEW left \in Text, NEW right \in Text,
         NEW l \in 0..Len(left), NEW r \in 0..Len(right)
  PROVE  Around(left, right, l, r) \in Snapshot
<1>1. Len(left) \in Nat /\ Len(right) \in Nat
  BY TextIsSequence
<1>2. /\ SubSeq(left, Len(left) - l + 1, Len(left)) \in Text
      /\ SubSeq(right, 1, r) \in Text
  BY <1>1, SubText
<1>3. SubSeq(left, Len(left) - l + 1, Len(left)) \o SubSeq(right, 1, r) \in Text
  BY <1>2, ConcatText
<1> QED BY <1>1, <1>3 DEF Around, Snapshot

LEMMA SetSurroundingTextType ==
  ASSUME ContextTypeOK, SetSurroundingText
  PROVE  ContextTypeOK'
<1>1. before \in Text /\ after \in Text /\ Len(after) \in Nat
  BY TextIsSequence DEF ContextTypeOK
<1>2. snapshot' \in Snapshot
  <2>1. CASE snapshot' = NoSnapshot
    BY <2>1, EmptyText DEF NoSnapshot, Snapshot
  <2>2. ASSUME NEW l \in 0..Len(before), NEW r \in {0, Len(after)},
               snapshot' = Around(before, after, l, r)
        PROVE  snapshot' \in Snapshot
    BY <1>1, <2>2, AroundType
  <2> QED BY <2>1, <2>2 DEF SetSurroundingText
<1>3. <<>> \in Seq(Call)
  BY EmptySeq
<1> QED BY <1>2, <1>3 DEF SetSurroundingText, ContextTypeOK

LEMMA ClientActsType ==
  ASSUME ContextTypeOK, ClientActs
  PROVE  ContextTypeOK'
<1>1. before \in Text /\ Len(before) \in Nat
  BY TextIsSequence DEF ContextTypeOK
<1>2. before' \in Text
  <2>1. CASE \E s \in Scalar : before' = Append(before, s)
    BY <1>1, <2>1, AppendProperties DEF Text
  <2>2. CASE before' = SubSeq(before, 1, Len(before) - 1)
    BY <1>1, <2>2, SubText
  <2> QED BY <2>1, <2>2 DEF ClientActs
<1>3. <<>> \in Seq(Call)
  BY EmptySeq
<1> QED BY <1>2, <1>3 DEF ClientActs, ContextTypeOK

\* Wherever the caret goes, the document splits into two texts around it.
LEMMA MoveCaretType ==
  ASSUME ContextTypeOK, MoveCaret, snapshot' \in Snapshot
  PROVE  ContextTypeOK'
<1>1. /\ before \o after \in Text
      /\ Len(before \o after) = Len(before) + Len(after)
      /\ Len(before) \in Nat /\ Len(after) \in Nat
  BY TextIsSequence, ConcatText DEF ContextTypeOK
<1>2. PICK k \in 0..(Len(before) + Len(after)) :
        /\ before' = SubSeq(before \o after, 1, k)
        /\ after' = SubSeq(before \o after, k + 1, Len(before) + Len(after))
  BY DEF MoveCaret
<1>3. before' \in Text /\ after' \in Text
  BY <1>1, <1>2, SplitText
<1>4. <<>> \in Seq(Call)
  BY EmptySeq
<1> QED BY <1>3, <1>4 DEF MoveCaret, ContextTypeOK
================================================================================
