----------------------------- MODULE VictiniProofs -----------------------------
(***************************************************************************)
(* Victini for every text and every width: the linear-time suffix sort     *)
(* sorts, the Burrows-Wheeler and the move-to-front transform are undone,  *)
(* _normalize makes distributions, and so what compress wrote decompress   *)
(* gives back.  The merge and the recursion of the sort, the caches and    *)
(* the walk of the inverse transform are first shown to satisfy their      *)
(* equations; the coder is that of CodecProofs.                            *)
(***************************************************************************)
EXTENDS Victini, CodecProofs

-----------------------------------------------------------------------------
(* Rankings and the counting sort *)
LEMMA StoredIs == \A f : Stored(f) = f
BY DEF Stored

\* A set of naturals has a least member.
LEMMA Least ==
  ASSUME NEW S, S \subseteq Nat, S # {}
  PROVE  \E m \in S : \A k \in S : m <= k
<1>1. PICK m \in S : \A k \in S : ~(<<k, m>> \in OpToRel(<, Nat))
  BY NatLessThanWellFounded, WFMin
<1>2. ASSUME NEW k \in S, ~(m <= k) PROVE FALSE
  <2>1. k \in Nat /\ m \in Nat /\ k < m
    BY <1>2
  <2> QED BY <1>1, <2>1 DEF OpToRel
<1> QED BY <1>2

\* R is a strict total order of S.
Orders(R, S) ==
  /\ \A i \in S : <<i, i>> \notin R
  /\ \A i, j, k \in S : <<i, j>> \in R /\ <<j, k>> \in R => <<i, k>> \in R
  /\ \A i, j \in S : i # j => <<i, j>> \in R \/ <<j, i>> \in R

\* The members of a finite set, numbered by how many are smaller.
LEMMA Ranking ==
  ASSUME NEW S, IsFiniteSet(S), NEW R, Orders(R, S),
         NEW r, r = [i \in S |-> Cardinality({j \in S : <<j, i>> \in R})]
  PROVE  /\ r \in Bijection(S, 0..Cardinality(S)-1)
         /\ \A i, j \in S : r[i] < r[j] <=> <<i, j>> \in R
<1> DEFINE below(i) == {j \in S : <<j, i>> \in R}
<1>1. ASSUME NEW i \in S PROVE /\ IsFiniteSet(below(i)) /\ r[i] = Cardinality(below(i))
                               /\ r[i] \in Nat /\ r[i] < Cardinality(S)
  <2>1. below(i) \in SUBSET S /\ i \notin below(i)
    BY DEF Orders
  <2>2. /\ IsFiniteSet(below(i)) /\ Cardinality(below(i)) <= Cardinality(S)
        /\ Cardinality(below(i)) = Cardinality(S) => below(i) = S
    BY <2>1, FS_Subset
  <2>3. Cardinality(below(i)) \in Nat /\ Cardinality(S) \in Nat
    BY <2>2, FS_CardinalityType
  <2>4. r[i] = Cardinality(below(i))
    OBVIOUS
  <2> QED BY <2>1, <2>2, <2>3, <2>4
<1>2. ASSUME NEW i \in S, NEW j \in S, <<i, j>> \in R PROVE r[i] < r[j]
  <2>1. below(i) \in SUBSET below(j) /\ i \in below(j) /\ i \notin below(i)
    BY <1>2 DEF Orders
  <2>2. /\ Cardinality(below(i)) <= Cardinality(below(j))
        /\ Cardinality(below(i)) = Cardinality(below(j)) => below(i) = below(j)
    BY <1>1, <2>1, FS_Subset
  <2> HIDE DEF below
  <2> QED BY <1>1, <2>1, <2>2
<1> HIDE DEF below
<1>12. \A i \in S : r[i] \in Nat /\ r[i] < Cardinality(S)
  BY <1>1
<1>22. \A i, j \in S : <<i, j>> \in R => r[i] < r[j]
  BY <1>2
<1>3. \A i, j \in S : r[i] < r[j] <=> <<i, j>> \in R
  <2> SUFFICES ASSUME NEW i \in S, NEW j \in S, r[i] < r[j] PROVE <<i, j>> \in R
    BY <1>22
  <2> DEFINE a == r[i]
             b == r[j]
  <2>0. a \in Nat /\ b \in Nat /\ a < b /\ (i = j => a = b) /\ (<<j, i>> \in R => b < a)
    BY <1>12, <1>22, Zenon
  <2> HIDE DEF a, b
  <2>1. i # j /\ ~(<<j, i>> \in R)
    BY <2>0
  <2> QED BY <2>1 DEF Orders
<1>4. r \in Injection(S, 0..Cardinality(S)-1)
  <2>0. Cardinality(S) \in Nat
    BY FS_CardinalityType
  <2>1. r \in [S -> 0..Cardinality(S)-1]
    <3>1. \A i \in S : r[i] \in 0..Cardinality(S)-1
      BY <1>12, <2>0
    <3> QED BY <3>1
  <2>2. ASSUME NEW i \in S, NEW j \in S, r[i] = r[j] PROVE i = j
    <3> DEFINE a == r[i]
               b == r[j]
    <3>0. a \in Nat /\ b \in Nat /\ a = b /\ (<<i, j>> \in R => a < b) /\ (<<j, i>> \in R => b < a)
      BY <1>12, <1>22, <2>2, Zenon
    <3> HIDE DEF a, b
    <3>1. ~(<<j, i>> \in R) /\ ~(<<i, j>> \in R)
      BY <3>0
    <3> QED BY <3>1 DEF Orders
  <2> QED BY <2>1, <2>2 DEF Injection, IsInjective
<1>5. Cardinality(0..Cardinality(S)-1) = Cardinality(S) /\ IsFiniteSet(0..Cardinality(S)-1)
  <2>0. Cardinality(S) \in Nat
    BY FS_CardinalityType
  <2> DEFINE c == Cardinality(S)
  <2> HIDE DEF c
  <2>1. c \in Nat
    BY <2>0 DEF c
  <2>2. IsFiniteSet(0..c-1) /\ Cardinality(0..c-1) = IF 0 > c-1 THEN 0 ELSE (c-1) - 0 + 1
    BY <2>1, FS_Interval
  <2>3. Cardinality(0..c-1) = c
    BY <2>1, <2>2
  <2> QED BY <2>2, <2>3 DEF c
<1>6. r \in Surjection(S, 0..Cardinality(S)-1)
  BY <1>4, <1>5, FS_Injection
<1>7. r \in Bijection(S, 0..Cardinality(S)-1)
  BY <1>4, <1>6 DEF Bijection
<1> QED BY <1>3, <1>7

\* There are n numbers below n.
LEMMA CardinalityBelow ==
  ASSUME NEW n \in Nat
  PROVE  IsFiniteSet(0..n-1) /\ Cardinality(0..n-1) = n
<1>1. IsFiniteSet(0..n-1) /\ Cardinality(0..n-1) = IF 0 > n-1 THEN 0 ELSE (n-1) - 0 + 1
  BY FS_Interval
<1> QED BY <1>1

\* A one-to-one numbering turned round.
LEMMA Numbered ==
  ASSUME NEW S, NEW n \in Nat, NEW r \in Bijection(S, 0..n-1),
         NEW q, q = [k \in 0..n-1 |-> CHOOSE i \in S : r[i] = k]
  PROVE  /\ q \in Bijection(0..n-1, S)
         /\ \A k \in 0..n-1 : q[k] \in S /\ r[q[k]] = k
         /\ \A i \in S : r[i] \in 0..n-1 /\ q[r[i]] = i
<1>1. /\ r \in [S -> 0..n-1] /\ \A i, j \in S : r[i] = r[j] => i = j
      /\ \A k \in 0..n-1 : \E i \in S : r[i] = k
  BY DEF Bijection, Injection, IsInjective, Surjection
<1>2. \A k \in 0..n-1 : q[k] \in S /\ r[q[k]] = k
  BY <1>1
<1>3. \A i \in S : r[i] \in 0..n-1 /\ q[r[i]] = i
  BY <1>1, <1>2
<1>4. q \in [0..n-1 -> S]
  BY <1>2
<1>5. q \in Bijection(0..n-1, S)
  BY <1>2, <1>3, <1>4 DEF Bijection, Injection, IsInjective, Surjection
<1> QED BY <1>2, <1>3, <1>5

\* c is a in the order of q: by the keys, then by the positions.
OrderedBy(a, key, q, c, n) ==
  /\ q \in Bijection(0..n-1, 0..n-1)
  /\ c = [k \in 0..n-1 |-> a[q[k]]]
  /\ \A k, l \in 0..n-1 : k < l => \/ key[q[k]] < key[q[l]]
                                   \/ key[q[k]] = key[q[l]] /\ q[k] < q[l]

\* radix_pass permutes, by the keys and then by the positions.
LEMMA RadixPass ==
  ASSUME NEW n \in Nat, NEW T, NEW off, NEW a, NEW key,
         \A i \in 0..n-1 : key[i] \in Nat /\ key[i] = T[a[i] + off]
  PROVE  \E q : OrderedBy(a, key, q, radix_pass(a, T, off, n), n)
<1> DEFINE S == 0..n-1
           f == [i \in S |-> T[a[i] + off]]
           R == {p \in S \X S : f[p[1]] < f[p[2]] \/ (f[p[1]] = f[p[2]] /\ p[1] < p[2])}
           r == [i \in S |-> Cardinality({j \in S : <<j, i>> \in R})]
           q == [k \in 0..n-1 |-> CHOOSE i \in S : r[i] = k]
<1>1. \A i \in S : f[i] = key[i] /\ f[i] \in Nat
  OBVIOUS
<1>2. radix_pass(a, T, off, n) = [k \in 0..n-1 |-> a[CHOOSE i \in S : Rank(f, n, i) = k]]
  <2>1. Stored(f) = f
    BY StoredIs
  <2>2. radix_pass(a, T, off, n) = Stored([k \in 0..n-1 |-> a[CHOOSE i \in S : Rank(Stored(f), n, i) = k]])
    BY DEF radix_pass
  <2> HIDE DEF f
  <2>3. radix_pass(a, T, off, n) = Stored([k \in 0..n-1 |-> a[CHOOSE i \in S : Rank(f, n, i) = k]])
    BY <2>1, <2>2
  <2> QED BY <2>3, StoredIs
<1> HIDE DEF f
<1>3. Orders(R, S)
  BY <1>1 DEF Orders
<1>4. \A i, j \in S : <<j, i>> \in R <=> f[j] < f[i] \/ (f[j] = f[i] /\ j < i)
  OBVIOUS
<1> HIDE DEF R
<1>5. ASSUME NEW i \in S PROVE Rank(f, n, i) = r[i]
  <2>1. {j \in 0..n-1 : f[j] < f[i] \/ (f[j] = f[i] /\ j < i)} = {j \in S : <<j, i>> \in R}
    BY <1>4
  <2> QED BY <2>1, Zenon DEF Rank
<1>6. IsFiniteSet(S) /\ Cardinality(S) = n
  BY CardinalityBelow
<1>7. r \in Bijection(S, 0..n-1) /\ \A i, j \in S : r[i] < r[j] <=> <<i, j>> \in R
  <2> HIDE DEF S
  <2>1. r \in Bijection(S, 0..Cardinality(S)-1) /\ \A i, j \in S : r[i] < r[j] <=> <<i, j>> \in R
    BY <1>3, <1>6, Ranking
  <2> QED BY <1>6, <2>1
<1> HIDE DEF r
<1>8. /\ q \in Bijection(0..n-1, S)
      /\ \A k \in 0..n-1 : q[k] \in S /\ r[q[k]] = k
      /\ \A i \in S : r[i] \in 0..n-1 /\ q[r[i]] = i
  <2>1. q = [k \in 0..n-1 |-> CHOOSE i \in S : r[i] = k]
    OBVIOUS
  <2> HIDE DEF q, S
  <2> QED BY <1>7, <2>1, Numbered
<1>9. radix_pass(a, T, off, n) = [k \in 0..n-1 |-> a[q[k]]]
  <2>1. \A k \in 0..n-1 : (CHOOSE i \in S : Rank(f, n, i) = k) = CHOOSE i \in S : r[i] = k
    BY <1>5, Zenon
  <2>2. \A k \in 0..n-1 : q[k] = CHOOSE i \in S : r[i] = k
    BY Zenon
  <2> HIDE DEF q, S
  <2>3. \A k \in 0..n-1 : a[CHOOSE i \in S : Rank(f, n, i) = k] = a[q[k]]
    BY <2>1, <2>2, Zenon
  <2> QED BY <1>2, <2>3, Zenon
<1> HIDE DEF q
<1>10. ASSUME NEW k \in 0..n-1, NEW l \in 0..n-1, k < l
       PROVE  key[q[k]] < key[q[l]] \/ (key[q[k]] = key[q[l]] /\ q[k] < q[l])
  <2>1. r[q[k]] < r[q[l]] /\ q[k] \in S /\ q[l] \in S
    BY <1>8, <1>10
  <2>2. <<q[k], q[l]>> \in R
    BY <1>7, <2>1
  <2> QED BY <1>1, <1>4, <2>1, <2>2
<1>11. OrderedBy(a, key, q, radix_pass(a, T, off, n), n)
  BY <1>8, <1>9, <1>10 DEF OrderedBy
<1> QED BY <1>11, Zenon

\* Ascending numbers a set upwards.
LEMMA AscendingIs ==
  ASSUME NEW S \in SUBSET Int, IsFiniteSet(S), NEW c, c = Cardinality(S)
  PROVE  /\ c \in Nat
         /\ Ascending(S) \in Bijection(0..c-1, S)
         /\ \A k, l \in 0..c-1 : k < l => Ascending(S)[k] < Ascending(S)[l]
<1> DEFINE R == {p \in S \X S : p[1] < p[2]}
           r == [i \in S |-> Cardinality({j \in S : <<j, i>> \in R})]
           q == [k \in 0..c-1 |-> CHOOSE i \in S : r[i] = k]
<1>0. c \in Nat
  BY FS_CardinalityType
<1>1. Orders(R, S)
  BY DEF Orders
<1>2. \A i, j \in S : <<j, i>> \in R <=> j < i
  OBVIOUS
<1> HIDE DEF R
<1>3. ASSUME NEW i \in S PROVE Cardinality({j \in S : j < i}) = r[i]
  <2>1. {j \in S : j < i} = {j \in S : <<j, i>> \in R}
    BY <1>2
  <2> QED BY <2>1, Zenon
<1>4. r \in Bijection(S, 0..c-1) /\ \A i, j \in S : r[i] < r[j] <=> <<i, j>> \in R
  BY <1>1, Ranking
<1> HIDE DEF r
<1>5. /\ q \in Bijection(0..c-1, S)
      /\ \A k \in 0..c-1 : q[k] \in S /\ r[q[k]] = k
  BY <1>0, <1>4, Numbered
<1>6. Ascending(S) = q
  <2>1. Ascending(S) = [k \in 0..c-1 |-> CHOOSE i \in S : Cardinality({j \in S : j < i}) = k]
    BY StoredIs, Zenon DEF Ascending
  <2>2. \A k \in 0..c-1 : (CHOOSE i \in S : Cardinality({j \in S : j < i}) = k) = CHOOSE i \in S : r[i] = k
    BY <1>3, Zenon
  <2> QED BY <2>1, <2>2
<1> HIDE DEF q
<1>7. ASSUME NEW k \in 0..c-1, NEW l \in 0..c-1, k < l PROVE q[k] < q[l]
  <2>1. r[q[k]] < r[q[l]] /\ q[k] \in S /\ q[l] \in S
    BY <1>5, <1>7
  <2>2. <<q[k], q[l]>> \in R
    BY <1>4, <2>1
  <2> QED BY <1>2, <2>1, <2>2
<1> QED BY <1>0, <1>5, <1>6, <1>7

-----------------------------------------------------------------------------
(* The order of suffixes *)
\* A text with nothing but zeros after it.
Extended(T, n) == [i \in Nat |-> IF i < n THEN T[i] ELSE 0]

\* The suffix of f at i comes before the one at j.
Less(f, i, j) ==
  \E l \in Nat : (\A h \in 0..l-1 : f[i + h] = f[j + h]) /\ f[i + l] < f[j + l]

\* The order of suffixes, unfolded once.
LEMMA LessSteps ==
  ASSUME NEW f \in [Nat -> Nat], NEW i \in Nat, NEW j \in Nat
  PROVE  Less(f, i, j) <=> f[i] < f[j] \/ (f[i] = f[j] /\ Less(f, i + 1, j + 1))
<1>1. ASSUME Less(f, i, j) PROVE f[i] < f[j] \/ (f[i] = f[j] /\ Less(f, i + 1, j + 1))
  <2>1. PICK l \in Nat : (\A h \in 0..l-1 : f[i + h] = f[j + h]) /\ f[i + l] < f[j + l]
    BY <1>1 DEF Less
  <2>2. CASE l = 0
    BY <2>1, <2>2
  <2>3. CASE l # 0
    <3>1. l - 1 \in Nat /\ 0 \in 0..l-1
      BY <2>3
    <3>2. f[i] = f[j]
      BY <2>1, <3>1
    <3>3. ASSUME NEW h \in 0..(l-1)-1 PROVE f[(i + 1) + h] = f[(j + 1) + h]
      <4>1. h + 1 \in 0..l-1 /\ (i + 1) + h = i + (h + 1) /\ (j + 1) + h = j + (h + 1)
        OBVIOUS
      <4> QED BY <2>1, <4>1
    <3>4. f[(i + 1) + (l - 1)] < f[(j + 1) + (l - 1)]
      <4>1. (i + 1) + (l - 1) = i + l /\ (j + 1) + (l - 1) = j + l
        OBVIOUS
      <4> QED BY <2>1, <4>1
    <3>5. Less(f, i + 1, j + 1)
      BY <3>1, <3>3, <3>4 DEF Less
    <3> QED BY <3>2, <3>5
  <2> QED BY <2>2, <2>3
<1>2. ASSUME f[i] < f[j] PROVE Less(f, i, j)
  <2>1. 0 \in Nat /\ i + 0 = i /\ j + 0 = j /\ 0..0-1 = {}
    OBVIOUS
  <2> QED BY <1>2, <2>1 DEF Less
<1>3. ASSUME f[i] = f[j], Less(f, i + 1, j + 1) PROVE Less(f, i, j)
  <2>1. PICK l \in Nat : (\A h \in 0..l-1 : f[(i + 1) + h] = f[(j + 1) + h]) /\ f[(i + 1) + l] < f[(j + 1) + l]
    BY <1>3 DEF Less
  <2>2. ASSUME NEW h \in 0..(l+1)-1 PROVE f[i + h] = f[j + h]
    <3>1. CASE h = 0
      BY <1>3, <3>1
    <3>2. CASE h # 0
      <4>1. h - 1 \in 0..l-1 /\ (i + 1) + (h - 1) = i + h /\ (j + 1) + (h - 1) = j + h
        BY <3>2
      <4> QED BY <2>1, <4>1
    <3> QED BY <3>1, <3>2
  <2>3. f[i + (l + 1)] < f[j + (l + 1)]
    <3>1. (i + 1) + l = i + (l + 1) /\ (j + 1) + l = j + (l + 1)
      OBVIOUS
    <3> QED BY <2>1, <3>1
  <2>4. l + 1 \in Nat
    OBVIOUS
  <2> QED BY <2>2, <2>3, <2>4 DEF Less
<1> QED BY <1>1, <1>2, <1>3

\* The order of suffixes is strict.
LEMMA LessStrict ==
  ASSUME NEW f \in [Nat -> Nat], NEW i \in Nat, NEW j \in Nat, NEW k \in Nat
  PROVE  /\ ~Less(f, i, i)
         /\ Less(f, i, j) /\ Less(f, j, k) => Less(f, i, k)
         /\ ~(Less(f, i, j) /\ Less(f, j, i))
<1>1. ASSUME NEW a \in Nat PROVE ~Less(f, a, a)
  <2>1. \A l \in Nat : f[a + l] \in Nat
    OBVIOUS
  <2> QED BY <2>1 DEF Less
<1>2. ASSUME NEW a \in Nat, NEW b \in Nat, NEW c \in Nat, Less(f, a, b), Less(f, b, c) PROVE Less(f, a, c)
  <2>1. PICK l \in Nat : (\A h \in 0..l-1 : f[a + h] = f[b + h]) /\ f[a + l] < f[b + l]
    BY <1>2 DEF Less
  <2>2. PICK m \in Nat : (\A h \in 0..m-1 : f[b + h] = f[c + h]) /\ f[b + m] < f[c + m]
    BY <1>2 DEF Less
  <2>3. \A h \in Nat : f[a + h] \in Nat /\ f[b + h] \in Nat /\ f[c + h] \in Nat
    OBVIOUS
  <2>4. CASE l < m
    <3>1. l \in 0..m-1 /\ \A h \in 0..l-1 : h \in 0..m-1
      BY <2>4
    <3>2. \A h \in 0..l-1 : f[a + h] = f[c + h]
      BY <2>1, <2>2, <3>1
    <3>3. f[a + l] < f[c + l]
      BY <2>1, <2>2, <3>1
    <3> QED BY <3>2, <3>3 DEF Less
  <2>5. CASE l = m
    <3>1. \A h \in 0..l-1 : f[a + h] = f[c + h]
      BY <2>1, <2>2, <2>5
    <3>2. f[a + l] < f[c + l]
      BY <2>1, <2>2, <2>3, <2>5
    <3> QED BY <3>1, <3>2 DEF Less
  <2>6. CASE m < l
    <3>1. m \in 0..l-1 /\ \A h \in 0..m-1 : h \in 0..l-1
      BY <2>6
    <3>2. \A h \in 0..m-1 : f[a + h] = f[c + h]
      BY <2>1, <2>2, <3>1
    <3>3. f[a + m] < f[c + m]
      BY <2>1, <2>2, <3>1
    <3> QED BY <3>2, <3>3 DEF Less
  <2> QED BY <2>4, <2>5, <2>6
<1> QED BY <1>1, <1>2

\* n letters, of which only the first can be zero, and zeros.
IsText(f, n) ==
  /\ f \in [Nat -> Nat] /\ n \in Nat
  /\ \A i \in 1..n-1 : f[i] > 0
  /\ \A i \in Nat : i >= n => f[i] = 0

\* Of two suffixes of a text one comes first.
LEMMA LessTotal ==
  ASSUME NEW n, NEW f, IsText(f, n), NEW i \in 0..n, NEW j \in 0..n, i # j,
         (i # n /\ j # n) \/ (i # 0 /\ j # 0)
  PROVE  Less(f, i, j) \/ Less(f, j, i)
<1>0. n \in Nat /\ f \in [Nat -> Nat] /\ i \in Nat /\ j \in Nat
  BY DEF IsText
<1> DEFINE S == {l \in Nat : f[i + l] # f[j + l]}
<1>1. S # {}
  <2>1. ASSUME NEW a \in 0..n, NEW b \in 0..n, a < b, a # 0 \/ b # n
        PROVE  f[a + (n - b)] # f[b + (n - b)] /\ n - b \in Nat
    <3>1. n - b \in Nat /\ b + (n - b) = n /\ a + (n - b) \in 1..n-1
      BY <1>0, <2>1
    <3>2. f[n] = 0 /\ f[a + (n - b)] > 0
      BY <1>0, <3>1 DEF IsText
    <3> QED BY <3>1, <3>2
  <2>2. CASE i < j
    <3>1. f[i + (n - j)] # f[j + (n - j)] /\ n - j \in Nat
      BY <2>1, <2>2, <1>0
    <3> QED BY <3>1
  <2>3. CASE j < i
    <3>1. f[j + (n - i)] # f[i + (n - i)] /\ n - i \in Nat
      BY <2>1, <2>3, <1>0
    <3> QED BY <3>1
  <2> QED BY <1>0, <2>2, <2>3
<1>2. PICK l \in S : \A k \in S : l <= k
  BY <1>1, Least
<1>3. \A h \in 0..l-1 : f[i + h] = f[j + h]
  <2> SUFFICES ASSUME NEW h \in 0..l-1, f[i + h] # f[j + h] PROVE FALSE
    OBVIOUS
  <2>1. h \in S /\ h < l
    OBVIOUS
  <2> QED BY <1>2, <2>1
<1>4. l \in Nat /\ f[i + l] \in Nat /\ f[j + l] \in Nat /\ f[i + l] # f[j + l]
  BY <1>0
<1>5. f[i + l] < f[j + l] \/ f[j + l] < f[i + l]
  BY <1>4
<1> HIDE DEF S
<1> QED BY <1>3, <1>4, <1>5 DEF Less

-----------------------------------------------------------------------------
(* The suffixes sorted first *)
\* T has n numbers and three zeros after them.
IsArray(T, n) ==
  /\ n \in Nat /\ T \in [0..n+2 -> Nat]
  /\ T[n] = 0 /\ T[n + 1] = 0 /\ T[n + 2] = 0

\* Beyond its end the text is all zeros.
LEMMA ExtendedIs ==
  ASSUME NEW n, NEW T, IsArray(T, n)
  PROVE  /\ Extended(T, n) \in [Nat -> Nat]
         /\ \A i \in 0..n+2 : Extended(T, n)[i] = T[i]
         /\ \A i \in Nat : i >= n => Extended(T, n)[i] = 0
<1>1. n \in Nat /\ T \in [0..n+2 -> Nat] /\ T[n] = 0 /\ T[n + 1] = 0 /\ T[n + 2] = 0
  BY DEF IsArray
<1>2. ASSUME NEW i \in Nat PROVE Extended(T, n)[i] \in Nat /\ (i >= n => Extended(T, n)[i] = 0)
  BY <1>1 DEF Extended
<1>3. ASSUME NEW i \in 0..n+2 PROVE Extended(T, n)[i] = T[i]
  <2>1. i < n \/ i = n \/ i = n + 1 \/ i = n + 2
    BY <1>1
  <2> QED BY <1>1, <2>1 DEF Extended
<1>4. Extended(T, n) \in [Nat -> Nat]
  BY <1>2 DEF Extended
<1> QED BY <1>2, <1>3, <1>4

\* The suffixes sorted first.
Sampled(n) == {i \in 1..n+(N0(n)-N1(n))-1 : i % 3 # 0}

\* How n0, n1, n02 and n hang together.
LEMMA Thirds ==
  ASSUME NEW n \in Nat
  PROVE  /\ N0(n) \in Nat /\ N1(n) \in Nat /\ N02(n) \in Nat /\ n \div 3 \in Nat
         /\ N02(n) = N0(n) + n \div 3 /\ N0(n) + N1(n) + n \div 3 = n
         /\ \/ n = 3 * N0(n) /\ N1(n) = N0(n) /\ n \div 3 = N0(n)
            \/ n = 3 * N0(n) - 1 /\ N1(n) = N0(n) /\ n \div 3 = N0(n) - 1
            \/ n = 3 * N0(n) - 2 /\ N1(n) = N0(n) - 1 /\ n \div 3 = N0(n) - 1
         /\ n >= 1 => N0(n) >= 1
         /\ n >= 3 => N02(n) < n
BY SMT DEF N0, N1, N02

\* Division by three.
LEMMA ThirdOf ==
  ASSUME NEW s \in Nat
  PROVE  s \div 3 \in Nat /\ s % 3 \in {0, 1, 2} /\ s = 3 * (s \div 3) + (s % 3)
BY SMT

\* Place and GetI are each other's inverse: every suffix sorted first has one place.
LEMMA Places ==
  ASSUME NEW n \in Nat, n >= 1
  PROVE  /\ Sampled(n) \in SUBSET (1..n) /\ IsFiniteSet(Sampled(n))
         /\ Cardinality(Sampled(n)) = N02(n)
         /\ \A u \in 0..N02(n)-1 : GetI(n, u) \in Sampled(n) /\ Place(n, GetI(n, u)) = u
         /\ \A s \in Sampled(n) : Place(n, s) \in 0..N02(n)-1 /\ GetI(n, Place(n, s)) = s
<1> DEFINE m == N02(n)
           a == N0(n)
           b == n \div 3
<1>1. /\ a \in Nat /\ b \in Nat /\ m = a + b /\ a >= 1 /\ m \in Nat
      /\ \/ n = 3 * a /\ N1(n) = a /\ b = a
         \/ n = 3 * a - 1 /\ N1(n) = a /\ b = a - 1
         \/ n = 3 * a - 2 /\ N1(n) = a - 1 /\ b = a - 1
  BY Thirds
<1> HIDE DEF a, b, m
<1>2. Sampled(n) = {i \in 1..n+(a-N1(n))-1 : i % 3 # 0}
  BY DEF Sampled, a
<1>3. Sampled(n) \in SUBSET (1..n)
  BY <1>1, <1>2
<1>4. ASSUME NEW u \in 0..m-1 PROVE GetI(n, u) \in Sampled(n) /\ Place(n, GetI(n, u)) = u
  <2>1. CASE u < a
    <3>1. GetI(n, u) = u * 3 + 1
      BY <2>1 DEF GetI, a
    <3>2. (u * 3 + 1) % 3 = 1 /\ (u * 3 + 1) \div 3 = u
      OBVIOUS
    <3>3. u * 3 + 1 \in 1..n+(a-N1(n))-1
      BY <1>1, <2>1
    <3> QED BY <1>2, <3>1, <3>2, <3>3 DEF Place
  <2>2. CASE u >= a
    <3>1. GetI(n, u) = (u - a) * 3 + 2
      BY <1>1, <2>2 DEF GetI, a
    <3> DEFINE v == u - a
    <3>4. v \in 0..b-1 /\ u = v + a
      BY <1>1, <2>2
    <3>5. GetI(n, u) = v * 3 + 2
      BY <3>1
    <3> HIDE DEF v
    <3>2. (v * 3 + 2) % 3 = 2 /\ (v * 3 + 2) \div 3 = v
      BY <3>4
    <3>3. v * 3 + 2 \in 1..n+(a-N1(n))-1
      BY <1>1, <3>4
    <3> QED BY <1>2, <3>2, <3>3, <3>4, <3>5 DEF Place, a
  <2> QED BY <1>1, <2>1, <2>2
<1>5. ASSUME NEW s \in Sampled(n) PROVE Place(n, s) \in 0..m-1 /\ GetI(n, Place(n, s)) = s
  <2>0. s \in 1..n+(a-N1(n))-1 /\ s % 3 # 0 /\ s \in Nat
    BY <1>2, <1>3
  <2> DEFINE v == s \div 3
  <2>1. v \in Nat /\ ((s = 3 * v + 1 /\ s % 3 = 1) \/ (s = 3 * v + 2 /\ s % 3 = 2))
    <3>1. v \in Nat /\ s % 3 \in {0, 1, 2} /\ s = 3 * v + (s % 3)
      <4>1. s \in Nat
        BY <2>0
      <4>2. s \div 3 \in Nat /\ s % 3 \in {0, 1, 2} /\ s = 3 * (s \div 3) + (s % 3)
        BY <4>1, ThirdOf
      <4> QED BY <4>2
    <3> HIDE DEF v
    <3> QED BY <2>0, <3>1
  <2>2. Place(n, s) = IF s % 3 = 1 THEN v ELSE v + a
    BY DEF Place, a
  <2> HIDE DEF v
  <2>3. CASE s = 3 * v + 1 /\ s % 3 = 1
    <3>1. v < a
      BY <1>1, <2>0, <2>1, <2>3
    <3> QED BY <1>1, <2>1, <2>2, <2>3, <3>1 DEF GetI, a
  <2>4. CASE s = 3 * v + 2 /\ s % 3 = 2
    <3>1. v < b
      BY <1>1, <2>0, <2>1, <2>4
    <3>2. Place(n, s) = v + a
      BY <2>2, <2>4
    <3> QED BY <1>1, <2>1, <3>2, <2>4, <3>1 DEF GetI, a
  <2> QED BY <2>1, <2>3, <2>4
<1>6. IsFiniteSet(Sampled(n)) /\ Cardinality(Sampled(n)) = m
  <2> DEFINE g == [u \in 0..m-1 |-> GetI(n, u)]
  <2>1. g \in [0..m-1 -> Sampled(n)]
    BY <1>4
  <2>2. \A u, v \in 0..m-1 : g[u] = g[v] => u = v
    BY <1>4
  <2>3. \A s \in Sampled(n) : \E u \in 0..m-1 : g[u] = s
    BY <1>5
  <2> HIDE DEF g
  <2>4. g \in Bijection(0..m-1, Sampled(n))
    BY <2>1, <2>2, <2>3 DEF Bijection, Injection, IsInjective, Surjection
  <2>5. IsFiniteSet(0..m-1) /\ Cardinality(0..m-1) = m
    BY <1>1, CardinalityBelow
  <2>6. ExistsBijection(0..m-1, Sampled(n))
    BY <2>4 DEF ExistsBijection
  <2> QED BY <2>5, <2>6, FS_Bijection
<1> QED BY <1>3, <1>4, <1>5, <1>6 DEF m

\* A bijection after a permutation is a bijection.
LEMMA Permuted ==
  ASSUME NEW m \in Nat, NEW S, NEW b \in Bijection(0..m-1, S), NEW q \in Bijection(0..m-1, 0..m-1),
         NEW c, c = [k \in 0..m-1 |-> b[q[k]]]
  PROVE  c \in Bijection(0..m-1, S)
<1>1. /\ b \in [0..m-1 -> S] /\ \A i, j \in 0..m-1 : b[i] = b[j] => i = j
      /\ \A k \in S : \E i \in 0..m-1 : b[i] = k
  BY DEF Bijection, Injection, IsInjective, Surjection
<1>2. /\ q \in [0..m-1 -> 0..m-1] /\ \A i, j \in 0..m-1 : q[i] = q[j] => i = j
      /\ \A k \in 0..m-1 : \E i \in 0..m-1 : q[i] = k
  BY DEF Bijection, Injection, IsInjective, Surjection
<1>3. c \in [0..m-1 -> S] /\ \A i, j \in 0..m-1 : c[i] = c[j] => i = j
  BY <1>1, <1>2
<1>4. ASSUME NEW k \in S PROVE \E i \in 0..m-1 : c[i] = k
  <2>1. PICK j \in 0..m-1 : b[j] = k
    BY <1>1
  <2>2. PICK i \in 0..m-1 : q[i] = j
    BY <1>2
  <2> QED BY <2>1, <2>2
<1> QED BY <1>3, <1>4 DEF Bijection, Injection, IsInjective, Surjection

\* What a pass leaves: the order of the pass, and within it the order before.
Passes(b, c, q, f, d, m, S) ==
  /\ c \in Bijection(0..m-1, S)
  /\ \A k \in 0..m-1 : c[k] \in S /\ q[k] \in 0..m-1 /\ c[k] = b[q[k]]
  /\ \A k, l \in 0..m-1 : k < l => \/ f[c[k] + d] < f[c[l] + d]
                                   \/ f[c[k] + d] = f[c[l] + d] /\ q[k] < q[l]

\* One pass over starts of suffixes.
LEMMA PassIs ==
  ASSUME NEW n, NEW T, IsArray(T, n), NEW m \in Nat, NEW S \in SUBSET (0..n),
         NEW b \in Bijection(0..m-1, S), NEW d \in 0..2
  PROVE  \E q : Passes(b, radix_pass(b, T, d, m), q, Extended(T, n), d, m, S)
<1> DEFINE f == Extended(T, n)
           key == [i \in 0..m-1 |-> f[b[i] + d]]
           c == radix_pass(b, T, d, m)
<1>1. b \in [0..m-1 -> S] /\ n \in Nat
  BY DEF Bijection, Injection, IsArray
<1>2. \A i \in 0..m-1 : key[i] \in Nat /\ key[i] = T[b[i] + d]
  <2> SUFFICES ASSUME NEW i \in 0..m-1 PROVE key[i] \in Nat /\ key[i] = T[b[i] + d]
    OBVIOUS
  <2>1. b[i] \in 0..n
    BY <1>1
  <2>2. b[i] + d \in 0..n+2 /\ b[i] + d \in Nat
    BY <1>1, <2>1
  <2>3. f[b[i] + d] \in Nat /\ f[b[i] + d] = T[b[i] + d]
    <3>1. f \in [Nat -> Nat] /\ \A h \in 0..n+2 : f[h] = T[h]
      BY ExtendedIs
    <3> QED BY <2>2, <3>1
  <2> QED BY <2>3
<1>3. \A i \in 0..m-1 : key[i] = f[b[i] + d]
  OBVIOUS
<1> HIDE DEF key
<1>4. PICK q : OrderedBy(b, key, q, radix_pass(b, T, d, m), m)
  BY <1>2, RadixPass, Zenon
<1> HIDE DEF c, f
<1>5. /\ q \in Bijection(0..m-1, 0..m-1)
      /\ c = [k \in 0..m-1 |-> b[q[k]]]
      /\ \A k, l \in 0..m-1 : k < l => \/ key[q[k]] < key[q[l]]
                                       \/ key[q[k]] = key[q[l]] /\ q[k] < q[l]
  BY <1>4 DEF OrderedBy, c
<1>6. c \in Bijection(0..m-1, S)
  BY <1>5, Permuted
<1>7. c \in [0..m-1 -> S] /\ q \in [0..m-1 -> 0..m-1]
  BY <1>5, <1>6 DEF Bijection, Injection
<1>8. \A k \in 0..m-1 : c[k] \in S /\ q[k] \in 0..m-1 /\ c[k] = b[q[k]] /\ key[q[k]] = f[c[k] + d]
  BY <1>3, <1>5, <1>7
<1>9. Passes(b, c, q, f, d, m, S)
  BY <1>5, <1>6, <1>8 DEF Passes
<1> QED BY <1>9, Zenon DEF c, f

SameTriple(f, s, t) == \A d \in 0..2 : f[s + d] = f[t + d]

TripleBefore(f, s, t) ==
  \/ f[s] < f[t]
  \/ f[s] = f[t] /\ f[s + 1] < f[t + 1]
  \/ f[s] = f[t] /\ f[s + 1] = f[t + 1] /\ f[s + 2] < f[t + 2]

\* Three passes sort by triples.
LEMMA TriplesSorted ==
  ASSUME NEW n, NEW T, IsArray(T, n), n >= 1, NEW f, f = Extended(T, n),
         NEW m, m = N02(n), NEW tr, tr = Triples(T, n)
  PROVE  /\ tr \in Bijection(0..m-1, Sampled(n))
         /\ \A k, l \in 0..m-1 : k < l => TripleBefore(f, tr[k], tr[l]) \/ SameTriple(f, tr[k], tr[l])
<1> DEFINE S == Sampled(n)
           b == Ascending(S)
           c1 == radix_pass(b, T, 2, m)
           c2 == radix_pass(c1, T, 1, m)
           c3 == radix_pass(c2, T, 0, m)
<1>1. n \in Nat /\ f \in [Nat -> Nat]
  BY ExtendedIs DEF IsArray
<1>2. S \in SUBSET (1..n) /\ S \in SUBSET Int /\ S \in SUBSET (0..n) /\ m = Cardinality(S) /\ IsFiniteSet(S) /\ m \in Nat
  <2>1. S \in SUBSET (1..n) /\ IsFiniteSet(S) /\ Cardinality(S) = m
    BY <1>1, Places
  <2>2. m \in Nat
    BY <1>1, Thirds
  <2> HIDE DEF S
  <2>3. \A s \in S : s \in 1..n /\ s \in Int /\ s \in 0..n
    BY <1>1, <2>1
  <2> QED BY <2>1, <2>2, <2>3
<1>3. tr = c3
  BY DEF Triples, Sampled
<1> HIDE DEF S
<1>4. b \in Bijection(0..m-1, S)
  BY <1>2, AscendingIs
<1> HIDE DEF b
<1>5. PICK q1 : Passes(b, c1, q1, f, 2, m, S)
  <2>1. 2 \in 0..2 /\ b \in Bijection(0..m-1, S)
    BY <1>4
  <2> QED BY <1>2, <2>1, PassIs, Zenon
<1> HIDE DEF c1
<1>6. PICK q2 : Passes(c1, c2, q2, f, 1, m, S)
  <2>1. 1 \in 0..2 /\ c1 \in Bijection(0..m-1, S)
    BY <1>5 DEF Passes
  <2> QED BY <1>2, <2>1, PassIs, Zenon
<1> HIDE DEF c2
<1>7. PICK q3 : Passes(c2, c3, q3, f, 0, m, S)
  <2>1. 0 \in 0..2 /\ c2 \in Bijection(0..m-1, S)
    BY <1>6 DEF Passes
  <2> QED BY <1>2, <2>1, PassIs, Zenon
<1> HIDE DEF c3
<1>8. \A s \in S : s \in Nat /\ s + 0 = s /\ f[s] \in Nat /\ f[s + 1] \in Nat /\ f[s + 2] \in Nat
  <2> SUFFICES ASSUME NEW s \in S
               PROVE  s \in Nat /\ s + 0 = s /\ f[s] \in Nat /\ f[s + 1] \in Nat /\ f[s + 2] \in Nat
    OBVIOUS
  <2>1. s \in 1..n
    BY <1>2
  <2>2. s \in Nat /\ s + 0 = s /\ s + 1 \in Nat /\ s + 2 \in Nat
    BY <1>1, <2>1
  <2> QED BY <1>1, <2>2
<1>9. \A k, l \in 0..m-1 : k < l => f[c1[k] + 2] <= f[c1[l] + 2]
  BY <1>5, <1>8 DEF Passes
<1>10. \A k, l \in 0..m-1 : k < l => \/ f[c2[k] + 1] < f[c2[l] + 1]
                                     \/ f[c2[k] + 1] = f[c2[l] + 1] /\ f[c2[k] + 2] <= f[c2[l] + 2]
  BY <1>6, <1>9 DEF Passes
<1>11. ASSUME NEW k \in 0..m-1, NEW l \in 0..m-1, k < l
       PROVE  TripleBefore(f, c3[k], c3[l]) \/ SameTriple(f, c3[k], c3[l])
  <2>1. \/ f[c3[k]] < f[c3[l]]
        \/ f[c3[k]] = f[c3[l]] /\ q3[k] < q3[l]
    BY <1>7, <1>8, <1>11 DEF Passes
  <2>2. CASE f[c3[k]] < f[c3[l]]
    BY <2>2 DEF TripleBefore
  <2>3. CASE f[c3[k]] = f[c3[l]] /\ q3[k] < q3[l]
    <3>1. \/ f[c3[k] + 1] < f[c3[l] + 1]
          \/ f[c3[k] + 1] = f[c3[l] + 1] /\ f[c3[k] + 2] <= f[c3[l] + 2]
      BY <1>7, <1>10, <2>3 DEF Passes
    <3>2. CASE f[c3[k] + 1] < f[c3[l] + 1]
      BY <2>3, <3>2 DEF TripleBefore
    <3>3. CASE f[c3[k] + 1] = f[c3[l] + 1] /\ f[c3[k] + 2] <= f[c3[l] + 2]
      <4>1. c3[k] \in S /\ c3[l] \in S
        BY <1>7 DEF Passes
      <4>2. f[c3[k] + 2] \in Nat /\ f[c3[l] + 2] \in Nat /\ c3[k] + 0 = c3[k] /\ c3[l] + 0 = c3[l]
        BY <1>8, <4>1
      <4>3. f[c3[k] + 2] < f[c3[l] + 2] \/ f[c3[k] + 2] = f[c3[l] + 2]
        BY <3>3, <4>2
      <4>4. CASE f[c3[k] + 2] = f[c3[l] + 2]
        <5>1. \A d \in 0..2 : d = 0 \/ d = 1 \/ d = 2
          OBVIOUS
        <5> QED BY <2>3, <3>3, <4>2, <4>4, <5>1 DEF SameTriple
      <4> QED BY <2>3, <3>3, <4>3, <4>4 DEF TripleBefore
    <3> QED BY <3>1, <3>2, <3>3
  <2> QED BY <2>1, <2>2, <2>3
<1> QED BY <1>3, <1>7, <1>11 DEF S, Passes

-----------------------------------------------------------------------------
(* Their names *)
LEMMA TripleOrder ==
  ASSUME NEW f \in [Nat -> Nat], NEW s \in Nat, NEW t \in Nat, NEW u \in Nat
  PROVE  /\ ~(TripleBefore(f, s, t) /\ SameTriple(f, s, t))
         /\ ~(TripleBefore(f, s, t) /\ TripleBefore(f, t, s))
         /\ SameTriple(f, s, s)
         /\ SameTriple(f, s, t) => SameTriple(f, t, s)
         /\ SameTriple(f, s, t) /\ SameTriple(f, t, u) => SameTriple(f, s, u)
         /\ SameTriple(f, s, t) /\ TripleBefore(f, t, u) => TripleBefore(f, s, u)
         /\ TripleBefore(f, s, t) /\ SameTriple(f, t, u) => TripleBefore(f, s, u)
         /\ TripleBefore(f, s, t) /\ TripleBefore(f, t, u) => TripleBefore(f, s, u)
<1>1. \A a, b \in Nat : SameTriple(f, a, b) <=> f[a] = f[b] /\ f[a + 1] = f[b + 1] /\ f[a + 2] = f[b + 2]
  <2> SUFFICES ASSUME NEW a \in Nat, NEW b \in Nat
               PROVE  SameTriple(f, a, b) <=> f[a] = f[b] /\ f[a + 1] = f[b + 1] /\ f[a + 2] = f[b + 2]
    OBVIOUS
  <2>1. a + 0 = a /\ b + 0 = b /\ \A d : d \in 0..2 <=> d = 0 \/ d = 1 \/ d = 2
    OBVIOUS
  <2> QED BY <2>1 DEF SameTriple
<1> DEFINE a0 == f[s]
           a1 == f[s + 1]
           a2 == f[s + 2]
           b0 == f[t]
           b1 == f[t + 1]
           b2 == f[t + 2]
           c0 == f[u]
           c1 == f[u + 1]
           c2 == f[u + 2]
<1>2. a0 \in Nat /\ a1 \in Nat /\ a2 \in Nat /\ b0 \in Nat /\ b1 \in Nat /\ b2 \in Nat
      /\ c0 \in Nat /\ c1 \in Nat /\ c2 \in Nat
  OBVIOUS
<1>3. /\ SameTriple(f, s, s) /\ (SameTriple(f, s, t) <=> a0 = b0 /\ a1 = b1 /\ a2 = b2)
      /\ (SameTriple(f, t, s) <=> b0 = a0 /\ b1 = a1 /\ b2 = a2)
      /\ (SameTriple(f, t, u) <=> b0 = c0 /\ b1 = c1 /\ b2 = c2)
      /\ (SameTriple(f, s, u) <=> a0 = c0 /\ a1 = c1 /\ a2 = c2)
  BY <1>1
<1>4. /\ TripleBefore(f, s, t) <=> (a0 < b0 \/ (a0 = b0 /\ a1 < b1) \/ (a0 = b0 /\ a1 = b1 /\ a2 < b2))
      /\ TripleBefore(f, t, s) <=> (b0 < a0 \/ (b0 = a0 /\ b1 < a1) \/ (b0 = a0 /\ b1 = a1 /\ b2 < a2))
      /\ TripleBefore(f, t, u) <=> (b0 < c0 \/ (b0 = c0 /\ b1 < c1) \/ (b0 = c0 /\ b1 = c1 /\ b2 < c2))
      /\ TripleBefore(f, s, u) <=> (a0 < c0 \/ (a0 = c0 /\ a1 < c1) \/ (a0 = c0 /\ a1 = c1 /\ a2 < c2))
  BY DEF TripleBefore
<1> HIDE DEF a0, a1, a2, b0, b1, b2, c0, c1, c2
<1> QED BY <1>2, <1>3, <1>4

Agrees(T, f, S) == \A s \in S : \A d \in 0..2 : T[s + d] = f[s + d]

ByTriples(tr, f, m) ==
  \A k, l \in 0..m-1 : k < l => TripleBefore(f, tr[k], tr[l]) \/ SameTriple(f, tr[k], tr[l])

Named(nm, tr, f, m) ==
  /\ nm \in [0..m-1 -> 1..m]
  /\ \A k, l \in 0..m-1 : k < l => \/ nm[k] = nm[l] /\ SameTriple(f, tr[k], tr[l])
                                   \/ nm[k] < nm[l] /\ TripleBefore(f, tr[k], tr[l])
  /\ ~(nm[m - 1] < m) => \A k \in 0..m-1 : nm[k] = k + 1

\* The names of sorted triples compare as the triples do.
LEMMA NamesAre ==
  ASSUME NEW f \in [Nat -> Nat], NEW m \in Nat \ {0}, NEW T, NEW S \in SUBSET Nat, NEW tr \in [0..m-1 -> S],
         Agrees(T, f, S), ByTriples(tr, f, m)
  PROVE  Named(Names(T, tr, m), tr, f, m)
<1> DEFINE nm == Names(T, tr, m)
<1>10. nm = Names(T, tr, m)
  OBVIOUS
<1>11. \A s \in S : \A d \in 0..2 : T[s + d] = f[s + d]
  BY DEF Agrees
<1>12. \A k, l \in 0..m-1 : k < l => TripleBefore(f, tr[k], tr[l]) \/ SameTriple(f, tr[k], tr[l])
  BY DEF ByTriples
<1> HIDE DEF nm
<1> DEFINE D(i) == {h \in 0..i : Differs(T, tr, h)}
<1>1. \A i \in 0..m-1 : nm[i] = Cardinality(D(i))
  <2>1. Names(T, tr, m) = [i \in 0..m-1 |-> Cardinality(D(i))]
    BY StoredIs DEF Names
  <2> HIDE DEF D
  <2> QED BY <1>10, <2>1
<1>2. \A i \in 0..m-1 : nm[i] \in 1..i+1 /\ IsFiniteSet(D(i)) /\ D(i) \in SUBSET (0..i)
                        /\ (nm[i] = i + 1 => D(i) = 0..i)
  <2> SUFFICES ASSUME NEW i \in 0..m-1
               PROVE  nm[i] \in 1..i+1 /\ IsFiniteSet(D(i)) /\ D(i) \in SUBSET (0..i)
                      /\ (nm[i] = i + 1 => D(i) = 0..i)
    OBVIOUS
  <2>1. D(i) \in SUBSET (0..i) /\ 0 \in D(i)
    BY DEF Differs
  <2>2. IsFiniteSet(0..i) /\ Cardinality(0..i) = i + 1
    <3>1. i + 1 \in Nat /\ (i + 1) - 1 = i
      OBVIOUS
    <3>2. IsFiniteSet(0..(i+1)-1) /\ Cardinality(0..(i+1)-1) = i + 1
      BY <3>1, CardinalityBelow
    <3> QED BY <3>1, <3>2
  <2> HIDE DEF D
  <2>3. IsFiniteSet(D(i)) /\ Cardinality(D(i)) <= i + 1 /\ (Cardinality(D(i)) = i + 1 => D(i) = 0..i)
    <3> DEFINE d == D(i)
               s == 0..i
               n == i + 1
    <3>1. IsFiniteSet(s) /\ d \in SUBSET s /\ Cardinality(s) = n
      BY <2>1, <2>2
    <3> HIDE DEF d, s, n
    <3>2. IsFiniteSet(d) /\ Cardinality(d) <= n /\ (Cardinality(d) = n => d = s)
      BY <3>1, FS_Subset
    <3> QED BY <3>2 DEF d, s, n
  <2>4. Cardinality(D(i)) \in Nat /\ Cardinality(D(i)) # 0
    BY <2>1, <2>3, FS_CardinalityType, FS_EmptySet
  <2>5. nm[i] = Cardinality(D(i))
    BY <1>1
  <2>6. nm[i] \in 1..i+1 /\ (nm[i] = i + 1 => D(i) = 0..i)
    BY <2>3, <2>4, <2>5
  <2> QED BY <2>1, <2>3, <2>6, Zenon
<1>3. ASSUME NEW k \in 0..m-1, NEW l \in 0..m-1, k < l
      PROVE  \/ nm[k] = nm[l] /\ SameTriple(f, tr[k], tr[l])
             \/ nm[k] < nm[l] /\ TripleBefore(f, tr[k], tr[l])
  <2>0. \A h \in 0..m-1 : tr[h] \in Nat
    OBVIOUS
  <2>1. ASSUME NEW h \in 1..m-1
        PROVE  Differs(T, tr, h) <=> ~SameTriple(f, tr[h - 1], tr[h])
    <3>1. tr[h] \in S /\ tr[h - 1] \in S /\ h # 0
      OBVIOUS
    <3>2. \A d \in 0..2 : T[tr[h] + d] = f[tr[h] + d] /\ T[tr[h - 1] + d] = f[tr[h - 1] + d]
      BY <1>11, <3>1
    <3> QED BY <3>1, <3>2 DEF Differs, SameTriple
  <2>2. D(k) \in SUBSET D(l) /\ D(l) \ D(k) = {h \in k+1..l : Differs(T, tr, h)}
    <3>1. \A h : h \in 0..k => h \in 0..l
      BY <1>3
    <3>2. \A h \in 0..l : h \in k+1..l <=> h \notin 0..k
      BY <1>3
    <3>3. \A h \in k+1..l : h \in 0..l
      BY <1>3
    <3> QED BY <3>1, <3>2, <3>3
  <2>3. CASE \E h \in k+1..l : Differs(T, tr, h)
    <3>1. PICK h \in k+1..l : Differs(T, tr, h)
      BY <2>3
    <3>2. D(k) # D(l)
      BY <2>2, <3>1
    <3>3. nm[k] < nm[l]
      <4> HIDE DEF D
      <4>1. Cardinality(D(k)) <= Cardinality(D(l)) /\ (Cardinality(D(k)) = Cardinality(D(l)) => D(k) = D(l))
        BY <1>2, <2>2, FS_Subset
      <4>2. nm[k] = Cardinality(D(k)) /\ nm[l] = Cardinality(D(l)) /\ nm[k] \in 1..k+1 /\ nm[l] \in 1..l+1
        BY <1>1, <1>2, Zenon
      <4>3. nm[k] <= nm[l] /\ nm[k] # nm[l]
        BY <3>2, <4>1, <4>2, Zenon
      <4> QED BY <4>2, <4>3
    <3>4. h \in 1..m-1 /\ h - 1 \in 0..m-1 /\ h \in 0..m-1 /\ h - 1 < h /\ k <= h - 1 /\ h <= l
      BY <1>3
    <3>5. TripleBefore(f, tr[h - 1], tr[h])
      BY <1>12, <2>1, <3>1, <3>4
    <3>6. TripleBefore(f, tr[k], tr[h - 1]) \/ SameTriple(f, tr[k], tr[h - 1])
      <4>1. k = h - 1 \/ k < h - 1
        BY <3>4
      <4> QED BY <1>12, <2>0, <3>4, <4>1, TripleOrder
    <3>7. TripleBefore(f, tr[h], tr[l]) \/ SameTriple(f, tr[h], tr[l])
      <4>1. h = l \/ h < l
        BY <3>4
      <4> QED BY <1>12, <2>0, <3>4, <4>1, TripleOrder
    <3>8. TripleBefore(f, tr[k], tr[h])
      BY <2>0, <3>4, <3>5, <3>6, TripleOrder
    <3>9. TripleBefore(f, tr[k], tr[l])
      BY <2>0, <3>4, <3>7, <3>8, TripleOrder
    <3> QED BY <3>3, <3>9
  <2>4. CASE \A h \in k+1..l : ~Differs(T, tr, h)
    <3>1. nm[k] = nm[l]
      BY <1>1, <2>2, <2>4
    <3> DEFINE A == {i \in Nat : k + i <= l => SameTriple(f, tr[k], tr[k + i])}
    <3>2. 0 \in A
      <4>1. k + 0 = k
        OBVIOUS
      <4> QED BY <2>0, <4>1, TripleOrder
    <3>3. ASSUME NEW i \in Nat, i \in A PROVE i + 1 \in A
      <4> SUFFICES ASSUME k + (i + 1) <= l PROVE SameTriple(f, tr[k], tr[k + (i + 1)])
        OBVIOUS
      <4> DEFINE h == k + (i + 1)
      <4>1. h \in k+1..l /\ h \in 1..m-1 /\ h - 1 = k + i /\ k + i <= l /\ h - 1 \in 0..m-1 /\ h \in 0..m-1
        BY <1>3
      <4>2. SameTriple(f, tr[k], tr[h - 1])
        BY <3>3, <4>1
      <4>3. SameTriple(f, tr[h - 1], tr[h])
        BY <2>1, <2>4, <4>1
      <4> DEFINE s == tr[k]
                 t == tr[h - 1]
                 u == tr[h]
      <4>4. s \in Nat /\ t \in Nat /\ u \in Nat
        BY <2>0, <4>1
      <4>5. SameTriple(f, s, t) /\ SameTriple(f, t, u)
        BY <4>2, <4>3
      <4> HIDE DEF s, t, u
      <4>6. SameTriple(f, s, u)
        BY <4>4, <4>5, TripleOrder
      <4> QED BY <4>6 DEF s, u
    <3>4. Nat \subseteq A
      BY <3>2, <3>3, Induction
    <3>5. l - k \in Nat /\ k + (l - k) = l
      BY <1>3
    <3>6. SameTriple(f, tr[k], tr[l])
      <4>1. l - k \in A
        BY <3>4, <3>5
      <4>2. SameTriple(f, tr[k], tr[k + (l - k)])
        BY <4>1, <3>5
      <4> QED BY <4>2, <3>5
    <3> QED BY <3>1, <3>6, Zenon
  <2> QED BY <2>3, <2>4
<1>4. ASSUME ~(nm[m - 1] < m), NEW k \in 0..m-1 PROVE nm[k] = k + 1
  <2>1. m - 1 \in 0..m-1 /\ nm[m - 1] = m /\ (m - 1) + 1 = m
    <3>1. m - 1 \in 0..m-1 /\ (m - 1) + 1 = m
      OBVIOUS
    <3>2. nm[m - 1] \in 1..(m-1)+1
      BY <1>2, <3>1, Zenon
    <3> QED BY <1>4, <3>1, <3>2
  <2>2. D(m - 1) = 0..m-1
    <3> HIDE DEF D
    <3> QED BY <1>2, <2>1
  <2>3. D(k) = 0..k
    BY <2>2
  <2>4. k + 1 \in Nat /\ (k + 1) - 1 = k
    OBVIOUS
  <2>5. Cardinality(0..(k+1)-1) = k + 1
    BY <2>4, CardinalityBelow
  <2> QED BY <1>1, <2>3, <2>4, <2>5
<1>5. nm \in [0..m-1 -> 1..m]
  <2>1. Names(T, tr, m) = [i \in 0..m-1 |-> Cardinality(D(i))]
    BY StoredIs DEF Names
  <2>2. \A i \in 0..m-1 : nm[i] \in 1..m
    <3> SUFFICES ASSUME NEW i \in 0..m-1 PROVE nm[i] \in 1..m
      OBVIOUS
    <3>1. nm[i] \in 1..i+1
      BY <1>2, Zenon
    <3> HIDE DEF D
    <3>2. i + 1 <= m
      OBVIOUS
    <3>3. \A v \in 1..i+1 : v \in 1..m
      BY <3>2
    <3> QED BY <3>1, <3>3, Zenon
  <2> HIDE DEF D
  <2> QED BY <1>10, <2>1, <2>2
<1>6. Named(nm, tr, f, m)
  BY <1>3, <1>4, <1>5, Zenon DEF Named
<1> QED BY <1>6 DEF nm

-----------------------------------------------------------------------------
(* The text of the names *)
Placed(R, tr, nm, n, m) ==
  /\ R \in [0..m-1 -> 1..m]
  /\ \A i \in 0..m-1 : Place(n, tr[i]) \in 0..m-1 /\ R[Place(n, tr[i])] = nm[i]
  /\ \A u \in 0..m-1 : \E i \in 0..m-1 : GetI(n, u) = tr[i] /\ R[u] = nm[i]

\* R holds the names in the order of the places.
LEMMA ByPlaceIs ==
  ASSUME NEW n \in Nat, n >= 1, NEW m, m = N02(n), NEW tr \in Bijection(0..m-1, Sampled(n)),
         NEW nm \in [0..m-1 -> 1..m]
  PROVE  Placed(ByPlace(n, tr, nm), tr, nm, n, m)
<1> DEFINE R == ByPlace(n, tr, nm)
<1>10. R = ByPlace(n, tr, nm)
  OBVIOUS
<1> HIDE DEF R
<1>1. /\ tr \in [0..m-1 -> Sampled(n)] /\ \A i, j \in 0..m-1 : tr[i] = tr[j] => i = j
      /\ \A s \in Sampled(n) : \E i \in 0..m-1 : tr[i] = s
  BY DEF Bijection, Injection, IsInjective, Surjection
<1>2. /\ \A u \in 0..m-1 : GetI(n, u) \in Sampled(n) /\ Place(n, GetI(n, u)) = u
      /\ \A s \in Sampled(n) : Place(n, s) \in 0..m-1 /\ GetI(n, Place(n, s)) = s
  BY Places
<1> DEFINE at(u) == CHOOSE i \in 0..m-1 : Place(n, tr[i]) = u
<1>3. ASSUME NEW u \in 0..m-1 PROVE at(u) \in 0..m-1 /\ Place(n, tr[at(u)]) = u /\ GetI(n, u) = tr[at(u)]
  <2>1. \E i \in 0..m-1 : Place(n, tr[i]) = u
    BY <1>1, <1>2
  <2>2. at(u) \in 0..m-1 /\ Place(n, tr[at(u)]) = u
    BY <2>1
  <2> QED BY <1>1, <1>2, <2>2
<1>4. ByPlace(n, tr, nm) = [u \in 0..m-1 |-> nm[at(u)]]
  BY StoredIs DEF ByPlace
<1> HIDE DEF at
<1>5. R = [u \in 0..m-1 |-> nm[at(u)]]
  BY <1>4, <1>10
<1>6. R \in [0..m-1 -> 1..m]
  BY <1>3, <1>5
<1>7. ASSUME NEW i \in 0..m-1 PROVE Place(n, tr[i]) \in 0..m-1 /\ R[Place(n, tr[i])] = nm[i]
  <2> DEFINE u == Place(n, tr[i])
  <2>1. u \in 0..m-1 /\ GetI(n, u) = tr[i]
    BY <1>1, <1>2
  <2> HIDE DEF u
  <2>2. at(u) \in 0..m-1 /\ tr[at(u)] = tr[i]
    BY <1>3, <2>1
  <2>3. at(u) = i
    BY <1>1, <2>2
  <2> QED BY <1>5, <2>1, <2>3 DEF u
<1>8. \A u \in 0..m-1 : \E i \in 0..m-1 : GetI(n, u) = tr[i] /\ R[u] = nm[i]
  BY <1>3, <1>5
<1> QED BY <1>6, <1>7, <1>8, Zenon DEF Placed, R

\* What a text is, spelled out.
LEMMA TextIs ==
  ASSUME NEW n, NEW f, IsText(f, n)
  PROVE  /\ n \in Nat /\ f \in [Nat -> Nat]
         /\ \A i \in Nat : f[i] \in Nat /\ (i >= n => f[i] = 0) /\ (i >= 1 /\ i < n => f[i] > 0)
<1>1. n \in Nat /\ f \in [Nat -> Nat] /\ (\A i \in 1..n-1 : f[i] > 0) /\ (\A i \in Nat : i >= n => f[i] = 0)
  BY DEF IsText
<1>2. \A i \in Nat : i >= 1 /\ i < n => i \in 1..n-1
  BY <1>1
<1> QED BY <1>1, <1>2

\* The triples that reach the end are different from all others.
LEMMA EndTriple ==
  ASSUME NEW n \in Nat, NEW f, IsText(f, n), NEW s \in 1..n, NEW t \in 1..n, SameTriple(f, s, t), s + 2 >= n
  PROVE  s = t
<1>1. ASSUME NEW a \in 1..n, NEW b \in 1..n, SameTriple(f, a, b), a + 2 >= n PROVE a <= b
  <2> DEFINE d == n - a
  <2>1. d \in 0..2 /\ a + d = n /\ a + d \in Nat /\ b + d \in Nat
    BY <1>1
  <2> HIDE DEF d
  <2>2. f[a + d] = f[b + d] /\ f[a + d] = 0
    BY <1>1, <2>1, TextIs DEF SameTriple
  <2>3. ~(b + d >= 1 /\ b + d < n)
    <3> DEFINE e == b + d
    <3>1. e \in Nat /\ f[e] = 0
      BY <2>1, <2>2
    <3> HIDE DEF e
    <3>2. e >= 1 /\ e < n => f[e] > 0
      BY <3>1, TextIs
    <3>3. ~(e >= 1 /\ e < n)
      BY <3>1, <3>2
    <3> QED BY <3>3 DEF e
  <2> QED BY <2>1, <2>3
<1>2. s <= t
  BY <1>1
<1>3. t + 2 >= n /\ SameTriple(f, t, s)
  BY <1>2 DEF SameTriple
<1>4. t <= s
  BY <1>1, <1>3
<1> QED BY <1>2, <1>4

\* The places: a suffixes at i % 3 = 1, then b at i % 3 = 2.
LEMMA Groups ==
  ASSUME NEW n \in Nat, n >= 1, NEW m, m = N02(n), NEW a, a = N0(n), NEW b, b = n \div 3
  PROVE  /\ a \in Nat /\ b \in Nat /\ m = a + b /\ a >= 1 /\ m \in Nat
         /\ \/ n = 3 * a /\ b = a
            \/ n = 3 * a - 1 /\ b = a - 1
            \/ n = 3 * a - 2 /\ b = a - 1
BY Thirds

\* The next place is three further in the text.
LEMMA StepPlace ==
  ASSUME NEW n \in Nat, n >= 2, NEW m \in Nat, m = N02(n), NEW u \in 0..m-1, GetI(n, u) + 2 < n
  PROVE  u + 1 \in 0..m /\ GetI(n, u + 1) = GetI(n, u) + 3 /\ (u + 1 = m => GetI(n, m) = n)
<1> DEFINE a == N0(n)
           b == n \div 3
<1>0. a = N0(n) /\ b = n \div 3 /\ n >= 1
  OBVIOUS
<1>2. /\ GetI(n, u) = IF u < a THEN u * 3 + 1 ELSE (u - a) * 3 + 2
      /\ GetI(n, u + 1) = IF u + 1 < a THEN (u + 1) * 3 + 1 ELSE ((u + 1) - a) * 3 + 2
      /\ GetI(n, m) = IF m < a THEN m * 3 + 1 ELSE (m - a) * 3 + 2
  <2>1. GetI(n, u) = IF u < a THEN u * 3 + 1 ELSE (u - a) * 3 + 2
    BY Zenon DEF GetI
  <2>2. GetI(n, u + 1) = IF u + 1 < a THEN (u + 1) * 3 + 1 ELSE ((u + 1) - a) * 3 + 2
    <3> DEFINE w == u + 1
    <3> HIDE DEF w
    <3>1. GetI(n, w) = IF w < a THEN w * 3 + 1 ELSE (w - a) * 3 + 2
      BY Zenon DEF GetI
    <3> QED BY <3>1 DEF w
  <2>3. GetI(n, m) = IF m < a THEN m * 3 + 1 ELSE (m - a) * 3 + 2
    BY Zenon DEF GetI
  <2> QED BY <2>1, <2>2, <2>3, Zenon
<1> HIDE DEF a, b
<1>1. /\ a \in Nat /\ b \in Nat /\ m = a + b /\ a >= 1
      /\ \/ n = 3 * a /\ b = a
         \/ n = 3 * a - 1 /\ b = a - 1
         \/ n = 3 * a - 2 /\ b = a - 1
  BY <1>0, Groups
<1>3. CASE u < a
  <2>1. GetI(n, u) = u * 3 + 1 /\ u + 1 < a
    BY <1>1, <1>2, <1>3
  <2>2. GetI(n, u + 1) = (u + 1) * 3 + 1
    BY <1>2, <2>1
  <2> QED BY <1>1, <2>1, <2>2
<1>4. CASE ~(u < a)
  <2>1. GetI(n, u) = (u - a) * 3 + 2 /\ ~(u + 1 < a) /\ ~(m < a)
    BY <1>1, <1>2, <1>4
  <2>2. GetI(n, u + 1) = ((u + 1) - a) * 3 + 2 /\ GetI(n, m) = (m - a) * 3 + 2
    BY <1>2, <2>1
  <2>3. u + 1 \in 0..m
    BY <1>1
  <2>4. ((u + 1) - a) * 3 + 2 = ((u - a) * 3 + 2) + 3
    BY <1>1
  <2>5. ASSUME u + 1 = m PROVE (m - a) * 3 + 2 = n
    <3>1. m - a = b
      BY <1>1
    <3>2. u = m - 1 /\ GetI(n, u) = (b - 1) * 3 + 2
      BY <1>1, <2>1, <2>5
    <3>3. (b - 1) * 3 + 2 + 2 < n
      BY <3>2
    <3> QED BY <1>1, <3>1, <3>3
  <2> QED BY <2>1, <2>2, <2>3, <2>4, <2>5
<1> QED BY <1>3, <1>4

\* The numbers of a row are in the order of the triples at their places.
Names3(R, f, n, m) ==
  \A u, v \in 0..m-1 : /\ R[u] = R[v] <=> SameTriple(f, GetI(n, u), GetI(n, v))
                       /\ R[u] < R[v] <=> TripleBefore(f, GetI(n, u), GetI(n, v))

\* g is R, and zeros after it.
Continues(g, R, m) ==
  /\ g \in [Nat -> Nat]
  /\ \A i \in Nat : (i < m => g[i] = R[i] /\ g[i] > 0) /\ (i >= m => g[i] = 0)

\* Place m stands for the suffix that is empty, if for any.
Cut(a, n, m) == a \in 0..m /\ (a = m => GetI(n, m) = n)

Offset(g, l, a, b) == (\A h \in 0..l-1 : g[a + h] = g[b + h]) /\ g[a + l] < g[b + l]

\* A place of the text of the names is a start in the text.
LEMMA PlaceText ==
  ASSUME NEW n \in Nat, n >= 2, NEW m, m = N02(n), NEW a \in 0..m-1
  PROVE  GetI(n, a) \in 1..n /\ GetI(n, a) \in Nat /\ Place(n, GetI(n, a)) = a
<1>1. n >= 1
  OBVIOUS
<1>2. Sampled(n) \in SUBSET (1..n) /\ GetI(n, a) \in Sampled(n) /\ Place(n, GetI(n, a)) = a
  BY <1>1, Places
<1>3. GetI(n, a) \in 1..n
  BY <1>2
<1> QED BY <1>2, <1>3

\* Suffixes compare by their first triples, then by what follows.
LEMMA LessThird ==
  ASSUME NEW f \in [Nat -> Nat], NEW i \in Nat, NEW j \in Nat
  PROVE  /\ TripleBefore(f, i, j) => Less(f, i, j)
         /\ SameTriple(f, i, j) /\ Less(f, i + 3, j + 3) => Less(f, i, j)
<1>1. i + 1 \in Nat /\ j + 1 \in Nat /\ (i + 1) + 1 = i + 2 /\ (j + 1) + 1 = j + 2 /\ i + 2 \in Nat /\ j + 2 \in Nat
      /\ (i + 2) + 1 = i + 3 /\ (j + 2) + 1 = j + 3
  OBVIOUS
<1>2. SameTriple(f, i, j) => f[i] = f[j] /\ f[i + 1] = f[j + 1] /\ f[i + 2] = f[j + 2]
  <2>1. 0 \in 0..2 /\ 1 \in 0..2 /\ 2 \in 0..2 /\ i + 0 = i /\ j + 0 = j
    OBVIOUS
  <2> QED BY <2>1, Zenon DEF SameTriple
<1>3. Less(f, i + 2, j + 2) <=> (f[i + 2] < f[j + 2] \/ (f[i + 2] = f[j + 2] /\ Less(f, i + 3, j + 3)))
  <2> DEFINE a == i + 2
             b == j + 2
  <2>1. a \in Nat /\ b \in Nat /\ a + 1 = i + 3 /\ b + 1 = j + 3
    BY <1>1
  <2> HIDE DEF a, b
  <2>2. Less(f, a, b) <=> (f[a] < f[b] \/ (f[a] = f[b] /\ Less(f, a + 1, b + 1)))
    BY <2>1, LessSteps, Zenon
  <2> QED BY <2>1, <2>2, Zenon DEF a, b
<1>4. Less(f, i + 1, j + 1) <=> (f[i + 1] < f[j + 1] \/ (f[i + 1] = f[j + 1] /\ Less(f, i + 2, j + 2)))
  <2> DEFINE a == i + 1
             b == j + 1
  <2>1. a \in Nat /\ b \in Nat /\ a + 1 = i + 2 /\ b + 1 = j + 2
    BY <1>1
  <2> HIDE DEF a, b
  <2>2. Less(f, a, b) <=> (f[a] < f[b] \/ (f[a] = f[b] /\ Less(f, a + 1, b + 1)))
    BY <2>1, LessSteps, Zenon
  <2> QED BY <2>1, <2>2, Zenon DEF a, b
<1>5. Less(f, i, j) <=> (f[i] < f[j] \/ (f[i] = f[j] /\ Less(f, i + 1, j + 1)))
  BY LessSteps, Zenon
<1> QED BY <1>2, <1>3, <1>4, <1>5, Zenon DEF TripleBefore

\* The order of the names' suffixes is the order of the suffixes.
LEMMA PlaceLess ==
  ASSUME NEW n \in Nat, NEW f \in [Nat -> Nat], IsText(f, n), n >= 2, NEW m \in Nat, m = N02(n),
         NEW R, Names3(R, f, n, m), NEW g, Continues(g, R, m),
         NEW u \in 0..m-1, NEW v \in 0..m-1, Less(g, u, v)
  PROVE  Less(f, GetI(n, u), GetI(n, v))
<1> DEFINE S == {l \in Nat : \A a, b \in 0..m : Cut(a, n, m) /\ Cut(b, n, m) /\ Offset(g, l, a, b)
                                                => Less(f, GetI(n, a), GetI(n, b))}
<1>0. /\ \A i \in Nat : g[i] \in Nat /\ (i < m => g[i] = R[i] /\ g[i] > 0) /\ (i >= m => g[i] = 0)
  BY DEF Continues
<1>1. ASSUME NEW l \in Nat, NEW a \in 0..m, NEW b \in 0..m, Offset(g, l, a, b) PROVE b \in 0..m-1
  <2>1. b + l \in Nat /\ a + l \in Nat /\ g[a + l] < g[b + l]
    BY <1>1 DEF Offset
  <2>2. ASSUME b = m PROVE FALSE
    <3>1. b + l >= m
      BY <2>2
    <3> QED BY <1>0, <2>1, <3>1
  <2> QED BY <2>2
<1>2. 0 \in S
  <2> SUFFICES ASSUME NEW a \in 0..m, NEW b \in 0..m, Cut(a, n, m), Cut(b, n, m), Offset(g, 0, a, b)
               PROVE  Less(f, GetI(n, a), GetI(n, b))
    OBVIOUS
  <2>1. b \in 0..m-1 /\ g[a] < g[b]
    <3>1. a + 0 = a /\ b + 0 = b
      OBVIOUS
    <3> QED BY <1>1, <3>1 DEF Offset
  <2>2. CASE a = m
    <3> DEFINE j == GetI(n, b)
    <3>1. GetI(n, a) = n /\ GetI(n, m) = n
      BY <2>2 DEF Cut
    <3>2. j \in 1..n /\ Place(n, j) = b
      BY <2>1, PlaceText
    <3> HIDE DEF j
    <3>3. Place(n, n) = m
      <4> DEFINE c == N0(n)
                 d == n \div 3
      <4>1. c = N0(n) /\ d = n \div 3 /\ n >= 1
        OBVIOUS
      <4>2. GetI(n, m) = IF m < c THEN m * 3 + 1 ELSE (m - c) * 3 + 2
        BY Zenon DEF GetI
      <4>3. Place(n, n) = IF n % 3 = 1 THEN d ELSE d + c
        BY Zenon DEF Place
      <4> HIDE DEF c, d
      <4>4. /\ c \in Nat /\ d \in Nat /\ m = c + d /\ c >= 1
            /\ \/ n = 3 * c /\ d = c
               \/ n = 3 * c - 1 /\ d = c - 1
               \/ n = 3 * c - 2 /\ d = c - 1
        BY <4>1, Groups
      <4>5. n = d * 3 + 2
        BY <3>1, <4>2, <4>4
      <4>6. n % 3 = 2
        BY <4>4, <4>5
      <4> QED BY <4>3, <4>4, <4>6
    <3>4. j # n
      BY <2>1, <3>2, <3>3
    <3>5. f[n] = 0 /\ f[j] > 0 /\ j \in Nat
      BY <3>2, <3>4, TextIs
    <3>6. Less(f, n, j)
      BY <3>5, LessSteps
    <3> QED BY <3>1, <3>6 DEF j
  <2>3. CASE a # m
    <3>1. a \in 0..m-1
      BY <2>3
    <3>2. R[a] < R[b]
      <4>1. a \in Nat /\ b \in Nat /\ a < m /\ b < m
        BY <2>1, <3>1
      <4> QED BY <1>0, <2>1, <4>1
    <3>3. TripleBefore(f, GetI(n, a), GetI(n, b))
      BY <2>1, <3>1, <3>2, Zenon DEF Names3
    <3>4. GetI(n, a) \in Nat /\ GetI(n, b) \in Nat
      BY <2>1, <3>1, PlaceText
    <3> QED BY <3>3, <3>4, LessThird, Zenon
  <2> QED BY <2>2, <2>3
<1>3. ASSUME NEW l \in Nat, l \in S PROVE l + 1 \in S
  <2> SUFFICES ASSUME NEW a \in 0..m, NEW b \in 0..m, Cut(a, n, m), Cut(b, n, m), Offset(g, l + 1, a, b)
               PROVE  Less(f, GetI(n, a), GetI(n, b))
    OBVIOUS
  <2> HIDE DEF S
  <2>0. l + 1 \in Nat
    OBVIOUS
  <2>1. b \in 0..m-1
    BY <1>1, <2>0
  <2>2. g[a] = g[b] /\ g[a + (l + 1)] < g[b + (l + 1)]
    <3>1. 0 \in 0..(l+1)-1 /\ a + 0 = a /\ b + 0 = b
      OBVIOUS
    <3>2. g[a + 0] = g[b + 0] /\ g[a + (l + 1)] < g[b + (l + 1)]
      BY <3>1 DEF Offset
    <3> QED BY <3>1, <3>2
  <2>3. a \in 0..m-1 /\ R[a] = R[b]
    <3>1. b \in Nat /\ a \in Nat /\ b < m
      BY <2>1
    <3>2. g[b] > 0 /\ g[b] = R[b]
      BY <1>0, <3>1
    <3>3. ~(a >= m)
      BY <1>0, <2>2, <3>1, <3>2
    <3>4. g[a] = R[a]
      BY <1>0, <3>1, <3>3
    <3> QED BY <2>2, <3>2, <3>3, <3>4
  <2>4. a # b
    <3> SUFFICES ASSUME a = b PROVE FALSE
      OBVIOUS
    <3>1. a + (l + 1) \in Nat
      OBVIOUS
    <3>2. g[a + (l + 1)] \in Nat
      BY <1>0, <3>1
    <3> QED BY <2>2, <3>2
  <2> DEFINE i == GetI(n, a)
             j == GetI(n, b)
  <2>5. SameTriple(f, i, j) /\ SameTriple(f, j, i)
    BY <2>1, <2>3, Zenon DEF Names3
  <2>6. i \in 1..n /\ j \in 1..n /\ i # j /\ i \in Nat /\ j \in Nat
    <3>1. /\ i \in 1..n /\ i \in Nat /\ Place(n, i) = a
          /\ j \in 1..n /\ j \in Nat /\ Place(n, j) = b
      BY <2>1, <2>3, PlaceText
    <3> QED BY <2>4, <3>1
  <2>7. i + 2 < n /\ j + 2 < n
    <3> HIDE DEF i, j
    <3>1. ~(i + 2 >= n)
      BY <2>5, <2>6, EndTriple
    <3>2. ~(j + 2 >= n)
      BY <2>5, <2>6, EndTriple
    <3> QED BY <2>6, <3>1, <3>2
  <2>8. /\ a + 1 \in 0..m /\ GetI(n, a + 1) = i + 3 /\ (a + 1 = m => GetI(n, m) = n)
        /\ b + 1 \in 0..m /\ GetI(n, b + 1) = j + 3 /\ (b + 1 = m => GetI(n, m) = n)
    BY <2>1, <2>3, <2>7, StepPlace
  <2>9. Offset(g, l, a + 1, b + 1)
    <3>1. ASSUME NEW h \in 0..l-1 PROVE g[(a + 1) + h] = g[(b + 1) + h]
      <4>1. h + 1 \in 0..(l+1)-1 /\ (a + 1) + h = a + (h + 1) /\ (b + 1) + h = b + (h + 1)
        OBVIOUS
      <4>2. g[a + (h + 1)] = g[b + (h + 1)]
        BY <4>1 DEF Offset
      <4> QED BY <4>1, <4>2
    <3>2. g[(a + 1) + l] < g[(b + 1) + l]
      <4>1. (a + 1) + l = a + (l + 1) /\ (b + 1) + l = b + (l + 1)
        OBVIOUS
      <4> QED BY <2>2, <4>1
    <3> QED BY <3>1, <3>2 DEF Offset
  <2>10. Less(f, i + 3, j + 3)
    <3>1. Cut(a + 1, n, m) /\ Cut(b + 1, n, m)
      BY <2>8 DEF Cut
    <3>2. Less(f, GetI(n, a + 1), GetI(n, b + 1))
      BY <1>3, <2>8, <2>9, <3>1 DEF S
    <3> QED BY <2>8, <3>2
  <2> HIDE DEF i, j
  <2>11. Less(f, i, j)
    BY <2>5, <2>6, <2>10, LessThird, Zenon
  <2> QED BY <2>11 DEF i, j
<1>4. Nat \subseteq S
  <2> HIDE DEF S
  <2> QED BY <1>2, <1>3, Induction
<1>5. PICK l \in Nat : Offset(g, l, u, v)
  BY DEF Less, Offset
<1>6. Cut(u, n, m) /\ Cut(v, n, m) /\ u \in 0..m /\ v \in 0..m
  BY DEF Cut
<1>7. l \in S
  <2> HIDE DEF S
  <2> QED BY <1>4
<1> QED BY <1>5, <1>6, <1>7

-----------------------------------------------------------------------------
(* The order of the text of the names *)
\* M lists the suffixes of f in their order.
SortsSuffixes(M, f, n) ==
  /\ M \in Bijection(0..n-1, 0..n-1)
  /\ \A k, l \in 0..n-1 : k < l => Less(f, M[k], M[l])

LEMMA PaddedIs ==
  ASSUME NEW n \in Nat, NEW a, \A i \in 0..n-1 : a[i] \in Nat
  PROVE  /\ IsArray(Padded(a, n), n)
         /\ \A i \in 0..n-1 : Padded(a, n)[i] = a[i]
<1> DEFINE p == [i \in 0..n+2 |-> IF i < n THEN a[i] ELSE 0]
<1>1. Padded(a, n) = p
  BY StoredIs DEF Padded
<1>2. \A i \in 0..n-1 : i \in 0..n+2 /\ p[i] = a[i]
  OBVIOUS
<1>3. n \in 0..n+2 /\ n + 1 \in 0..n+2 /\ n + 2 \in 0..n+2 /\ ~(n < n) /\ ~(n + 1 < n) /\ ~(n + 2 < n)
  OBVIOUS
<1>4. p[n] = 0 /\ p[n + 1] = 0 /\ p[n + 2] = 0
  BY <1>3
<1>5. p \in [0..n+2 -> Nat]
  <2>1. \A i \in 0..n+2 : i < n => i \in 0..n-1
    OBVIOUS
  <2> QED BY <2>1
<1> HIDE DEF p
<1> QED BY <1>1, <1>2, <1>4, <1>5 DEF IsArray

\* A text of numbers, all positive, with zeros after it.
LEMMA PositiveText ==
  ASSUME NEW m \in Nat, NEW R \in [0..m-1 -> 1..m]
  PROVE  /\ IsArray(Padded(R, m), m) /\ Padded(R, m) \in [0..m+2 -> Nat]
         /\ Continues(Extended(Padded(R, m), m), R, m) /\ IsText(Extended(Padded(R, m), m), m)
<1> DEFINE P == Padded(R, m)
           g == Extended(P, m)
<1>1. \A i \in 0..m-1 : R[i] \in Nat /\ R[i] > 0
  OBVIOUS
<1>2. IsArray(P, m) /\ \A i \in 0..m-1 : P[i] = R[i]
  BY <1>1, PaddedIs
<1> HIDE DEF P
<1>3. g \in [Nat -> Nat] /\ (\A i \in 0..m+2 : g[i] = P[i]) /\ \A i \in Nat : i >= m => g[i] = 0
  BY <1>2, ExtendedIs
<1> HIDE DEF g
<1>4. \A i \in Nat : i < m => g[i] = R[i] /\ g[i] > 0
  <2> SUFFICES ASSUME NEW i \in Nat, i < m PROVE g[i] = R[i] /\ g[i] > 0
    OBVIOUS
  <2>1. i \in 0..m-1 /\ i \in 0..m+2
    OBVIOUS
  <2> QED BY <1>1, <1>2, <1>3, <2>1
<1>5. Continues(g, R, m)
  BY <1>3, <1>4 DEF Continues
<1>6. IsText(g, m)
  <2>1. \A i \in 1..m-1 : i \in Nat /\ i < m
    OBVIOUS
  <2> QED BY <1>3, <1>4, <2>1 DEF IsText
<1>7. P \in [0..m+2 -> Nat]
  BY <1>2 DEF IsArray
<1> QED BY <1>2, <1>5, <1>6, <1>7 DEF P, g

\* SA12 lists the places of the suffixes sorted first in their order, and P has
\* the ranks that belong to it.
Sorts12(SA12, P, f, n, m) ==
  /\ SA12 \in Bijection(0..m-1, 0..m-1)
  /\ \A h, k \in 0..m-1 : h < k => Less(f, GetI(n, SA12[h]), GetI(n, SA12[k]))
  /\ P \in [0..m-1 -> Nat] /\ \A h \in 0..m-1 : P[SA12[h]] = h + 1

Turned(r, S, n) == [k \in 0..n-1 |-> CHOOSE i \in S : r[i] = k]

Inverts(q, r, S, n) == \A k \in 0..n-1 : q[k] \in S /\ r[q[k]] = k

\* A bijection turned round.
LEMMA TurnedIs ==
  ASSUME NEW S, NEW n \in Nat, NEW r \in Bijection(S, 0..n-1)
  PROVE  Turned(r, S, n) \in Bijection(0..n-1, S) /\ Inverts(Turned(r, S, n), r, S, n)
<1> DEFINE q == Turned(r, S, n)
<1>1. q = [k \in 0..n-1 |-> CHOOSE i \in S : r[i] = k]
  BY DEF Turned
<1> HIDE DEF q
<1>2. q \in Bijection(0..n-1, S) /\ \A k \in 0..n-1 : q[k] \in S /\ r[q[k]] = k
  BY <1>1, Numbered
<1> QED BY <1>2 DEF q, Inverts

\* The i-th triple has name i + 1.
AllDifferent(R, n, m, tr) ==
  /\ \A h \in 0..m-1 : Place(n, tr[h]) \in 0..m-1 /\ R[Place(n, tr[h])] = h + 1
  /\ \A u \in 0..m-1 : \E h \in 0..m-1 : GetI(n, u) = tr[h] /\ R[u] = h + 1

LEMMA SuccEqual == \A a, b \in Int : (a + 1 = b + 1 => a = b) /\ (a - 1 = b - 1 => a = b)
OBVIOUS

\* By names that are all different.
LEMMA DistinctNames ==
  ASSUME NEW n \in Nat, NEW f \in [Nat -> Nat], n >= 2, NEW m \in Nat, m = N02(n),
         NEW R \in [0..m-1 -> 1..m], Names3(R, f, n, m), NEW tr, AllDifferent(R, n, m, tr),
         NEW shorter, NEW SA12, SA12 = Sorted12(R, m, FALSE, shorter)
  PROVE  Sorts12(SA12, Ranks(R, SA12, m, FALSE), f, n, m)
<1> DEFINE r == [u \in 0..m-1 |-> R[u] - 1]
           q == [h \in 0..m-1 |-> CHOOSE u \in 0..m-1 : r[u] = h]
<1>1. ASSUME NEW u \in 0..m-1, NEW v \in 0..m-1, R[u] = R[v] PROVE u = v
  <2>1. PICK h \in 0..m-1 : GetI(n, u) = tr[h] /\ R[u] = h + 1
    BY Zenon DEF AllDifferent
  <2>2. PICK k \in 0..m-1 : GetI(n, v) = tr[k] /\ R[v] = k + 1
    BY Zenon DEF AllDifferent
  <2>3. h = k
    <3>1. h + 1 = k + 1
      BY <1>1, <2>1, <2>2, Zenon
    <3> QED BY <3>1
  <2>4. Place(n, GetI(n, u)) = u /\ Place(n, GetI(n, v)) = v
    BY PlaceText
  <2> QED BY <2>1, <2>2, <2>3, <2>4
<1>2. r \in Bijection(0..m-1, 0..m-1)
  <2>1. \A u \in 0..m-1 : r[u] \in 0..m-1
    <3>1. \A u \in 0..m-1 : R[u] \in 1..m
      OBVIOUS
    <3>2. \A c \in 1..m : c - 1 \in 0..m-1
      OBVIOUS
    <3> QED BY <3>1, <3>2, Zenon
  <2>2. \A u, v \in 0..m-1 : r[u] = r[v] => u = v
    <3> SUFFICES ASSUME NEW u \in 0..m-1, NEW v \in 0..m-1, r[u] = r[v] PROVE u = v
      OBVIOUS
    <3>1. R[u] - 1 = R[v] - 1 /\ R[u] \in Int /\ R[v] \in Int
      <4>1. r[u] = R[u] - 1 /\ r[v] = R[v] - 1
        OBVIOUS
      <4>2. R[u] \in 1..m /\ R[v] \in 1..m
        OBVIOUS
      <4>3. \A c \in 1..m : c \in Int
        OBVIOUS
      <4>4. r[u] = r[v]
        OBVIOUS
      <4> HIDE DEF r
      <4> QED BY <4>1, <4>2, <4>3, <4>4, Zenon
    <3>2. R[u] = R[v]
      BY <3>1, SuccEqual, Zenon
    <3> QED BY <1>1, <3>2
  <2>3. \A h \in 0..m-1 : \E u \in 0..m-1 : r[u] = h
    <3> SUFFICES ASSUME NEW h \in 0..m-1 PROVE \E u \in 0..m-1 : r[u] = h
      OBVIOUS
    <3> DEFINE u == Place(n, tr[h])
    <3>1. u \in 0..m-1 /\ R[u] = h + 1
      BY Zenon DEF AllDifferent
    <3> HIDE DEF u
    <3>2. r[u] = h
      BY <3>1
    <3> QED BY <3>1, <3>2
  <2>4. r \in [0..m-1 -> 0..m-1]
    BY <2>1
  <2> HIDE DEF r
  <2> QED BY <2>2, <2>3, <2>4 DEF Bijection, Injection, IsInjective, Surjection
<1>3. SA12 = q
  <2>1. SA12 = [h \in 0..m-1 |-> CHOOSE u \in 0..m-1 : R[u] - 1 = h]
    BY StoredIs DEF Sorted12
  <2>2. \A h \in 0..m-1 : (CHOOSE u \in 0..m-1 : r[u] = h) = CHOOSE u \in 0..m-1 : R[u] - 1 = h
    <3>1. \A u \in 0..m-1 : r[u] = R[u] - 1
      OBVIOUS
    <3> HIDE DEF r
    <3> QED BY <3>1, Zenon
  <2> HIDE DEF r
  <2> QED BY <2>1, <2>2
<1>4. /\ q \in Bijection(0..m-1, 0..m-1)
      /\ \A k \in 0..m-1 : q[k] \in 0..m-1 /\ r[q[k]] = k
  <2>1. q = Turned(r, 0..m-1, m)
    BY DEF Turned
  <2> HIDE DEF r, q
  <2>2. q \in Bijection(0..m-1, 0..m-1) /\ Inverts(q, r, 0..m-1, m)
    BY <1>2, <2>1, TurnedIs
  <2> QED BY <2>2, Zenon DEF Inverts
<1>5. \A k \in 0..m-1 : q[k] \in 0..m-1 /\ R[q[k]] = k + 1
  <2> SUFFICES ASSUME NEW k \in 0..m-1 PROVE q[k] \in 0..m-1 /\ R[q[k]] = k + 1
    OBVIOUS
  <2> DEFINE u == q[k]
  <2>1. u \in 0..m-1 /\ r[u] = k
    BY <1>4, Zenon
  <2> HIDE DEF u, q
  <2>2. r[u] = R[u] - 1 /\ R[u] \in 1..m
    BY <2>1
  <2> HIDE DEF r
  <2>3. R[u] = k + 1
    BY <2>1, <2>2
  <2> QED BY <2>1, <2>3 DEF u
<1> HIDE DEF q, r
<1>6. ASSUME NEW h \in 0..m-1, NEW k \in 0..m-1, h < k PROVE Less(f, GetI(n, q[h]), GetI(n, q[k]))
  <2> DEFINE u == q[h]
             v == q[k]
  <2>1. u \in 0..m-1 /\ v \in 0..m-1 /\ R[u] < R[v]
    BY <1>5, <1>6
  <2> HIDE DEF u, v
  <2>2. TripleBefore(f, GetI(n, u), GetI(n, v))
    BY <2>1, Zenon DEF Names3
  <2>3. GetI(n, u) \in Nat /\ GetI(n, v) \in Nat
    BY <2>1, PlaceText
  <2>4. Less(f, GetI(n, u), GetI(n, v))
    BY <2>2, <2>3, LessThird, Zenon
  <2> QED BY <2>4 DEF u, v
<1>7. Ranks(R, SA12, m, FALSE) = R /\ R \in [0..m-1 -> Nat]
  BY DEF Ranks
<1> QED BY <1>3, <1>4, <1>5, <1>6, <1>7 DEF Sorts12

\* By the suffixes of the names.
LEMMA NamesSorted ==
  ASSUME NEW n \in Nat, NEW f \in [Nat -> Nat], IsText(f, n), n >= 2, NEW m \in Nat, m = N02(n),
         NEW R \in [0..m-1 -> 1..m], Names3(R, f, n, m), NEW shorter,
         SortsSuffixes(shorter[Padded(R, m)], Extended(Padded(R, m), m), m),
         NEW SA12, SA12 = Sorted12(R, m, TRUE, shorter)
  PROVE  Sorts12(SA12, Ranks(R, SA12, m, TRUE), f, n, m)
<1> DEFINE g == Extended(Padded(R, m), m)
<1>1. SA12 = shorter[Padded(R, m)]
  BY DEF Sorted12
<1>2. Continues(g, R, m)
  BY PositiveText
<1>3. SA12 \in Bijection(0..m-1, 0..m-1) /\ \A k, l \in 0..m-1 : k < l => Less(g, SA12[k], SA12[l])
  BY <1>1 DEF SortsSuffixes
<1>4. /\ SA12 \in [0..m-1 -> 0..m-1] /\ \A i, j \in 0..m-1 : SA12[i] = SA12[j] => i = j
      /\ \A k \in 0..m-1 : \E i \in 0..m-1 : SA12[i] = k
  BY <1>3 DEF Bijection, Injection, IsInjective, Surjection
<1> HIDE DEF g
<1>5. ASSUME NEW h \in 0..m-1, NEW k \in 0..m-1, h < k PROVE Less(f, GetI(n, SA12[h]), GetI(n, SA12[k]))
  <2> DEFINE u == SA12[h]
             v == SA12[k]
  <2>1. u \in 0..m-1 /\ v \in 0..m-1 /\ Less(g, u, v)
    BY <1>3, <1>4, <1>5
  <2> HIDE DEF u, v
  <2>2. Less(f, GetI(n, u), GetI(n, v))
    BY <1>2, <2>1, PlaceLess
  <2> QED BY <2>2 DEF u, v
<1> DEFINE P == Ranks(R, SA12, m, TRUE)
           at(u) == CHOOSE h \in 0..m-1 : SA12[h] = u
<1>6. P = [u \in 0..m-1 |-> 1 + at(u)]
  BY DEF Ranks
<1>7. \A u \in 0..m-1 : at(u) \in 0..m-1 /\ SA12[at(u)] = u
  BY <1>4
<1> HIDE DEF P, at
<1>8. P \in [0..m-1 -> Nat]
  <2>1. ASSUME NEW u \in 0..m-1 PROVE 1 + at(u) \in Nat
    <3> DEFINE h == at(u)
    <3>1. h \in 0..m-1
      BY <1>7
    <3> HIDE DEF h
    <3>2. 1 + h \in Nat
      BY <3>1
    <3> QED BY <3>2 DEF h
  <2> QED BY <1>6, <2>1
<1>9. ASSUME NEW h \in 0..m-1 PROVE P[SA12[h]] = h + 1
  <2>1. SA12[h] \in 0..m-1
    BY <1>4
  <2>2. at(SA12[h]) \in 0..m-1 /\ SA12[at(SA12[h])] = SA12[h]
    BY <1>7, <2>1
  <2>3. at(SA12[h]) = h
    BY <1>4, <2>2
  <2>4. P[SA12[h]] = 1 + h
    BY <1>6, <2>1, <2>3
  <2> QED BY <2>4
<1> QED BY <1>3, <1>5, <1>8, <1>9 DEF Sorts12, P

-----------------------------------------------------------------------------
(* The suffixes at multiples of three *)
Triples3(a) == {3 * v : v \in 0..a-1}

\* M lists the suffixes that start at a multiple of 3 in their order.
SortsZeros(M, f, a) ==
  /\ M \in Bijection(0..a-1, Triples3(a))
  /\ \A k, l \in 0..a-1 : k < l => Less(f, M[k], M[l])

\* The suffixes at multiples of 3, by those that follow them.
LEMMA ZerosAre ==
  ASSUME NEW n \in Nat, n >= 2, NEW f, NEW P, NEW SA12, NEW a \in Nat, a = N0(n),
         Sorts12(SA12, P, f, n, N02(n))
  PROVE  /\ Zeros(n, SA12) \in Bijection(0..a-1, Triples3(a))
         /\ \A k, l \in 0..a-1 : k < l => Less(f, Zeros(n, SA12)[k] + 1, Zeros(n, SA12)[l] + 1)
<1> DEFINE m == N02(n)
           H == {h \in 0..m-1 : SA12[h] < a}
           at == Ascending(H)
           Z == [k \in 0..a-1 |-> 3 * SA12[at[k]]]
<1>1. m \in Nat /\ a <= m
  BY Thirds
<1>2. /\ SA12 \in Bijection(0..m-1, 0..m-1)
      /\ \A h, k \in 0..m-1 : h < k => Less(f, GetI(n, SA12[h]), GetI(n, SA12[k]))
  BY DEF Sorts12
<1>3. Zeros(n, SA12) = Z
  BY StoredIs DEF Zeros
<1> HIDE DEF m
<1>4. /\ SA12 \in [0..m-1 -> 0..m-1] /\ \A i, j \in 0..m-1 : SA12[i] = SA12[j] => i = j
      /\ \A k \in 0..m-1 : \E i \in 0..m-1 : SA12[i] = k
  BY <1>2 DEF Bijection, Injection, IsInjective, Surjection
<1>5. IsFiniteSet(H) /\ Cardinality(H) = a /\ H \in SUBSET Int /\ H \in SUBSET (0..m-1)
  <2>1. H \in SUBSET (0..m-1) /\ H \in SUBSET Int
    OBVIOUS
  <2>2. IsFiniteSet(H)
    <3>1. IsFiniteSet(0..m-1)
      BY <1>1, CardinalityBelow
    <3> HIDE DEF H
    <3> QED BY <2>1, <3>1, FS_Subset
  <2> DEFINE g == [h \in H |-> SA12[h]]
  <2>3. \A h \in H : h \in 0..m-1 /\ g[h] = SA12[h] /\ SA12[h] \in 0..m-1 /\ SA12[h] < a
    BY <1>4
  <2>4. \A v \in 0..a-1 : \E h \in H : SA12[h] = v
    <3> SUFFICES ASSUME NEW v \in 0..a-1 PROVE \E h \in H : SA12[h] = v
      OBVIOUS
    <3>1. v \in 0..m-1
      BY <1>1
    <3>2. PICK h \in 0..m-1 : SA12[h] = v
      BY <1>4, <3>1
    <3>3. h \in H
      BY <3>2
    <3> QED BY <3>2, <3>3
  <2>5. \A h \in H : SA12[h] \in 0..a-1
    <3> SUFFICES ASSUME NEW h \in H PROVE SA12[h] \in 0..a-1
      OBVIOUS
    <3>1. SA12[h] \in 0..m-1 /\ SA12[h] < a
      BY <2>3
    <3> QED BY <1>1, <3>1
  <2>6. g \in [H -> 0..a-1]
    BY <2>3, <2>5
  <2> HIDE DEF H, g
  <2>7. g \in Bijection(H, 0..a-1)
    BY <1>4, <2>3, <2>4, <2>6 DEF Bijection, Injection, IsInjective, Surjection
  <2>8. IsFiniteSet(0..a-1) /\ Cardinality(0..a-1) = a
    BY CardinalityBelow
  <2>9. Cardinality(H) = Cardinality(0..a-1)
    BY <2>2, <2>7, FS_Bijection DEF ExistsBijection
  <2> QED BY <2>1, <2>2, <2>8, <2>9
<1>6. \A h \in H : h \in 0..m-1 /\ SA12[h] \in 0..a-1 /\ GetI(n, SA12[h]) = 3 * SA12[h] + 1
  <2> SUFFICES ASSUME NEW h \in H PROVE h \in 0..m-1 /\ SA12[h] \in 0..a-1 /\ GetI(n, SA12[h]) = 3 * SA12[h] + 1
    OBVIOUS
  <2> DEFINE u == SA12[h]
  <2>1. h \in 0..m-1 /\ u \in 0..m-1 /\ u < a
    BY <1>4
  <2> HIDE DEF u, H
  <2>2. u \in 0..a-1 /\ u \in Nat
    BY <1>1, <2>1
  <2>3. GetI(n, u) = u * 3 + 1
    BY <2>1 DEF GetI
  <2>4. GetI(n, u) = 3 * u + 1
    BY <2>2, <2>3
  <2> QED BY <2>1, <2>2, <2>4 DEF u
<1>14. \A v \in 0..a-1 : \E h \in H : SA12[h] = v
  <2> SUFFICES ASSUME NEW v \in 0..a-1 PROVE \E h \in H : SA12[h] = v
    OBVIOUS
  <2>1. v \in 0..m-1
    BY <1>1
  <2>2. PICK h \in 0..m-1 : SA12[h] = v
    BY <1>4, <2>1
  <2>3. h \in H
    BY <2>2
  <2> QED BY <2>2, <2>3
<1> HIDE DEF H
<1>7. at \in Bijection(0..a-1, H) /\ \A k, l \in 0..a-1 : k < l => at[k] < at[l]
  BY <1>5, AscendingIs
<1>8. /\ at \in [0..a-1 -> H] /\ \A i, j \in 0..a-1 : at[i] = at[j] => i = j
      /\ \A h \in H : \E i \in 0..a-1 : at[i] = h
  BY <1>7 DEF Bijection, Injection, IsInjective, Surjection
<1> HIDE DEF at
<1>9. \A k \in 0..a-1 : at[k] \in 0..m-1 /\ SA12[at[k]] \in 0..a-1 /\ Z[k] = 3 * SA12[at[k]]
                        /\ GetI(n, SA12[at[k]]) = Z[k] + 1
  BY <1>6, <1>8
<1>10. \A k \in 0..a-1 : Z[k] \in Triples3(a)
  BY <1>9 DEF Triples3
<1>11. Z \in [0..a-1 -> Triples3(a)]
  BY <1>10
<1> HIDE DEF Z
<1>12. \A i, j \in 0..a-1 : Z[i] = Z[j] => i = j
  <2> SUFFICES ASSUME NEW i \in 0..a-1, NEW j \in 0..a-1, Z[i] = Z[j] PROVE i = j
    OBVIOUS
  <2> DEFINE u == SA12[at[i]]
             v == SA12[at[j]]
  <2>1. u \in 0..a-1 /\ v \in 0..a-1 /\ 3 * u = 3 * v
    BY <1>9
  <2> HIDE DEF u, v
  <2>2. u = v
    BY <2>1
  <2> QED BY <1>4, <1>8, <1>9, <2>2, Zenon DEF u, v
<1>13. \A s \in Triples3(a) : \E i \in 0..a-1 : Z[i] = s
  <2> SUFFICES ASSUME NEW v \in 0..a-1 PROVE \E i \in 0..a-1 : Z[i] = 3 * v
    BY DEF Triples3
  <2>1. PICK h \in H : SA12[h] = v
    BY <1>14
  <2>2. PICK i \in 0..a-1 : at[i] = h
    BY <1>8
  <2> QED BY <1>9, <2>1, <2>2, Zenon
<1>15. Z \in Bijection(0..a-1, Triples3(a))
  BY <1>11, <1>12, <1>13 DEF Bijection, Injection, IsInjective, Surjection
<1>16. ASSUME NEW k \in 0..a-1, NEW l \in 0..a-1, k < l PROVE Less(f, Z[k] + 1, Z[l] + 1)
  <2>1. at[k] < at[l]
    BY <1>7, <1>16
  <2>2. at[k] \in 0..m-1 /\ at[l] \in 0..m-1
    BY <1>9
  <2>3. Less(f, GetI(n, SA12[at[k]]), GetI(n, SA12[at[l]]))
    BY <1>2, <2>1, <2>2, Zenon
  <2>4. GetI(n, SA12[at[k]]) = Z[k] + 1 /\ GetI(n, SA12[at[l]]) = Z[l] + 1
    BY <1>9, Zenon
  <2> QED BY <2>3, <2>4, Zenon
<1>17. \A k, l \in 0..a-1 : k < l => Less(f, Z[k] + 1, Z[l] + 1)
  BY <1>16
<1> QED BY <1>3, <1>15, <1>17, Zenon

\* The last suffix that starts at a multiple of three starts within the array.
LEMMA ZerosWithin ==
  ASSUME NEW n \in Nat
  PROVE  3 * N0(n) - 2 <= n
BY SMT DEF N0

\* SA0 is sorted: by its first value, then by the suffix that follows.
LEMMA ZerosSorted ==
  ASSUME NEW n, NEW T, IsArray(T, n), n >= 2, NEW f, f = Extended(T, n), NEW P, NEW SA12, NEW a \in Nat, a = N0(n),
         Sorts12(SA12, P, f, n, N02(n))
  PROVE  SortsZeros(radix_pass(Zeros(n, SA12), T, 0, a), f, a)
<1> DEFINE Z == Zeros(n, SA12)
           M == radix_pass(Z, T, 0, a)
           D == Triples3(a)
<1>1. n \in Nat /\ f \in [Nat -> Nat]
  BY ExtendedIs DEF IsArray
<1>2. /\ Z \in Bijection(0..a-1, D)
      /\ \A k, l \in 0..a-1 : k < l => Less(f, Z[k] + 1, Z[l] + 1)
  BY <1>1, ZerosAre, Zenon
<1>3. D \in SUBSET (0..n) /\ D \in SUBSET Nat
  <2>1. 3 * N0(n) - 2 <= n
    BY <1>1, ZerosWithin
  <2> SUFFICES ASSUME NEW v \in 0..a-1 PROVE 3 * v \in 0..n /\ 3 * v \in Nat
    BY DEF Triples3
  <2> QED BY <1>1, <2>1
<1> HIDE DEF Z, D
<1>4. PICK q : Passes(Z, M, q, f, 0, a, D)
  <2>1. 0 \in 0..2
    OBVIOUS
  <2> QED BY <1>2, <1>3, <2>1, PassIs, Zenon
<1> HIDE DEF M
<1>5. /\ M \in Bijection(0..a-1, D)
      /\ \A k \in 0..a-1 : M[k] \in D /\ q[k] \in 0..a-1 /\ M[k] = Z[q[k]]
      /\ \A k, l \in 0..a-1 : k < l => \/ f[M[k] + 0] < f[M[l] + 0]
                                       \/ f[M[k] + 0] = f[M[l] + 0] /\ q[k] < q[l]
  BY <1>4, Zenon DEF Passes
<1>6. ASSUME NEW k \in 0..a-1, NEW l \in 0..a-1, k < l PROVE Less(f, M[k], M[l])
  <2> DEFINE i == M[k]
             j == M[l]
  <2>1. i \in Nat /\ j \in Nat /\ i + 0 = i /\ j + 0 = j
    <3>1. i \in Nat /\ j \in Nat
      BY <1>3, <1>5
    <3> HIDE DEF i, j
    <3> QED BY <3>1
  <2>2. f[i] < f[j] \/ (f[i] = f[j] /\ q[k] < q[l])
    <3>1. f[i + 0] < f[j + 0] \/ (f[i + 0] = f[j + 0] /\ q[k] < q[l])
      BY <1>5, <1>6, Zenon
    <3> HIDE DEF i, j
    <3> QED BY <2>1, <3>1
  <2>3. q[k] < q[l] => Less(f, i + 1, j + 1)
    BY <1>2, <1>5, Zenon
  <2> HIDE DEF i, j
  <2>4. Less(f, i, j)
    BY <1>1, <2>1, <2>2, <2>3, LessSteps
  <2> QED BY <2>4 DEF i, j
<1> QED BY <1>5, <1>6 DEF SortsZeros, D, M, Z

-----------------------------------------------------------------------------
(* Ranks and comparisons *)
\* h begins with base and goes on by the steps.
IsChain(h, n, base, step) == h = [k \in 0..n |-> IF k = 0 THEN base ELSE step[k][h[k - 1]]]

\* A function by recursion up to n exists.
LEMMA ChainExists ==
  ASSUME NEW n \in Nat, NEW D, NEW base \in D, NEW step \in [1..n -> [D -> D]]
  PROVE  \E h : h \in [0..n -> D] /\ IsChain(h, n, base, step)
<1> DEFINE Some(m) == \E h : h \in [0..m -> D] /\ IsChain(h, m, base, step)
           S == {m \in Nat : m <= n => Some(m)}
<1>1. 0 \in S
  <2> DEFINE h == [k \in 0..0 |-> base]
  <2>1. h \in [0..0 -> D] /\ IsChain(h, 0, base, step)
    BY DEF IsChain
  <2> QED BY <2>1
<1>2. ASSUME NEW m \in Nat, m \in S PROVE m + 1 \in S
  <2> HIDE DEF Some
  <2> SUFFICES ASSUME m + 1 <= n PROVE Some(m + 1)
    OBVIOUS
  <2>0. Some(m)
    BY <1>2
  <2>1. PICK h : h \in [0..m -> D] /\ IsChain(h, m, base, step)
    BY <2>0 DEF Some
  <2> DEFINE g == [k \in 0..m+1 |-> IF k = m + 1 THEN step[m + 1][h[m]] ELSE h[k]]
  <2>2. \A k \in 0..m : h[k] = IF k = 0 THEN base ELSE step[k][h[k - 1]]
    BY <2>1 DEF IsChain
  <2>3. h[m] \in D /\ step[m + 1] \in [D -> D]
    BY <2>1
  <2>4. \A k \in 0..m+1 : g[k] \in D
    <3> SUFFICES ASSUME NEW k \in 0..m+1 PROVE g[k] \in D
      OBVIOUS
    <3>1. CASE k = m + 1
      BY <2>3, <3>1
    <3>2. CASE k # m + 1
      <4>1. k \in 0..m
        BY <3>2
      <4> QED BY <2>1, <3>2, <4>1
    <3> QED BY <3>1, <3>2
  <2>5. \A k \in 0..m+1 : g[k] = IF k = 0 THEN base ELSE step[k][g[k - 1]]
    <3> SUFFICES ASSUME NEW k \in 0..m+1 PROVE g[k] = IF k = 0 THEN base ELSE step[k][g[k - 1]]
      OBVIOUS
    <3>1. CASE k = m + 1
      <4>1. k # 0 /\ k - 1 = m /\ m \in 0..m+1 /\ m # m + 1
        BY <3>1
      <4>2. g[m] = h[m]
        BY <4>1
      <4> QED BY <3>1, <4>1, <4>2
    <3>2. CASE k # m + 1
      <4>1. k \in 0..m /\ g[k] = h[k]
        BY <3>2
      <4>2. k # 0 => g[k - 1] = h[k - 1]
        <5> SUFFICES ASSUME k # 0 PROVE g[k - 1] = h[k - 1]
          OBVIOUS
        <5>1. k - 1 \in 0..m+1 /\ k - 1 # m + 1
          BY <3>2
        <5> QED BY <5>1
      <4> QED BY <2>2, <4>1, <4>2
    <3> QED BY <3>1, <3>2
  <2>6. g \in [0..m+1 -> D] /\ IsChain(g, m + 1, base, step)
    BY <2>4, <2>5 DEF IsChain
  <2> QED BY <2>6 DEF Some
<1>3. n \in S
  <2> HIDE DEF S
  <2> QED BY <1>1, <1>2, Induction
<1> QED BY <1>3

-----------------------------------------------------------------------------
\* leq is the lexicographic order.
LEMMA LeqPair ==
  ASSUME NEW a, NEW b, NEW d, NEW e, a \in Nat, b \in Nat, d \in Nat, e \in Nat
  PROVE  leq(<<a, b>>, <<d, e>>) <=> (a < d \/ (a = d /\ b <= e))
<1> DEFINE p == <<a, b>>
           q == <<d, e>>
<1>1. DOMAIN p = {1, 2} /\ p[1] = a /\ p[2] = b /\ q[1] = d /\ q[2] = e
  OBVIOUS
<1>2. 1..1-1 = {} /\ 1..2-1 = {1}
  OBVIOUS
<1> HIDE DEF p, q
<1>3. leq(p, q) <=> (a <= d /\ (a = d => b <= e))
  BY <1>1, <1>2 DEF leq
<1> QED BY <1>3 DEF p, q

\* leq on triples is their lexicographic order.
LEMMA LeqTriple ==
  ASSUME NEW a, NEW b, NEW c, NEW d, NEW e, NEW g,
         a \in Nat, b \in Nat, c \in Nat, d \in Nat, e \in Nat, g \in Nat
  PROVE  leq(<<a, b, c>>, <<d, e, g>>) <=> (a < d \/ (a = d /\ (b < e \/ (b = e /\ c <= g))))
<1> DEFINE r == <<a, b, c>>
           s == <<d, e, g>>
<1>1. DOMAIN r = {1, 2, 3} /\ r[1] = a /\ r[2] = b /\ r[3] = c /\ s[1] = d /\ s[2] = e /\ s[3] = g
  OBVIOUS
<1>2. 1..1-1 = {} /\ 1..2-1 = {1} /\ 1..3-1 = {1, 2}
  OBVIOUS
<1> HIDE DEF r, s
<1>3. leq(r, s) <=> (a <= d /\ (a = d => b <= e) /\ (a = d /\ b = e => c <= g))
  BY <1>1, <1>2 DEF leq
<1> QED BY <1>3 DEF r, s

\* Q has the ranks of the suffixes that do not start at a multiple of 3.
RanksAll(Q, f, n) ==
  /\ \A i \in 0..N02(n)+2 : Q[i] \in Nat
  /\ \A s, t \in 1..n : s % 3 # 0 /\ t % 3 # 0 /\ s # t
                        => (Q[Place(n, s)] <= Q[Place(n, t)] <=> Less(f, s, t))

\* A start outside the multiples of three has a place, or is the end.
LEMMA PlaceOrEnd ==
  ASSUME NEW n \in Nat, n >= 2, NEW s \in 1..n, s % 3 # 0
  PROVE  s \in Sampled(n) \/ (s = n /\ Place(n, s) = N02(n))
<1>1. n + (N0(n) - N1(n)) - 1 \in {n, n - 1} /\ (n + (N0(n) - N1(n)) - 1 = n - 1 => n % 3 # 1)
  BY SMT DEF N0, N1
<1>2. CASE s <= n + (N0(n) - N1(n)) - 1
  <2>1. s \in 1..n+(N0(n)-N1(n))-1
    BY <1>1, <1>2
  <2> QED BY <2>1 DEF Sampled
<1>3. CASE ~(s <= n + (N0(n) - N1(n)) - 1)
  <2>1. s = n /\ n % 3 # 1
    BY <1>1, <1>3
  <2>2. Place(n, s) = s \div 3 + N0(n)
    BY <2>1 DEF Place
  <2>3. N02(n) = N0(n) + n \div 3 /\ N0(n) \in Nat /\ n \div 3 \in Nat
    BY Thirds
  <2>4. n \div 3 + N0(n) = N0(n) + n \div 3
    BY <2>3
  <2> QED BY <2>1, <2>2, <2>3, <2>4
<1> QED BY <1>2, <1>3

\* R afterwards ranks the suffixes sorted first, the empty one before all.
LEMMA RanksAre ==
  ASSUME NEW n \in Nat, n >= 2, NEW f, IsText(f, n), NEW m, m = N02(n), NEW SA12, NEW P,
         Sorts12(SA12, P, f, n, m)
  PROVE  RanksAll(Padded(P, m), f, n)
<1> DEFINE Q == Padded(P, m)
<1>1. m \in Nat
  BY Thirds
<1>2. /\ SA12 \in Bijection(0..m-1, 0..m-1)
      /\ \A h, k \in 0..m-1 : h < k => Less(f, GetI(n, SA12[h]), GetI(n, SA12[k]))
      /\ P \in [0..m-1 -> Nat] /\ \A h \in 0..m-1 : P[SA12[h]] = h + 1
  BY DEF Sorts12
<1>3. IsArray(Q, m) /\ \A i \in 0..m-1 : Q[i] = P[i]
  BY <1>1, <1>2, PaddedIs
<1>4. Q[m] = 0 /\ \A i \in 0..m+2 : Q[i] \in Nat
  BY <1>3 DEF IsArray
<1> HIDE DEF Q
<1>5. SA12 \in [0..m-1 -> 0..m-1] /\ \A k \in 0..m-1 : \E i \in 0..m-1 : SA12[i] = k
  BY <1>2 DEF Bijection, Injection, Surjection
<1>6. ASSUME NEW s \in Sampled(n) PROVE \E h \in 0..m-1 : GetI(n, SA12[h]) = s /\ Q[Place(n, s)] = h + 1
  <2> DEFINE u == Place(n, s)
  <2>1. u \in 0..m-1 /\ GetI(n, u) = s
    <3>1. n >= 1
      OBVIOUS
    <3> QED BY <3>1, Places
  <2> HIDE DEF u
  <2>2. PICK h \in 0..m-1 : SA12[h] = u
    BY <1>5, <2>1
  <2>3. Q[u] = h + 1
    BY <1>2, <1>3, <2>1, <2>2
  <2> QED BY <2>1, <2>2, <2>3 DEF u
<1>7. f \in [Nat -> Nat] /\ f[n] = 0 /\ \A s \in 1..n : s # n => f[s] > 0 /\ Less(f, n, s) /\ ~Less(f, s, n)
  <2>1. f \in [Nat -> Nat] /\ f[n] = 0
    BY TextIs
  <2> SUFFICES ASSUME NEW s \in 1..n, s # n PROVE f[s] > 0 /\ Less(f, n, s) /\ ~Less(f, s, n)
    BY <2>1
  <2>2. s \in Nat /\ s >= 1 /\ s < n
    OBVIOUS
  <2>3. f[s] > 0
    BY <2>2, TextIs
  <2>4. Less(f, n, s)
    BY <2>1, <2>2, <2>3, LessSteps
  <2>5. ~Less(f, s, n)
    BY <2>1, <2>2, <2>4, LessStrict
  <2> QED BY <2>3, <2>4, <2>5
<1>8. ASSUME NEW s \in 1..n, NEW t \in 1..n, s % 3 # 0, t % 3 # 0, s # t
      PROVE  Q[Place(n, s)] <= Q[Place(n, t)] <=> Less(f, s, t)
  <2>1. s \in Sampled(n) \/ (s = n /\ Place(n, s) = m)
    BY <1>8, PlaceOrEnd
  <2>2. t \in Sampled(n) \/ (t = n /\ Place(n, t) = m)
    BY <1>8, PlaceOrEnd
  <2>3. CASE s \in Sampled(n) /\ t \in Sampled(n)
    <3>1. PICK h \in 0..m-1 : GetI(n, SA12[h]) = s /\ Q[Place(n, s)] = h + 1
      BY <1>6, <2>3
    <3>2. PICK k \in 0..m-1 : GetI(n, SA12[k]) = t /\ Q[Place(n, t)] = k + 1
      BY <1>6, <2>3
    <3>3. h # k
      BY <1>8, <3>1, <3>2
    <3>4. h < k \/ k < h
      BY <3>3
    <3>5. (h < k => Less(f, s, t)) /\ (k < h => Less(f, t, s))
      BY <1>2, <3>1, <3>2, Zenon
    <3>6. ~(Less(f, s, t) /\ Less(f, t, s))
      <4>1. s \in Nat /\ t \in Nat
        OBVIOUS
      <4> QED BY <1>7, <4>1, LessStrict
    <3>7. (h + 1 <= k + 1) <=> (h < k)
      BY <3>3
    <3> QED BY <3>1, <3>2, <3>4, <3>5, <3>6, <3>7
  <2>4. CASE s = n /\ Place(n, s) = m
    <3>1. t \in Sampled(n)
      BY <1>8, <2>2, <2>4
    <3>2. PICK k \in 0..m-1 : Q[Place(n, t)] = k + 1
      BY <1>6, <3>1
    <3>3. Q[Place(n, s)] = 0
      BY <1>4, <2>4
    <3>4. 0 <= k + 1
      OBVIOUS
    <3>5. Less(f, s, t)
      BY <1>7, <1>8, <2>4
    <3> QED BY <3>2, <3>3, <3>4, <3>5
  <2>5. CASE t = n /\ Place(n, t) = m
    <3>1. s \in Sampled(n)
      BY <1>8, <2>1, <2>5
    <3>2. PICK k \in 0..m-1 : Q[Place(n, s)] = k + 1
      BY <1>6, <3>1
    <3>3. Q[Place(n, t)] = 0
      BY <1>4, <2>5
    <3>4. ~(k + 1 <= 0)
      OBVIOUS
    <3>5. ~Less(f, s, t)
      BY <1>7, <1>8, <2>5
    <3> QED BY <3>2, <3>3, <3>4, <3>5
  <2> QED BY <2>1, <2>2, <2>3, <2>4, <2>5
<1> QED BY <1>4, <1>8 DEF RanksAll, Q

-----------------------------------------------------------------------------
(* Comparing a suffix of each kind *)
\* The places of a suffix and of those that follow it.
LEMMA PlaceIs ==
  ASSUME NEW n \in Nat, NEW a, a = N0(n), NEW s \in Nat
  PROVE  Place(n, s) = IF s % 3 = 1 THEN s \div 3 ELSE s \div 3 + a
BY Zenon DEF Place

\* Where the suffixes one and two after a multiple of three have their places.
LEMMA NextZero ==
  ASSUME NEW n \in Nat, NEW i \in Nat, NEW a, a = N0(n), NEW v, v = i \div 3, i % 3 = 0
  PROVE  /\ (i + 1) % 3 # 0 /\ Place(n, i + 1) = v
         /\ (i + 2) % 3 # 0 /\ Place(n, i + 2) = v + a
<1>1. a \in Nat
  BY Thirds
<1>2. v \in Nat /\ i = 3 * v
  BY ThirdOf
<1>3. (i + 1) % 3 = 1 /\ (i + 1) \div 3 = v /\ (i + 2) % 3 = 2 /\ (i + 2) \div 3 = v
  BY <1>2
<1>4. i + 1 \in Nat /\ i + 2 \in Nat
  OBVIOUS
<1>5. Place(n, i + 1) = v
  BY <1>3, <1>4, PlaceIs
<1>6. Place(n, i + 2) = v + a
  BY <1>3, <1>4, PlaceIs
<1> QED BY <1>3, <1>5, <1>6

LEMMA NextOne ==
  ASSUME NEW n \in Nat, NEW i \in Nat, NEW a, a = N0(n), NEW v, v = i \div 3, i % 3 = 1
  PROVE  /\ i = 3 * v + 1 /\ Place(n, i) = v
         /\ (i + 1) % 3 # 0 /\ Place(n, i + 1) = v + a
<1>1. a \in Nat
  BY Thirds
<1>2. v \in Nat /\ i = 3 * v + 1
  BY ThirdOf
<1>3. (i + 1) % 3 = 2 /\ (i + 1) \div 3 = v
  BY <1>2
<1>4. i + 1 \in Nat
  OBVIOUS
<1>5. Place(n, i + 1) = v + a
  BY <1>3, <1>4, PlaceIs
<1>6. Place(n, i) = v
  BY PlaceIs
<1> QED BY <1>2, <1>3, <1>5, <1>6

LEMMA NextTwo ==
  ASSUME NEW n \in Nat, NEW i \in Nat, NEW a, a = N0(n), NEW v, v = i \div 3, i % 3 = 2
  PROVE  /\ i = 3 * v + 2 /\ Place(n, i) = v + a
         /\ (i + 2) % 3 # 0 /\ Place(n, i + 2) = v + 1
<1>1. a \in Nat
  BY Thirds
<1>2. v \in Nat /\ i = 3 * v + 2
  BY ThirdOf
<1>3. (i + 2) % 3 = 1 /\ (i + 2) \div 3 = v + 1
  BY <1>2
<1>4. i + 2 \in Nat
  OBVIOUS
<1>5. Place(n, i + 2) = v + 1
  BY <1>3, <1>4, PlaceIs
<1>6. Place(n, i) = v + a
  BY PlaceIs
<1> QED BY <1>2, <1>3, <1>5, <1>6

\* The comparison of the merge is that of the suffixes.
LEMMA SmallerIs ==
  ASSUME NEW n \in Nat, n >= 2, NEW T, IsArray(T, n), NEW f, f = Extended(T, n), IsText(f, n),
         NEW Q, RanksAll(Q, f, n), NEW i \in 1..n-1, i % 3 # 0, NEW j \in 0..n-1, j % 3 = 0
  PROVE  Smaller(T, Q, n, Place(n, i), j) <=> Less(f, i, j)
<1> DEFINE a == N0(n)
           v == i \div 3
           w == j \div 3
<1>0. i \in Nat /\ j \in Nat
  OBVIOUS
<1>1. /\ a \in Nat /\ v \in Nat
      /\ i % 3 = 1 => i = 3 * v + 1 /\ Place(n, i) = v /\ (i + 1) % 3 # 0 /\ Place(n, i + 1) = v + a
      /\ i % 3 = 2 => i = 3 * v + 2 /\ Place(n, i) = v + a /\ (i + 2) % 3 # 0 /\ Place(n, i + 2) = v + 1
  <2>1. a = N0(n) /\ v = i \div 3
    OBVIOUS
  <2>2. a \in Nat /\ v \in Nat
    BY <1>0, Thirds, ThirdOf
  <2> HIDE DEF a, v
  <2>3. ASSUME i % 3 = 1 PROVE i = 3 * v + 1 /\ Place(n, i) = v /\ (i + 1) % 3 # 0 /\ Place(n, i + 1) = v + a
    BY <1>0, <2>1, <2>3, NextOne
  <2>4. ASSUME i % 3 = 2 PROVE i = 3 * v + 2 /\ Place(n, i) = v + a /\ (i + 2) % 3 # 0 /\ Place(n, i + 2) = v + 1
    BY <1>0, <2>1, <2>4, NextTwo
  <2> QED BY <2>2, <2>3, <2>4
<1>2. /\ w \in Nat
      /\ (j + 1) % 3 # 0 /\ Place(n, j + 1) = w /\ (j + 2) % 3 # 0 /\ Place(n, j + 2) = w + a
  <2>1. a = N0(n) /\ w = j \div 3
    OBVIOUS
  <2>2. w \in Nat
    BY <1>0, ThirdOf
  <2> HIDE DEF a, w
  <2> QED BY <1>0, <2>1, <2>2, NextZero
<1>3. f \in [Nat -> Nat] /\ \A s \in 0..n+2 : s \in Nat /\ f[s] = T[s] /\ f[s] \in Nat
  BY ExtendedIs
<1>4. i % 3 = 1 \/ i % 3 = 2
  <2>1. i \in Nat
    OBVIOUS
  <2> QED BY <2>1, ThirdOf
<1>5. /\ \A s \in 0..N02(n)+2 : Q[s] \in Nat
      /\ \A s, t \in 1..n : s % 3 # 0 /\ t % 3 # 0 /\ s # t
                            => (Q[Place(n, s)] <= Q[Place(n, t)] <=> Less(f, s, t))
  BY DEF RanksAll
<1>6. i # j
  OBVIOUS
<1>7. /\ i \in 0..n+2 /\ i + 1 \in 0..n+2 /\ i + 2 \in 0..n+2 /\ (i + 1) + 1 = i + 2
      /\ j \in 0..n+2 /\ j + 1 \in 0..n+2 /\ j + 2 \in 0..n+2 /\ (j + 1) + 1 = j + 2
      /\ i + 1 \in 1..n /\ j + 1 \in 1..n
  OBVIOUS
<1>8. v < a /\ w < a /\ v + a \in 0..N02(n)+2 /\ w + a \in 0..N02(n)+2 /\ v + 1 \in 0..N02(n)+2 /\ w \in 0..N02(n)+2
  <2> DEFINE m == N02(n)
             b == n \div 3
  <2>1. a = N0(n) /\ m = N02(n) /\ b = n \div 3 /\ n >= 1
    OBVIOUS
  <2> HIDE DEF m, b, a
  <2>2. /\ a \in Nat /\ b \in Nat /\ m = a + b /\ a >= 1 /\ m \in Nat
        /\ \/ n = 3 * a /\ b = a
           \/ n = 3 * a - 1 /\ b = a - 1
           \/ n = 3 * a - 2 /\ b = a - 1
    BY <2>1, Groups
  <2>3. i >= 3 * v /\ j >= 3 * w
    <3>1. i \in Nat /\ j \in Nat
      OBVIOUS
    <3>2. i = 3 * v + (i % 3) /\ i % 3 \in {0, 1, 2}
      BY <3>1, ThirdOf
    <3>3. j = 3 * w + (j % 3) /\ j % 3 \in {0, 1, 2}
      BY <3>1, ThirdOf
    <3> HIDE DEF v, w
    <3>4. i >= 3 * v
      BY <1>1, <3>2
    <3>5. j >= 3 * w
      BY <1>2, <3>3
    <3> QED BY <3>4, <3>5
  <2> HIDE DEF v, w
  <2>4. v < a /\ w < a
    BY <1>1, <1>2, <2>2, <2>3
  <2>5. v + a <= m + 2 /\ w + a <= m + 2 /\ v + 1 <= m + 2 /\ w <= m + 2
    BY <1>1, <1>2, <2>2, <2>4
  <2>6. v + a \in 0..m+2 /\ w + a \in 0..m+2 /\ v + 1 \in 0..m+2 /\ w \in 0..m+2
    BY <1>1, <1>2, <2>2, <2>5
  <2> QED BY <2>4, <2>6 DEF m
<1> HIDE DEF a, v, w
<1>9. Less(f, i, j) <=> (f[i] < f[j] \/ (f[i] = f[j] /\ Less(f, i + 1, j + 1)))
  BY <1>3, <1>7, LessSteps
<1>10. CASE i % 3 = 1
  <2>1. Place(n, i) = v /\ v < N0(n) /\ GetI(n, v) = i
    <3>1. Place(n, i) = v /\ i = 3 * v + 1 /\ v < N0(n)
      BY <1>1, <1>8, <1>10 DEF a
    <3>2. GetI(n, v) = v * 3 + 1
      BY <3>1, Zenon DEF GetI
    <3>3. v * 3 + 1 = 3 * v + 1
      BY <1>1
    <3> QED BY <3>1, <3>2, <3>3
  <2>2. Smaller(T, Q, n, v, j) <=> leq(<<T[i], Q[v + a]>>, <<T[j], Q[w]>>)
    BY <2>1, Zenon DEF Smaller, a, w
  <2>3. T[i] = f[i] /\ T[j] = f[j] /\ f[i] \in Nat /\ f[j] \in Nat /\ Q[v + a] \in Nat /\ Q[w] \in Nat
    BY <1>3, <1>5, <1>7, <1>8, Zenon
  <2>4. leq(<<T[i], Q[v + a]>>, <<T[j], Q[w]>>) <=> (f[i] < f[j] \/ (f[i] = f[j] /\ Q[v + a] <= Q[w]))
    BY <2>3, LeqPair
  <2>5. Q[v + a] <= Q[w] <=> Less(f, i + 1, j + 1)
    <3>1. i + 1 # j + 1
      BY <1>6
    <3> QED BY <1>1, <1>2, <1>5, <1>7, <1>10, <3>1, Zenon
  <2> QED BY <1>9, <2>1, <2>2, <2>4, <2>5, Zenon
<1>11. CASE i % 3 = 2
  <2>1. Place(n, i) = v + a /\ ~(v + a < N0(n)) /\ (v + a) - N0(n) = v /\ GetI(n, v + a) = i
    <3>1. Place(n, i) = v + a /\ i = 3 * v + 2
      BY <1>1, <1>11
    <3>2. ~(v + a < a) /\ (v + a) - a = v
      BY <1>1
    <3>3. GetI(n, v + a) = ((v + a) - a) * 3 + 2
      BY <3>2, Zenon DEF GetI, a
    <3>4. GetI(n, v + a) = v * 3 + 2 /\ v * 3 + 2 = 3 * v + 2
      BY <1>1, <3>2, <3>3
    <3> QED BY <3>1, <3>2, <3>4 DEF a
  <2>2. Smaller(T, Q, n, v + a, j) <=> leq(<<T[i], T[i + 1], Q[v + 1]>>, <<T[j], T[j + 1], Q[w + a]>>)
    BY <2>1, Zenon DEF Smaller, a, w
  <2>3. /\ T[i] = f[i] /\ T[j] = f[j] /\ f[i] \in Nat /\ f[j] \in Nat /\ Q[v + 1] \in Nat /\ Q[w + a] \in Nat
        /\ T[i + 1] = f[i + 1] /\ T[j + 1] = f[j + 1] /\ f[i + 1] \in Nat /\ f[j + 1] \in Nat
    BY <1>3, <1>5, <1>7, <1>8, Zenon
  <2>4. leq(<<T[i], T[i + 1], Q[v + 1]>>, <<T[j], T[j + 1], Q[w + a]>>)
          <=> (f[i] < f[j] \/ (f[i] = f[j] /\ (f[i + 1] < f[j + 1] \/ (f[i + 1] = f[j + 1] /\ Q[v + 1] <= Q[w + a]))))
    BY <2>3, LeqTriple
  <2>5. ASSUME f[i + 1] = f[j + 1] PROVE Q[v + 1] <= Q[w + a] <=> Less(f, i + 2, j + 2)
    <3>1. i + 1 # n /\ j + 1 # n
      <4> DEFINE s == i + 1
                 t == j + 1
      <4>1. s \in 1..n /\ t \in 1..n /\ s # t /\ f[s] = f[t] /\ s \in Nat /\ t \in Nat
        BY <1>6, <1>7, <2>5
      <4> HIDE DEF s, t
      <4>2. f[n] = 0 /\ (s < n => f[s] > 0) /\ (t < n => f[t] > 0) /\ f[s] \in Nat /\ f[t] \in Nat
        BY <4>1, TextIs
      <4>3. s # n /\ t # n
        BY <4>1, <4>2
      <4> QED BY <4>3 DEF s, t
    <3>2. i + 2 \in 1..n /\ j + 2 \in 1..n /\ i + 2 # j + 2
      BY <1>6, <3>1
    <3> QED BY <1>1, <1>2, <1>5, <1>11, <3>2, Zenon
  <2>6. Less(f, i + 1, j + 1) <=> (f[i + 1] < f[j + 1] \/ (f[i + 1] = f[j + 1] /\ Less(f, i + 2, j + 2)))
    <3> DEFINE s == i + 1
               t == j + 1
    <3>1. s \in Nat /\ t \in Nat /\ s + 1 = i + 2 /\ t + 1 = j + 2
      BY <1>7
    <3> HIDE DEF s, t
    <3>2. Less(f, s, t) <=> (f[s] < f[t] \/ (f[s] = f[t] /\ Less(f, s + 1, t + 1)))
      BY <1>3, <3>1, LessSteps, Zenon
    <3> QED BY <3>1, <3>2, Zenon DEF s, t
  <2> QED BY <1>9, <2>1, <2>2, <2>4, <2>5, <2>6, Zenon
<1> QED BY <1>4, <1>10, <1>11

-----------------------------------------------------------------------------
(* The turns of the merge *)
\* What the merge has reached after k turns.
Turn(T, R, SA12, SA0, n, at) ==
  IF Takes12(T, R, SA12, SA0, n, at) THEN [at EXCEPT !.t = @ + 1] ELSE [at EXCEPT !.p = @ + 1]

Places2 == [t : Nat, p : Nat]

Turns(T, R, SA12, SA0, n, h) ==
  /\ h \in [0..n -> Places2]
  /\ h[0] = [t |-> N0(n) - N1(n), p |-> 0]
  /\ \A k \in 0..n-1 : h[k + 1] = Turn(T, R, SA12, SA0, n, h[k])
  /\ Merged(T, R, SA12, SA0, n) = [k \in 0..n-1 |-> IF Takes12(T, R, SA12, SA0, n, h[k])
                                                     THEN GetI(n, SA12[h[k].t]) ELSE SA0[h[k].p]]

\* The recursion of the merge has a solution.
LEMMA TurnsExist ==
  ASSUME NEW T, NEW R, NEW SA12, NEW SA0, NEW n \in Nat
  PROVE  \E h : Turns(T, R, SA12, SA0, n, h)
<1> DEFINE base == [t |-> N0(n) - N1(n), p |-> 0]
           turn(at) == Turn(T, R, SA12, SA0, n, at)
           step == [k \in 1..n |-> [at \in Places2 |-> turn(at)]]
           Is(h) == h = [k \in 0..n |-> IF k = 0 THEN base
                                        ELSE IF Takes12(T, R, SA12, SA0, n, h[k - 1])
                                             THEN [h[k - 1] EXCEPT !.t = @ + 1] ELSE [h[k - 1] EXCEPT !.p = @ + 1]]
           c == CHOOSE h : Is(h)
<1>1. base \in Places2
  <2>1. N0(n) - N1(n) \in Nat
    BY SMT DEF N0, N1
  <2> QED BY <2>1 DEF Places2
<1>2. \A at \in Places2 : turn(at) \in Places2
  BY DEF Turn, Places2
<1>3. step \in [1..n -> [Places2 -> Places2]]
  <2> HIDE DEF turn
  <2> QED BY <1>2
<1>4. PICK g : g \in [0..n -> Places2] /\ IsChain(g, n, base, step)
  <2> HIDE DEF base, step
  <2> QED BY <1>1, <1>3, ChainExists
<1>5. \A k \in 0..n : g[k] = IF k = 0 THEN base ELSE step[k][g[k - 1]]
  <2> HIDE DEF base, step
  <2> QED BY <1>4 DEF IsChain
<1>6. \A k \in 0..n : k # 0 => step[k][g[k - 1]] = turn(g[k - 1])
  <2> SUFFICES ASSUME NEW k \in 0..n, k # 0 PROVE step[k][g[k - 1]] = turn(g[k - 1])
    OBVIOUS
  <2>1. k \in 1..n /\ k - 1 \in 0..n
    OBVIOUS
  <2>2. g[k - 1] \in Places2
    BY <1>4, <2>1
  <2> HIDE DEF turn
  <2> QED BY <2>1, <2>2
<1> HIDE DEF base, step
<1>7. g = [k \in 0..n |-> IF k = 0 THEN base ELSE turn(g[k - 1])]
  <2> HIDE DEF turn
  <2>1. \A k \in 0..n : g[k] = IF k = 0 THEN base ELSE turn(g[k - 1])
    BY <1>5, <1>6
  <2> QED BY <1>4, <2>1
<1>8. Is(g)
  BY <1>7 DEF Turn
<1>9. Is(c)
  <2> HIDE DEF Is
  <2> QED BY <1>8
<1>10. Merged(T, R, SA12, SA0, n) = Stored([k \in 0..n-1 |-> IF Takes12(T, R, SA12, SA0, n, c[k])
                                                     THEN GetI(n, SA12[c[k].t]) ELSE SA0[c[k].p]])
  BY Zenon DEF Merged, base
<1> HIDE DEF c
<1>11. \A k \in 0..n : c[k] = IF k = 0 THEN base ELSE turn(c[k - 1])
  <2>1. c = [k \in 0..n |-> IF k = 0 THEN base ELSE turn(c[k - 1])]
    BY <1>9 DEF Turn
  <2> HIDE DEF turn
  <2> QED BY <2>1
<1>12. c[0] = base /\ \A k \in 0..n-1 : c[k + 1] = turn(c[k])
  <2>1. c[0] = base
    BY <1>11
  <2>2. ASSUME NEW k \in 0..n-1 PROVE c[k + 1] = turn(c[k])
    <3> DEFINE l == k + 1
    <3>1. l \in 0..n /\ l # 0 /\ l - 1 = k
      OBVIOUS
    <3> HIDE DEF l, turn
    <3>2. c[l] = turn(c[l - 1])
      BY <1>11, <3>1
    <3> QED BY <3>1, <3>2 DEF l
  <2> QED BY <2>1, <2>2
<1>13. c \in [0..n -> Places2]
  <2> DEFINE S == {k \in Nat : k <= n => c[k] \in Places2}
  <2>1. 0 \in S
    BY <1>1, <1>12
  <2>2. ASSUME NEW k \in Nat, k \in S PROVE k + 1 \in S
    <3> SUFFICES ASSUME k + 1 <= n PROVE c[k + 1] \in Places2
      OBVIOUS
    <3>1. k \in 0..n-1 /\ c[k] \in Places2
      BY <2>2
    <3> HIDE DEF turn
    <3> QED BY <1>2, <1>12, <3>1
  <2>3. Nat \subseteq S
    <3> HIDE DEF S
    <3> QED BY <2>1, <2>2, Induction
  <2>4. \A k \in 0..n : c[k] \in Places2
    BY <2>3
  <2>5. c = [k \in 0..n |-> c[k]]
    BY <1>9
  <2> QED BY <2>4, <2>5
<1>14. Merged(T, R, SA12, SA0, n) = [k \in 0..n-1 |-> IF Takes12(T, R, SA12, SA0, n, c[k])
                                                     THEN GetI(n, SA12[c[k].t]) ELSE SA0[c[k].p]]
  BY <1>10, StoredIs
<1>15. Turns(T, R, SA12, SA0, n, c)
  BY <1>12, <1>13, <1>14, Zenon DEF Turns, base
<1> QED BY <1>15

\* What is before its neighbour, all the way, is before everything after it.
LEMMA Neighbours ==
  ASSUME NEW f \in [Nat -> Nat], NEW n \in Nat, NEW M \in [0..n-1 -> Nat],
         \A k \in 0..n-1 : k + 1 < n => Less(f, M[k], M[k + 1])
  PROVE  \A k, l \in 0..n-1 : k < l => Less(f, M[k], M[l])
<1> SUFFICES ASSUME NEW k \in 0..n-1 PROVE \A l \in 0..n-1 : k < l => Less(f, M[k], M[l])
  OBVIOUS
<1> DEFINE S == {l \in Nat : k < l /\ l < n => Less(f, M[k], M[l])}
<1>1. 0 \in S
  OBVIOUS
<1>2. ASSUME NEW l \in Nat, l \in S PROVE l + 1 \in S
  <2> SUFFICES ASSUME k < l + 1, l + 1 < n PROVE Less(f, M[k], M[l + 1])
    OBVIOUS
  <2>1. l \in 0..n-1 /\ l + 1 \in 0..n-1
    OBVIOUS
  <2>2. Less(f, M[l], M[l + 1])
    BY <2>1
  <2>3. CASE k = l
    BY <2>2, <2>3
  <2>4. CASE k # l
    <3>1. Less(f, M[k], M[l])
      BY <1>2, <2>4
    <3>2. M[k] \in Nat /\ M[l] \in Nat /\ M[l + 1] \in Nat
      BY <2>1
    <3> DEFINE x1 == M[k]
               x2 == M[l]
               x3 == M[l + 1]
    <3>3. x1 \in Nat /\ x2 \in Nat /\ x3 \in Nat /\ Less(f, x1, x2) /\ Less(f, x2, x3)
      BY <2>2, <3>1, <3>2
    <3> HIDE DEF x1, x2, x3
    <3>4. Less(f, x1, x3)
      BY <3>3, LessStrict
    <3> QED BY <3>4 DEF x1, x3
  <2> QED BY <2>3, <2>4
<1>3. Nat \subseteq S
  <2> HIDE DEF S
  <2> QED BY <1>1, <1>2, Induction
<1> QED BY <1>3

\* As many different starts as suffixes: all of them.
LEMMA SortedAll ==
  ASSUME NEW f \in [Nat -> Nat], NEW n \in Nat, NEW M \in [0..n-1 -> 0..n-1],
         \A k, l \in 0..n-1 : k < l => Less(f, M[k], M[l])
  PROVE  SortsSuffixes(M, f, n)
<1> DEFINE D == 0..n-1
<1>1. IsFiniteSet(D) /\ Cardinality(D) = n
  BY CardinalityBelow
<1>2. \A k, l \in D : M[k] = M[l] => k = l
  <2> SUFFICES ASSUME NEW k \in D, NEW l \in D, M[k] = M[l], k # l PROVE FALSE
    OBVIOUS
  <2>1. Less(f, M[k], M[k])
    <3>1. k < l \/ l < k
      OBVIOUS
    <3> QED BY <3>1
  <2>2. M[k] \in Nat
    OBVIOUS
  <2> QED BY <2>1, <2>2, LessStrict
<1> HIDE DEF D
<1>3. M \in Injection(D, D)
  BY <1>2 DEF Injection, IsInjective, D
<1>4. M \in Surjection(D, D)
  BY <1>1, <1>3, FS_Injection
<1>5. M \in Bijection(D, D)
  BY <1>3, <1>4 DEF Bijection
<1> QED BY <1>5 DEF SortsSuffixes, D

-----------------------------------------------------------------------------
(* Merging two sorted lists *)
\* What may be merged: A holds the suffixes sorted first from t0 on, B the others.
Mergeable(A, B, f, t0, m, a, n) ==
  /\ t0 \in Nat /\ m \in Nat /\ a \in Nat /\ n \in Nat /\ t0 <= m /\ (m - t0) + a = n
  /\ f \in [Nat -> Nat]
  /\ \A t \in t0..m-1 : A[t] \in 0..n-1
  /\ \A p \in 0..a-1 : B[p] \in 0..n-1
  /\ \A t, u \in t0..m-1 : t < u => Less(f, A[t], A[u])
  /\ \A p, q \in 0..a-1 : p < q => Less(f, B[p], B[q])
  /\ \A t \in t0..m-1, p \in 0..a-1 : Less(f, A[t], B[p]) \/ Less(f, B[p], A[t])

\* tk are the turns at which the merge takes from A.
Merges(h, tk, M, A, B, f, t0, m, a, n) ==
  /\ h \in [0..n -> Places2] /\ h[0] = [t |-> t0, p |-> 0]
  /\ \A k \in 0..n-1 : /\ k \in tk => h[k + 1] = [h[k] EXCEPT !.t = @ + 1] /\ M[k] = A[h[k].t]
                       /\ k \notin tk => h[k + 1] = [h[k] EXCEPT !.p = @ + 1] /\ M[k] = B[h[k].p]
                       /\ k \in tk => h[k].t < m /\ (h[k].p < a /\ t0 <= h[k].t => Less(f, A[h[k].t], B[h[k].p]))
                       /\ k \notin tk => \/ h[k].t >= m
                                         \/ h[k].p # a /\ (h[k].p < a /\ t0 <= h[k].t /\ h[k].t < m => ~Less(f, A[h[k].t], B[h[k].p]))

IsList(M, n) == M = [k \in 0..n-1 |-> M[k]]

Reached(h, t0, m, a, n) ==
  \A k \in 0..n : t0 <= h[k].t /\ h[k].t <= m /\ h[k].p <= a /\ (h[k].t - t0) + h[k].p = k

\* The merge takes every suffix of both lists and nothing after their ends.
LEMMA Reaches ==
  ASSUME NEW h, NEW tk, NEW M, NEW A, NEW B, NEW f, NEW t0, NEW m, NEW a, NEW n,
         Mergeable(A, B, f, t0, m, a, n), Merges(h, tk, M, A, B, f, t0, m, a, n)
  PROVE  Reached(h, t0, m, a, n)
<1>1. t0 \in Nat /\ m \in Nat /\ a \in Nat /\ n \in Nat /\ t0 <= m /\ (m - t0) + a = n
  BY DEF Mergeable
<1>2. /\ h \in [0..n -> Places2] /\ h[0] = [t |-> t0, p |-> 0]
      /\ \A k \in 0..n-1 : /\ k \in tk => h[k + 1] = [h[k] EXCEPT !.t = @ + 1] /\ h[k].t < m
                           /\ k \notin tk => h[k + 1] = [h[k] EXCEPT !.p = @ + 1] /\ (h[k].t >= m \/ h[k].p # a)
  BY DEF Merges
<1> DEFINE At(k) == t0 <= h[k].t /\ h[k].t <= m /\ h[k].p <= a /\ (h[k].t - t0) + h[k].p = k
           S == {k \in Nat : k <= n => At(k)}
<1>3. 0 \in S
  <2>1. h[0].t = t0 /\ h[0].p = 0
    BY <1>2
  <2> QED BY <1>1, <2>1
<1>4. ASSUME NEW k \in Nat, k \in S PROVE k + 1 \in S
  <2> SUFFICES ASSUME k + 1 <= n PROVE At(k + 1)
    OBVIOUS
  <2>1. k \in 0..n-1 /\ k \in 0..n
    BY <1>1
  <2>2. At(k)
    BY <1>1, <1>4
  <2>3. h[k] \in Places2
    BY <1>2, <2>1
  <2> DEFINE t == h[k].t
             p == h[k].p
  <2>4. t \in Nat /\ p \in Nat /\ t0 <= t /\ t <= m /\ p <= a /\ (t - t0) + p = k
    BY <2>2, <2>3 DEF Places2
  <2>5. CASE k \in tk
    <3>1. h[k + 1].t = t + 1 /\ h[k + 1].p = p /\ t < m
      BY <1>2, <2>1, <2>3, <2>5 DEF Places2
    <3> HIDE DEF t, p
    <3>2. t0 <= t + 1 /\ t + 1 <= m /\ p <= a /\ ((t + 1) - t0) + p = k + 1
      BY <1>1, <2>4, <3>1
    <3> QED BY <3>1, <3>2
  <2>6. CASE k \notin tk
    <3>1. h[k + 1].t = t /\ h[k + 1].p = p + 1 /\ (t >= m \/ p # a)
      BY <1>2, <2>1, <2>3, <2>6 DEF Places2
    <3> HIDE DEF t, p
    <3>2. t0 <= t /\ t <= m /\ p + 1 <= a /\ (t - t0) + (p + 1) = k + 1
      BY <1>1, <2>1, <2>4, <3>1
    <3> QED BY <3>1, <3>2
  <2> QED BY <2>5, <2>6
<1>5. Nat \subseteq S
  <2> HIDE DEF S
  <2> QED BY <1>3, <1>4, Induction
<1>6. \A k \in 0..n : At(k)
  BY <1>1, <1>5
<1> QED BY <1>6 DEF Reached

\* What the merge takes is sorted.
LEMMA MergeSorts ==
  ASSUME NEW h, NEW tk, NEW M, NEW A, NEW B, NEW f, NEW t0, NEW m, NEW a, NEW n,
         Mergeable(A, B, f, t0, m, a, n), Merges(h, tk, M, A, B, f, t0, m, a, n), IsList(M, n)
  PROVE  SortsSuffixes(M, f, n)
<1>1. /\ t0 \in Nat /\ m \in Nat /\ a \in Nat /\ n \in Nat /\ t0 <= m /\ (m - t0) + a = n
      /\ f \in [Nat -> Nat]
  BY DEF Mergeable
<1>2. /\ \A t \in t0..m-1 : A[t] \in 0..n-1
      /\ \A p \in 0..a-1 : B[p] \in 0..n-1
      /\ \A t, u \in t0..m-1 : t < u => Less(f, A[t], A[u])
      /\ \A p, q \in 0..a-1 : p < q => Less(f, B[p], B[q])
      /\ \A t \in t0..m-1, p \in 0..a-1 : Less(f, A[t], B[p]) \/ Less(f, B[p], A[t])
  BY DEF Mergeable
<1>3. h \in [0..n -> Places2]
  BY DEF Merges
<1>4. \A k \in 0..n-1 : /\ k \in tk => h[k + 1] = [h[k] EXCEPT !.t = @ + 1] /\ M[k] = A[h[k].t]
                        /\ k \notin tk => h[k + 1] = [h[k] EXCEPT !.p = @ + 1] /\ M[k] = B[h[k].p]
                        /\ k \in tk => h[k].t < m /\ (h[k].p < a /\ t0 <= h[k].t => Less(f, A[h[k].t], B[h[k].p]))
                        /\ k \notin tk => \/ h[k].t >= m
                                          \/ h[k].p # a /\ (h[k].p < a /\ t0 <= h[k].t /\ h[k].t < m => ~Less(f, A[h[k].t], B[h[k].p]))
  BY DEF Merges
<1>5. \A k \in 0..n : t0 <= h[k].t /\ h[k].t <= m /\ h[k].p <= a /\ (h[k].t - t0) + h[k].p = k
  BY Reaches DEF Reached
\* What turn k takes is before what is left.
<1> DEFINE Takes(k, t, p) ==
             \/ /\ M[k] = A[t] /\ t \in t0..m-1 /\ h[k + 1].t = t + 1 /\ h[k + 1].p = p
                /\ p < a => Less(f, A[t], B[p])
             \/ /\ M[k] = B[p] /\ p \in 0..a-1 /\ h[k + 1].t = t /\ h[k + 1].p = p + 1
                /\ t < m => Less(f, B[p], A[t])
<1>6. ASSUME NEW k \in 0..n-1 PROVE /\ h[k].t \in t0..m /\ h[k].p \in 0..a /\ Takes(k, h[k].t, h[k].p)
  <2> DEFINE t == h[k].t
             p == h[k].p
  <2>1. k \in 0..n /\ h[k] \in Places2
    BY <1>1, <1>3
  <2>2. t \in Nat /\ p \in Nat /\ t0 <= t /\ t <= m /\ p <= a /\ (t - t0) + p = k
    BY <1>5, <2>1 DEF Places2
  <2>3. CASE k \in tk
    <3>1. h[k + 1].t = t + 1 /\ h[k + 1].p = p /\ t < m /\ M[k] = A[t]
      BY <1>4, <2>1, <2>3 DEF Places2
    <3>4. p < a => Less(f, A[t], B[p])
      BY <1>4, <2>2, <2>3
    <3> HIDE DEF t, p
    <3>2. t \in t0..m-1
      BY <1>1, <2>2, <3>1
    <3>3. t \in t0..m /\ p \in 0..a /\ Takes(k, t, p)
      BY <1>1, <2>2, <3>1, <3>2, <3>4
    <3> QED BY <3>3 DEF t, p
  <2>4. CASE k \notin tk
    <3>1. h[k + 1].t = t /\ h[k + 1].p = p + 1 /\ M[k] = B[p]
      BY <1>4, <2>1, <2>4 DEF Places2
    <3>2. t >= m \/ (p # a /\ (p < a /\ t0 <= t /\ t < m => ~Less(f, A[t], B[p])))
      BY <1>4, <2>4
    <3> HIDE DEF t, p
    <3>3. p \in 0..a-1
      BY <1>1, <2>2, <3>2
    <3>4. ASSUME t < m PROVE Less(f, B[p], A[t])
      <4>1. t \in t0..m-1 /\ ~Less(f, A[t], B[p])
        BY <1>1, <2>2, <3>2, <3>3, <3>4
      <4> QED BY <1>2, <3>3, <4>1
    <3>5. t \in t0..m /\ p \in 0..a /\ Takes(k, t, p)
      BY <1>1, <2>2, <3>1, <3>3, <3>4
    <3> QED BY <3>5 DEF t, p
  <2> QED BY <2>3, <2>4
<1>7. \A k \in 0..n-1 : M[k] \in 0..n-1
  BY <1>2, <1>6
<1>8. M \in [0..n-1 -> 0..n-1] /\ M \in [0..n-1 -> Nat]
  <2>1. M = [k \in 0..n-1 |-> M[k]]
    BY DEF IsList
  <2>2. \A k \in 0..n-1 : M[k] \in 0..n-1 /\ M[k] \in Nat
    BY <1>1, <1>7
  <2>3. [k \in 0..n-1 |-> M[k]] \in [0..n-1 -> 0..n-1] /\ [k \in 0..n-1 |-> M[k]] \in [0..n-1 -> Nat]
    BY <2>2
  <2> QED BY <2>1, <2>3
<1>9. ASSUME NEW k \in 0..n-1, k + 1 < n PROVE Less(f, M[k], M[k + 1])
  <2> DEFINE t == h[k].t
             p == h[k].p
             l == k + 1
             u == h[l].t
             q == h[l].p
  <2>1. l \in 0..n-1
    BY <1>1, <1>9
  <2>2. t \in t0..m /\ p \in 0..a /\ Takes(k, t, p)
    BY <1>6
  <2>3. u \in t0..m /\ q \in 0..a /\ Takes(l, u, q)
    <3> HIDE DEF l, Takes
    <3> QED BY <1>6, <2>1
  <2>4. \/ /\ M[k] = A[t] /\ t \in t0..m-1 /\ u = t + 1 /\ q = p
           /\ p < a => Less(f, A[t], B[p])
        \/ /\ M[k] = B[p] /\ p \in 0..a-1 /\ u = t /\ q = p + 1
           /\ t < m => Less(f, B[p], A[t])
    BY <2>2
  <2>5. (M[l] = A[u] /\ u \in t0..m-1) \/ (M[l] = B[q] /\ q \in 0..a-1)
    BY <2>3
  <2> HIDE DEF t, p, l, u, q
  <2>6. CASE M[k] = A[t] /\ t \in t0..m-1 /\ u = t + 1 /\ q = p /\ (p < a => Less(f, A[t], B[p]))
    <3>1. CASE M[l] = A[u] /\ u \in t0..m-1
      <4>1. t < u
        BY <1>1, <2>6
      <4>2. Less(f, A[t], A[u])
        BY <1>2, <2>6, <3>1, <4>1
      <4> QED BY <2>6, <3>1, <4>2 DEF l
    <3>2. CASE M[l] = B[q] /\ q \in 0..a-1
      <4>1. p < a
        BY <1>1, <2>6, <3>2
      <4> QED BY <2>6, <3>2, <4>1 DEF l
    <3> QED BY <2>5, <3>1, <3>2
  <2>7. CASE M[k] = B[p] /\ p \in 0..a-1 /\ u = t /\ q = p + 1 /\ (t < m => Less(f, B[p], A[t]))
    <3>1. CASE M[l] = A[u] /\ u \in t0..m-1
      <4>1. t < m
        BY <1>1, <2>7, <3>1
      <4> QED BY <2>7, <3>1, <4>1 DEF l
    <3>2. CASE M[l] = B[q] /\ q \in 0..a-1
      <4>1. p < q
        BY <1>1, <2>7
      <4>2. Less(f, B[p], B[q])
        BY <1>2, <2>7, <3>2, <4>1
      <4> QED BY <2>7, <3>2, <4>2 DEF l
    <3> QED BY <2>5, <3>1, <3>2
  <2> QED BY <2>4, <2>6, <2>7
<1> HIDE DEF Takes
<1>10. \A k, l \in 0..n-1 : k < l => Less(f, M[k], M[l])
  BY <1>1, <1>8, <1>9, Neighbours
<1> QED BY <1>1, <1>8, <1>10, SortedAll

-----------------------------------------------------------------------------
(* The merge of suffix_array *)
Starts(A, n, SA12) == \A t \in Nat : A[t] = GetI(n, SA12[t])

\* The two lists of suffix_array can be merged: both sorted, together all suffixes.
LEMMA Merging ==
  ASSUME NEW n, NEW T, IsArray(T, n), n >= 2, NEW f, f = Extended(T, n), IsText(f, n),
         NEW m \in Nat, m = N02(n), NEW a \in Nat, a = N0(n), NEW SA12, NEW P, Sorts12(SA12, P, f, n, m),
         NEW SA0, SortsZeros(SA0, f, a), NEW t0, t0 = a - N1(n),
         NEW A, Starts(A, n, SA12)
  PROVE  /\ Mergeable(A, SA0, f, t0, m, a, n)
         /\ \A t \in t0..m-1 : A[t] % 3 # 0 /\ Place(n, A[t]) = SA12[t] /\ A[t] \in 1..n-1
         /\ \A p \in 0..a-1 : SA0[p] % 3 = 0 /\ SA0[p] \in 0..n-1
<1>1. n \in Nat /\ f \in [Nat -> Nat]
  BY DEF IsArray, IsText
<1>2. t0 \in {0, 1} /\ t0 <= m /\ (m - t0) + a = n /\ (t0 = 1 => n % 3 = 1) /\ 3 * a - 2 <= n /\ a >= 1
  <2>1. n >= 1
    BY <1>1
  <2> QED BY <1>1, <2>1, SMT DEF N0, N1, N02
<1>3. /\ SA12 \in [0..m-1 -> 0..m-1] /\ \A k \in 0..m-1 : \E i \in 0..m-1 : SA12[i] = k
      /\ \A h, k \in 0..m-1 : h < k => Less(f, GetI(n, SA12[h]), GetI(n, SA12[k]))
  BY DEF Sorts12, Bijection, Injection, Surjection
<1>4. /\ Sampled(n) \in SUBSET (1..n)
      /\ \A u \in 0..m-1 : GetI(n, u) \in Sampled(n) /\ Place(n, GetI(n, u)) = u
      /\ \A s \in Sampled(n) : Place(n, s) \in 0..m-1 /\ GetI(n, Place(n, s)) = s
  <2>1. n >= 1
    BY <1>1
  <2> QED BY <1>1, <2>1, Places
<1>5. \A t \in 0..m-1 : A[t] \in Sampled(n) /\ Place(n, A[t]) = SA12[t] /\ A[t] = GetI(n, SA12[t])
  <2> SUFFICES ASSUME NEW t \in 0..m-1 PROVE A[t] \in Sampled(n) /\ Place(n, A[t]) = SA12[t] /\ A[t] = GetI(n, SA12[t])
    OBVIOUS
  <2>1. A[t] = GetI(n, SA12[t])
    BY DEF Starts
  <2>2. SA12[t] \in 0..m-1
    BY <1>3
  <2> QED BY <1>4, <2>1, <2>2
<1>6. \A t, u \in 0..m-1 : t < u => Less(f, A[t], A[u])
  <2> SUFFICES ASSUME NEW t \in 0..m-1, NEW u \in 0..m-1, t < u PROVE Less(f, A[t], A[u])
    OBVIOUS
  <2>1. Less(f, GetI(n, SA12[t]), GetI(n, SA12[u]))
    BY <1>3
  <2> QED BY <1>5, <2>1
<1>7. \A s \in Sampled(n) : s % 3 # 0 /\ s \in 1..n /\ s <= n + t0 - 1
  <2>1. \A s \in Sampled(n) : s % 3 # 0 /\ s \in 1..n+(N0(n)-N1(n))-1
    BY DEF Sampled
  <2>2. N0(n) \in Int /\ N1(n) \in Int
    BY <1>1, Thirds
  <2> QED BY <1>1, <1>4, <2>1, <2>2
<1>8. ASSUME NEW t \in t0..m-1 PROVE A[t] # n
  <2>1. t \in 0..m-1 /\ t >= t0
    BY <1>2
  <2>2. A[t] \in Sampled(n)
    BY <1>5, <2>1
  <2>3. CASE t0 = 0
    <3>1. A[t] <= n - 1
      BY <1>1, <1>7, <2>2, <2>3
    <3> QED BY <1>1, <3>1
  <2>4. CASE t0 = 1
    <3> SUFFICES ASSUME A[t] = n PROVE FALSE
      OBVIOUS
    <3>1. 0 \in 0..m-1 /\ 0 < t
      BY <1>2, <2>1, <2>4
    <3> DEFINE s == A[0]
    <3>2. Less(f, s, n)
      BY <1>6, <2>1, <3>1
    <3>3. s \in 1..n
      BY <1>5, <1>7, <3>1
    <3> HIDE DEF s
    <3>4. s \in Nat /\ n \in Nat
      BY <1>1, <3>3
    <3>5. s # n
      BY <1>1, <3>2, <3>4, LessStrict
    <3>6. f[s] > 0 /\ f[n] = 0
      BY <1>1, <3>3, <3>5, TextIs
    <3>7. Less(f, n, s)
      BY <1>1, <3>4, <3>6, LessSteps
    <3> QED BY <1>1, <3>2, <3>4, <3>7, LessStrict
  <2> QED BY <1>2, <2>3, <2>4
<1>9. ASSUME NEW t \in t0..m-1 PROVE A[t] % 3 # 0 /\ Place(n, A[t]) = SA12[t] /\ A[t] \in 1..n-1
  <2>1. t \in 0..m-1
    BY <1>2
  <2>2. A[t] \in Sampled(n) /\ Place(n, A[t]) = SA12[t]
    BY <1>5, <2>1
  <2>3. A[t] % 3 # 0 /\ A[t] \in 1..n /\ A[t] # n
    BY <1>7, <1>8, <2>2
  <2> QED BY <1>1, <2>2, <2>3
<1>10. /\ \A p \in 0..a-1 : SA0[p] \in Triples3(a)
       /\ \A k, l \in 0..a-1 : k < l => Less(f, SA0[k], SA0[l])
  BY DEF SortsZeros, Bijection, Injection
<1>11. \A s \in Triples3(a) : s % 3 = 0 /\ s \in 0..n-1
  <2> SUFFICES ASSUME NEW v \in 0..a-1 PROVE (3 * v) % 3 = 0 /\ 3 * v \in 0..n-1
    BY DEF Triples3
  <2> QED BY <1>1, <1>2
<1>12. \A p \in 0..a-1 : SA0[p] % 3 = 0 /\ SA0[p] \in 0..n-1
  BY <1>10, <1>11
<1>13. ASSUME NEW t \in t0..m-1, NEW p \in 0..a-1 PROVE Less(f, A[t], SA0[p]) \/ Less(f, SA0[p], A[t])
  <2> DEFINE i == A[t]
             j == SA0[p]
  <2>1. i % 3 # 0 /\ i \in 1..n-1 /\ j % 3 = 0 /\ j \in 0..n-1
    BY <1>9, <1>12
  <2> HIDE DEF i, j
  <2>2. i \in 0..n /\ j \in 0..n /\ i # j /\ i # n /\ j # n
    BY <1>1, <2>1
  <2>3. Less(f, i, j) \/ Less(f, j, i)
    BY <2>2, LessTotal
  <2> QED BY <2>3 DEF i, j
<1>14. \A t, u \in t0..m-1 : t < u => Less(f, A[t], A[u])
  <2>1. \A t \in t0..m-1 : t \in 0..m-1
    BY <1>2
  <2> QED BY <1>6, <2>1
<1>15. \A t \in t0..m-1 : A[t] \in 0..n-1
  BY <1>1, <1>9
<1>16. t0 \in Nat
  BY <1>2
<1>17. Mergeable(A, SA0, f, t0, m, a, n)
  BY <1>1, <1>2, <1>10, <1>12, <1>13, <1>14, <1>15, <1>16 DEF Mergeable
<1> QED BY <1>9, <1>12, <1>17

\* The merge takes the smaller of the two that are next.
LEMMA MergedSorts ==
  ASSUME NEW n, NEW T, IsArray(T, n), n >= 2, NEW f, f = Extended(T, n), IsText(f, n),
         NEW m \in Nat, m = N02(n), NEW a \in Nat, a = N0(n), NEW SA12, NEW P, Sorts12(SA12, P, f, n, m),
         NEW SA0, SortsZeros(SA0, f, a), NEW Q, RanksAll(Q, f, n)
  PROVE  SortsSuffixes(Merged(T, Q, SA12, SA0, n), f, n)
<1> DEFINE t0 == a - N1(n)
           A == [t \in Nat |-> GetI(n, SA12[t])]
           M == Merged(T, Q, SA12, SA0, n)
           Takes(at) == Takes12(T, Q, SA12, SA0, n, at)
<1>1. n \in Nat
  BY DEF IsArray
<1>2. t0 = a - N1(n) /\ Starts(A, n, SA12)
  BY DEF Starts
<1>3. PICK h : Turns(T, Q, SA12, SA0, n, h)
  BY <1>1, TurnsExist
<1>4. /\ h \in [0..n -> Places2]
      /\ h[0] = [t |-> t0, p |-> 0]
      /\ \A k \in 0..n-1 : h[k + 1] = IF Takes(h[k]) THEN [h[k] EXCEPT !.t = @ + 1] ELSE [h[k] EXCEPT !.p = @ + 1]
      /\ M = [k \in 0..n-1 |-> IF Takes(h[k]) THEN GetI(n, SA12[h[k].t]) ELSE SA0[h[k].p]]
  BY <1>3, Zenon DEF Turns, Turn
<1> HIDE DEF t0, A
<1>5. /\ Mergeable(A, SA0, f, t0, m, a, n)
      /\ \A t \in t0..m-1 : A[t] % 3 # 0 /\ Place(n, A[t]) = SA12[t] /\ A[t] \in 1..n-1
      /\ \A p \in 0..a-1 : SA0[p] % 3 = 0 /\ SA0[p] \in 0..n-1
  BY <1>1, <1>2, Merging
<1>6. ASSUME NEW t \in t0..m-1, NEW p \in 0..a-1
      PROVE  Smaller(T, Q, n, SA12[t], SA0[p]) <=> Less(f, A[t], SA0[p])
  <2> DEFINE i == A[t]
             j == SA0[p]
  <2>1. i \in 1..n-1 /\ i % 3 # 0 /\ j \in 0..n-1 /\ j % 3 = 0 /\ Place(n, i) = SA12[t]
    BY <1>5
  <2> HIDE DEF i, j
  <2>2. Smaller(T, Q, n, Place(n, i), j) <=> Less(f, i, j)
    BY <1>1, <2>1, SmallerIs
  <2> QED BY <2>1, <2>2 DEF i, j
<1>7. \A at : Takes(at) <=> (at.t < m /\ (at.p = a \/ Smaller(T, Q, n, SA12[at.t], SA0[at.p])))
  BY Zenon DEF Takes12
<1> HIDE DEF M, Takes
<1> DEFINE tk == {k \in 0..n-1 : Takes(h[k])}
<1>8. t0 \in Nat
  BY <1>5 DEF Mergeable
<1>9. ASSUME NEW k \in 0..n-1 PROVE
        /\ k \in tk => h[k + 1] = [h[k] EXCEPT !.t = @ + 1] /\ M[k] = A[h[k].t]
        /\ k \notin tk => h[k + 1] = [h[k] EXCEPT !.p = @ + 1] /\ M[k] = SA0[h[k].p]
        /\ k \in tk => h[k].t < m /\ (h[k].p < a /\ t0 <= h[k].t => Less(f, A[h[k].t], SA0[h[k].p]))
        /\ k \notin tk => \/ h[k].t >= m
                          \/ h[k].p # a /\ (h[k].p < a /\ t0 <= h[k].t /\ h[k].t < m => ~Less(f, A[h[k].t], SA0[h[k].p]))
  <2> DEFINE t == h[k].t
             p == h[k].p
  <2>1. t \in Nat /\ p \in Nat
    <3>1. k \in 0..n
      BY <1>1
    <3> QED BY <1>4, <3>1 DEF Places2
  <2>2. A[t] = GetI(n, SA12[t])
    BY <1>2, <2>1 DEF Starts
  <2>3. M[k] = IF Takes(h[k]) THEN GetI(n, SA12[t]) ELSE SA0[p]
    BY <1>4
  <2>4. Takes(h[k]) <=> (t < m /\ (p = a \/ Smaller(T, Q, n, SA12[t], SA0[p])))
    BY <1>7
  <2>5. h[k + 1] = IF Takes(h[k]) THEN [h[k] EXCEPT !.t = @ + 1] ELSE [h[k] EXCEPT !.p = @ + 1]
    BY <1>4
  <2>6. k \in tk <=> Takes(h[k])
    OBVIOUS
  <2> HIDE DEF t, p, tk
  <2>7. ASSUME p < a, t0 <= t, t < m PROVE Smaller(T, Q, n, SA12[t], SA0[p]) <=> Less(f, A[t], SA0[p])
    <3>1. t \in t0..m-1 /\ p \in 0..a-1
      BY <1>8, <2>1, <2>7
    <3> QED BY <1>6, <3>1
  <2>8. p < a => p # a
    BY <2>1
  <2>9. t < m \/ t >= m
    BY <2>1
  <2>10. k \in tk => h[k + 1] = [h[k] EXCEPT !.t = @ + 1] /\ M[k] = A[t]
    BY <2>2, <2>3, <2>5, <2>6
  <2>11. k \notin tk => h[k + 1] = [h[k] EXCEPT !.p = @ + 1] /\ M[k] = SA0[p]
    BY <2>3, <2>5, <2>6
  <2>12. k \in tk => t < m /\ (p < a /\ t0 <= t => Less(f, A[t], SA0[p]))
    BY <2>4, <2>6, <2>7, <2>8
  <2>13. k \notin tk => \/ t >= m
                        \/ p # a /\ (p < a /\ t0 <= t /\ t < m => ~Less(f, A[t], SA0[p]))
    BY <2>4, <2>6, <2>7, <2>9
  <2> QED BY <2>10, <2>11, <2>12, <2>13 DEF t, p
<1> HIDE DEF tk
<1>10. Merges(h, tk, M, A, SA0, f, t0, m, a, n)
  <2>1. h \in [0..n -> Places2] /\ h[0] = [t |-> t0, p |-> 0]
    BY <1>4
  <2> QED BY <1>9, <2>1, Zenon DEF Merges
<1>11. IsList(M, n)
  <2>1. \A k \in 0..n-1 : M[k] = IF Takes(h[k]) THEN GetI(n, SA12[h[k].t]) ELSE SA0[h[k].p]
    BY <1>4
  <2>2. DOMAIN M = 0..n-1 /\ M = [k \in DOMAIN M |-> M[k]]
    BY <1>4
  <2> QED BY <2>2 DEF IsList
<1>12. SortsSuffixes(M, f, n)
  BY <1>5, <1>10, <1>11, MergeSorts
<1> QED BY <1>12 DEF M

-----------------------------------------------------------------------------
(* The body of suffix_array *)
\* shorter sorts the names' suffixes.
SortsNames(shorter, m) ==
  \A R \in [0..m-1 -> 1..m] : SortsSuffixes(shorter[Padded(R, m)], Extended(Padded(R, m), m), m)

\* The triples are sorted and named.
LEMMA TriplesNamed ==
  ASSUME NEW n, NEW T, IsArray(T, n), n >= 2, NEW f, f = Extended(T, n),
         NEW m \in Nat \ {0}, m = N02(n), NEW tr, tr = Triples(T, n)
  PROVE  tr \in Bijection(0..m-1, Sampled(n)) /\ Named(Names(T, tr, m), tr, f, m)
<1>1. n \in Nat /\ n >= 1 /\ f \in [Nat -> Nat]
  <2>1. n \in Nat /\ f \in [Nat -> Nat]
    BY ExtendedIs DEF IsArray
  <2> QED BY <2>1
<1>2. /\ tr \in Bijection(0..m-1, Sampled(n))
      /\ \A k, l \in 0..m-1 : k < l => TripleBefore(f, tr[k], tr[l]) \/ SameTriple(f, tr[k], tr[l])
  BY <1>1, TriplesSorted
<1>3. Sampled(n) \in SUBSET (1..n)
  BY <1>1, Places
<1>4. Sampled(n) \in SUBSET Nat /\ tr \in [0..m-1 -> Sampled(n)]
  BY <1>2, <1>3 DEF Bijection, Injection
<1>5. \A s \in Sampled(n) : \A d \in 0..2 : T[s + d] = f[s + d]
  <2>1. \A i \in 0..n+2 : f[i] = T[i]
    BY ExtendedIs
  <2> SUFFICES ASSUME NEW s \in Sampled(n), NEW d \in 0..2 PROVE T[s + d] = f[s + d]
    OBVIOUS
  <2>2. s + d \in 0..n+2
    BY <1>1, <1>3
  <2> QED BY <2>1, <2>2
<1>6. Agrees(T, f, Sampled(n)) /\ ByTriples(tr, f, m)
  BY <1>2, <1>5, Zenon DEF Agrees, ByTriples
<1> DEFINE S == Sampled(n)
<1>7. S \in SUBSET Nat /\ tr \in [0..m-1 -> S] /\ Agrees(T, f, S)
  BY <1>4, <1>6
<1> HIDE DEF S
<1>8. Named(Names(T, tr, m), tr, f, m)
  BY <1>1, <1>6, <1>7, NamesAre
<1> QED BY <1>2, <1>8

\* At most one of <, = and > holds.
LEMMA Trichotomy ==
  \A m \in Nat : \A v, w \in 1..m : ~(v = w /\ v < w) /\ ~(v = w /\ w < v) /\ ~(v < w /\ w < v)
OBVIOUS

\* Names compare as the triples do.
LEMMA NamesOfTriples ==
  ASSUME NEW n \in Nat, NEW f \in [Nat -> Nat], NEW m \in Nat \ {0}, NEW tr \in [0..m-1 -> Nat], NEW nm, NEW R,
         Named(nm, tr, f, m), Placed(R, tr, nm, n, m)
  PROVE  /\ R \in [0..m-1 -> 1..m] /\ Names3(R, f, n, m) /\ nm[m - 1] \in 1..m
         /\ ~(nm[m - 1] < m) => AllDifferent(R, n, m, tr)
<1>1. m \in Nat
  OBVIOUS
<1>6. /\ nm \in [0..m-1 -> 1..m]
      /\ \A k, l \in 0..m-1 : k < l => \/ nm[k] = nm[l] /\ SameTriple(f, tr[k], tr[l])
                                       \/ nm[k] < nm[l] /\ TripleBefore(f, tr[k], tr[l])
      /\ ~(nm[m - 1] < m) => \A k \in 0..m-1 : nm[k] = k + 1
  BY Zenon DEF Named
<1>7. /\ R \in [0..m-1 -> 1..m]
      /\ \A i \in 0..m-1 : Place(n, tr[i]) \in 0..m-1 /\ R[Place(n, tr[i])] = nm[i]
      /\ \A u \in 0..m-1 : \E i \in 0..m-1 : GetI(n, u) = tr[i] /\ R[u] = nm[i]
  BY Zenon DEF Placed
<1>8. ASSUME NEW i \in 0..m-1, NEW j \in 0..m-1
      PROVE  /\ nm[i] = nm[j] <=> SameTriple(f, tr[i], tr[j])
             /\ nm[i] < nm[j] <=> TripleBefore(f, tr[i], tr[j])
  <2> DEFINE s == tr[i]
             t == tr[j]
  <2>1. s \in Nat /\ t \in Nat
    OBVIOUS
  <2>2. /\ ~(TripleBefore(f, s, t) /\ SameTriple(f, s, t))
        /\ ~(TripleBefore(f, t, s) /\ SameTriple(f, t, s))
        /\ ~(TripleBefore(f, s, t) /\ TripleBefore(f, t, s))
        /\ SameTriple(f, s, s)
        /\ SameTriple(f, s, t) <=> SameTriple(f, t, s)
    BY <1>1, <2>1, TripleOrder
  <2>3. /\ ~(nm[i] = nm[j] /\ nm[i] < nm[j]) /\ ~(nm[i] = nm[j] /\ nm[j] < nm[i])
        /\ ~(nm[i] < nm[j] /\ nm[j] < nm[i])
    <3>1. nm \in [0..m-1 -> 1..m]
      BY <1>6
    <3>2. nm[i] \in 1..m /\ nm[j] \in 1..m
      BY <3>1, Zenon
    <3> QED BY <1>1, <3>2, Trichotomy, Zenon
  <2>4. i < j => \/ nm[i] = nm[j] /\ SameTriple(f, s, t)
                 \/ nm[i] < nm[j] /\ TripleBefore(f, s, t)
    BY <1>6
  <2>5. j < i => \/ nm[j] = nm[i] /\ SameTriple(f, t, s)
                 \/ nm[j] < nm[i] /\ TripleBefore(f, t, s)
    BY <1>6
  <2>6. i = j => s = t /\ nm[i] = nm[j]
    OBVIOUS
  <2>7. i < j \/ j < i \/ i = j
    OBVIOUS
  <2> HIDE DEF s, t
  <2>8. CASE i < j
    BY <2>2, <2>3, <2>4, <2>8, Zenon DEF s, t
  <2>9. CASE j < i
    BY <2>2, <2>3, <2>5, <2>9, Zenon DEF s, t
  <2>10. CASE i = j
    BY <2>2, <2>3, <2>6, <2>10, Zenon DEF s, t
  <2> QED BY <2>7, <2>8, <2>9, <2>10 DEF s, t
<1>9. Names3(R, f, n, m)
  <2> SUFFICES ASSUME NEW u \in 0..m-1, NEW v \in 0..m-1
               PROVE  /\ R[u] = R[v] <=> SameTriple(f, GetI(n, u), GetI(n, v))
                      /\ R[u] < R[v] <=> TripleBefore(f, GetI(n, u), GetI(n, v))
    BY Zenon DEF Names3
  <2>1. PICK i \in 0..m-1 : GetI(n, u) = tr[i] /\ R[u] = nm[i]
    BY <1>7
  <2>2. PICK j \in 0..m-1 : GetI(n, v) = tr[j] /\ R[v] = nm[j]
    BY <1>7
  <2> QED BY <1>8, <2>1, <2>2, Zenon
<1>10. nm[m - 1] \in 1..m
  <2>1. m - 1 \in 0..m-1
    BY <1>1
  <2> QED BY <1>6, <2>1
<1>11. ASSUME ~(nm[m - 1] < m) PROVE AllDifferent(R, n, m, tr)
  <2>1. \A k \in 0..m-1 : nm[k] = k + 1
    BY <1>6, <1>11
  <2> QED BY <1>7, <2>1, Zenon DEF AllDifferent
<1> QED BY <1>7, <1>9, <1>10, <1>11

\* suffix_array sorts the suffixes, if what it calls does.
LEMMA SortedIs ==
  ASSUME NEW n, NEW T, IsArray(T, n), n >= 2, NEW f, f = Extended(T, n), IsText(f, n),
         NEW shorter, N02(n) >= 2 => SortsNames(shorter, N02(n))
  PROVE  SortsSuffixes(sorted(n, T, shorter), f, n)
<1> DEFINE m      == N02(n)
           a      == N0(n)
           tr     == Triples(T, n)
           nm     == Names(T, tr, m)
           R      == ByPlace(n, tr, nm)
           repeat == nm[m - 1] < m
           SA12   == Sorted12(R, m, repeat, shorter)
           P      == Ranks(R, SA12, m, repeat)
           SA0    == radix_pass(Zeros(n, SA12), T, 0, a)
<1>1. sorted(n, T, shorter) = Merged(T, Padded(P, m), SA12, SA0, n)
  BY Zenon DEF sorted
<1>2. n \in Nat /\ f \in [Nat -> Nat]
  BY ExtendedIs DEF IsArray
<1>3. m \in Nat \ {0} /\ a \in Nat
  BY <1>2, SMT DEF N02, N0
<1>4. m = N02(n) /\ a = N0(n) /\ tr = Triples(T, n) /\ nm = Names(T, tr, m) /\ R = ByPlace(n, tr, nm)
  OBVIOUS
<1>5. SA12 = Sorted12(R, m, repeat, shorter) /\ P = Ranks(R, SA12, m, repeat)
  OBVIOUS
<1>6. SA0 = radix_pass(Zeros(n, SA12), T, 0, a)
  OBVIOUS
<1> HIDE DEF m, a, tr, nm, R, SA12, P, SA0
<1>7. /\ R \in [0..m-1 -> 1..m] /\ Names3(R, f, n, m) /\ nm[m - 1] \in 1..m
      /\ ~repeat => AllDifferent(R, n, m, tr)
  <2>1. tr \in Bijection(0..m-1, Sampled(n)) /\ Named(Names(T, tr, m), tr, f, m)
    BY <1>3, <1>4, TriplesNamed
  <2>2. Named(nm, tr, f, m) /\ nm \in [0..m-1 -> 1..m]
    BY <1>4, <2>1 DEF Named
  <2>3. n >= 1
    BY <1>2
  <2>4. Placed(R, tr, nm, n, m)
    <3>1. Placed(ByPlace(n, tr, nm), tr, nm, n, m)
      BY <1>2, <1>4, <2>1, <2>2, <2>3, ByPlaceIs
    <3> QED BY <1>4, <3>1
  <2>5. tr \in [0..m-1 -> Nat]
    <3>1. Sampled(n) \in SUBSET (1..n)
      BY <1>2, <2>3, Places
    <3>2. tr \in [0..m-1 -> Sampled(n)]
      BY <2>1 DEF Bijection, Injection
    <3> QED BY <3>1, <3>2
  <2> QED BY <1>2, <1>3, <2>2, <2>4, <2>5, NamesOfTriples
<1>8. Sorts12(SA12, P, f, n, m)
  <2>1. CASE repeat
    <3>1. SA12 = Sorted12(R, m, TRUE, shorter) /\ P = Ranks(R, SA12, m, TRUE)
      BY <1>5, <2>1, Zenon DEF Sorted12, Ranks
    <3>2. m >= 2
      BY <1>3, <1>7, <2>1
    <3>3. SortsSuffixes(shorter[Padded(R, m)], Extended(Padded(R, m), m), m)
      BY <1>4, <1>7, <3>2 DEF SortsNames
    <3> HIDE DEF repeat
    <3>4. Sorts12(SA12, Ranks(R, SA12, m, TRUE), f, n, m)
      BY <1>2, <1>3, <1>4, <1>7, <3>1, <3>3, NamesSorted
    <3> QED BY <3>1, <3>4
  <2>2. CASE ~repeat
    <3>1. SA12 = Sorted12(R, m, FALSE, shorter) /\ P = Ranks(R, SA12, m, FALSE)
      BY <1>5, <2>2, Zenon DEF Sorted12, Ranks
    <3>2. AllDifferent(R, n, m, tr)
      BY <1>7, <2>2
    <3> HIDE DEF repeat
    <3>3. Sorts12(SA12, Ranks(R, SA12, m, FALSE), f, n, m)
      BY <1>2, <1>3, <1>4, <1>7, <3>1, <3>2, DistinctNames
    <3> QED BY <3>1, <3>3
  <2> QED BY <2>1, <2>2
<1> HIDE DEF repeat
<1>9. RanksAll(Padded(P, m), f, n)
  BY <1>2, <1>4, <1>8, RanksAre
<1>10. SortsZeros(SA0, f, a)
  BY <1>3, <1>4, <1>6, <1>8, ZerosSorted
<1>11. SortsSuffixes(Merged(T, Padded(P, m), SA12, SA0, n), f, n)
  BY <1>3, <1>4, <1>8, <1>9, <1>10, MergedSorts
<1> QED BY <1>1, <1>11

-----------------------------------------------------------------------------
(* The recursion *)
\* Two names need no recursion: there is one triple.
LEMMA TwoAlone ==
  ASSUME NEW T, NEW r, NEW s
  PROVE  sorted(2, T, r) = sorted(2, T, s)
<1> DEFINE m      == N02(2)
           tr     == Triples(T, 2)
           nm     == Names(T, tr, m)
           R      == ByPlace(2, tr, nm)
           repeat == nm[m - 1] < m
           D(i)   == {h \in 0..i : Differs(T, tr, h)}
<1>1. m = 1
  BY SMT DEF N02, N0
<1> HIDE DEF m, tr
<1>2. nm = [i \in 0..m-1 |-> Cardinality(D(i))]
  BY StoredIs DEF Names
<1>3. D(0) = {0}
  BY DEF Differs
<1> HIDE DEF D
<1>4. nm[m - 1] = Cardinality(D(0))
  BY <1>1, <1>2
<1>5. ~repeat
  <2>1. Cardinality({0}) = 1
    BY FS_Singleton
  <2> QED BY <1>1, <1>3, <1>4, <2>1
<1> HIDE DEF repeat, nm, R
<1>6. Sorted12(R, m, repeat, r) = Sorted12(R, m, repeat, s)
  BY <1>5, Zenon DEF Sorted12
<1>7. \A q : sorted(2, T, q) = Merged(T, Padded(Ranks(R, Sorted12(R, m, repeat, q), m, repeat), m),
                                      Sorted12(R, m, repeat, q),
                                      radix_pass(Zeros(2, Sorted12(R, m, repeat, q)), T, 0, N0(2)), 2)
  BY Zenon DEF sorted, repeat, R, nm, tr, m
<1> QED BY <1>6, <1>7, Zenon

Body(n, g) == [T \in [0..n+2 -> Nat] |-> sorted(n, T, g[N02(n)])]

Upto(g, b) == g = [n \in Nat |-> g[n]] /\ \A n \in Nat : 2 <= n /\ n <= b => g[n] = Body(n, g)

\* The recursive call is for a shorter text.
LEMMA Smaller02 ==
  ASSUME NEW n \in Nat, n >= 2
  PROVE  N02(n) \in Nat /\ N02(n) < n /\ (n # 2 => N02(n) >= 2)
BY SMT DEF N02, N0

\* The body asks the recursive call for one length only.
LEMMA BodySame ==
  ASSUME NEW n \in Nat, n >= 2, NEW g, NEW h, n # 2 => g[N02(n)] = h[N02(n)]
  PROVE  Body(n, g) = Body(n, h)
<1>1. CASE n = 2
  BY <1>1, TwoAlone, Zenon DEF Body
<1>2. CASE n # 2
  BY <1>2, Zenon DEF Body
<1> QED BY <1>1, <1>2

\* suffix_array exists up to every length.
LEMMA UptoExists ==
  ASSUME NEW b \in Nat
  PROVE  \E g : Upto(g, b)
<1> DEFINE S == {k \in Nat : \E g : Upto(g, k)}
<1>1. 0 \in S
  <2> DEFINE g == [n \in Nat |-> 0]
  <2>1. \A n \in Nat : ~(2 <= n /\ n <= 0)
    OBVIOUS
  <2>2. g = [n \in Nat |-> g[n]]
    OBVIOUS
  <2> HIDE DEF g
  <2>3. Upto(g, 0)
    BY <2>1, <2>2 DEF Upto
  <2> QED BY <2>3
<1>2. ASSUME NEW k \in Nat, k \in S PROVE k + 1 \in S
  <2>1. PICK g : Upto(g, k)
    BY <1>2
  <2> DEFINE b1 == k + 1
             h == [n \in Nat |-> IF n = b1 THEN Body(b1, g) ELSE g[n]]
  <2>2. b1 = k + 1 /\ b1 \in Nat
    OBVIOUS
  <2> HIDE DEF b1
  <2>3. h = [n \in Nat |-> h[n]]
    OBVIOUS
  <2>4. \A n \in Nat : h[n] = IF n = b1 THEN Body(b1, g) ELSE g[n]
    OBVIOUS
  <2> HIDE DEF h
  <2>5. ASSUME NEW n \in Nat, 2 <= n, n <= b1 PROVE h[n] = Body(n, h)
    <3>1. N02(n) \in Nat /\ N02(n) < n
      BY <2>5, Smaller02
    <3>2. h[N02(n)] = g[N02(n)]
      <4>1. N02(n) # b1
        BY <2>2, <2>5, <3>1
      <4> QED BY <2>4, <3>1, <4>1
    <3>3. Body(n, h) = Body(n, g)
      <4>1. n >= 2
        BY <2>5
      <4> QED BY <3>2, <4>1, BodySame
    <3>4. CASE n = b1
      BY <2>4, <3>3, <3>4
    <3>5. CASE n # b1
      <4>1. n <= k
        BY <2>2, <2>5, <3>5
      <4>2. g[n] = Body(n, g)
        BY <2>1, <2>5, <4>1 DEF Upto
      <4> QED BY <2>4, <3>3, <3>5, <4>2
    <3> QED BY <3>4, <3>5
  <2>6. Upto(h, b1)
    BY <2>3, <2>5 DEF Upto
  <2> QED BY <2>2, <2>6
<1>3. Nat \subseteq S
  <2> HIDE DEF S
  <2> QED BY <1>1, <1>2, Induction
<1> QED BY <1>3

LEMMA UptoUnique ==
  ASSUME NEW b \in Nat, NEW c \in Nat, NEW g, NEW h, Upto(g, b), Upto(h, c), NEW n \in Nat, 2 <= n, n <= b, n <= c
  PROVE  g[n] = h[n]
<1> DEFINE S == {k \in Nat : \A i \in 2..k : i <= b /\ i <= c => g[i] = h[i]}
<1>1. 0 \in S
  OBVIOUS
<1>2. ASSUME NEW k \in Nat, k \in S PROVE k + 1 \in S
  <2> SUFFICES ASSUME NEW i \in 2..k+1, i <= b, i <= c PROVE g[i] = h[i]
    OBVIOUS
  <2>1. i \in Nat /\ i >= 2
    OBVIOUS
  <2>2. N02(i) \in Nat /\ N02(i) < i /\ (i # 2 => N02(i) >= 2)
    BY <2>1, Smaller02
  <2>3. i # 2 => g[N02(i)] = h[N02(i)]
    <3> SUFFICES ASSUME i # 2 PROVE g[N02(i)] = h[N02(i)]
      OBVIOUS
    <3> DEFINE j == N02(i)
    <3>1. j \in 2..k /\ j <= b /\ j <= c
      BY <2>1, <2>2
    <3> HIDE DEF j
    <3>2. g[j] = h[j]
      BY <1>2, <3>1
    <3> QED BY <3>2 DEF j
  <2>4. Body(i, g) = Body(i, h)
    BY <2>1, <2>3, BodySame
  <2>5. g[i] = Body(i, g) /\ h[i] = Body(i, h)
    BY <2>1 DEF Upto
  <2> QED BY <2>4, <2>5
<1>3. n \in S
  <2> HIDE DEF S
  <2> QED BY <1>1, <1>2, Induction
<1> QED BY <1>3

\* The recursion of suffix_array ends.
LEMMA SuffixArrayCalls ==
  ASSUME NEW n \in Nat, n >= 2, NEW T \in [0..n+2 -> Nat]
  PROVE  suffix_array[n][T] = sorted(n, T, suffix_array[N02(n)])
<1> DEFINE N2 == Nat \ {0, 1}
           Is(g) == g = [k \in N2 |-> [U \in [0..k+2 -> Nat] |-> sorted(k, U, g[N02(k)])]]
           C(b) == CHOOSE g : Upto(g, b)
           G == [k \in N2 |-> C(k)[k]]
<1>1. \A k \in N2 : k \in Nat /\ k >= 2
  OBVIOUS
<1>2. \A b \in Nat : Upto(C(b), b)
  BY UptoExists, Zenon
<1> HIDE DEF C
<1>3. \A k \in N2 : G[k] = Body(k, G)
  <2> SUFFICES ASSUME NEW k \in N2 PROVE G[k] = Body(k, G)
    OBVIOUS
  <2>1. k \in Nat /\ k >= 2 /\ 2 <= k /\ k <= k
    BY <1>1
  <2>2. G[k] = C(k)[k]
    OBVIOUS
  <2>3. C(k)[k] = Body(k, C(k))
    BY <1>2, <2>1 DEF Upto
  <2>4. N02(k) \in Nat /\ N02(k) < k /\ (k # 2 => N02(k) >= 2)
    BY <2>1, Smaller02
  <2>5. k # 2 => C(k)[N02(k)] = G[N02(k)]
    <3> SUFFICES ASSUME k # 2 PROVE C(k)[N02(k)] = G[N02(k)]
      OBVIOUS
    <3> DEFINE j == N02(k)
    <3>1. j \in Nat /\ 2 <= j /\ j <= k /\ j <= j /\ j \in N2
      BY <2>1, <2>4
    <3> HIDE DEF j
    <3>2. Upto(C(k), k) /\ Upto(C(j), j)
      BY <1>2, <2>1, <3>1
    <3>3. C(k)[j] = C(j)[j]
      BY <2>1, <3>1, <3>2, UptoUnique
    <3>4. G[j] = C(j)[j]
      BY <3>1
    <3> QED BY <3>3, <3>4 DEF j
  <2> HIDE DEF G
  <2>6. Body(k, C(k)) = Body(k, G)
    BY <2>1, <2>5, BodySame
  <2> QED BY <2>2, <2>3, <2>6
<1>4. Is(G)
  <2>1. G = [k \in N2 |-> G[k]]
    OBVIOUS
  <2> HIDE DEF G, N2
  <2>2. \A k \in N2 : G[k] = [U \in [0..k+2 -> Nat] |-> sorted(k, U, G[N02(k)])]
    BY <1>3, Zenon DEF Body
  <2> QED BY <2>1, <2>2, Zenon
<1>5. Is(suffix_array)
  <2> HIDE DEF G
  <2> QED BY <1>4, Zenon DEF suffix_array
<1>6. n \in N2
  OBVIOUS
<1>7. suffix_array[n] = [U \in [0..n+2 -> Nat] |-> sorted(n, U, suffix_array[N02(n)])]
  <2> HIDE DEF N2
  <2> QED BY <1>5, <1>6, Zenon
<1> QED BY <1>7, Zenon

\* suffix_array sorts the suffixes of a text.
THEOREM SuffixArrayIs ==
  ASSUME NEW n \in Nat, n >= 2, NEW T, IsArray(T, n), IsText(Extended(T, n), n)
  PROVE  SortsSuffixes(suffix_array[n][T], Extended(T, n), n)
<1> DEFINE Good(k) == \A U \in [0..k+2 -> Nat] : IsArray(U, k) /\ IsText(Extended(U, k), k)
                        => SortsSuffixes(suffix_array[k][U], Extended(U, k), k)
           S == {k \in Nat : \A i \in 2..k : Good(i)}
<1>1. 0 \in S
  OBVIOUS
<1>2. ASSUME NEW k \in Nat, k \in S PROVE k + 1 \in S
  <2>1. \A i \in 2..k : Good(i)
    BY <1>2
  <2> SUFFICES ASSUME NEW i \in 2..k+1 PROVE Good(i)
    OBVIOUS
  <2> SUFFICES ASSUME NEW U \in [0..i+2 -> Nat], IsArray(U, i), IsText(Extended(U, i), i)
               PROVE  SortsSuffixes(suffix_array[i][U], Extended(U, i), i)
    OBVIOUS
  <2> HIDE DEF Good
  <2>2. i \in Nat /\ i >= 2
    OBVIOUS
  <2>3. suffix_array[i][U] = sorted(i, U, suffix_array[N02(i)])
    BY <2>2, SuffixArrayCalls
  <2> DEFINE m == N02(i)
             shorter == suffix_array[m]
  <2>4. m \in Nat /\ m < i
    BY <2>2, Smaller02
  <2>5. m >= 2 => SortsNames(shorter, m)
    <3> SUFFICES ASSUME m >= 2, NEW R \in [0..m-1 -> 1..m]
                 PROVE  SortsSuffixes(shorter[Padded(R, m)], Extended(Padded(R, m), m), m)
      BY DEF SortsNames
    <3> HIDE DEF m
    <3>1. IsArray(Padded(R, m), m) /\ Padded(R, m) \in [0..m+2 -> Nat] /\ IsText(Extended(Padded(R, m), m), m)
      BY <2>4, PositiveText
    <3>2. m \in 2..k
      BY <2>2, <2>4
    <3>3. Good(m)
      BY <2>1, <3>2
    <3> QED BY <3>1, <3>3 DEF Good
  <2>6. SortsSuffixes(sorted(i, U, suffix_array[N02(i)]), Extended(U, i), i)
    BY <2>2, <2>5, SortedIs
  <2> QED BY <2>3, <2>6
<1>3. n \in S
  <2> HIDE DEF S
  <2> QED BY <1>1, <1>2, Induction
<1>4. Good(n)
  <2> HIDE DEF Good
  <2>1. n \in 2..n
    OBVIOUS
  <2> QED BY <1>3, <2>1
<1>5. T \in [0..n+2 -> Nat]
  BY DEF IsArray
<1> QED BY <1>4, <1>5

-----------------------------------------------------------------------------
(* The suffixes of a marked text *)
IsInput(d) == d \in Seq(Symbols) /\ d # <<>>

TextOf(d) == Extended(Padded(Marked(d), Len(d) + 1), Len(d) + 1)

LEMMA InputLength ==
  ASSUME NEW d, IsInput(d)
  PROVE  /\ Len(d) \in Nat \ {0} /\ Len(d) + 1 \in Nat /\ Len(d) + 1 >= 2
         /\ DOMAIN d = 1..Len(d) /\ \A i \in 1..Len(d) : d[i] \in Symbols /\ d[i] \in Nat
<1>1. d \in Seq(Symbols) /\ d # <<>>
  BY DEF IsInput
<1>2. Len(d) \in Nat /\ DOMAIN d = 1..Len(d) /\ \A i \in 1..Len(d) : d[i] \in Symbols
  BY <1>1
<1>3. Len(d) # 0
  BY <1>1
<1>4. Symbols \subseteq Nat
  BY DEF Symbols
<1>5. \A i \in 1..Len(d) : d[i] \in Symbols /\ d[i] \in Nat
  BY <1>2, <1>4
<1>6. Len(d) \in Nat \ {0} /\ Len(d) + 1 \in Nat /\ Len(d) + 1 >= 2
  <2> DEFINE k == Len(d)
  <2>1. k \in Nat /\ k # 0
    BY <1>2, <1>3
  <2> HIDE DEF k
  <2>2. k \in Nat \ {0} /\ k + 1 \in Nat /\ k + 1 >= 2
    BY <2>1
  <2> QED BY <2>2 DEF k
<1> QED BY <1>2, <1>5, <1>6

\* The text with its zero in front.
LEMMA MarkedIs ==
  ASSUME NEW d, IsInput(d), NEW n, n = Len(d) + 1
  PROVE  /\ Marked(d)[0] = 0 /\ \A i \in 1..n-1 : Marked(d)[i] = d[i] + 1 /\ Marked(d)[i] \in Nat /\ Marked(d)[i] > 0
         /\ \A i \in 0..n-1 : Marked(d)[i] \in Nat /\ TextOf(d)[i] = Marked(d)[i]
                              /\ Padded(Marked(d), n)[i] = Marked(d)[i]
         /\ IsText(TextOf(d), n) /\ IsArray(Padded(Marked(d), n), n)
<1> DEFINE M == Marked(d)
           k == Len(d)
<1>1. k \in Nat /\ n \in Nat /\ n = k + 1 /\ \A i \in 1..k : d[i] \in Nat
  BY InputLength
<1>2. M = [i \in 0..k |-> IF i = 0 THEN 0 ELSE d[i] + 1]
  BY DEF Marked
<1> HIDE DEF M, k
<1>3. M[0] = 0
  BY <1>1, <1>2
<1>4. ASSUME NEW i \in 1..n-1 PROVE M[i] = d[i] + 1 /\ M[i] \in Nat /\ M[i] > 0
  <2>1. i \in 0..k /\ i # 0 /\ i \in 1..k
    BY <1>1
  <2>2. M[i] = d[i] + 1 /\ d[i] \in Nat
    BY <1>1, <1>2, <2>1
  <2> QED BY <2>2
<1>5. \A i \in 0..n-1 : M[i] \in Nat
  <2>1. \A i \in 0..n-1 : i = 0 \/ i \in 1..n-1
    BY <1>1
  <2> QED BY <1>3, <1>4, <2>1
<1> DEFINE T == Padded(M, n)
           f == Extended(T, n)
<1>6. IsArray(T, n) /\ \A i \in 0..n-1 : T[i] = M[i]
  BY <1>1, <1>5, PaddedIs
<1> HIDE DEF T, f
<1>7. f \in [Nat -> Nat] /\ (\A i \in 0..n+2 : f[i] = T[i]) /\ \A i \in Nat : i >= n => f[i] = 0
  <2>1. IsArray(T, n)
    BY <1>6
  <2>2. /\ Extended(T, n) \in [Nat -> Nat]
        /\ \A i \in 0..n+2 : Extended(T, n)[i] = T[i]
        /\ \A i \in Nat : i >= n => Extended(T, n)[i] = 0
    BY ONLY <2>1, ExtendedIs, ZenonT(40)
  <2> QED BY <2>2 DEF f
<1>8. \A i \in 0..n-1 : f[i] = M[i]
  <2>1. \A i \in 0..n-1 : i \in 0..n+2
    BY <1>1
  <2> QED BY <1>6, <1>7, <2>1
<1>9. \A i \in 1..n-1 : f[i] > 0
  <2>1. \A i \in 1..n-1 : i \in 0..n-1
    BY <1>1
  <2> QED BY <1>4, <1>8, <2>1
<1>10. IsText(f, n)
  BY <1>1, <1>7, <1>9 DEF IsText
<1>11. TextOf(d) = f
  BY <1>1 DEF TextOf, f, T, M, k
<1> QED BY <1>3, <1>4, <1>5, <1>6, <1>8, <1>10, <1>11 DEF M, T

\* The suffixes of a marked text, sorted.
LEMMA SuffixesOfSorts ==
  ASSUME NEW d, IsInput(d)
  PROVE  SortsSuffixes(SuffixesOf(d), TextOf(d), Len(d) + 1)
<1> DEFINE n == Len(d) + 1
           T == Padded(Marked(d), n)
<1>1. n = Len(d) + 1 /\ TextOf(d) = Extended(T, n) /\ SuffixesOf(d) = suffix_array[n][T]
  BY DEF TextOf, SuffixesOf
<1>2. n \in Nat /\ n >= 2
  BY InputLength
<1> HIDE DEF n
<1>3. IsText(TextOf(d), n) /\ IsArray(T, n)
  BY <1>1, MarkedIs
<1> HIDE DEF T
<1>4. SortsSuffixes(suffix_array[n][T], Extended(T, n), n)
  BY <1>1, <1>2, <1>3, SuffixArrayIs
<1> QED BY <1>1, <1>4

\* What the suffix array compares.
LEMMA LessBefore ==
  ASSUME IsInput(text), NEW n, n = Len(text) + 1, NEW i \in 0..n-1, NEW j \in 0..n-1, Less(TextOf(text), i, j)
  PROVE  Before(i, j)
<1> DEFINE f == TextOf(text)
           T == Padded(Marked(text), n)
<1>1. n \in Nat /\ n >= 2
  BY InputLength
<1>2. /\ Marked(text)[0] = 0 /\ \A h \in 1..n-1 : Marked(text)[h] > 0
      /\ \A h \in 0..n-1 : Marked(text)[h] \in Nat /\ f[h] = Marked(text)[h] /\ T[h] = Marked(text)[h]
  BY MarkedIs
<1>3. f \in [Nat -> Nat] /\ \A h \in Nat : f[h] \in Nat /\ (h >= n => f[h] = 0) /\ (h >= 1 /\ h < n => f[h] > 0)
  <2>1. IsText(f, n)
    BY MarkedIs
  <2> HIDE DEF f
  <2> QED BY <1>1, <2>1, TextIs
<1>4. PICK l \in Nat : (\A h \in 0..l-1 : f[i + h] = f[j + h]) /\ f[i + l] < f[j + l]
  BY DEF Less
<1> HIDE DEF f, T
<1>5. j + l < n
  <2> DEFINE u == i + l
             v == j + l
  <2>1. u \in Nat /\ v \in Nat
    OBVIOUS
  <2>2. f[u] < f[v]
    BY <1>4
  <2> HIDE DEF u, v
  <2>3. f[u] \in Nat /\ f[v] \in Nat /\ (v >= n => f[v] = 0)
    BY <1>3, <2>1
  <2>4. v < n
    BY <1>1, <2>1, <2>2, <2>3
  <2> QED BY <2>4 DEF v
<1>6. ASSUME NEW h \in 0..l-1 PROVE i + h < n /\ j + h < n /\ T[i + h] = T[j + h]
  <2> DEFINE u == i + h
             v == j + h
  <2>1. u \in Nat /\ v \in Nat /\ v < n /\ (v = 0 => u = i)
    BY <1>1, <1>5
  <2>2. f[u] = f[v]
    BY <1>4
  <2>3. i < n
    BY <1>1
  <2> HIDE DEF u, v
  <2>4. (u >= n => f[u] = 0) /\ (v >= 1 /\ v < n => f[v] > 0) /\ f[u] \in Nat /\ f[v] \in Nat
    BY <1>3, <2>1
  <2>5. u < n
    BY <1>1, <2>1, <2>2, <2>3, <2>4
  <2>6. u \in 0..n-1 /\ v \in 0..n-1
    BY <1>1, <2>1, <2>5
  <2>7. T[u] = T[v]
    BY <1>2, <2>2, <2>6
  <2> QED BY <2>1, <2>5, <2>7 DEF u, v
<1>7. i + l = n \/ T[i + l] < T[j + l]
  <2>1. i + l <= n
    <3>1. CASE l = 0
      BY <1>1, <3>1
    <3>2. CASE l # 0
      <4>1. l - 1 \in 0..l-1
        BY <3>2
      <4>2. i + (l - 1) < n
        BY <1>6, <4>1
      <4> QED BY <1>1, <4>2
    <3> QED BY <3>1, <3>2
  <2>2. CASE i + l # n
    <3>1. i + l \in 0..n-1 /\ j + l \in 0..n-1
      BY <1>1, <1>5, <2>1, <2>2
    <3>2. T[i + l] = f[i + l] /\ T[j + l] = f[j + l]
      BY <1>2, <3>1
    <3> QED BY <1>4, <3>2
  <2> QED BY <2>2
<1>8. l \in 0..n-1
  BY <1>1, <1>5
<1>9. n = Len(text) + 1
  OBVIOUS
<1> QED BY <1>5, <1>6, <1>7, <1>8, <1>9, Zenon DEF Before, T

\* SuffixesSorted for one text.
LEMMA SuffixesInOrder ==
  ASSUME IsInput(text)
  PROVE  LET SA == SuffixesOf(text)
         IN  /\ {SA[k] : k \in DOMAIN SA} = 0..Len(text)
             /\ \A k \in 1..Len(text) : Before(SA[k - 1], SA[k])
<1> DEFINE SA == SuffixesOf(text)
           n == Len(text) + 1
           f == TextOf(text)
<1>1. n = Len(text) + 1 /\ n \in Nat /\ Len(text) \in Nat /\ n - 1 = Len(text)
  BY InputLength
<1>2. SortsSuffixes(SA, f, n)
  BY SuffixesOfSorts
<1> HIDE DEF SA, n, f
<1>3. /\ SA \in [0..n-1 -> 0..n-1] /\ \A k \in 0..n-1 : \E i \in 0..n-1 : SA[i] = k
      /\ \A k, l \in 0..n-1 : k < l => Less(f, SA[k], SA[l])
  BY <1>2 DEF SortsSuffixes, Bijection, Injection, Surjection
<1>4. {SA[k] : k \in DOMAIN SA} = 0..Len(text)
  <2>1. DOMAIN SA = 0..n-1 /\ 0..n-1 = 0..Len(text)
    BY <1>1, <1>3
  <2>2. \A k \in DOMAIN SA : SA[k] \in 0..Len(text)
    BY <1>3, <2>1
  <2>3. \A k \in 0..Len(text) : \E i \in DOMAIN SA : SA[i] = k
    BY <1>3, <2>1
  <2> QED BY <2>2, <2>3
<1>5. ASSUME NEW k \in 1..Len(text) PROVE Before(SA[k - 1], SA[k])
  <2>1. k - 1 \in 0..n-1 /\ k \in 0..n-1 /\ k - 1 < k
    BY <1>1
  <2> DEFINE i == SA[k - 1]
             j == SA[k]
  <2>2. i \in 0..n-1 /\ j \in 0..n-1 /\ Less(f, i, j)
    BY <1>3, <2>1
  <2> HIDE DEF i, j
  <2>3. Before(i, j)
    BY <1>1, <2>2, LessBefore DEF f
  <2> QED BY <2>3 DEF i, j
<1> QED BY <1>4, <1>5 DEF SA

-----------------------------------------------------------------------------
(* The counting sort of the last column *)
Increases(p, n) == \A k, l \in 0..n-1 : k < l => p[k] < p[l]

\* An increasing function from 0..n-1 into itself is the identity.
LEMMA IncreasingId ==
  ASSUME NEW n \in Nat, NEW p \in [0..n-1 -> 0..n-1], Increases(p, n)
  PROVE  \A k \in 0..n-1 : p[k] = k
<1> DEFINE U == {k \in Nat : k < n => p[k] >= k}
           D == {j \in Nat : j < n => p[(n - 1) - j] <= (n - 1) - j}
<1>0. \A k, l \in 0..n-1 : k < l => p[k] < p[l]
  BY DEF Increases
<1>1. 0 \in U
  <2> SUFFICES ASSUME 0 < n PROVE p[0] >= 0
    OBVIOUS
  <2>1. p[0] \in 0..n-1
    OBVIOUS
  <2> QED BY <2>1
<1>2. ASSUME NEW k \in Nat, k \in U PROVE k + 1 \in U
  <2> SUFFICES ASSUME k + 1 < n PROVE p[k + 1] >= k + 1
    OBVIOUS
  <2>1. k \in 0..n-1 /\ k + 1 \in 0..n-1 /\ k < k + 1
    OBVIOUS
  <2> DEFINE v == p[k]
             w == p[k + 1]
  <2>2. v < w /\ v \in 0..n-1 /\ w \in 0..n-1
    BY <1>0, <2>1
  <2>3. v >= k
    BY <1>2, <2>1
  <2> HIDE DEF v, w
  <2>4. w >= k + 1
    BY <2>2, <2>3
  <2> QED BY <2>4 DEF w
<1>3. 0 \in D
  <2> SUFFICES ASSUME 0 < n PROVE p[(n - 1) - 0] <= (n - 1) - 0
    OBVIOUS
  <2> DEFINE m == (n - 1) - 0
  <2>1. m \in 0..n-1 /\ m = n - 1
    OBVIOUS
  <2>2. p[m] \in 0..n-1
    BY <2>1
  <2> HIDE DEF m
  <2>3. p[m] <= m
    BY <2>1, <2>2
  <2> QED BY <2>3 DEF m
<1>4. ASSUME NEW j \in Nat, j \in D PROVE j + 1 \in D
  <2> SUFFICES ASSUME j + 1 < n PROVE p[(n - 1) - (j + 1)] <= (n - 1) - (j + 1)
    OBVIOUS
  <2> DEFINE m == (n - 1) - j
             u == (n - 1) - (j + 1)
             v == p[m]
             w == p[u]
  <2>1. m \in 0..n-1 /\ u \in 0..n-1 /\ u < m /\ m = u + 1
    OBVIOUS
  <2>2. v <= m
    BY <1>4
  <2> HIDE DEF m, u
  <2>3. w < v /\ v \in 0..n-1 /\ w \in 0..n-1
    BY <1>0, <2>1
  <2> HIDE DEF v, w
  <2>4. w <= u
    BY <2>1, <2>2, <2>3
  <2> QED BY <2>4 DEF w, u
<1>5. Nat \subseteq U /\ Nat \subseteq D
  <2> HIDE DEF U, D
  <2> QED BY <1>1, <1>2, <1>3, <1>4, Induction
<1> SUFFICES ASSUME NEW k \in 0..n-1 PROVE p[k] = k
  OBVIOUS
<1>6. p[k] >= k
  BY <1>5
<1>7. p[k] <= k
  <2> DEFINE j == (n - 1) - k
  <2>1. j \in Nat /\ j < n /\ (n - 1) - j = k
    OBVIOUS
  <2> HIDE DEF j
  <2>2. p[(n - 1) - j] <= (n - 1) - j
    BY <1>5, <2>1
  <2> QED BY <2>1, <2>2
<1>8. p[k] \in 0..n-1
  OBVIOUS
<1> DEFINE v == p[k]
<1> HIDE DEF v
<1>9. v = k
  BY <1>6, <1>7, <1>8 DEF v
<1> QED BY <1>9 DEF v

\* q orders the positions by the keys, and those with the same key as they are.
OrdersKeys(q, key, n) ==
  /\ q \in Bijection(0..n-1, 0..n-1)
  /\ \A k, l \in 0..n-1 : k < l => key[q[k]] < key[q[l]] \/ (key[q[k]] = key[q[l]] /\ q[k] < q[l])

\* There is one order of positions by key and position.
LEMMA OrderUnique ==
  ASSUME NEW n \in Nat, NEW key, \A i \in 0..n-1 : key[i] \in Nat, NEW q, NEW r,
         OrdersKeys(q, key, n), OrdersKeys(r, key, n)
  PROVE  \A k \in 0..n-1 : q[k] = r[k]
<1> DEFINE D == 0..n-1
           t == Turned(r, D, n)
           p == [k \in D |-> t[q[k]]]
<1>1. r \in Bijection(D, 0..n-1)
  BY DEF OrdersKeys
<1>2. t \in Bijection(0..n-1, D) /\ Inverts(t, r, D, n)
  <2> HIDE DEF D
  <2> QED BY <1>1, TurnedIs
<1> HIDE DEF t
<1>3. \A k \in D : t[k] \in D /\ r[t[k]] = k
  BY <1>2 DEF Inverts
<1>4. /\ q \in [D -> D] /\ \A k, l \in D : q[k] = q[l] => k = l
      /\ \A k, l \in D : k < l => key[q[k]] < key[q[l]] \/ (key[q[k]] = key[q[l]] /\ q[k] < q[l])
  BY DEF OrdersKeys, Bijection, Injection, IsInjective
<1>5. \A k, l \in D : k < l => key[r[k]] < key[r[l]] \/ (key[r[k]] = key[r[l]] /\ r[k] < r[l])
  BY DEF OrdersKeys
<1>6. \A k \in D : p[k] \in D /\ r[p[k]] = q[k]
  BY <1>3, <1>4
<1>7. p \in [D -> D]
  BY <1>6
<1>8. \A i \in D : key[i] \in Nat /\ i \in Nat
  OBVIOUS
<1> HIDE DEF p
<1>9. ASSUME NEW k \in D, NEW l \in D, k < l PROVE p[k] < p[l]
  <2>1. p[k] \in D /\ p[l] \in D
    BY <1>7
  <2>2. p[k] # p[l]
    <3>1. p[k] = p[l] => q[k] = q[l]
      BY <1>6
    <3>2. q[k] = q[l] => k = l
      BY <1>4
    <3>3. k # l
      BY <1>9
    <3> QED BY <3>1, <3>2, <3>3
  <2>3. ~(p[l] < p[k])
    <3> SUFFICES ASSUME p[l] < p[k] PROVE FALSE
      OBVIOUS
    <3> DEFINE a == q[k]
               b == q[l]
    <3>1. key[b] < key[a] \/ (key[b] = key[a] /\ b < a)
      BY <1>5, <1>6, <2>1
    <3>2. key[a] < key[b] \/ (key[a] = key[b] /\ a < b)
      BY <1>4, <1>9
    <3>3. a \in D /\ b \in D
      BY <1>4
    <3> HIDE DEF a, b
    <3>4. a \in Nat /\ b \in Nat /\ key[a] \in Nat /\ key[b] \in Nat
      BY <1>8, <3>3
    <3> DEFINE ka == key[a]
               kb == key[b]
    <3> HIDE DEF ka, kb
    <3>5. FALSE
      BY <3>1, <3>2, <3>4 DEF ka, kb
    <3> QED BY <3>5
  <2> DEFINE v == p[k]
             w == p[l]
  <2>4. v \in D /\ w \in D /\ v # w /\ ~(w < v)
    BY <2>1, <2>2, <2>3
  <2> HIDE DEF v, w
  <2>5. v < w
    BY <2>4
  <2> QED BY <2>5 DEF v, w
<1>10. Increases(p, n)
  BY <1>9 DEF Increases
<1>11. \A k \in D : p[k] = k
  BY <1>7, <1>10, IncreasingId
<1> QED BY <1>6, <1>11

\* radix_pass on the positions themselves.
LEMMA JumpersAre ==
  ASSUME NEW n \in Nat, NEW key, \A i \in 0..n-1 : key[i] \in Nat
  PROVE  OrdersKeys(radix_pass([i \in 0..n-1 |-> i], key, 0, n), key, n)
<1> DEFINE a == [i \in 0..n-1 |-> i]
           c == radix_pass(a, key, 0, n)
<1>1. \A i \in 0..n-1 : key[i] \in Nat /\ key[i] = key[a[i] + 0]
  OBVIOUS
<1> HIDE DEF a
<1>2. PICK q : OrderedBy(a, key, q, c, n)
  BY <1>1, RadixPass
<1> HIDE DEF c
<1>3. /\ q \in Bijection(0..n-1, 0..n-1)
      /\ c = [k \in 0..n-1 |-> a[q[k]]]
      /\ \A k, l \in 0..n-1 : k < l => \/ key[q[k]] < key[q[l]]
                                       \/ key[q[k]] = key[q[l]] /\ q[k] < q[l]
  BY <1>2, Zenon DEF OrderedBy
<1>4. q \in [0..n-1 -> 0..n-1]
  BY <1>3 DEF Bijection, Injection
<1>5. c = q
  <2>1. \A k \in 0..n-1 : a[q[k]] = q[k]
    BY <1>4 DEF a
  <2> QED BY <1>3, <1>4, <2>1
<1>6. OrdersKeys(q, key, n)
  BY <1>3 DEF OrdersKeys
<1> QED BY <1>5, <1>6 DEF c, a

-----------------------------------------------------------------------------
(* The last column without its zero *)
\* A column of n symbols with its one zero at z.
OneZero(col, n, z) ==
  /\ n \in Nat \ {0} /\ z \in 1..n /\ col \in [1..n -> Nat]
  /\ \A k \in 1..n : col[k] = 0 <=> k = z

\* The others, in their order.
LEMMA AscendingSkips ==
  ASSUME NEW n \in Nat \ {0}, NEW z \in 1..n
  PROVE  /\ Cardinality((1..n) \ {z}) = n - 1
         /\ \A k \in 1..n-1 : Ascending((1..n) \ {z})[k - 1] = IF k < z THEN k ELSE k + 1
<1> DEFINE S == (1..n) \ {z}
           at == Ascending(S)
           c == n - 1
<1>1. IsFiniteSet(1..n) /\ Cardinality(1..n) = n
  BY FS_Interval
<1>2. IsFiniteSet(S) /\ Cardinality(S) = c
  BY <1>1, FS_RemoveElement
<1>3. S \in SUBSET Int /\ c \in Nat
  OBVIOUS
<1> HIDE DEF at
<1>4. at \in [0..c-1 -> S] /\ \A k, l \in 0..c-1 : k < l => at[k] < at[l]
  <2> HIDE DEF S, c
  <2>1. at \in Bijection(0..c-1, S) /\ \A k, l \in 0..c-1 : k < l => at[k] < at[l]
    BY <1>2, <1>3, AscendingIs DEF at
  <2> QED BY <2>1 DEF Bijection, Injection
<1> DEFINE p == [k \in 0..c-1 |-> IF at[k] < z THEN at[k] - 1 ELSE at[k] - 2]
<1>5. ASSUME NEW k \in 0..c-1
      PROVE  /\ p[k] \in 0..c-1
             /\ at[k] \in 1..n /\ at[k] # z /\ p[k] = IF at[k] < z THEN at[k] - 1 ELSE at[k] - 2
  <2>1. at[k] \in 1..n /\ at[k] # z
    BY <1>4
  <2>2. p[k] = IF at[k] < z THEN at[k] - 1 ELSE at[k] - 2
    OBVIOUS
  <2> DEFINE v == at[k]
             w == p[k]
  <2> HIDE DEF v, w
  <2>3. v \in 1..n /\ v # z /\ w = IF v < z THEN v - 1 ELSE v - 2
    BY <2>1, <2>2 DEF v, w
  <2>4. w \in 0..c-1
    BY <2>3
  <2> QED BY <2>1, <2>2, <2>4 DEF w
<1>6. p \in [0..c-1 -> 0..c-1]
  BY <1>5
<1> HIDE DEF p
<1>7. ASSUME NEW k \in 0..c-1, NEW l \in 0..c-1, k < l PROVE p[k] < p[l]
  <2> DEFINE v == at[k]
             w == at[l]
             a == p[k]
             b == p[l]
  <2> HIDE DEF v, w, a, b
  <2>1. v \in 1..n /\ v # z /\ a = IF v < z THEN v - 1 ELSE v - 2
    BY <1>5 DEF v, a
  <2>2. w \in 1..n /\ w # z /\ b = IF w < z THEN w - 1 ELSE w - 2
    BY <1>5 DEF w, b
  <2>3. v < w
    BY <1>4, <1>7 DEF v, w
  <2>4. a < b
    BY <2>1, <2>2, <2>3
  <2> QED BY <2>4 DEF a, b
<1>8. Increases(p, c)
  BY <1>7 DEF Increases
<1>9. \A k \in 0..c-1 : p[k] = k
  BY <1>3, <1>6, <1>8, IncreasingId
<1>10. ASSUME NEW k \in 1..n-1 PROVE at[k - 1] = IF k < z THEN k ELSE k + 1
  <2> DEFINE u == k - 1
             v == at[u]
  <2>1. u \in 0..c-1 /\ k = u + 1
    OBVIOUS
  <2> HIDE DEF u
  <2>2. v \in 1..n /\ v # z /\ u = IF v < z THEN v - 1 ELSE v - 2
    BY <1>5, <1>9, <2>1
  <2> HIDE DEF v
  <2>3. v = IF k < z THEN k ELSE k + 1
    BY <2>1, <2>2
  <2> QED BY <2>3 DEF v, u
<1> QED BY <1>2, <1>10 DEF at

\* Taking the one zero out of a column.
LEMMA UnmarkedIs ==
  ASSUME NEW n, NEW z, NEW col, OneZero(col, n, z)
  PROVE  Unmarked(col) = [k \in 1..n-1 |-> col[IF k < z THEN k ELSE k + 1] - 1]
<1>1. /\ n \in Nat \ {0} /\ z \in 1..n /\ col \in [1..n -> Nat]
      /\ \A k \in 1..n : col[k] = 0 <=> k = z
  BY DEF OneZero
<1> DEFINE kept == {i \in DOMAIN col : col[i] # 0}
           S == (1..n) \ {z}
           at == Ascending(S)
<1>2. kept = S
  BY <1>1
<1>3. Unmarked(col) = [k \in 1..Cardinality(kept) |-> col[Ascending(kept)[k - 1]] - 1]
  BY StoredIs, Zenon DEF Unmarked
<1>4. Unmarked(col) = [k \in 1..Cardinality(S) |-> col[at[k - 1]] - 1]
  BY <1>2, <1>3
<1>5. Cardinality(S) = n - 1 /\ \A k \in 1..n-1 : at[k - 1] = IF k < z THEN k ELSE k + 1
  BY <1>1, AscendingSkips
<1> HIDE DEF kept, S, at
<1> QED BY <1>4, <1>5

-----------------------------------------------------------------------------
(* The last column *)
\* The rank of the suffix at i.
RankOf(d) == Turned(SuffixesOf(d), 0..Len(d), Len(d) + 1)

\* r numbers what SA lists.
Numbers(r, SA, n) ==
  /\ r \in [0..n-1 -> 0..n-1] /\ SA \in [0..n-1 -> 0..n-1]
  /\ \A i \in 0..n-1 : SA[r[i]] = i /\ r[SA[i]] = i

\* The ranks of the suffixes number them.
LEMMA RanksNumber ==
  ASSUME NEW d, IsInput(d), NEW n, n = Len(d) + 1
  PROVE  /\ n \in Nat /\ n >= 2 /\ Len(d) = n - 1
         /\ Numbers(RankOf(d), SuffixesOf(d), n)
         /\ \A i, j \in 0..n-1 : Less(TextOf(d), i, j) => RankOf(d)[i] < RankOf(d)[j]
         /\ \A k, l \in 0..n-1 : k < l => Less(TextOf(d), SuffixesOf(d)[k], SuffixesOf(d)[l])
<1> DEFINE k0 == Len(d)
           SA == SuffixesOf(d)
           r == RankOf(d)
           f == TextOf(d)
<1>1. k0 \in Nat \ {0} /\ n = k0 + 1
  BY InputLength
<1>2. SortsSuffixes(SA, f, n)
  BY SuffixesOfSorts
<1>3. r = Turned(SA, 0..k0, n)
  BY DEF RankOf
<1>4. IsText(f, n)
  BY MarkedIs
<1> HIDE DEF k0, SA, r, f
<1>5. 0..k0 = 0..n-1 /\ n \in Nat /\ n >= 2 /\ k0 = n - 1 /\ 0..n-1 \subseteq Nat
  BY <1>1
<1>6. SA \in Bijection(0..n-1, 0..n-1) /\ \A k, l \in 0..n-1 : k < l => Less(f, SA[k], SA[l])
  BY <1>2 DEF SortsSuffixes
<1>7. r \in Bijection(0..n-1, 0..n-1) /\ Inverts(r, SA, 0..n-1, n)
  BY <1>3, <1>5, <1>6, TurnedIs
<1>8. r \in [0..n-1 -> 0..n-1] /\ SA \in [0..n-1 -> 0..n-1] /\ \A i \in 0..n-1 : SA[r[i]] = i
  BY <1>6, <1>7 DEF Bijection, Injection, Inverts
<1>9. \A i, j \in 0..n-1 : SA[i] = SA[j] => i = j
  BY <1>6 DEF Bijection, Injection, IsInjective
<1>10. \A i \in 0..n-1 : r[SA[i]] = i
  BY <1>8, <1>9
<1>11. Numbers(r, SA, n)
  BY <1>8, <1>10 DEF Numbers
<1>12. ASSUME NEW i \in 0..n-1, NEW j \in 0..n-1, Less(f, i, j) PROVE r[i] < r[j]
  <2> DEFINE a == r[i]
             b == r[j]
  <2>1. a \in 0..n-1 /\ b \in 0..n-1 /\ SA[a] = i /\ SA[b] = j
    BY <1>8
  <2>2. f \in [Nat -> Nat] /\ i \in Nat /\ j \in Nat
    <3>1. f \in [Nat -> Nat]
      BY <1>4 DEF IsText
    <3> QED BY <1>5, <3>1
  <2>3. ~Less(f, j, i) /\ ~Less(f, i, i)
    BY <1>12, <2>2, LessStrict
  <2>4. i # j
    BY <1>12, <2>3
  <2>5. a # b
    BY <2>1, <2>4
  <2>6. ~(b < a)
    BY <1>6, <2>1, <2>3
  <2> HIDE DEF a, b
  <2>7. a < b
    BY <2>1, <2>5, <2>6
  <2> QED BY <2>7 DEF a, b
<1> QED BY <1>5, <1>6, <1>11, <1>12 DEF SA, r, f, k0

\* The suffix before and the suffix after the one at i, in a circle.
PrevOf(n, i) == IF i = 0 THEN n - 1 ELSE i - 1
NextOf(n, i) == IF i = n - 1 THEN 0 ELSE i + 1

\* The positions of the text in a circle.
LEMMA InCircle ==
  ASSUME NEW n \in Nat, n >= 2, NEW i \in 0..n-1
  PROVE  /\ PrevOf(n, i) \in 0..n-1 /\ NextOf(n, i) \in 0..n-1
         /\ PrevOf(n, NextOf(n, i)) = i /\ NextOf(n, PrevOf(n, i)) = i
         /\ PrevOf(n, i) = 0 <=> i = 1
         /\ (i + n - 1) % n = PrevOf(n, i)
<1>1. /\ PrevOf(n, i) \in 0..n-1 /\ NextOf(n, i) \in 0..n-1
      /\ PrevOf(n, NextOf(n, i)) = i /\ NextOf(n, PrevOf(n, i)) = i
      /\ PrevOf(n, i) = 0 <=> i = 1
  BY DEF PrevOf, NextOf
<1>2. CASE i = 0
  <2>1. i + n - 1 = 0 * n + (n - 1) /\ n - 1 \in 0..n-1 /\ n \in Nat \ {0}
    BY <1>2
  <2>2. (0 * n + (n - 1)) % n = n - 1
    BY <2>1, DivModUnique
  <2> QED BY <1>1, <1>2, <2>1, <2>2 DEF PrevOf
<1>3. CASE i # 0
  <2>1. i + n - 1 = 1 * n + (i - 1) /\ i - 1 \in 0..n-1 /\ n \in Nat \ {0}
    BY <1>3
  <2>2. (1 * n + (i - 1)) % n = i - 1
    BY <2>1, DivModUnique
  <2> QED BY <1>1, <1>3, <2>1, <2>2 DEF PrevOf
<1> QED BY <1>2, <1>3

LEMMA MarkedRange ==
  ASSUME NEW d, IsInput(d), NEW n, n = Len(d) + 1, NEW i \in 0..n-1
  PROVE  /\ Marked(d)[i] \in 0..AlphabetSize /\ Marked(d)[i] \in Nat
         /\ Marked(d)[i] = 0 <=> i = 0
         /\ i # 0 => Marked(d)[i] = d[i] + 1 /\ i \in 1..n-1 /\ d[i] \in Symbols
<1>1. /\ Marked(d)[0] = 0
      /\ \A j \in 1..n-1 : Marked(d)[j] = d[j] + 1 /\ Marked(d)[j] \in Nat /\ Marked(d)[j] > 0
  BY MarkedIs
<1>2. n \in Nat /\ AlphabetSize \in Nat /\ \A j \in 1..Len(d) : d[j] \in Symbols
  BY InputLength, VictiniAssumption
<1>3. CASE i = 0
  BY <1>1, <1>2, <1>3
<1>4. CASE i # 0
  <2> DEFINE k == Len(d)
  <2>1. k \in Nat /\ n = k + 1
    BY InputLength
  <2> HIDE DEF k
  <2>2. i \in 1..k /\ i \in 1..n-1
    BY <1>4, <2>1
  <2>3. d[i] \in 0..AlphabetSize-1 /\ Marked(d)[i] = d[i] + 1
    BY <1>1, <1>2, <2>2 DEF Symbols, k
  <2> QED BY <1>2, <1>4, <2>2, <2>3 DEF Symbols
<1> QED BY <1>3, <1>4

\* The last column, by the ranks.
LEMMA LastColumnIs ==
  ASSUME NEW d, IsInput(d), NEW n, n = Len(d) + 1
  PROVE  /\ LastColumn(d) = [k \in 1..n |-> Marked(d)[PrevOf(n, SuffixesOf(d)[k - 1])]]
         /\ LastColumn(d) \in [1..n -> 0..AlphabetSize]
         /\ OneZero(LastColumn(d), n, RankOf(d)[1] + 1)
         /\ BwtIndex(d) = RankOf(d)[1]
         /\ \A i \in 0..n-1 : LastColumn(d)[RankOf(d)[i] + 1] = Marked(d)[PrevOf(n, i)]
<1> DEFINE SA == SuffixesOf(d)
           r == RankOf(d)
           M == Marked(d)
           col == LastColumn(d)
           z == r[1] + 1
<1>1. n \in Nat /\ n >= 2 /\ Numbers(r, SA, n)
  BY RanksNumber
<1>2. \A i \in 0..n-1 : M[i] \in 0..AlphabetSize /\ M[i] \in Nat /\ (M[i] = 0 <=> i = 0)
  BY MarkedRange
<1>3. col = [k \in 1..n |-> M[(SA[k - 1] + n - 1) % n]]
  BY StoredIs, Zenon DEF LastColumn
<1> HIDE DEF SA, r, M, col
<1>4. r \in [0..n-1 -> 0..n-1] /\ SA \in [0..n-1 -> 0..n-1] /\ \A i \in 0..n-1 : SA[r[i]] = i /\ r[SA[i]] = i
  BY <1>1 DEF Numbers
<1>5. ASSUME NEW k \in 1..n
      PROVE  /\ col[k] = M[PrevOf(n, SA[k - 1])] /\ col[k] \in 0..AlphabetSize /\ col[k] \in Nat
             /\ col[k] = 0 <=> SA[k - 1] = 1
             /\ (SA[k - 1] + n - 1) % n = PrevOf(n, SA[k - 1])
  <2>1. k - 1 \in 0..n-1
    BY <1>1
  <2> DEFINE i == SA[k - 1]
  <2>2. i \in 0..n-1
    BY <1>4, <2>1
  <2>3. col[k] = M[(i + n - 1) % n]
    BY <1>3
  <2> HIDE DEF i
  <2>4. PrevOf(n, i) \in 0..n-1 /\ (PrevOf(n, i) = 0 <=> i = 1) /\ (i + n - 1) % n = PrevOf(n, i)
    BY <1>1, <2>2, InCircle
  <2>5. col[k] = M[PrevOf(n, i)]
    BY <2>3, <2>4
  <2>6. col[k] \in 0..AlphabetSize /\ col[k] \in Nat /\ (col[k] = 0 <=> i = 1)
    BY <1>2, <2>4, <2>5
  <2> QED BY <2>4, <2>5, <2>6 DEF i
<1>6. col = [k \in 1..n |-> M[PrevOf(n, SA[k - 1])]]
  BY <1>3, <1>5
<1>7. col \in [1..n -> 0..AlphabetSize] /\ col \in [1..n -> Nat]
  <2>1. DOMAIN col = 1..n /\ col = [k \in DOMAIN col |-> col[k]]
    BY <1>3
  <2> QED BY <1>5, <2>1
<1>8. r[1] \in 0..n-1 /\ z \in 1..n /\ z - 1 = r[1]
  <2>1. 1 \in 0..n-1
    BY <1>1
  <2>2. r[1] \in 0..n-1
    BY <1>4, <2>1
  <2> QED BY <1>1, <2>2
<1>9. \A k \in 1..n : col[k] = 0 <=> k = z
  <2> SUFFICES ASSUME NEW k \in 1..n PROVE col[k] = 0 <=> k = z
    OBVIOUS
  <2> DEFINE u == k - 1
  <2>1. u \in 0..n-1 /\ k = u + 1
    BY <1>1
  <2>2. col[k] = 0 <=> SA[u] = 1
    BY <1>5
  <2> HIDE DEF u
  <2>3. SA[u] = 1 <=> u = r[1]
    <3>1. 1 \in 0..n-1
      BY <1>1
    <3> QED BY <1>4, <2>1, <3>1
  <2>4. u = r[1] <=> k = z
    BY <1>8, <2>1
  <2> QED BY <2>2, <2>3, <2>4
<1>10. OneZero(col, n, z)
  BY <1>1, <1>7, <1>8, <1>9 DEF OneZero
<1>11. BwtIndex(d) = r[1]
  <2>1. BwtIndex(d) = (CHOOSE k \in DOMAIN col : col[k] = 0) - 1
    BY Zenon DEF BwtIndex, col
  <2>2. (CHOOSE k \in DOMAIN col : col[k] = 0) = z
    <3>1. DOMAIN col = 1..n
      BY <1>7
    <3> HIDE DEF z
    <3> QED BY <1>8, <1>9, <3>1
  <2> QED BY <1>8, <2>1, <2>2
<1>12. \A i \in 0..n-1 : col[r[i] + 1] = M[PrevOf(n, i)]
  <2> SUFFICES ASSUME NEW i \in 0..n-1 PROVE col[r[i] + 1] = M[PrevOf(n, i)]
    OBVIOUS
  <2> DEFINE k == r[i] + 1
  <2>1. r[i] \in 0..n-1 /\ SA[r[i]] = i
    BY <1>4
  <2>2. k \in 1..n /\ k - 1 = r[i]
    BY <1>1, <2>1
  <2>3. col[k] = M[PrevOf(n, SA[k - 1])]
    <3> HIDE DEF k
    <3> QED BY <1>5, <2>2
  <2> QED BY <2>1, <2>2, <2>3
<1> QED BY <1>6, <1>7, <1>10, <1>11, <1>12 DEF SA, r, M, col, z

-----------------------------------------------------------------------------
(* The Burrows-Wheeler transform *)
\* t is s with e at i.
Inserted(t, s, m, e, i, S) ==
  /\ t \in [1..m+1 -> S]
  /\ \A j \in 1..m+1 : t[j] = IF j < i THEN s[j] ELSE IF j = i THEN e ELSE s[j - 1]

\* What InsertAt makes.
LEMMA InsertAtIs ==
  ASSUME NEW S, NEW m \in Nat, NEW s \in [1..m -> S], NEW e \in S, NEW i \in 1..m+1
  PROVE  Inserted(InsertAt(s, i, e), s, m, e, i, S)
<1>1. s \in Seq(S) /\ Len(s) = m
  BY IsSequence
<1> DEFINE a == SubSeq(s, 1, i - 1)
           b == <<e>>
           c == SubSeq(s, i, m)
           t == InsertAt(s, i, e)
<1>2. a \in Seq(S) /\ Len(a) = i - 1 /\ \A j \in 1..i-1 : a[j] = s[j]
  BY <1>1
<1>3. c \in Seq(S) /\ Len(c) = (m + 1) - i /\ \A j \in 1..(m+1)-i : c[j] = s[j + i - 1]
  BY <1>1
<1>4. b \in Seq(S) /\ Len(b) = 1 /\ b[1] = e
  OBVIOUS
<1>5. t = (a \o b) \o c
  BY <1>1 DEF InsertAt
<1> HIDE DEF a, b, c, t
<1> DEFINE ab == a \o b
<1>6. ab \in Seq(S) /\ Len(ab) = i /\ \A j \in 1..i : ab[j] = IF j < i THEN s[j] ELSE e
  <2>1. /\ ab \in Seq(S) /\ Len(ab) = Len(a) + Len(b)
        /\ \A j \in 1 .. Len(a) + Len(b) : ab[j] = IF j <= Len(a) THEN a[j] ELSE b[j - Len(a)]
    BY <1>2, <1>4, ConcatProperties
  <2> HIDE DEF ab
  <2>2. /\ ab \in Seq(S) /\ Len(ab) = (i - 1) + 1
        /\ \A j \in 1 .. (i - 1) + 1 : ab[j] = IF j <= i - 1 THEN a[j] ELSE b[j - (i - 1)]
    BY <1>2, <1>4, <2>1
  <2>3. (i - 1) + 1 = i /\ i \in Int
    OBVIOUS
  <2>4. ASSUME NEW j \in 1..i PROVE ab[j] = IF j < i THEN s[j] ELSE e
    <3>1. ab[j] = IF j <= i - 1 THEN a[j] ELSE b[j - (i - 1)]
      BY <2>2, <2>3
    <3>2. CASE j < i
      <4>1. j <= i - 1 /\ j \in 1..i-1
        BY <3>2
      <4> QED BY <1>2, <3>1, <3>2, <4>1
    <3>3. CASE j = i
      <4>1. ~(j <= i - 1) /\ j - (i - 1) = 1 /\ ~(j < i)
        BY <3>3
      <4> QED BY <1>4, <3>1, <4>1
    <3> QED BY <3>2, <3>3
  <2> QED BY <2>2, <2>3, <2>4
<1> HIDE DEF ab
<1>7. t \in Seq(S) /\ Len(t) = m + 1 /\ \A j \in 1..m+1 : t[j] = IF j <= i THEN ab[j] ELSE c[j - i]
  <2> DEFINE u == ab \o c
  <2>1. /\ u \in Seq(S) /\ Len(u) = Len(ab) + Len(c)
        /\ \A j \in 1 .. Len(ab) + Len(c) : u[j] = IF j <= Len(ab) THEN ab[j] ELSE c[j - Len(ab)]
    BY <1>3, <1>6, ConcatProperties
  <2>2. t = u
    BY <1>5 DEF ab
  <2> HIDE DEF u
  <2>3. Len(ab) + Len(c) = m + 1 /\ Len(ab) = i
    BY <1>3, <1>6
  <2> QED BY <2>1, <2>2, <2>3
<1>8. ASSUME NEW j \in 1..m+1 PROVE t[j] = IF j < i THEN s[j] ELSE IF j = i THEN e ELSE s[j - 1]
  <2>1. CASE j <= i
    <3>1. j \in 1..i /\ (j < i \/ (j = i /\ ~(j < i)))
      BY <2>1
    <3>2. t[j] = ab[j]
      BY <1>7, <2>1
    <3>3. ab[j] = IF j < i THEN s[j] ELSE e
      BY <1>6, <3>1
    <3> QED BY <3>1, <3>2, <3>3
  <2>2. CASE j > i
    <3> DEFINE u == j - i
    <3>1. u \in 1..(m+1)-i /\ u + i - 1 = j - 1
      BY <2>2
    <3>2. t[j] = c[u]
      BY <1>7, <2>2
    <3> HIDE DEF u
    <3>3. c[u] = s[j - 1]
      BY <1>3, <3>1
    <3> QED BY <2>2, <3>2, <3>3
  <2> QED BY <2>1, <2>2
<1>9. t \in [1..m+1 -> S]
  BY <1>7
<1> QED BY <1>8, <1>9 DEF t, Inserted

\* The transform of a text is as long as the text, and InsertAt gives its
\* column back.
LEMMA BwtTransformIs ==
  ASSUME NEW d, IsInput(d), NEW n, n = Len(d) + 1
  PROVE  /\ BwtTransform(d) \in Seq(Symbols) /\ Len(BwtTransform(d)) = n - 1 /\ BwtTransform(d) \in [1..n-1 -> Symbols]
         /\ InsertAt([i \in DOMAIN BwtTransform(d) |-> BwtTransform(d)[i] + 1], BwtIndex(d) + 1, 0) = LastColumn(d)
         /\ BwtIndex(d) \in 0..n-1
<1> DEFINE col == LastColumn(d)
           b == BwtTransform(d)
           z == RankOf(d)[1] + 1
           at == BwtIndex(d)
<1>1. n \in Nat /\ n >= 2
  BY RanksNumber
<1>2. col \in [1..n -> 0..AlphabetSize] /\ OneZero(col, n, z) /\ at = RankOf(d)[1]
  BY LastColumnIs
<1>3. b = [k \in 1..n-1 |-> col[IF k < z THEN k ELSE k + 1] - 1]
  <2>1. b = Unmarked(col)
    BY DEF BwtTransform
  <2> HIDE DEF col, z, b
  <2> QED BY <1>2, <2>1, UnmarkedIs
<1>4. z = at + 1
  BY <1>2
<1> HIDE DEF col, b, z, at
<1>5. z \in 1..n /\ col \in [1..n -> Nat] /\ \A k \in 1..n : col[k] = 0 <=> k = z
  BY <1>2 DEF OneZero
<1>6. AlphabetSize \in Nat /\ Symbols = 0..AlphabetSize-1
  BY VictiniAssumption DEF Symbols
<1>7. ASSUME NEW k \in 1..n-1 PROVE b[k] \in Symbols /\ b[k] + 1 = col[IF k < z THEN k ELSE k + 1]
  <2> DEFINE j == IF k < z THEN k ELSE k + 1
  <2>1. j \in 1..n /\ j # z
    BY <1>1, <1>5
  <2>2. b[k] = col[j] - 1
    BY <1>3
  <2> HIDE DEF j
  <2> DEFINE v == col[j]
  <2>3. v \in 0..AlphabetSize /\ v # 0
    BY <1>2, <1>5, <2>1
  <2> HIDE DEF v
  <2>4. b[k] \in Symbols /\ b[k] + 1 = v
    BY <1>6, <2>2, <2>3 DEF v
  <2> QED BY <2>4 DEF v, j
<1>8. b \in [1..n-1 -> Symbols]
  BY <1>3, <1>7
<1>9. b \in Seq(Symbols) /\ Len(b) = n - 1
  BY <1>1, <1>8, IsSequence
<1> DEFINE s == [i \in 1..n-1 |-> b[i] + 1]
           t == InsertAt(s, z, 0)
<1>10. s = [i \in DOMAIN b |-> b[i] + 1]
  BY <1>8
<1>11. s \in [1..n-1 -> Nat] /\ \A k \in 1..n-1 : s[k] = col[IF k < z THEN k ELSE k + 1]
  BY <1>6, <1>7
<1> HIDE DEF s
<1>12. /\ t \in [1..n -> Nat]
       /\ \A j \in 1..n : t[j] = IF j < z THEN s[j] ELSE IF j = z THEN 0 ELSE s[j - 1]
  <2> DEFINE m == n - 1
  <2>1. m \in Nat /\ m + 1 = n /\ z \in 1..m+1 /\ s \in [1..m -> Nat] /\ 0 \in Nat
    BY <1>1, <1>5, <1>11
  <2> HIDE DEF m, t
  <2>2. Inserted(t, s, m, 0, z, Nat)
    BY <2>1, InsertAtIs DEF t
  <2> QED BY <2>1, <2>2 DEF Inserted
<1> HIDE DEF t
<1>13. ASSUME NEW j \in 1..n PROVE t[j] = col[j]
  <2>1. CASE j < z
    <3>1. j \in 1..n-1
      BY <1>1, <1>5, <2>1
    <3> QED BY <1>11, <1>12, <2>1, <3>1
  <2>2. CASE j = z
    BY <1>5, <1>12, <2>2
  <2>3. CASE j > z
    <3> DEFINE k == j - 1
    <3>1. k \in 1..n-1 /\ ~(k < z) /\ k + 1 = j /\ ~(j < z) /\ j # z
      BY <1>1, <1>5, <2>3
    <3>2. t[j] = s[k]
      BY <1>12, <3>1
    <3> HIDE DEF k
    <3> QED BY <1>11, <3>1, <3>2
  <2> QED BY <1>5, <2>1, <2>2, <2>3
<1>14. t = col
  BY <1>5, <1>12, <1>13
<1>15. InsertAt([i \in DOMAIN b |-> b[i] + 1], at + 1, 0) = col
  BY <1>4, <1>10, <1>14 DEF t
<1>16. at \in 0..n-1
  <2>1. 1 \in 0..n-1
    BY <1>1
  <2>2. RankOf(d) \in [0..n-1 -> 0..n-1]
    BY RanksNumber DEF Numbers
  <2> QED BY <1>2, <2>1, <2>2
<1> QED BY <1>8, <1>9, <1>15, <1>16 DEF b, at, col

-----------------------------------------------------------------------------
(* From a suffix to the next one *)
\* From the place of a suffix to the place of the next one.
Jumps(d, n) == [k \in 0..n-1 |-> RankOf(d)[NextOf(n, SuffixesOf(d)[k])]]

\* The last column as an array that starts at 0.
KeyOf(d, n) == [i \in 0..n-1 |-> LastColumn(d)[i + 1]]

\* The suffixes after two suffixes with the same symbol are in the same order.
LEMMA NextInOrder ==
  ASSUME NEW d, IsInput(d), NEW n, n = Len(d) + 1, NEW i \in 0..n-1, NEW j \in 0..n-1,
         Less(TextOf(d), i, j), ~(Marked(d)[i] < Marked(d)[j])
  PROVE  Marked(d)[i] = Marked(d)[j] /\ RankOf(d)[NextOf(n, i)] < RankOf(d)[NextOf(n, j)]
<1> DEFINE f == TextOf(d)
           r == RankOf(d)
<1>1. n \in Nat /\ n >= 2 /\ \A a, b \in 0..n-1 : Less(f, a, b) => r[a] < r[b]
  BY RanksNumber
<1>2. /\ \A h \in 0..n-1 : Marked(d)[h] \in Nat /\ f[h] = Marked(d)[h]
      /\ IsText(f, n) /\ Marked(d)[0] = 0 /\ \A h \in 1..n-1 : Marked(d)[h] > 0
  BY MarkedIs
<1>0. IsText(f, n)
  BY <1>2
<1> HIDE DEF f, r
<1>3. f \in [Nat -> Nat] /\ \A h \in Nat : f[h] \in Nat /\ (h >= n => f[h] = 0) /\ (h >= 1 /\ h < n => f[h] > 0)
  BY <1>0, TextIs
<1>4. i \in Nat /\ j \in Nat /\ i < n /\ j < n
  BY <1>1
<1>5. Less(f, i, j)
  BY DEF f
<1>6. f[i] = Marked(d)[i] /\ f[j] = Marked(d)[j]
  BY <1>2
<1>7. f[i] = f[j] /\ Less(f, i + 1, j + 1)
  BY <1>3, <1>4, <1>5, <1>6, LessSteps
<1>8. i + 1 \in Nat /\ j + 1 \in Nat
  BY <1>4
<1>9. j # n - 1
  <2> SUFFICES ASSUME j = n - 1 PROVE FALSE
    OBVIOUS
  <2>1. j + 1 = n
    BY <1>1
  <2>2. PICK l \in Nat : f[i + 1 + l] < f[j + 1 + l]
    BY <1>7 DEF Less
  <2> DEFINE u == i + 1 + l
             v == j + 1 + l
  <2>3. u \in Nat /\ v \in Nat /\ v >= n
    BY <1>4, <2>1
  <2>4. f[u] < f[v]
    BY <2>2
  <2> HIDE DEF u, v
  <2>5. f[u] \in Nat /\ f[v] = 0
    BY <1>3, <2>3
  <2> QED BY <2>4, <2>5
<1>10. NextOf(n, j) = j + 1 /\ j + 1 \in 0..n-1 /\ j + 1 # 0 /\ j + 1 \in 1..n-1
  BY <1>1, <1>4, <1>9 DEF NextOf
<1>11. CASE i = n - 1
  <2>1. NextOf(n, i) = 0 /\ 0 \in 0..n-1
    BY <1>1, <1>11 DEF NextOf
  <2> DEFINE w == j + 1
             z == NextOf(n, i)
  <2>2. z = 0 /\ z \in 0..n-1 /\ w = NextOf(n, j) /\ w \in 0..n-1 /\ w \in 1..n-1 /\ w \in Nat /\ z \in Nat
    BY <1>8, <1>10, <2>1
  <2> HIDE DEF w, z
  <2>3. f[z] = 0 /\ f[w] = Marked(d)[w] /\ Marked(d)[w] > 0
    BY <1>2, <2>2
  <2>4. f[z] < f[w]
    BY <2>3
  <2>5. Less(f, z, w)
    BY <1>3, <2>2, <2>4, LessSteps
  <2>6. r[z] < r[w]
    BY <1>1, <2>2, <2>5
  <2> QED BY <1>6, <1>7, <2>2, <2>6 DEF z, r
<1>12. CASE i # n - 1
  <2>1. NextOf(n, i) = i + 1 /\ i + 1 \in 0..n-1
    BY <1>1, <1>4, <1>12 DEF NextOf
  <2> DEFINE w == j + 1
             z == i + 1
  <2>2. Less(f, z, w) /\ z \in 0..n-1 /\ w \in 0..n-1 /\ z = NextOf(n, i) /\ w = NextOf(n, j)
    BY <1>7, <1>10, <2>1
  <2> HIDE DEF w, z
  <2>3. r[z] < r[w]
    BY <1>1, <2>2
  <2> QED BY <1>6, <1>7, <2>2, <2>3 DEF r
<1> QED BY <1>11, <1>12

\* The jumps put the positions of the last column in order of their first values.
LEMMA JumpsOrder ==
  ASSUME NEW d, IsInput(d), NEW n, n = Len(d) + 1
  PROVE  /\ OrdersKeys(Jumps(d, n), KeyOf(d, n), n)
         /\ \A i \in 0..n-1 : KeyOf(d, n)[i] \in Nat
<1> DEFINE SA == SuffixesOf(d)
           r == RankOf(d)
           M == Marked(d)
           q == Jumps(d, n)
           key == KeyOf(d, n)
           col == LastColumn(d)
<1>1. /\ n \in Nat /\ n >= 2 /\ Numbers(r, SA, n)
      /\ \A k, l \in 0..n-1 : k < l => Less(TextOf(d), SA[k], SA[l])
  BY RanksNumber
<1>2. \A i \in 0..n-1 : M[i] \in Nat
  BY MarkedRange
<1>3. col \in [1..n -> 0..AlphabetSize] /\ \A i \in 0..n-1 : col[r[i] + 1] = M[PrevOf(n, i)]
  BY LastColumnIs
<1>4. \A i \in 0..n-1 : q[i] = r[NextOf(n, SA[i])]
  BY DEF Jumps
<1>5. \A i \in 0..n-1 : key[i] = col[i + 1]
  BY DEF KeyOf
<1>6. DOMAIN q = 0..n-1 /\ q = [i \in DOMAIN q |-> q[i]]
  BY DEF Jumps
<1>7. \A i, j \in 0..n-1 : Less(TextOf(d), i, j) /\ ~(M[i] < M[j]) =>
        M[i] = M[j] /\ r[NextOf(n, i)] < r[NextOf(n, j)]
  BY NextInOrder
<1> HIDE DEF SA, r, M, q, key, col
<1>8. r \in [0..n-1 -> 0..n-1] /\ SA \in [0..n-1 -> 0..n-1] /\ \A i \in 0..n-1 : SA[r[i]] = i /\ r[SA[i]] = i
  BY <1>1 DEF Numbers
<1>9. \A i \in 0..n-1 : /\ NextOf(n, i) \in 0..n-1 /\ PrevOf(n, i) \in 0..n-1
                        /\ PrevOf(n, NextOf(n, i)) = i /\ NextOf(n, PrevOf(n, i)) = i
  BY <1>1, InCircle
<1>10. ASSUME NEW k \in 0..n-1 PROVE q[k] \in 0..n-1 /\ key[q[k]] = M[SA[k]] /\ PrevOf(n, SA[q[k]]) = SA[k]
  <2> DEFINE i == SA[k]
             j == NextOf(n, i)
             v == r[j]
  <2>1. i \in 0..n-1 /\ j \in 0..n-1 /\ PrevOf(n, j) = i
    BY <1>8, <1>9
  <2>2. q[k] = v /\ v \in 0..n-1 /\ SA[v] = j
    BY <1>4, <1>8, <2>1
  <2>3. key[v] = col[v + 1]
    BY <1>5, <2>2
  <2>4. col[v + 1] = M[PrevOf(n, j)]
    BY <1>3, <2>1
  <2> QED BY <2>1, <2>2, <2>3, <2>4
<1>11. q \in [0..n-1 -> 0..n-1]
  BY <1>6, <1>10
<1>12. \A k, l \in 0..n-1 : q[k] = q[l] => k = l
  <2> SUFFICES ASSUME NEW k \in 0..n-1, NEW l \in 0..n-1, q[k] = q[l] PROVE k = l
    OBVIOUS
  <2>1. SA[k] = SA[l]
    BY <1>10
  <2> QED BY <1>8, <2>1
<1>13. \A v \in 0..n-1 : \E k \in 0..n-1 : q[k] = v
  <2> SUFFICES ASSUME NEW v \in 0..n-1 PROVE \E k \in 0..n-1 : q[k] = v
    OBVIOUS
  <2> DEFINE j == SA[v]
             i == PrevOf(n, j)
             k == r[i]
  <2>1. j \in 0..n-1 /\ r[j] = v
    BY <1>8
  <2> HIDE DEF j
  <2>2. i \in 0..n-1 /\ NextOf(n, i) = j
    BY <1>9, <2>1
  <2> HIDE DEF i
  <2>3. k \in 0..n-1 /\ SA[k] = i
    BY <1>8, <2>2
  <2>4. q[k] = v
    BY <1>4, <2>1, <2>2, <2>3
  <2> QED BY <2>3, <2>4
<1>14. q \in Bijection(0..n-1, 0..n-1)
  BY <1>11, <1>12, <1>13 DEF Bijection, Injection, IsInjective, Surjection
<1>15. ASSUME NEW k \in 0..n-1, NEW l \in 0..n-1, k < l
       PROVE  key[q[k]] < key[q[l]] \/ (key[q[k]] = key[q[l]] /\ q[k] < q[l])
  <2>1. Less(TextOf(d), SA[k], SA[l]) /\ SA[k] \in 0..n-1 /\ SA[l] \in 0..n-1
    BY <1>1, <1>8, <1>15
  <2>2. key[q[k]] = M[SA[k]] /\ key[q[l]] = M[SA[l]]
    BY <1>10
  <2>3. q[k] = r[NextOf(n, SA[k])] /\ q[l] = r[NextOf(n, SA[l])]
    BY <1>4
  <2>4. M[SA[k]] < M[SA[l]] \/ (M[SA[k]] = M[SA[l]] /\ r[NextOf(n, SA[k])] < r[NextOf(n, SA[l])])
    BY <1>7, <2>1
  <2> QED BY <2>2, <2>3, <2>4
<1>16. OrdersKeys(q, key, n)
  BY <1>14, <1>15 DEF OrdersKeys
<1>17. \A i \in 0..n-1 : key[i] \in Nat
  <2> SUFFICES ASSUME NEW i \in 0..n-1 PROVE key[i] \in Nat
    OBVIOUS
  <2>1. i + 1 \in 1..n /\ key[i] = col[i + 1]
    BY <1>1, <1>5
  <2>2. AlphabetSize \in Nat
    BY VictiniAssumption
  <2> QED BY <1>3, <2>1, <2>2
<1> QED BY <1>16, <1>17 DEF q, key

\* What BwtInvert jumps along.
LEMMA JumpersJump ==
  ASSUME NEW d, IsInput(d), NEW n, n = Len(d) + 1
  PROVE  radix_pass([i \in 0..n-1 |-> i], KeyOf(d, n), 0, n) = Jumps(d, n)
<1> DEFINE c == radix_pass([i \in 0..n-1 |-> i], KeyOf(d, n), 0, n)
           q == Jumps(d, n)
           key == KeyOf(d, n)
<1>1. n \in Nat
  BY RanksNumber
<1>2. OrdersKeys(q, key, n) /\ \A i \in 0..n-1 : key[i] \in Nat
  BY JumpsOrder
<1> HIDE DEF q, key
<1>3. OrdersKeys(radix_pass([i \in 0..n-1 |-> i], key, 0, n), key, n)
  BY <1>1, <1>2, JumpersAre
<1>4. OrdersKeys(c, key, n)
  BY <1>3 DEF key
<1> HIDE DEF c
<1>5. \A k \in 0..n-1 : c[k] = q[k]
  BY <1>1, <1>2, <1>4, OrderUnique
<1>6. c \in [0..n-1 -> 0..n-1] /\ q \in [0..n-1 -> 0..n-1]
  BY <1>2, <1>4 DEF OrdersKeys, Bijection, Injection
<1>7. c = q
  BY <1>5, <1>6
<1> QED BY <1>7 DEF c, q, key

-----------------------------------------------------------------------------
(* The inverse of the Burrows-Wheeler transform *)
\* The walk of BwtInvert.
IsWalk(walk, n, at, jumpers) ==
  walk = [c \in 0..n |-> IF c = 0 THEN at ELSE jumpers[walk[c - 1]]]

Walks(w, n, at, jumpers) ==
  w \in [0..n -> 0..n-1] /\ w[0] = at /\ \A c \in 0..n-1 : w[c + 1] = jumpers[w[c]]

\* The recursion of the walk has a solution.
LEMMA WalkExists ==
  ASSUME NEW n \in Nat, NEW at \in 0..n-1, NEW jumpers \in [0..n-1 -> 0..n-1]
  PROVE  Walks(CHOOSE w : IsWalk(w, n, at, jumpers), n, at, jumpers)
<1> DEFINE step == [k \in 1..n |-> jumpers]
           D == 0..n-1
           w == CHOOSE w : IsWalk(w, n, at, jumpers)
<1>1. step \in [1..n -> [D -> D]] /\ \A k \in 1..n : step[k] = jumpers
  OBVIOUS
<1> HIDE DEF step
<1>2. PICK g : g \in [0..n -> D] /\ IsChain(g, n, at, step)
  <2> HIDE DEF D
  <2> QED BY <1>1, ChainExists DEF D
<1>3. IsWalk(g, n, at, jumpers)
  <2>1. g = [k \in 0..n |-> IF k = 0 THEN at ELSE step[k][g[k - 1]]]
    BY <1>2 DEF IsChain
  <2>2. \A k \in 0..n : k # 0 => step[k] = jumpers
    BY <1>1
  <2>3. [k \in 0..n |-> IF k = 0 THEN at ELSE step[k][g[k - 1]]] = [k \in 0..n |-> IF k = 0 THEN at ELSE jumpers[g[k - 1]]]
    BY <2>2
  <2>4. g = [k \in 0..n |-> IF k = 0 THEN at ELSE jumpers[g[k - 1]]]
    BY <2>1, <2>3
  <2> QED BY <2>4 DEF IsWalk
<1>4. IsWalk(w, n, at, jumpers)
  BY <1>3
<1> HIDE DEF w
<1>5. \A c \in 0..n : w[c] = IF c = 0 THEN at ELSE jumpers[w[c - 1]]
  BY <1>4 DEF IsWalk
<1>6. DOMAIN w = 0..n /\ w = [c \in DOMAIN w |-> w[c]]
  BY <1>4 DEF IsWalk
<1>7. w[0] = at
  BY <1>5
<1>8. \A c \in 0..n-1 : w[c + 1] = jumpers[w[c]]
  <2> SUFFICES ASSUME NEW c \in 0..n-1 PROVE w[c + 1] = jumpers[w[c]]
    OBVIOUS
  <2> DEFINE e == c + 1
  <2>1. e \in 0..n /\ e # 0 /\ e - 1 = c
    OBVIOUS
  <2> HIDE DEF e
  <2>2. w[e] = jumpers[w[c]]
    BY <1>5, <2>1
  <2> QED BY <2>2 DEF e
<1> DEFINE S == {c \in Nat : c <= n => w[c] \in D}
<1>9. 0 \in S
  BY <1>7
<1>10. ASSUME NEW c \in Nat, c \in S PROVE c + 1 \in S
  <2> SUFFICES ASSUME c + 1 <= n PROVE w[c + 1] \in D
    OBVIOUS
  <2>1. c \in 0..n-1 /\ w[c] \in D
    BY <1>10
  <2>2. w[c + 1] = jumpers[w[c]]
    BY <1>8, <2>1
  <2> QED BY <2>1, <2>2
<1>11. Nat \subseteq S
  <2> HIDE DEF S
  <2> QED BY <1>9, <1>10, Induction
<1>12. \A c \in 0..n : w[c] \in D
  BY <1>11
<1>13. w \in [0..n -> D]
  BY <1>6, <1>12
<1> QED BY <1>7, <1>8, <1>13 DEF w, Walks

\* Which suffix the walk is at.
AtTurn(n, c) == IF c < n - 1 THEN c + 1 ELSE IF c = n - 1 THEN 0 ELSE 1

\* The walk goes once round the circle.
LEMMA TurnInCircle ==
  ASSUME NEW n \in Nat, n >= 2
  PROVE  \A c \in 1..n : AtTurn(n, c) \in 0..n-1 /\ PrevOf(n, AtTurn(n, c)) = IF c = n THEN 0 ELSE c
<1> SUFFICES ASSUME NEW c \in 1..n
             PROVE  AtTurn(n, c) \in 0..n-1 /\ PrevOf(n, AtTurn(n, c)) = IF c = n THEN 0 ELSE c
  OBVIOUS
<1>1. CASE c < n - 1
  BY <1>1 DEF AtTurn, PrevOf
<1>2. CASE c = n - 1
  BY <1>2 DEF AtTurn, PrevOf
<1>3. CASE c = n
  BY <1>3 DEF AtTurn, PrevOf
<1> QED BY <1>1, <1>2, <1>3

\* The walk meets the suffixes in the order of the text.
LEMMA WalkIs ==
  ASSUME NEW d, IsInput(d), NEW n, n = Len(d) + 1, NEW w, Walks(w, n, RankOf(d)[1], Jumps(d, n))
  PROVE  \A c \in 0..n : w[c] = RankOf(d)[AtTurn(n, c)]
<1> DEFINE SA == SuffixesOf(d)
           r == RankOf(d)
           q == Jumps(d, n)
<1>1. n \in Nat /\ n >= 2 /\ Numbers(r, SA, n)
  BY RanksNumber
<1>2. \A k \in 0..n-1 : q[k] = r[NextOf(n, SA[k])]
  BY DEF Jumps
<1>3. w[0] = r[1] /\ \A c \in 0..n-1 : w[c + 1] = q[w[c]]
  BY DEF Walks
<1> HIDE DEF SA, r, q
<1>4. r \in [0..n-1 -> 0..n-1] /\ \A i \in 0..n-1 : SA[r[i]] = i
  BY <1>1 DEF Numbers
<1> DEFINE S == {c \in Nat : c <= n => w[c] = r[AtTurn(n, c)]}
<1>5. 0 \in S
  <2>1. AtTurn(n, 0) = 1
    BY <1>1 DEF AtTurn
  <2> QED BY <1>3, <2>1
<1>6. ASSUME NEW c \in Nat, c \in S PROVE c + 1 \in S
  <2> SUFFICES ASSUME c + 1 <= n PROVE w[c + 1] = r[AtTurn(n, c + 1)]
    OBVIOUS
  <2> DEFINE i == AtTurn(n, c)
             v == r[i]
  <2>1. c \in 0..n-1 /\ w[c] = v
    BY <1>1, <1>6
  <2>2. i \in 0..n-1 /\ NextOf(n, i) = AtTurn(n, c + 1)
    BY <1>1, <2>1 DEF AtTurn, NextOf
  <2> HIDE DEF i
  <2>3. v \in 0..n-1 /\ SA[v] = i
    BY <1>4, <2>2
  <2>4. q[v] = r[NextOf(n, i)]
    BY <1>2, <2>3
  <2>5. w[c + 1] = q[v]
    BY <1>3, <2>1
  <2> QED BY <2>2, <2>4, <2>5
<1>7. Nat \subseteq S
  <2> HIDE DEF S
  <2> QED BY <1>5, <1>6, Induction
<1>8. \A c \in 0..n : w[c] = r[AtTurn(n, c)]
  BY <1>1, <1>7
<1> QED BY <1>8 DEF r

\* The text comes back.
THEOREM BwtInverse ==
  ASSUME NEW d, IsInput(d)
  PROVE  BwtInvert(BwtTransform(d), BwtIndex(d)) = d
<1> DEFINE b == BwtTransform(d)
           at == BwtIndex(d)
           n == Len(d) + 1
           col == LastColumn(d)
           r == RankOf(d)
           M == Marked(d)
           q == Jumps(d, n)
           w == CHOOSE w : IsWalk(w, n, at, q)
           out1 == [c \in 1..n |-> col[w[c] + 1]]
<1>1. n = Len(d) + 1 /\ n \in Nat /\ n >= 2 /\ Len(d) = n - 1
  BY RanksNumber
<1> HIDE DEF n
<1>2. /\ Len(b) = n - 1 /\ at \in 0..n-1
      /\ InsertAt([i \in DOMAIN b |-> b[i] + 1], at + 1, 0) = col
  BY <1>1, BwtTransformIs
<1>3. /\ col \in [1..n -> 0..AlphabetSize] /\ at = r[1]
      /\ \A i \in 0..n-1 : col[r[i] + 1] = M[PrevOf(n, i)]
  BY <1>1, LastColumnIs
<1>4. radix_pass([i \in 0..n-1 |-> i], [i \in 0..n-1 |-> col[i + 1]], 0, n) = q
  BY <1>1, JumpersJump DEF KeyOf
<1>5. OrdersKeys(q, KeyOf(d, n), n)
  BY <1>1, JumpsOrder
<1> HIDE DEF b, at, col, r, q
<1>6. q \in [0..n-1 -> 0..n-1]
  BY <1>5 DEF OrdersKeys, Bijection, Injection
<1>7. Walks(w, n, at, q)
  BY <1>1, <1>2, <1>6, WalkExists
<1>8. BwtInvert(b, at) = Unmarked(out1)
  <2> DEFINE m == Len(b)
             column == InsertAt([i \in DOMAIN b |-> b[i] + 1], at + 1, 0)
             jumpers == radix_pass([i \in 0..m |-> i], [i \in 0..m |-> column[i + 1]], 0, m + 1)
             walk == CHOOSE walk : walk = [c \in 0..m+1 |-> IF c = 0 THEN at ELSE jumpers[walk[c - 1]]]
  <2>1. BwtInvert(b, at) = Unmarked([c \in 1..m+1 |-> column[walk[c] + 1]])
    BY Zenon DEF BwtInvert
  <2>2. column = col
    BY <1>2
  <2>3. m = n - 1 /\ m + 1 = n
    BY <1>1, <1>2
  <2> HIDE DEF m, column
  <2>4. jumpers = q
    BY <1>4, <2>2, <2>3
  <2> HIDE DEF jumpers
  <2>5. walk = w
    BY <2>3, <2>4 DEF IsWalk
  <2> HIDE DEF walk, w
  <2> QED BY <2>1, <2>2, <2>3, <2>5
<1> HIDE DEF w
<1>9. \A c \in 0..n : w[c] = r[AtTurn(n, c)]
  <2>1. Walks(w, n, RankOf(d)[1], Jumps(d, n))
    BY <1>3, <1>7 DEF r, q
  <2>2. \A c \in 0..n : w[c] = RankOf(d)[AtTurn(n, c)]
    BY <1>1, <2>1, WalkIs
  <2> QED BY <2>2 DEF r
<1>10. M[0] = 0 /\ \A i \in 1..n-1 : M[i] = d[i] + 1 /\ M[i] \in Nat /\ M[i] > 0
  BY <1>1, MarkedIs
<1>11. d \in Seq(Symbols) /\ Symbols \subseteq Nat
  BY DEF IsInput, Symbols
<1> HIDE DEF M, out1
<1>12. ASSUME NEW c \in 1..n PROVE out1[c] = IF c = n THEN 0 ELSE M[c]
  <2> DEFINE i == AtTurn(n, c)
  <2>1. i \in 0..n-1 /\ PrevOf(n, i) = IF c = n THEN 0 ELSE c
    BY <1>1, TurnInCircle
  <2>2. w[c] = r[i] /\ c \in 1..n
    BY <1>9
  <2>3. out1[c] = col[w[c] + 1]
    BY DEF out1
  <2> HIDE DEF i
  <2>4. col[r[i] + 1] = M[PrevOf(n, i)]
    BY <1>3, <2>1
  <2> QED BY <1>10, <2>1, <2>2, <2>3, <2>4
<1>13. out1 \in [1..n -> Nat]
  <2>1. \A c \in 1..n : out1[c] \in Nat
    <3> SUFFICES ASSUME NEW c \in 1..n PROVE out1[c] \in Nat
      OBVIOUS
    <3>1. c = n \/ c \in 1..n-1
      BY <1>1
    <3> QED BY <1>10, <1>12, <3>1
  <2>2. DOMAIN out1 = 1..n /\ out1 = [c \in DOMAIN out1 |-> out1[c]]
    BY DEF out1
  <2> QED BY <2>1, <2>2
<1>14. \A k \in 1..n : out1[k] = 0 <=> k = n
  <2> SUFFICES ASSUME NEW k \in 1..n PROVE out1[k] = 0 <=> k = n
    OBVIOUS
  <2>1. k = n \/ (k # n /\ k \in 1..n-1)
    BY <1>1
  <2> QED BY <1>10, <1>12, <2>1
<1>15. OneZero(out1, n, n)
  BY <1>1, <1>13, <1>14 DEF OneZero
<1>16. Unmarked(out1) = [k \in 1..n-1 |-> out1[IF k < n THEN k ELSE k + 1] - 1]
  BY <1>15, UnmarkedIs
<1>17. \A k \in 1..n-1 : out1[IF k < n THEN k ELSE k + 1] - 1 = d[k]
  <2> SUFFICES ASSUME NEW k \in 1..n-1 PROVE out1[IF k < n THEN k ELSE k + 1] - 1 = d[k]
    OBVIOUS
  <2>1. k < n /\ k \in 1..n /\ k # n /\ k \in 1..Len(d)
    BY <1>1
  <2>2. d[k] \in Nat
    BY <2>1, InputLength
  <2>3. out1[k] = d[k] + 1
    BY <1>10, <1>12, <2>1
  <2> QED BY <2>1, <2>2, <2>3
<1>18. Unmarked(out1) = [k \in 1..n-1 |-> d[k]]
  BY <1>16, <1>17
<1>19. d = [k \in 1..n-1 |-> d[k]]
  BY <1>1, <1>11
<1> QED BY <1>8, <1>18, <1>19 DEF b, at

-----------------------------------------------------------------------------
(* The caches of move-to-front *)
\* A list with every symbol.
Caches == {c \in [1..AlphabetSize -> Symbols] : \A s \in Symbols : \E j \in 1..AlphabetSize : c[j] = s}

\* t is c with the element at j moved to the front.
Fronted(t, c, m, j, S) ==
  /\ t \in [1..m -> S]
  /\ \A k \in 1..m : t[k] = IF k = 1 THEN c[j] ELSE IF k - 1 < j THEN c[k - 1] ELSE c[k]

\* Moving a symbol to the front keeps the cache a permutation.
LEMMA ToFrontIs ==
  ASSUME NEW S, NEW m \in Nat, NEW c \in [1..m -> S], NEW j \in 1..m
  PROVE  Fronted(ToFront(c, j), c, m, j, S)
<1>1. c \in Seq(S) /\ Len(c) = m /\ c[j] \in S
  BY IsSequence
<1> DEFINE a == SubSeq(c, 1, j - 1)
           b == SubSeq(c, j + 1, m)
           ab == a \o b
           h == <<c[j]>>
           t == ToFront(c, j)
<1>2. a \in Seq(S) /\ Len(a) = j - 1 /\ \A k \in 1..j-1 : a[k] = c[k]
  BY <1>1
<1>3. b \in Seq(S) /\ Len(b) = m - j /\ \A k \in 1..m-j : b[k] = c[k + j]
  BY <1>1
<1>4. h \in Seq(S) /\ Len(h) = 1 /\ h[1] = c[j]
  BY <1>1
<1>5. t = h \o ab
  BY <1>1 DEF ToFront, RemoveAt
<1> HIDE DEF a, b, h, t
<1>6. ab \in Seq(S) /\ Len(ab) = m - 1 /\ \A k \in 1..m-1 : ab[k] = IF k < j THEN c[k] ELSE c[k + 1]
  <2>1. /\ ab \in Seq(S) /\ Len(ab) = Len(a) + Len(b)
        /\ \A k \in 1 .. Len(a) + Len(b) : ab[k] = IF k <= Len(a) THEN a[k] ELSE b[k - Len(a)]
    BY <1>2, <1>3, ConcatProperties
  <2> HIDE DEF ab
  <2>2. Len(a) + Len(b) = m - 1 /\ Len(a) = j - 1
    BY <1>2, <1>3
  <2>3. ASSUME NEW k \in 1..m-1 PROVE ab[k] = IF k < j THEN c[k] ELSE c[k + 1]
    <3>1. ab[k] = IF k <= j - 1 THEN a[k] ELSE b[k - (j - 1)]
      BY <2>1, <2>2
    <3>2. CASE k < j
      <4>1. k <= j - 1 /\ k \in 1..j-1
        BY <3>2
      <4> QED BY <1>2, <3>1, <3>2, <4>1
    <3>3. CASE ~(k < j)
      <4> DEFINE u == k - (j - 1)
      <4>1. ~(k <= j - 1) /\ u \in 1..m-j /\ u + j = k + 1
        BY <3>3
      <4>2. ab[k] = b[u]
        BY <3>1, <4>1
      <4> HIDE DEF u
      <4> QED BY <1>3, <3>3, <4>1, <4>2
    <3> QED BY <3>2, <3>3
  <2> QED BY <2>1, <2>2, <2>3
<1> HIDE DEF ab
<1>7. t \in Seq(S) /\ Len(t) = m /\ \A k \in 1..m : t[k] = IF k <= 1 THEN h[k] ELSE ab[k - 1]
  <2> DEFINE u == h \o ab
  <2>1. /\ u \in Seq(S) /\ Len(u) = Len(h) + Len(ab)
        /\ \A k \in 1 .. Len(h) + Len(ab) : u[k] = IF k <= Len(h) THEN h[k] ELSE ab[k - Len(h)]
    BY <1>4, <1>6, ConcatProperties
  <2>2. t = u
    BY <1>5
  <2> HIDE DEF u
  <2>3. Len(h) + Len(ab) = m /\ Len(h) = 1
    BY <1>4, <1>6
  <2> QED BY <2>1, <2>2, <2>3
<1>8. ASSUME NEW k \in 1..m PROVE t[k] = IF k = 1 THEN c[j] ELSE IF k - 1 < j THEN c[k - 1] ELSE c[k]
  <2>1. CASE k = 1
    BY <1>4, <1>7, <2>1
  <2>2. CASE k # 1
    <3> DEFINE u == k - 1
    <3>1. u \in 1..m-1 /\ ~(k <= 1) /\ u + 1 = k
      BY <2>2
    <3>2. t[k] = ab[u]
      BY <1>7, <3>1
    <3> HIDE DEF u
    <3>3. ab[u] = IF u < j THEN c[u] ELSE c[k]
      BY <1>6, <3>1
    <3> QED BY <2>2, <3>2, <3>3 DEF u
  <2> QED BY <2>1, <2>2
<1>9. t \in [1..m -> S]
  BY <1>7
<1> QED BY <1>8, <1>9 DEF t, Fronted

\* Every symbol stays in the list.
LEMMA CacheStays ==
  ASSUME NEW c \in Caches, NEW j \in 1..AlphabetSize
  PROVE  ToFront(c, j) \in Caches
<1> DEFINE m == AlphabetSize
           t == ToFront(c, j)
<1>1. m \in Nat
  BY VictiniAssumption
<1>2. c \in [1..m -> Symbols] /\ \A s \in Symbols : \E k \in 1..m : c[k] = s
  BY DEF Caches
<1>3. Fronted(t, c, m, j, Symbols)
  <2> HIDE DEF m
  <2>1. j \in 1..m
    BY DEF m
  <2> QED BY <1>1, <1>2, <2>1, ToFrontIs
<1> HIDE DEF t
<1>4. /\ t \in [1..m -> Symbols]
      /\ \A k \in 1..m : t[k] = IF k = 1 THEN c[j] ELSE IF k - 1 < j THEN c[k - 1] ELSE c[k]
  BY <1>3 DEF Fronted
<1>5. ASSUME NEW s \in Symbols PROVE \E k \in 1..m : t[k] = s
  <2>1. PICK k \in 1..m : c[k] = s
    BY <1>2
  <2>2. CASE k = j
    <3>1. 1 \in 1..m
      BY <1>1
    <3>2. t[1] = c[j]
      BY <1>4, <3>1
    <3> QED BY <2>1, <2>2, <3>1, <3>2
  <2>3. CASE k < j
    <3> DEFINE u == k + 1
    <3>1. u \in 1..m /\ u # 1 /\ u - 1 = k
      BY <1>1, <2>3
    <3> HIDE DEF u
    <3>2. t[u] = c[k]
      BY <1>4, <2>3, <3>1
    <3> QED BY <2>1, <3>1, <3>2
  <2>4. CASE k > j
    <3>1. k # 1 /\ ~(k - 1 < j)
      BY <1>1, <2>4
    <3>2. t[k] = c[k]
      BY <1>4, <3>1
    <3> QED BY <2>1, <3>2
  <2>5. k = j \/ k < j \/ k > j
    BY <1>1
  <2> QED BY <2>2, <2>3, <2>4, <2>5
<1> QED BY <1>4, <1>5 DEF t, m, Caches

\* Every symbol is once in the cache.
LEMMA PositionIs ==
  ASSUME NEW c \in Caches, NEW s \in Symbols
  PROVE  Position(c, s) \in 1..AlphabetSize /\ c[Position(c, s)] = s
<1>1. c \in [1..AlphabetSize -> Symbols] /\ \E j \in 1..AlphabetSize : c[j] = s
  BY DEF Caches
<1> QED BY <1>1 DEF Position

LEMMA InitialCacheIs == InitialCache \in Caches
<1>1. AlphabetSize \in Nat /\ Symbols = 0..AlphabetSize-1
  BY VictiniAssumption DEF Symbols
<1>2. InitialCache \in [1..AlphabetSize -> Symbols]
  BY <1>1 DEF InitialCache
<1>3. ASSUME NEW s \in Symbols PROVE \E j \in 1..AlphabetSize : InitialCache[j] = s
  <2>1. s + 1 \in 1..AlphabetSize /\ InitialCache[s + 1] = s
    BY <1>1 DEF InitialCache
  <2> QED BY <2>1
<1> QED BY <1>2, <1>3 DEF Caches

-----------------------------------------------------------------------------
(* Move-to-front and its inverse *)
\* The caches of MtfTransform and of MtfInvert.
EncoderCaches(h, d) ==
  h = [i \in 0..Len(d) |-> IF i = 0 THEN InitialCache ELSE ToFront(h[i - 1], Position(h[i - 1], d[i]))]

DecoderCaches(h, d) ==
  h = [i \in 0..Len(d) |-> IF i = 0 THEN InitialCache ELSE ToFront(h[i - 1], d[i] + 1)]

LEMMA EncoderCachesExist ==
  ASSUME NEW d \in Seq(Symbols)
  PROVE  \E h : h \in [0..Len(d) -> Caches] /\ EncoderCaches(h, d)
<1> DEFINE n == Len(d)
           step == [k \in 1..n |-> [c \in Caches |-> ToFront(c, Position(c, d[k]))]]
<1>1. n \in Nat /\ \A k \in 1..n : d[k] \in Symbols
  OBVIOUS
<1>2. step \in [1..n -> [Caches -> Caches]]
  <2>1. \A k \in 1..n : \A c \in Caches : ToFront(c, Position(c, d[k])) \in Caches
    BY <1>1, PositionIs, CacheStays
  <2> QED BY <2>1
<1>3. PICK g : g \in [0..n -> Caches] /\ IsChain(g, n, InitialCache, step)
  <2> HIDE DEF step, n
  <2> QED BY <1>1, <1>2, InitialCacheIs, ChainExists
<1>4. g = [k \in 0..n |-> IF k = 0 THEN InitialCache ELSE step[k][g[k - 1]]]
  <2> HIDE DEF step
  <2> QED BY <1>3 DEF IsChain
<1>5. \A k \in 0..n : k # 0 => step[k][g[k - 1]] = ToFront(g[k - 1], Position(g[k - 1], d[k]))
  <2> SUFFICES ASSUME NEW k \in 0..n, k # 0
               PROVE  step[k][g[k - 1]] = ToFront(g[k - 1], Position(g[k - 1], d[k]))
    OBVIOUS
  <2>1. k \in 1..n /\ k - 1 \in 0..n
    BY <1>1
  <2>2. g[k - 1] \in Caches
    BY <1>3, <2>1
  <2> QED BY <2>1, <2>2
<1> HIDE DEF step
<1>6. g = [k \in 0..n |-> IF k = 0 THEN InitialCache ELSE ToFront(g[k - 1], Position(g[k - 1], d[k]))]
  BY <1>4, <1>5
<1> QED BY <1>3, <1>6 DEF EncoderCaches

LEMMA DecoderCachesExist ==
  ASSUME NEW d \in Seq(Symbols)
  PROVE  \E h : h \in [0..Len(d) -> Caches] /\ DecoderCaches(h, d)
<1> DEFINE n == Len(d)
           step == [k \in 1..n |-> [c \in Caches |-> ToFront(c, d[k] + 1)]]
<1>1. n \in Nat /\ \A k \in 1..n : d[k] + 1 \in 1..AlphabetSize
  <2>1. n \in Nat /\ \A k \in 1..n : d[k] \in 0..AlphabetSize-1
    <3>1. n \in Nat /\ \A k \in 1..n : d[k] \in Symbols
      OBVIOUS
    <3> QED BY <3>1 DEF Symbols
  <2>2. AlphabetSize \in Nat
    BY VictiniAssumption
  <2> HIDE DEF n
  <2>3. ASSUME NEW k \in 1..n PROVE d[k] + 1 \in 1..AlphabetSize
    <3> DEFINE v == d[k]
    <3>1. v \in 0..AlphabetSize-1
      BY <2>1
    <3> HIDE DEF v
    <3>2. v + 1 \in 1..AlphabetSize
      BY <2>2, <3>1
    <3> QED BY <3>2 DEF v
  <2> QED BY <2>1, <2>3
<1>2. step \in [1..n -> [Caches -> Caches]]
  <2>1. \A k \in 1..n : \A c \in Caches : ToFront(c, d[k] + 1) \in Caches
    BY <1>1, CacheStays
  <2> QED BY <2>1
<1>3. PICK g : g \in [0..n -> Caches] /\ IsChain(g, n, InitialCache, step)
  <2> HIDE DEF step, n
  <2> QED BY <1>1, <1>2, InitialCacheIs, ChainExists
<1>4. g = [k \in 0..n |-> IF k = 0 THEN InitialCache ELSE step[k][g[k - 1]]]
  <2> HIDE DEF step
  <2> QED BY <1>3 DEF IsChain
<1>5. \A k \in 0..n : k # 0 => step[k][g[k - 1]] = ToFront(g[k - 1], d[k] + 1)
  <2> SUFFICES ASSUME NEW k \in 0..n, k # 0
               PROVE  step[k][g[k - 1]] = ToFront(g[k - 1], d[k] + 1)
    OBVIOUS
  <2>1. k \in 1..n /\ k - 1 \in 0..n
    BY <1>1
  <2>2. g[k - 1] \in Caches
    BY <1>3, <2>1
  <2> QED BY <2>1, <2>2
<1> HIDE DEF step
<1>6. g = [k \in 0..n |-> IF k = 0 THEN InitialCache ELSE ToFront(g[k - 1], d[k] + 1)]
  BY <1>4, <1>5
<1> QED BY <1>3, <1>6 DEF DecoderCaches

\* With the same list before every symbol, decoder and encoder agree.
LEMMA CachesSame ==
  ASSUME NEW d \in Seq(Symbols), NEW e \in Seq(Symbols), Len(e) = Len(d), NEW g, EncoderCaches(g, d),
         NEW h, DecoderCaches(h, e), \A i \in 1..Len(d) : e[i] + 1 = Position(g[i - 1], d[i])
  PROVE  \A i \in 0..Len(d) : g[i] = h[i]
<1> DEFINE n == Len(d)
           S == {i \in Nat : i <= n => g[i] = h[i]}
<1>1. n \in Nat
  OBVIOUS
<1>2. \A i \in 0..n : g[i] = IF i = 0 THEN InitialCache ELSE ToFront(g[i - 1], Position(g[i - 1], d[i]))
  BY DEF EncoderCaches
<1>3. \A i \in 0..n : h[i] = IF i = 0 THEN InitialCache ELSE ToFront(h[i - 1], e[i] + 1)
  BY DEF DecoderCaches
<1>4. \A i \in 1..n : e[i] + 1 = Position(g[i - 1], d[i])
  OBVIOUS
<1> HIDE DEF n
<1>5. 0 \in S
  BY <1>1, <1>2, <1>3
<1>6. ASSUME NEW i \in Nat, i \in S PROVE i + 1 \in S
  <2> SUFFICES ASSUME i + 1 <= n PROVE g[i + 1] = h[i + 1]
    OBVIOUS
  <2> DEFINE j == i + 1
  <2>1. j \in 0..n /\ j \in 1..n /\ j # 0 /\ j - 1 = i
    BY <1>1
  <2> HIDE DEF j
  <2>2. g[i] = h[i]
    BY <1>1, <1>6, <2>1
  <2>3. g[j] = ToFront(g[i], Position(g[i], d[j]))
    BY <1>2, <2>1
  <2>4. h[j] = ToFront(h[i], e[j] + 1)
    BY <1>3, <2>1
  <2>5. e[j] + 1 = Position(g[i], d[j])
    BY <1>4, <2>1
  <2> QED BY <2>2, <2>3, <2>4, <2>5 DEF j
<1>7. Nat \subseteq S
  <2> HIDE DEF S
  <2> QED BY <1>5, <1>6, Induction
<1>8. \A i \in 0..n : g[i] = h[i]
  BY <1>7
<1> QED BY <1>8 DEF n

LEMMA MtfTransformIs ==
  ASSUME NEW d \in Seq(Symbols)
  PROVE  LET h == CHOOSE h : EncoderCaches(h, d)
         IN  /\ h \in [0..Len(d) -> Caches] /\ EncoderCaches(h, d)
             /\ MtfTransform(d) \in Seq(Symbols) /\ Len(MtfTransform(d)) = Len(d)
             /\ \A i \in 1..Len(d) : MtfTransform(d)[i] + 1 = Position(h[i - 1], d[i])
<1> DEFINE h == CHOOSE h : EncoderCaches(h, d)
           n == Len(d)
           e == MtfTransform(d)
<1>1. n \in Nat /\ DOMAIN d = 1..n /\ \A k \in 1..n : d[k] \in Symbols
  OBVIOUS
<1>2. PICK g : g \in [0..n -> Caches] /\ EncoderCaches(g, d)
  BY EncoderCachesExist
<1>3. EncoderCaches(h, d)
  BY <1>2
<1>4. e = [i \in DOMAIN d |-> Position(h[i - 1], d[i]) - 1]
  BY StoredIs, Zenon DEF MtfTransform, EncoderCaches
<1> HIDE DEF h, e
<1>5. \A i \in 0..n : h[i] = IF i = 0 THEN InitialCache ELSE ToFront(h[i - 1], Position(h[i - 1], d[i]))
  BY <1>3 DEF EncoderCaches
<1>6. DOMAIN h = 0..n /\ h = [i \in DOMAIN h |-> h[i]]
  BY <1>3 DEF EncoderCaches
<1> HIDE DEF n
<1> DEFINE S == {i \in Nat : i <= n => h[i] \in Caches}
<1>7. 0 \in S
  BY <1>1, <1>5, InitialCacheIs
<1>8. ASSUME NEW i \in Nat, i \in S PROVE i + 1 \in S
  <2> SUFFICES ASSUME i + 1 <= n PROVE h[i + 1] \in Caches
    OBVIOUS
  <2> DEFINE j == i + 1
  <2>1. j \in 0..n /\ j \in 1..n /\ j # 0 /\ j - 1 = i
    BY <1>1
  <2> HIDE DEF j
  <2>2. h[i] \in Caches
    BY <1>1, <1>8, <2>1
  <2>3. h[j] = ToFront(h[i], Position(h[i], d[j])) /\ d[j] \in Symbols
    BY <1>1, <1>5, <2>1
  <2>4. Position(h[i], d[j]) \in 1..AlphabetSize
    BY <2>2, <2>3, PositionIs
  <2>5. h[j] \in Caches
    BY <2>2, <2>3, <2>4, CacheStays
  <2> QED BY <2>5 DEF j
<1>9. Nat \subseteq S
  <2> HIDE DEF S
  <2> QED BY <1>7, <1>8, Induction
<1>10. \A i \in 0..n : h[i] \in Caches
  BY <1>9
<1>11. ASSUME NEW i \in 1..n PROVE e[i] \in Symbols /\ e[i] + 1 = Position(h[i - 1], d[i])
  <2>1. i - 1 \in 0..n /\ d[i] \in Symbols
    BY <1>1
  <2> DEFINE v == Position(h[i - 1], d[i])
  <2>2. v \in 1..AlphabetSize
    BY <1>10, <2>1, PositionIs
  <2>3. e[i] = v - 1
    BY <1>1, <1>4
  <2> HIDE DEF v
  <2>4. AlphabetSize \in Nat
    BY VictiniAssumption
  <2>5. e[i] \in Symbols /\ e[i] + 1 = v
    BY <2>2, <2>3, <2>4 DEF Symbols
  <2> QED BY <2>5 DEF v
<1>12. e \in [1..n -> Symbols]
  BY <1>1, <1>4, <1>11
<1>13. e \in Seq(Symbols) /\ Len(e) = n
  BY <1>1, <1>12, IsSequence
<1>14. h \in [0..n -> Caches]
  BY <1>6, <1>10
<1> QED BY <1>3, <1>11, <1>13, <1>14 DEF h, e, n

\* Move-to-front is undone.
THEOREM MtfInverse ==
  ASSUME NEW d \in Seq(Symbols)
  PROVE  MtfInvert(MtfTransform(d)) = d
<1> DEFINE g == CHOOSE h : EncoderCaches(h, d)
           n == Len(d)
           e == MtfTransform(d)
           h == CHOOSE h : DecoderCaches(h, e)
<1>1. n \in Nat /\ DOMAIN d = 1..n /\ \A k \in 1..n : d[k] \in Symbols
  OBVIOUS
<1>2. /\ g \in [0..n -> Caches] /\ EncoderCaches(g, d)
      /\ e \in Seq(Symbols) /\ Len(e) = n
      /\ \A i \in 1..n : e[i] + 1 = Position(g[i - 1], d[i])
  BY MtfTransformIs, Zenon
<1> HIDE DEF g, e
<1>3. DecoderCaches(h, e)
  BY <1>2, DecoderCachesExist
<1>4. MtfInvert(e) = [i \in DOMAIN e |-> h[i - 1][e[i] + 1]]
  BY StoredIs, Zenon DEF MtfInvert, DecoderCaches
<1> HIDE DEF h
<1>5. \A i \in 0..n : g[i] = h[i]
  BY <1>2, <1>3, CachesSame
<1>6. DOMAIN e = 1..n
  BY <1>2
<1>7. ASSUME NEW i \in 1..n PROVE h[i - 1][e[i] + 1] = d[i]
  <2>1. i - 1 \in 0..n /\ d[i] \in Symbols
    BY <1>1
  <2>2. h[i - 1] = g[i - 1] /\ g[i - 1] \in Caches /\ e[i] + 1 = Position(g[i - 1], d[i])
    BY <1>2, <1>5, <2>1
  <2> QED BY <2>1, <2>2, PositionIs
<1>8. MtfInvert(e) = [i \in 1..n |-> d[i]]
  BY <1>4, <1>6, <1>7
<1>9. d = [i \in 1..n |-> d[i]]
  BY <1>1
<1> QED BY <1>8, <1>9 DEF e

-----------------------------------------------------------------------------
(* The rows of the model *)
LEMMA AlphabetIs ==
  /\ AlphabetSize \in Nat \ {0} /\ Total \in Nat /\ AlphabetSize < Total /\ Total - AlphabetSize \in Nat
  /\ Symbols = 0..AlphabetSize-1
<1>1. AlphabetSize \in Nat \ {0} /\ Total \in Nat /\ AlphabetSize < Total
  BY VictiniAssumption, HzRansAssumption
<1> QED BY <1>1 DEF Symbols

\* One more for each.
LEMMA SumOfPlusOne ==
  ASSUME NEW n \in Nat, NEW share, \A i \in 0..n-1 : share[i] \in Nat,
         NEW part, \A i \in 0..n-1 : part[i] = 1 + share[i]
  PROVE  SumBelow(part, n) = n + SumBelow(share, n) /\ SumBelow(share, n) \in Nat
<1> DEFINE S == {k \in Nat : k <= n => SumBelow(part, k) = k + SumBelow(share, k)}
<1>1. \A k \in 0..n : SumBelow(share, k) \in Nat
  BY SumBelowNat
<1>2. 0 \in S
  BY SumBelowIs
<1>3. ASSUME NEW k \in Nat, k \in S PROVE k + 1 \in S
  <2> SUFFICES ASSUME k + 1 <= n PROVE SumBelow(part, k + 1) = k + 1 + SumBelow(share, k + 1)
    OBVIOUS
  <2>1. SumBelow(part, k + 1) = SumBelow(part, k) + part[k]
    BY SumBelowIs
  <2>2. SumBelow(share, k + 1) = SumBelow(share, k) + share[k]
    BY SumBelowIs
  <2>3. k \in 0..n-1 /\ k \in 0..n
    OBVIOUS
  <2>4. SumBelow(part, k) = k + SumBelow(share, k) /\ SumBelow(share, k) \in Nat
    BY <1>1, <1>3, <2>3
  <2>5. part[k] = 1 + share[k] /\ share[k] \in Nat
    BY <2>3
  <2> QED BY <2>1, <2>2, <2>4, <2>5
<1>4. n \in S
  <2>1. Nat \subseteq S
    <3> HIDE DEF S
    <3> QED BY <1>2, <1>3, Induction
  <2> QED BY <2>1
<1> QED BY <1>1, <1>4

\* What is left goes round.
GoesRound(row, part, rest, size) ==
  \A k \in 0..size-1 : row[k] = part[k] + rest \div size + (IF k < rest % size THEN 1 ELSE 0)

\* What goes round to the symbols in turn makes up the sum.
LEMMA RoundFits ==
  ASSUME NEW size \in Nat \ {0}, NEW total \in Nat, NEW part,
         \A i \in 0..size-1 : part[i] \in Nat,
         SumBelow(part, size) <= total,
         NEW rest, rest = total - SumBelow(part, size), NEW row, GoesRound(row, part, rest, size)
  PROVE  /\ \A i \in 0..size-1 : row[i] \in Nat /\ row[i] >= part[i]
         /\ SumBelow(row, size) = total
<1>1. \A i \in 0..size-1 : row[i] = part[i] + rest \div size + (IF i < rest % size THEN 1 ELSE 0)
  BY DEF GoesRound
<1> QED BY <1>1, RestGoesRound

IsDistribution(row) == row \in [Symbols -> Nat \ {0}] /\ SumBelow(row, AlphabetSize) = Total

\* _normalize makes a distribution of any row of counts.
LEMMA NormalisedIs ==
  ASSUME NEW row \in [Symbols -> Nat]
  PROVE  IsDistribution(Normalised(row))
<1> DEFINE A      == AlphabetSize
           mul    == Total - A
           s      == SumBelow(row, A)
           sum    == IF s = 0 THEN 1 ELSE s
           share  == [k \in Symbols |-> (row[k] * mul) \div sum]
           scaled == [k \in Symbols |-> 1 + (row[k] * mul) \div sum]
           rest   == Total - SumBelow(scaled, A)
           norm   == [k \in Symbols |-> scaled[k] + rest \div A + (IF k < rest % A THEN 1 ELSE 0)]
<1>1. /\ A \in Nat \ {0} /\ A \in Nat /\ Total \in Nat /\ mul \in Nat /\ mul = Total - A
      /\ Symbols = 0..A-1
  BY AlphabetIs
<1>2. Scaled(row) = scaled
  BY StoredIs, Zenon DEF Scaled
<1>3. Normalised(row) = norm
  BY <1>2, StoredIs, Zenon DEF Normalised
<1> HIDE DEF A, mul
<1>4. \A k \in 0..A-1 : row[k] \in Nat
  BY <1>1
<1>5. s \in Nat
  <2>1. A \in 0..A
    BY <1>1
  <2> QED BY <1>1, <1>4, <2>1, SumBelowNat
<1> HIDE DEF s
<1>6. sum \in Nat \ {0} /\ s <= sum
  BY <1>5
<1> HIDE DEF sum
<1>7. \A k \in 0..A-1 : share[k] = (row[k] * mul) \div sum /\ scaled[k] = 1 + share[k]
  BY <1>1
<1> HIDE DEF share, scaled
<1>8. (\A k \in 0..A-1 : share[k] \in Nat) /\ SumBelow(share, A) <= mul
  <2>1. SumBelow(row, A) <= sum
    BY <1>6 DEF s
  <2>2. \A k \in 0..A-1 : share[k] = (row[k] * mul) \div sum
    BY <1>7
  <2> QED BY <1>1, <1>4, <1>6, <2>1, <2>2, SharesFit
<1>9. SumBelow(scaled, A) = A + SumBelow(share, A) /\ SumBelow(share, A) \in Nat
  BY <1>1, <1>7, <1>8, SumOfPlusOne
<1>10. \A k \in 0..A-1 : scaled[k] \in Nat /\ scaled[k] >= 1
  BY <1>7, <1>8
<1>11. SumBelow(scaled, A) <= Total /\ rest = Total - SumBelow(scaled, A)
  BY <1>1, <1>8, <1>9
<1> HIDE DEF rest
<1>12. \A k \in 0..A-1 : norm[k] = scaled[k] + rest \div A + (IF k < rest % A THEN 1 ELSE 0)
  BY <1>1
<1>13. norm = [k \in 0..A-1 |-> norm[k]]
  BY <1>1
<1> HIDE DEF norm
<1>14. (\A k \in 0..A-1 : norm[k] \in Nat /\ norm[k] >= scaled[k]) /\ SumBelow(norm, A) = Total
  <2>1. \A k \in 0..A-1 : scaled[k] \in Nat
    BY <1>10
  <2>2. GoesRound(norm, scaled, rest, A)
    BY <1>12 DEF GoesRound
  <2> QED BY <1>1, <1>11, <2>1, <2>2, RoundFits
<1>15. \A k \in 0..A-1 : norm[k] \in Nat \ {0}
  BY <1>10, <1>14
<1>16. norm \in [0..A-1 -> Nat \ {0}]
  BY <1>13, <1>15
<1> QED BY <1>1, <1>3, <1>14, <1>16 DEF IsDistribution, A

IsModel(ms) == ms \in [Symbols -> [Symbols -> Nat]]

LEMMA CountsAre ==
  ASSUME NEW d \in Seq(Symbols)
  PROVE  IsModel(ContextCounts(d))
<1>1. ASSUME NEW a \in Symbols, NEW b \in Symbols
      PROVE  1 + Increment * Cardinality({i \in 1..Len(d)-1 : d[i] = a /\ d[i + 1] = b}) \in Nat
  <2> DEFINE n == Len(d) - 1
             S == {i \in 1..n : d[i] = a /\ d[i + 1] = b}
             c == Cardinality(S)
  <2>1. n \in Int
    OBVIOUS
  <2>2. IsFiniteSet(1..n)
    BY <2>1, FS_Interval
  <2>3. c \in Nat
    BY <2>2, FS_Subset, FS_CardinalityType
  <2>4. Increment \in Nat
    BY VictiniAssumption
  <2> HIDE DEF c
  <2>5. Increment * c \in Nat
    BY <2>3, <2>4, Distribute
  <2>6. 1 + Increment * c \in Nat
    BY <2>5
  <2> QED BY <2>6 DEF c
<1> QED BY <1>1 DEF ContextCounts, IsModel

LEMMA TrainedIs ==
  ASSUME NEW ms, ms = NoModel \/ IsModel(ms), NEW d \in Seq(Symbols)
  PROVE  IsModel(Trained(ms, d)) /\ IsModel(ModelFor(ms, d))
<1> DEFINE c == ContextCounts(d)
<1>1. IsModel(c)
  BY CountsAre
<1> HIDE DEF c
<1>2. IsModel(ms) => IsModel([a \in Symbols |-> [b \in Symbols |-> ms[a][b] + c[a][b]]])
  BY <1>1 DEF IsModel
<1>3. Trained(ms, d) = IF ms = NoModel THEN c ELSE [a \in Symbols |-> [b \in Symbols |-> ms[a][b] + c[a][b]]]
  BY DEF Trained, c
<1>4. ModelFor(ms, d) = IF ms = NoModel THEN c ELSE ms
  BY DEF ModelFor, c
<1> QED BY <1>1, <1>2, <1>3, <1>4

-----------------------------------------------------------------------------
(* The slots of the model *)
IsContext(prev) == prev = <<>> \/ \E a \in Symbols : prev = <<a>>

\* The distribution after prev; the first symbol has no context.
RowOf(ms, prev) == IF prev = <<>> THEN [k \in Symbols |-> FirstWidth] ELSE Normalised(ms[prev[1]])

LEMMA FirstWidthIs ==
  FirstWidth \in Nat \ {0} /\ AlphabetSize * FirstWidth = Total
<1> DEFINE A == AlphabetSize
           w == FirstWidth
<1>1. A \in Nat \ {0} /\ Total \in Nat /\ A < Total /\ Total % A = 0
  BY AlphabetIs, VictiniAssumption
<1>2. w = Total \div A
  BY DEF FirstWidth
<1> HIDE DEF A, w
<1>3. w \in Nat /\ Total = w * A + (Total % A)
  BY <1>1, <1>2, Division
<1>4. w * A = A * w /\ w * A \in Nat
  BY <1>1, <1>3, Distribute
<1>5. w # 0
  <2> SUFFICES ASSUME w = 0 PROVE FALSE
    OBVIOUS
  <2>1. w * A = 0
    BY <1>1
  <2> QED BY <1>1, <1>3, <2>1
<1> QED BY <1>1, <1>3, <1>4, <1>5 DEF A, w

LEMMA RowOfIs ==
  ASSUME NEW ms, IsModel(ms), NEW prev, IsContext(prev)
  PROVE  /\ IsDistribution(RowOf(ms, prev))
         /\ \A s \in Symbols : Width(ms, prev, s) = RowOf(ms, prev)[s] /\ Start(ms, prev, s) = SumBelow(RowOf(ms, prev), s)
<1>0. AlphabetSize \in Nat \ {0} /\ Symbols = 0..AlphabetSize-1
  BY AlphabetIs
<1>1. CASE prev = <<>>
  <2> DEFINE row == [k \in Symbols |-> FirstWidth]
  <2>1. RowOf(ms, prev) = row
    BY <1>1 DEF RowOf
  <2>2. FirstWidth \in Nat \ {0} /\ AlphabetSize * FirstWidth = Total
    BY FirstWidthIs
  <2>3. \A i \in 0..AlphabetSize-1 : row[i] = FirstWidth
    BY <1>0
  <2>4. row \in [Symbols -> Nat \ {0}]
    BY <2>2
  <2> HIDE DEF row
  <2>5. \A k \in 0..AlphabetSize : SumBelow(row, k) = k * FirstWidth
    BY <1>0, <2>2, <2>3, SumOfEquals
  <2>6. AlphabetSize \in 0..AlphabetSize /\ \A s \in Symbols : s \in 0..AlphabetSize /\ s \in 0..AlphabetSize-1
    BY <1>0
  <2>7. SumBelow(row, AlphabetSize) = Total
    BY <2>2, <2>5, <2>6
  <2>8. \A s \in Symbols : Width(ms, prev, s) = FirstWidth /\ Start(ms, prev, s) = s * FirstWidth
    BY <1>1 DEF Width, Start
  <2>9. \A s \in Symbols : Width(ms, prev, s) = row[s] /\ Start(ms, prev, s) = SumBelow(row, s)
    BY <2>3, <2>5, <2>6, <2>8
  <2> QED BY <2>1, <2>4, <2>7, <2>9 DEF IsDistribution
<1>2. CASE prev # <<>>
  <2>1. PICK a \in Symbols : prev = <<a>>
    BY <1>2 DEF IsContext
  <2>2. prev[1] = a
    BY <2>1
  <2>3. RowOf(ms, prev) = Normalised(ms[a])
    BY <1>2, <2>2 DEF RowOf
  <2>4. ms[a] \in [Symbols -> Nat]
    BY DEF IsModel
  <2>5. \A s \in Symbols : Width(ms, prev, s) = Normalised(ms[a])[s] /\ Start(ms, prev, s) = SumBelow(Normalised(ms[a]), s)
    BY <1>2, <2>2 DEF Width, Start
  <2> QED BY <2>3, <2>4, <2>5, NormalisedIs
<1> QED BY <1>1, <1>2

\* Every symbol has a legal slot in every context.
LEMMA SlotIs ==
  ASSUME NEW ms, IsModel(ms), NEW prev, IsContext(prev), NEW s \in Symbols
  PROVE  IsSlot(Width(ms, prev, s), Start(ms, prev, s))
<1> DEFINE row == RowOf(ms, prev)
<1>1. IsDistribution(row) /\ Width(ms, prev, s) = row[s] /\ Start(ms, prev, s) = SumBelow(row, s)
  BY RowOfIs
<1> HIDE DEF row
<1>2. AlphabetSize \in Nat \ {0} /\ Symbols = 0..AlphabetSize-1
  BY AlphabetIs
<1>3. (\A i \in 0..AlphabetSize-1 : row[i] \in Nat) /\ row[s] \in Nat \ {0} /\ SumBelow(row, AlphabetSize) = Total
  BY <1>1, <1>2 DEF IsDistribution
<1>4. SumBelow(row, s) \in Nat /\ SumBelow(row, s) + row[s] <= SumBelow(row, AlphabetSize)
  BY <1>2, <1>3, SlotInRow
<1> QED BY <1>1, <1>3, <1>4 DEF IsSlot

\* The decoder finds whose slot it is.
LEMMA FindSymbolIs ==
  ASSUME NEW ms, IsModel(ms), NEW prev, IsContext(prev), NEW s \in Symbols,
         NEW slot \in Start(ms, prev, s) .. (Start(ms, prev, s) + Width(ms, prev, s) - 1)
  PROVE  FindSymbol(ms, prev, slot) = s
<1> DEFINE row == RowOf(ms, prev)
           A == AlphabetSize
           beyond == {u \in Symbols : Start(ms, prev, u) > slot}
           first == CHOOSE u \in beyond : \A v \in beyond : u <= v
<1>1. IsDistribution(row) /\ \A u \in Symbols : Width(ms, prev, u) = row[u] /\ Start(ms, prev, u) = SumBelow(row, u)
  BY RowOfIs
<1>2. FindSymbol(ms, prev, slot) = IF beyond = {} THEN A - 1 ELSE first - 1
  BY Zenon DEF FindSymbol
<1> HIDE DEF row
<1>3. A \in Nat \ {0} /\ Symbols = 0..A-1 /\ A \in Nat
  BY AlphabetIs
<1>4. (\A i \in 0..A-1 : row[i] \in Nat) /\ row[s] \in Nat \ {0}
  BY <1>1, <1>3 DEF IsDistribution
<1> HIDE DEF A
<1>5. /\ \A k \in 0..A : SumBelow(row, k) \in Nat
      /\ \A k \in 0..A : \A j \in 0..k : SumBelow(row, j) <= SumBelow(row, k)
  BY <1>3, <1>4, SumBelowNat
<1>6. SumBelow(row, s + 1) = SumBelow(row, s) + row[s] /\ s \in Nat /\ s \in 0..A /\ s + 1 \in 0..A
  BY <1>3, SumBelowIs
<1>7. SumBelow(row, s) <= slot /\ slot < SumBelow(row, s + 1) /\ slot \in Int
  <2>1. slot \in SumBelow(row, s) .. (SumBelow(row, s) + row[s] - 1)
    BY <1>1
  <2> DEFINE a == SumBelow(row, s)
             b == row[s]
  <2>2. a \in Nat /\ b \in Nat /\ SumBelow(row, s + 1) = a + b
    BY <1>4, <1>5, <1>6
  <2> HIDE DEF a, b
  <2>3. slot \in a .. (a + b - 1)
    BY <2>1 DEF a, b
  <2>4. a <= slot /\ slot < a + b /\ slot \in Int
    BY <2>2, <2>3
  <2> QED BY <2>2, <2>4 DEF a
<1>8. beyond = {u \in Symbols : u > s}
  <2> SUFFICES ASSUME NEW u \in Symbols PROVE Start(ms, prev, u) > slot <=> u > s
    OBVIOUS
  <2>1. Start(ms, prev, u) = SumBelow(row, u) /\ u \in 0..A /\ u \in Nat
    BY <1>1, <1>3
  <2>2. CASE u <= s
    <3>1. u \in 0..s
      BY <2>1, <2>2
    <3>2. SumBelow(row, u) <= SumBelow(row, s)
      BY <1>5, <1>6, <3>1
    <3> DEFINE a == SumBelow(row, u)
               b == SumBelow(row, s)
    <3>3. a \in Nat /\ b \in Nat
      BY <1>5, <1>6, <2>1
    <3> HIDE DEF a, b
    <3>4. ~(a > slot)
      BY <1>7, <3>2, <3>3 DEF a, b
    <3>5. ~(u > s)
      BY <1>6, <2>1, <2>2
    <3> QED BY <2>1, <3>4, <3>5 DEF a
  <2>3. CASE u > s
    <3>1. s + 1 \in 0..u
      BY <1>6, <2>1, <2>3
    <3>2. SumBelow(row, s + 1) <= SumBelow(row, u)
      BY <1>5, <2>1, <3>1
    <3> DEFINE a == SumBelow(row, u)
               b == SumBelow(row, s + 1)
    <3>3. a \in Nat /\ b \in Nat
      BY <1>5, <1>6, <2>1
    <3> HIDE DEF a, b
    <3>4. a > slot
      BY <1>7, <3>2, <3>3 DEF a, b
    <3> QED BY <2>1, <2>3, <3>4 DEF a
  <2> QED BY <1>6, <2>1, <2>2, <2>3
<1> HIDE DEF beyond
<1>9. CASE s = A - 1
  <2>1. beyond = {}
    BY <1>3, <1>6, <1>8, <1>9
  <2> QED BY <1>2, <1>9, <2>1
<1>10. CASE s # A - 1
  <2> DEFINE t == s + 1
  <2>1. t \in beyond
    BY <1>3, <1>6, <1>8, <1>10
  <2>2. \A v \in beyond : t <= v /\ v \in Nat
    BY <1>3, <1>6, <1>8
  <2>3. t \in Nat /\ t - 1 = s
    BY <1>6
  <2> HIDE DEF t
  <2>4. first \in beyond /\ \A v \in beyond : first <= v
    BY <2>1, <2>2
  <2> HIDE DEF first
  <2>5. first \in Nat /\ first <= t /\ t <= first
    BY <2>1, <2>2, <2>4
  <2>6. first = t
    BY <2>3, <2>5
  <2> QED BY <1>2, <2>1, <2>3, <2>6
<1> QED BY <1>9, <1>10

-----------------------------------------------------------------------------
(* Words as bytes *)
LEMMA DivDiv ==
  ASSUME NEW a \in Nat, NEW d \in Nat \ {0}, NEW e \in Nat \ {0}
  PROVE  a \div (e * d) = (a \div d) \div e
<1> DEFINE q == a \div d
           r == a % d
           u == q \div e
           v == q % e
<1>1. q \in Nat /\ r \in 0..d-1 /\ a = q * d + r
  BY Division
<1> HIDE DEF q, r
<1>2. u \in Nat /\ v \in 0..e-1 /\ q = u * e + v
  BY <1>1, Division
<1> HIDE DEF u, v
<1>3. v * d + r \in 0..e*d-1
  BY <1>1, <1>2, PlaceBelow
<1>4. (u * e + v) * d = (u * e) * d + v * d /\ u * e \in Nat /\ v * d \in Nat /\ (u * e) * d \in Nat
  <2>1. u * e \in Nat
    BY <1>2, Distribute
  <2>2. v \in Nat
    BY <1>2
  <2> QED BY <2>1, <2>2, Distribute
<1>5. (u * e) * d = u * (e * d) /\ e * d \in Nat \ {0}
  BY <1>2, SMT
<1> DEFINE ed == e * d
           vd == v * d + r
<1>6. a = u * ed + vd
  <2> DEFINE b == (u * e) * d
             c == v * d
             p == u * ed
  <2>1. a = (b + c) + r /\ b \in Nat /\ c \in Nat
    BY <1>1, <1>2, <1>4
  <2>2. p = b
    BY <1>5
  <2>3. vd = c + r
    OBVIOUS
  <2> HIDE DEF b, c, p, vd
  <2>4. a = p + vd
    BY <1>1, <2>1, <2>2, <2>3
  <2> QED BY <2>4 DEF p
<1>7. ed \in Nat \ {0} /\ vd \in 0..ed-1
  BY <1>3, <1>5
<1> HIDE DEF ed, vd
<1>8. (u * ed + vd) \div ed = u
  BY <1>2, <1>7, DivModUnique
<1> QED BY <1>6, <1>8 DEF u, q, ed

ByteValues == 0..ByteBase-1

Joined(a, b, c, d) == ((a * ByteBase + b) * ByteBase + c) * ByteBase + d

\* The four bytes of a word make the word.
LEMMA DigitsBack ==
  ASSUME NEW w \in WordValues
  PROVE  /\ ToBytes(w) \in Seq(ByteValues) /\ Len(ToBytes(w)) = 4
         /\ Joined(ToBytes(w)[1], ToBytes(w)[2], ToBytes(w)[3], ToBytes(w)[4]) = w
<1> DEFINE B == ByteBase
           a == w \div B
           b == a \div B
           c == b \div B
           w1 == w % B
           a1 == a % B
           b1 == b % B
           c1 == c % B
<1>1. B \in Nat \ {0} /\ Base = B * B * B * B /\ w \in Nat /\ w < Base
  BY VictiniAssumption, HzRansAssumption DEF WordValues
<1>2. ToBytes(w) = <<(w \div (B * B * B)) % B, (w \div (B * B)) % B, (w \div B) % B, w % B>>
  BY DEF ToBytes
<1> HIDE DEF B
<1>3. a \in Nat /\ w1 \in 0..B-1 /\ w = a * B + w1
  BY <1>1, Division
<1>4. b \in Nat /\ a1 \in 0..B-1 /\ a = b * B + a1
  <2> HIDE DEF a
  <2> QED BY <1>1, <1>3, Division
<1>5. c \in Nat /\ b1 \in 0..B-1 /\ b = c * B + b1
  <2> HIDE DEF a, b
  <2> QED BY <1>1, <1>4, Division
<1>6. w \div (B * B) = b
  BY <1>1, DivDiv
<1>7. w \div (B * B * B) = c
  <2> DEFINE BB == B * B
  <2>1. BB \in Nat \ {0}
    BY <1>1, SMT
  <2>2. B * B * B = B * BB
    BY <1>1, SMT
  <2> HIDE DEF BB
  <2>3. w \div (B * BB) = (w \div BB) \div B
    BY <1>1, <2>1, DivDiv
  <2> QED BY <1>6, <2>2, <2>3 DEF BB
<1> HIDE DEF a, b, c, w1, a1, b1
<1>8. c < B
  <2> DEFINE D == B * B * B
  <2>1. D \in Nat \ {0} /\ Base = B * D
    BY <1>1, SMT
  <2> HIDE DEF D
  <2>2. w \div D \in 0..B-1
    BY <1>1, <2>1, DivBelow
  <2>3. c \in 0..B-1
    BY <1>7, <2>2 DEF D
  <2> HIDE DEF D
  <2> QED BY <1>1, <2>3
<1>9. c1 = c /\ c \in 0..B-1
  BY <1>1, <1>5, <1>8, SMT
<1> HIDE DEF c1
<1>10. ToBytes(w) = <<c, b1, a1, w1>>
  BY <1>2, <1>6, <1>7, <1>9 DEF a, a1, b1, w1, c1
<1>11. ByteValues = 0..B-1
  BY DEF ByteValues, B
<1>12. ToBytes(w) \in Seq(ByteValues) /\ Len(ToBytes(w)) = 4
  <2>1. c \in ByteValues /\ b1 \in ByteValues /\ a1 \in ByteValues /\ w1 \in ByteValues
    BY <1>3, <1>4, <1>5, <1>9, <1>11
  <2>2. <<c, b1, a1, w1>> \in Seq(ByteValues) /\ Len(<<c, b1, a1, w1>>) = 4
    BY <2>1
  <2> QED BY <1>10, <2>2
<1>13. Joined(c, b1, a1, w1) = w
  BY <1>3, <1>4, <1>5 DEF Joined, B
<1> QED BY <1>10, <1>12, <1>13

\* Four bytes at a time.
LEMMA FromBytesIs ==
  ASSUME NEW bytes \in Seq(ByteValues), NEW n \in Nat, Len(bytes) = 4 * n
  PROVE  FromBytes(bytes) = [j \in 1..n |-> Joined(bytes[4 * j - 3], bytes[4 * j - 2], bytes[4 * j - 1], bytes[4 * j])]
<1>1. Len(bytes) \div 4 = n
  BY SMT
<1> QED BY <1>1 DEF FromBytes, Joined

\* The words so far are those of the bytes so far.
IsBytesOf(bytes, words) ==
  /\ bytes \in Seq(ByteValues) /\ words \in Seq(WordValues)
  /\ Len(bytes) = 4 * Len(words) /\ FromBytes(bytes) = words

\* The bytes of one more word.
LEMMA BytesAppend ==
  ASSUME NEW bytes, NEW words, IsBytesOf(bytes, words), NEW w \in WordValues
  PROVE  IsBytesOf(bytes \o ToBytes(w), words \o <<w>>)
<1> DEFINE n == Len(words)
           t == ToBytes(w)
           all == bytes \o t
           ws == words \o <<w>>
<1>1. /\ bytes \in Seq(ByteValues) /\ words \in Seq(WordValues) /\ n \in Nat
      /\ Len(bytes) = 4 * n /\ FromBytes(bytes) = words
  BY LenProperties DEF IsBytesOf
<1>2. t \in Seq(ByteValues) /\ Len(t) = 4 /\ Joined(t[1], t[2], t[3], t[4]) = w
  BY DigitsBack
<1> HIDE DEF t
<1>3. /\ ws \in Seq(WordValues) /\ Len(ws) = n + 1
      /\ \A j \in 1..n+1 : ws[j] = IF j <= n THEN words[j] ELSE w
  <2> DEFINE u == <<w>>
  <2>1. u \in Seq(WordValues) /\ Len(u) = 1 /\ u[1] = w
    OBVIOUS
  <2> HIDE DEF u
  <2>2. /\ words \o u \in Seq(WordValues) /\ Len(words \o u) = n + 1
        /\ \A j \in 1..n+1 : (words \o u)[j] = IF j <= n THEN words[j] ELSE u[j - n]
    <3>1. Concatenates(words \o u, words, u, n, 1, WordValues)
      BY <1>1, <2>1, ConcatIs
    <3> QED BY <3>1, Zenon DEF Concatenates
  <2>3. \A j \in 1..n+1 : (words \o u)[j] = IF j <= n THEN words[j] ELSE w
    <3> SUFFICES ASSUME NEW j \in 1..n+1 PROVE (words \o u)[j] = IF j <= n THEN words[j] ELSE w
      OBVIOUS
    <3>1. CASE j <= n
      BY <2>2, <3>1
    <3>2. CASE ~(j <= n)
      <4>1. j - n = 1
        BY <1>1, <3>2
      <4> QED BY <2>1, <2>2, <3>2, <4>1
    <3> QED BY <3>1, <3>2
  <2> QED BY <2>2, <2>3 DEF u
<1>4. /\ all \in Seq(ByteValues) /\ Len(all) = 4 * n + 4
      /\ \A j \in 1..4*n+4 : all[j] = IF j <= 4 * n THEN bytes[j] ELSE t[j - 4 * n]
  <2> DEFINE m == 4 * n
             k == 4
  <2>1. m = Len(bytes) /\ k = Len(t)
    BY <1>1, <1>2
  <2> HIDE DEF m, k
  <2>2. /\ all \in Seq(ByteValues) /\ Len(all) = m + k
        /\ \A j \in 1..m+k : all[j] = IF j <= m THEN bytes[j] ELSE t[j - m]
    <3>1. Concatenates(all, bytes, t, m, k, ByteValues)
      BY <1>1, <1>2, <2>1, ConcatIs
    <3> HIDE DEF all
    <3> QED BY <3>1, Zenon DEF Concatenates
  <2> QED BY <2>2 DEF m, k
<1> HIDE DEF all, ws, n
<1>5. Len(all) = 4 * (n + 1) /\ n + 1 \in Nat
  BY <1>1, <1>4
<1>6. FromBytes(all) = [j \in 1..n+1 |-> Joined(all[4 * j - 3], all[4 * j - 2], all[4 * j - 1], all[4 * j])]
  BY <1>4, <1>5, FromBytesIs
<1>7. words = [j \in 1..n |-> Joined(bytes[4 * j - 3], bytes[4 * j - 2], bytes[4 * j - 1], bytes[4 * j])]
  BY <1>1, FromBytesIs
<1>8. ASSUME NEW j \in 1..n+1
      PROVE  Joined(all[4 * j - 3], all[4 * j - 2], all[4 * j - 1], all[4 * j]) = ws[j]
  <2> DEFINE p == 4 * j - 3
             q == 4 * j - 2
             r == 4 * j - 1
             s == 4 * j
             m == 4 * n
  <2>1. p \in 1..m+4 /\ q \in 1..m+4 /\ r \in 1..m+4 /\ s \in 1..m+4
    BY <1>1
  <2>2. all[p] = IF p <= m THEN bytes[p] ELSE t[p - m]
    BY <1>4, <2>1
  <2>3. all[q] = IF q <= m THEN bytes[q] ELSE t[q - m]
    BY <1>4, <2>1
  <2>4. all[r] = IF r <= m THEN bytes[r] ELSE t[r - m]
    BY <1>4, <2>1
  <2>5. all[s] = IF s <= m THEN bytes[s] ELSE t[s - m]
    BY <1>4, <2>1
  <2>6. CASE j <= n
    <3>1. j \in 1..n /\ p <= m /\ q <= m /\ r <= m /\ s <= m
      BY <1>1, <2>6
    <3>2. words[j] = Joined(bytes[p], bytes[q], bytes[r], bytes[s])
      BY <1>7, <3>1
    <3>3. ws[j] = words[j]
      BY <1>3, <2>6
    <3> HIDE DEF p, q, r, s, m
    <3>4. Joined(all[p], all[q], all[r], all[s]) = ws[j]
      BY <2>2, <2>3, <2>4, <2>5, <3>1, <3>2, <3>3
    <3> QED BY <3>4 DEF p, q, r, s
  <2>7. CASE j = n + 1
    <3>1. /\ ~(p <= m) /\ ~(q <= m) /\ ~(r <= m) /\ ~(s <= m) /\ ~(j <= n)
          /\ p - m = 1 /\ q - m = 2 /\ r - m = 3 /\ s - m = 4
      BY <1>1, <2>7
    <3>2. ws[j] = w
      BY <1>3, <3>1
    <3> HIDE DEF p, q, r, s, m
    <3>3. Joined(all[p], all[q], all[r], all[s]) = ws[j]
      BY <1>2, <2>2, <2>3, <2>4, <2>5, <3>1, <3>2
    <3> QED BY <3>3 DEF p, q, r, s
  <2> QED BY <1>1, <2>6, <2>7
<1>9. ws = [j \in 1..n+1 |-> ws[j]]
  BY <1>3
<1>10. FromBytes(all) = ws
  BY <1>6, <1>8, <1>9
<1>11. IsBytesOf(all, ws)
  BY <1>3, <1>4, <1>5, <1>10 DEF IsBytesOf
<1> QED BY <1>11 DEF all, t, ws

-----------------------------------------------------------------------------
(* Symbols and their pairs *)
LEMMA TransformedIs ==
  ASSUME NEW d, IsInput(d)
  PROVE  /\ Transformed(d) \in Seq(Symbols) /\ Len(Transformed(d)) = Len(d) /\ Len(d) \in Nat \ {0}
         /\ BwtInvert(MtfInvert(Transformed(d)), BwtIndex(d)) = d
<1> DEFINE n == Len(d) + 1
           t == BwtTransform(d)
<1>1. Len(d) \in Nat \ {0}
  BY InputLength
<1>2. t \in Seq(Symbols) /\ Len(t) = Len(d)
  <2>1. t \in Seq(Symbols) /\ Len(t) = n - 1
    BY BwtTransformIs
  <2> HIDE DEF t
  <2> QED BY <1>1, <2>1
<1>3. BwtInvert(t, BwtIndex(d)) = d
  BY BwtInverse
<1> HIDE DEF t
<1>4. MtfTransform(t) \in Seq(Symbols) /\ Len(MtfTransform(t)) = Len(t)
  BY <1>2, MtfTransformIs
<1>5. MtfInvert(MtfTransform(t)) = t
  BY <1>2, MtfInverse
<1>6. Transformed(d) = MtfTransform(t)
  BY DEF Transformed, t
<1> QED BY <1>1, <1>2, <1>3, <1>4, <1>5, <1>6

\* What the coder is given for each symbol.
PairsOf(ms, s) ==
  [k \in 0..Len(s)-1 |-> Pair(Width(ms, Context(s, k), s[k + 1]), Start(ms, Context(s, k), s[k + 1]))]

\* What the coder is given for a text is legal.
LEMMA PairsLegal ==
  ASSUME NEW ms, IsModel(ms), NEW s \in Seq(Symbols), NEW k \in 0..Len(s)-1
  PROVE  /\ PairsOf(ms, s)[k] \in LegalPairs /\ s[k + 1] \in Symbols /\ IsContext(Context(s, k))
         /\ PairsOf(ms, s)[k].ls = Width(ms, Context(s, k), s[k + 1])
         /\ PairsOf(ms, s)[k].bs = Start(ms, Context(s, k), s[k + 1])
<1> DEFINE prev == Context(s, k)
           f == s[k + 1]
           l == Width(ms, prev, f)
           b == Start(ms, prev, f)
<1>1. Len(s) \in Nat /\ \A i \in 1..Len(s) : s[i] \in Symbols
  BY LenProperties
<1>2. f \in Symbols
  <2>1. k + 1 \in 1..Len(s)
    BY <1>1
  <2> QED BY <1>1, <2>1
<1>3. IsContext(prev)
  <2>1. CASE k = 0
    BY <2>1 DEF Context, IsContext
  <2>2. CASE k # 0
    <3>1. k \in 1..Len(s)
      BY <1>1, <2>2
    <3> QED BY <1>1, <2>2, <3>1 DEF Context, IsContext
  <2> QED BY <2>1, <2>2
<1>4. PairsOf(ms, s)[k] = [ls |-> l, bs |-> b]
  BY DEF PairsOf, Pair
<1> HIDE DEF prev, f
<1>5. IsSlot(l, b)
  BY <1>2, <1>3, SlotIs
<1> HIDE DEF l, b
<1>6. l \in Nat /\ b \in Nat
  BY <1>5 DEF IsSlot
<1>7. [ls |-> l, bs |-> b] \in LegalPairs
  BY <1>5, <1>6 DEF LegalPairs
<1> QED BY <1>2, <1>3, <1>4, <1>7 DEF l, b, prev, f

\* The first i symbols.
FirstOf(s, i) == [k \in 1..i |-> s[k]]

\* The first i elements of a sequence.
LEMMA FirstOfIs ==
  ASSUME NEW S, NEW s \in Seq(S), NEW i \in 0..Len(s)
  PROVE  FirstOf(s, i) \in Seq(S) /\ Len(FirstOf(s, i)) = i
<1> DEFINE f == FirstOf(s, i)
<1>1. Len(s) \in Nat /\ i \in Nat /\ \A k \in 1..Len(s) : s[k] \in S
  BY LenProperties
<1>2. \A k \in 1..i : s[k] \in S
  <2>1. \A k \in 1..i : k \in 1..Len(s)
    BY <1>1
  <2> QED BY <1>1, <2>1
<1>3. f \in [1..i -> S]
  BY <1>2 DEF FirstOf
<1> HIDE DEF f
<1>4. f \in Seq(S) /\ Len(f) = i
  BY <1>1, <1>3, IsSequence
<1> QED BY <1>4 DEF f

\* None of a sequence, and all of it.
LEMMA FirstOfNone ==
  ASSUME NEW S, NEW s \in Seq(S)
  PROVE  FirstOf(s, 0) = <<>> /\ FirstOf(s, Len(s)) = s
<1>1. 0 \in 0..Len(s) /\ Len(s) \in Nat
  BY LenProperties
<1>2. FirstOf(s, 0) \in Seq(S) /\ Len(FirstOf(s, 0)) = 0
  BY <1>1, FirstOfIs
<1>3. FirstOf(s, 0) = <<>>
  BY <1>2, EmptySeq
<1>4. s = [k \in 1..Len(s) |-> s[k]]
  BY LenProperties
<1> QED BY <1>3, <1>4 DEF FirstOf

\* One element more.
LEMMA FirstOfNext ==
  ASSUME NEW S, NEW s \in Seq(S), NEW i \in 0..Len(s)-1
  PROVE  Append(FirstOf(s, i), s[i + 1]) = FirstOf(s, i + 1)
<1> DEFINE f == FirstOf(s, i)
           g == FirstOf(s, i + 1)
           w == s[i + 1]
           a == Append(f, w)
<1>1. Len(s) \in Nat /\ i \in Nat /\ i \in 0..Len(s) /\ i + 1 \in 0..Len(s) /\ i + 1 \in 1..Len(s)
  BY LenProperties
<1>2. f \in Seq(S) /\ Len(f) = i /\ g \in Seq(S) /\ Len(g) = i + 1
  BY <1>1, FirstOfIs
<1>3. w \in S
  BY <1>1, LenProperties
<1>4. (\A k \in 1..i : f[k] = s[k]) /\ \A k \in 1..i+1 : g[k] = s[k]
  BY DEF FirstOf
<1>5. w = s[i + 1]
  OBVIOUS
<1> HIDE DEF f, g, w
<1>6. a \in Seq(S) /\ Len(a) = i + 1 /\ a[i + 1] = w /\ \A k \in 1..i : a[k] = f[k]
  BY <1>2, <1>3, AppendProperties
<1> HIDE DEF a
<1>7. ASSUME NEW k \in 1..i+1 PROVE a[k] = g[k]
  <2>1. CASE k = i + 1
    BY <1>4, <1>5, <1>6, <2>1
  <2>2. CASE k # i + 1
    <3>1. k \in 1..i
      BY <1>1, <2>2
    <3> QED BY <1>4, <1>6, <3>1
  <2> QED BY <2>1, <2>2
<1>8. a = [k \in 1..i+1 |-> a[k]] /\ g = [k \in 1..i+1 |-> g[k]]
  BY <1>2, <1>6, LenProperties
<1>9. a = g
  BY <1>7, <1>8
<1> QED BY <1>9 DEF a, f, g, w

\* The decoder finds the symbol that the encoder was given.
LEMMA SymbolBack ==
  ASSUME NEW ms, IsModel(ms), NEW s \in Seq(Symbols), NEW k \in 0..Len(s)-1, NEW slot,
         slot \in PairsOf(ms, s)[k].bs .. (PairsOf(ms, s)[k].bs + PairsOf(ms, s)[k].ls - 1)
  PROVE  /\ Context(FirstOf(s, k), k) = Context(s, k)
         /\ FindSymbol(ms, Context(s, k), slot) = s[k + 1]
<1> DEFINE prev == Context(s, k)
           f == s[k + 1]
<1>1. /\ f \in Symbols /\ IsContext(prev)
      /\ PairsOf(ms, s)[k].ls = Width(ms, prev, f)
      /\ PairsOf(ms, s)[k].bs = Start(ms, prev, f)
  BY PairsLegal
<1>2. slot \in Start(ms, prev, f) .. (Start(ms, prev, f) + Width(ms, prev, f) - 1)
  BY <1>1
<1>3. FindSymbol(ms, prev, slot) = f
  <2> HIDE DEF prev, f
  <2> QED BY <1>1, <1>2, FindSymbolIs
<1>4. Context(FirstOf(s, k), k) = prev
  <2>1. CASE k = 0
    BY <2>1 DEF Context
  <2>2. CASE k # 0
    <3>1. k \in 1..k
      BY <2>2
    <3>2. FirstOf(s, k)[k] = s[k]
      BY <3>1 DEF FirstOf
    <3> QED BY <2>2, <3>2 DEF Context
  <2> QED BY <2>1, <2>2
<1> QED BY <1>3, <1>4

-----------------------------------------------------------------------------
(* The inductive invariant *)
Coded == Transformed(text)

TextPairs == PairsOf(mstate, Coded)

\* The coder's whole way, and the words of it.
WayOf(c, words, n, p) ==
  /\ IsTrace(c, 0, n, p)
  /\ words = <<Word(c[0].x), Word(c[0].x \div Base)>> \o c[0].words

Settled ==
  /\ stage \in {"idle", "encode", "drain", "decode", "done"} /\ trained \in 0..MaxTrain
  /\ stage = "idle" =>
       /\ mstate = NoModel \/ IsModel(mstate)
       /\ text = <<>> /\ blob = <<>> /\ out = <<>> /\ x = LowerBound /\ stack = EmptyStack /\ index = 0
  /\ stage # "idle" => IsInput(text) /\ IsModel(mstate) /\ bwt_index = BwtIndex(text)

WhileEncoding ==
  stage = "encode" =>
    /\ seq = Coded /\ blob = <<>> /\ out = <<>> /\ index \in 0..Len(text)
    /\ CodedDownTo(index, Len(text), TextPairs, x, stack)

WhileDraining ==
  stage = "drain" =>
    /\ out = <<>> /\ index = 0 /\ StackHolds(stack)
    /\ \E words, c : IsBytesOf(blob, words) /\ WayOf(c, words \o Popped(stack), Len(text), TextPairs) /\ x = c[0].x

WhileDecoding ==
  stage = "decode" =>
    /\ StackHolds(stack) /\ stack.bufs = <<>> /\ IsBytesOf(blob, Words)
    /\ index \in 0..Len(text) /\ out = FirstOf(Coded, index)
    /\ \E c : /\ IsTrace(c, 0, Len(text), TextPairs)
              /\ x = c[index].x /\ Rest(Words, pos, c[index].words)

WhenDone ==
  stage = "done" =>
    /\ StackHolds(stack) /\ IsBytesOf(blob, Words)
    /\ index = Len(text) /\ out = Coded /\ seq = text /\ pos = Len(Words) /\ x = LowerBound

Inv == Settled /\ WhileEncoding /\ WhileDraining /\ WhileDecoding /\ WhenDone

LEMMA Begins == Init => Inv
<1> SUFFICES ASSUME Init PROVE Inv
  OBVIOUS
<1>1. /\ stage = "idle" /\ mstate = NoModel /\ trained = 0 /\ text = <<>> /\ blob = <<>>
      /\ out = <<>> /\ x = LowerBound /\ stack = EmptyStack /\ index = 0
  BY DEF Init
<1>2. 0 \in 0..MaxTrain
  BY VictiniAssumption
<1> QED BY <1>1, <1>2 DEF Inv, Settled, WhileEncoding, WhileDraining, WhileDecoding, WhenDone

LEMMA InputIs ==
  ASSUME NEW d \in Inputs \cup TrainingInputs
  PROVE  IsInput(d)
BY VictiniAssumption DEF IsInput, Symbols

LEMMA TrainKeeps ==
  ASSUME Inv, NEW d \in TrainingInputs, train(d)
  PROVE  Inv'
<1>1. /\ stage = "idle" /\ stage' = stage /\ trained < MaxTrain /\ trained' = trained + 1
      /\ mstate' = Trained(mstate, Transformed(d))
      /\ text' = text /\ blob' = blob /\ out' = out /\ x' = x /\ stack' = stack /\ index' = index
  BY DEF train
<1>2. mstate = NoModel \/ IsModel(mstate)
  BY <1>1 DEF Inv, Settled
<1>3. Transformed(d) \in Seq(Symbols)
  BY InputIs, TransformedIs
<1> DEFINE t == Transformed(d)
<1>4. IsModel(mstate')
  <2> HIDE DEF t
  <2>1. t \in Seq(Symbols) /\ mstate' = Trained(mstate, t)
    BY <1>1, <1>3 DEF t
  <2>2. IsModel(Trained(mstate, t))
    BY <1>2, <2>1, TrainedIs
  <2> QED BY <2>1, <2>2 DEF IsModel
<1>5. trained' \in 0..MaxTrain
  BY <1>1, VictiniAssumption DEF Inv, Settled
<1>6. Settled'
  BY <1>1, <1>4, <1>5 DEF Inv, Settled, IsModel
<1> QED BY <1>1, <1>6 DEF Inv, WhileEncoding, WhileDraining, WhileDecoding, WhenDone

LEMMA TotalIs == Total >= 2
BY AlphabetIs

LEMMA CompressKeeps ==
  ASSUME Inv, NEW d \in Inputs, compress(d)
  PROVE  Inv'
<1>1. /\ stage = "idle" /\ stage' = "encode" /\ text' = d /\ bwt_index' = BwtIndex(d)
      /\ seq' = Transformed(d) /\ mstate' = ModelFor(mstate, seq') /\ index' = Len(d)
      /\ x' = LowerBound /\ stack' = EmptyStack /\ trained' = trained /\ blob' = blob /\ out' = out
  BY DEF compress
<1>2. /\ mstate = NoModel \/ IsModel(mstate)
      /\ blob = <<>> /\ out = <<>> /\ trained \in 0..MaxTrain
  BY <1>1 DEF Inv, Settled
<1>3. IsInput(d)
  BY InputIs
<1>4. Transformed(d) \in Seq(Symbols) /\ Len(d) \in Nat
  BY <1>3, TransformedIs
<1>5. IsModel(mstate')
  <2> DEFINE t == Transformed(d)
  <2>1. t \in Seq(Symbols) /\ mstate' = ModelFor(mstate, t)
    BY <1>1, <1>4
  <2> HIDE DEF t
  <2>2. IsModel(ModelFor(mstate, t))
    BY <1>2, <2>1, TrainedIs
  <2> QED BY <2>1, <2>2 DEF IsModel
<1>6. Settled'
  BY <1>1, <1>2, <1>3, <1>5 DEF Settled, IsInput, IsModel
<1>7. CodedDownTo(Len(d), Len(d), TextPairs', LowerBound, EmptyStack)
  BY <1>4, TotalIs, CodedBegins
<1>8. CodedDownTo(index', Len(text'), TextPairs', x', stack')
  BY <1>1, <1>7
<1>9. index' \in 0..Len(text') /\ seq' = Coded' /\ blob' = <<>> /\ out' = <<>>
  BY <1>1, <1>2, <1>4 DEF Coded
<1>10. WhileEncoding'
  BY <1>8, <1>9 DEF WhileEncoding
<1> QED BY <1>1, <1>6, <1>10 DEF Inv, WhileDraining, WhileDecoding, WhenDone

\* While a text is coded, it and the model stay.
LEMMA SameText ==
  ASSUME Inv, stage # "idle", stage' \in {"encode", "drain", "decode", "done"},
         UNCHANGED <<mstate, trained, text, bwt_index>>
  PROVE  /\ Settled' /\ Coded' = Coded /\ TextPairs' = TextPairs /\ Len(text') = Len(text)
         /\ IsInput(text) /\ IsModel(mstate) /\ Len(text) \in Nat /\ Len(Coded) = Len(text) /\ Coded \in Seq(Symbols)
<1>1. IsInput(text) /\ IsModel(mstate) /\ bwt_index = BwtIndex(text) /\ trained \in 0..MaxTrain
  BY DEF Inv, Settled
<1>2. Settled'
  BY <1>1 DEF Settled, IsInput, IsModel
<1>3. Coded' = Coded /\ TextPairs' = TextPairs
  BY DEF Coded, TextPairs
<1>4. Len(text) \in Nat /\ Len(Coded) = Len(text) /\ Coded \in Seq(Symbols)
  BY <1>1, TransformedIs DEF Coded
<1> QED BY <1>1, <1>2, <1>3, <1>4

LEMMA EncodeSymbolKeeps ==
  ASSUME Inv, EncodeSymbol
  PROVE  Inv'
<1> DEFINE N == Len(text)
           k == index - 1
           prev == Context(seq, k)
           f == seq[index]
<1>1. /\ stage = "encode" /\ index > 0 /\ index' = k
      /\ x' = EncodeState(x, Width(mstate, prev, f), Start(mstate, prev, f))
      /\ stack' = EncodeWords(stack, x, Width(mstate, prev, f))
      /\ UNCHANGED <<stage, mstate, trained, text, bwt_index, seq, blob, pos, out>>
  BY DEF EncodeSymbol
<1>2. /\ seq = Coded /\ blob = <<>> /\ out = <<>> /\ index \in 0..N
      /\ CodedDownTo(index, N, TextPairs, x, stack)
  BY <1>1 DEF Inv, WhileEncoding
<1>3. /\ Settled' /\ Coded' = Coded /\ TextPairs' = TextPairs /\ Len(text') = N
      /\ IsModel(mstate) /\ N \in Nat /\ Len(Coded) = N /\ Coded \in Seq(Symbols)
  BY <1>1, SameText
<1> HIDE DEF N
<1>4. k \in 0..N-1 /\ k \in Nat /\ k < N /\ k + 1 = index /\ k \in 0..N
  BY <1>1, <1>2, <1>3
<1> HIDE DEF k
<1>5. /\ TextPairs[k] \in LegalPairs
      /\ TextPairs[k].ls = Width(mstate, Context(Coded, k), Coded[k + 1])
      /\ TextPairs[k].bs = Start(mstate, Context(Coded, k), Coded[k + 1])
  BY <1>3, <1>4, PairsLegal DEF TextPairs
<1>6. TextPairs[k].ls = Width(mstate, prev, f) /\ TextPairs[k].bs = Start(mstate, prev, f)
  BY <1>2, <1>4, <1>5
<1>7. CodedDownTo(k + 1, N, TextPairs, x, stack)
  BY <1>2, <1>4
<1> HIDE DEF prev, f
<1>8. CodedDownTo(k, N, TextPairs, EncodeState(x, TextPairs[k].ls, TextPairs[k].bs), EncodeWords(stack, x, TextPairs[k].ls))
  BY <1>3, <1>4, <1>5, <1>7, CodedStep
<1>9. CodedDownTo(index', Len(text'), TextPairs', x', stack')
  BY <1>1, <1>3, <1>6, <1>8
<1>10. WhileEncoding'
  BY <1>1, <1>2, <1>3, <1>4, <1>9 DEF WhileEncoding
<1> QED BY <1>1, <1>3, <1>10 DEF Inv, WhileDraining, WhileDecoding, WhenDone

LEMMA NoBytes == IsBytesOf(<<>>, <<>>)
<1>1. <<>> \in Seq(ByteValues) /\ <<>> \in Seq(WordValues) /\ Len(<<>>) = 0 /\ 0 \in Nat
  OBVIOUS
<1>2. FromBytes(<<>>) = <<>>
  <2> DEFINE b == <<>>
  <2>1. b \in Seq(ByteValues) /\ Len(b) = 4 * 0
    BY <1>1
  <2>2. FromBytes(b) = [j \in 1..0 |-> Joined(b[4 * j - 3], b[4 * j - 2], b[4 * j - 1], b[4 * j])]
    <3> HIDE DEF b
    <3> QED BY <2>1, FromBytesIs
  <2>3. 1..0 = {}
    OBVIOUS
  <2> QED BY <2>2, <2>3
<1> QED BY <1>1, <1>2 DEF IsBytesOf

LEMMA FlushKeeps ==
  ASSUME Inv, Flush
  PROVE  Inv'
<1> DEFINE N == Len(text)
<1>1. /\ stage = "encode" /\ index = 0 /\ stage' = "drain"
      /\ stack' = push(push(stack, Word(x \div Base)), Word(x))
      /\ UNCHANGED <<mstate, trained, text, bwt_index, seq, index, x, blob, pos, out>>
  BY DEF Flush
<1>2. blob = <<>> /\ out = <<>> /\ CodedDownTo(0, N, TextPairs, x, stack)
  BY <1>1 DEF Inv, WhileEncoding
<1>3. Settled' /\ TextPairs' = TextPairs /\ Len(text') = N /\ N \in Nat
  BY <1>1, SameText
<1>4. x \in Nat /\ InRange(x)
  BY <1>2, <1>3, CodedIs
<1>5. PICK c : IsTrace(c, 0, N, TextPairs) /\ c[0] = [x |-> x, words |-> Popped(stack)]
  BY <1>2 DEF CodedDownTo
<1>6. StackHolds(stack) /\ (stack.bufs # <<>> \/ stack.index = 0)
  BY <1>2 DEF CodedDownTo
<1> HIDE DEF N
<1>7. StackHolds(stack') /\ Popped(stack') = <<Word(x), Word(x \div Base)>> \o Popped(stack)
  BY <1>1, <1>4, <1>6, Flushed
<1>8. <<>> \o Popped(stack') = Popped(stack')
  BY <1>7, PoppedIs, EmptySeq
<1>9. c[0].x = x /\ c[0].words = Popped(stack)
  BY <1>5
<1>10. WayOf(c, <<>> \o Popped(stack'), N, TextPairs)
  BY <1>3, <1>5, <1>7, <1>8, <1>9 DEF WayOf
<1>11. IsBytesOf(blob', <<>>)
  BY <1>1, <1>2, NoBytes
<1>12. \E v, d : IsBytesOf(blob', v) /\ WayOf(d, v \o Popped(stack'), Len(text'), TextPairs') /\ x' = d[0].x
  <2>1. WayOf(c, <<>> \o Popped(stack'), Len(text'), TextPairs') /\ x' = c[0].x
    BY <1>1, <1>3, <1>9, <1>10
  <2> QED BY <1>11, <2>1
<1>13. WhileDraining'
  BY <1>1, <1>2, <1>7, <1>12 DEF WhileDraining
<1> QED BY <1>1, <1>3, <1>13 DEF Inv, WhileEncoding, WhileDecoding, WhenDone

LEMMA DrainKeeps ==
  ASSUME Inv, Drain
  PROVE  Inv'
<1> DEFINE w == top(stack)
<1>1. /\ stage = "drain" /\ stack.bufs # <<>>
      /\ blob' = blob \o ToBytes(w) /\ stack' = pop(stack)
      /\ UNCHANGED <<stage, mstate, trained, text, bwt_index, seq, index, x, pos, out>>
  BY DEF Drain
<1>2. out = <<>> /\ index = 0 /\ StackHolds(stack)
  BY <1>1 DEF Inv, WhileDraining
<1>3. PICK words, c : IsBytesOf(blob, words) /\ WayOf(c, words \o Popped(stack), Len(text), TextPairs) /\ x = c[0].x
  BY <1>1 DEF Inv, WhileDraining
<1>4. Settled' /\ TextPairs' = TextPairs /\ Len(text') = Len(text)
  BY <1>1, SameText
<1>5. StackHolds(stack') /\ w \in WordValues /\ Popped(stack) = <<w>> \o Popped(stack')
  BY <1>1, <1>2, PoppedOff
<1> HIDE DEF w
<1>6. IsBytesOf(blob', words \o <<w>>)
  BY <1>1, <1>3, <1>5, BytesAppend
<1>7. words \o Popped(stack) = (words \o <<w>>) \o Popped(stack')
  <2>1. words \in Seq(WordValues) /\ <<w>> \in Seq(WordValues)
    BY <1>3, <1>5 DEF IsBytesOf
  <2>2. Popped(stack') \in Seq(WordValues)
    BY <1>5, PoppedIs
  <2>3. (words \o <<w>>) \o Popped(stack') = words \o (<<w>> \o Popped(stack'))
    BY <2>1, <2>2, ConcatAssociative
  <2> QED BY <1>5, <2>3
<1>8. WayOf(c, (words \o <<w>>) \o Popped(stack'), Len(text'), TextPairs')
  BY <1>3, <1>4, <1>7
<1>9. \E v, d : IsBytesOf(blob', v) /\ WayOf(d, v \o Popped(stack'), Len(text'), TextPairs') /\ x' = d[0].x
  BY <1>1, <1>3, <1>6, <1>8
<1>10. WhileDraining'
  BY <1>1, <1>2, <1>5, <1>9 DEF WhileDraining
<1> QED BY <1>1, <1>4, <1>10 DEF Inv, WhileEncoding, WhileDecoding, WhenDone

-----------------------------------------------------------------------------
(* The decoder keeps the invariant *)
LEMMA DecompressKeeps ==
  ASSUME Inv, decompress
  PROVE  Inv'
<1> DEFINE N == Len(text)
<1>1. /\ stage = "drain" /\ stack.bufs = <<>> /\ stage' = "decode"
      /\ x' = Words[1] + Words[2] * Base /\ pos' = 2 /\ index' = 0
      /\ UNCHANGED <<mstate, trained, text, bwt_index, stack, blob, out>>
  BY DEF decompress
<1>2. out = <<>> /\ StackHolds(stack)
  BY <1>1 DEF Inv, WhileDraining
<1>3. PICK words, c : IsBytesOf(blob, words) /\ WayOf(c, words \o Popped(stack), N, TextPairs) /\ x = c[0].x
  BY <1>1 DEF Inv, WhileDraining
<1>4. Settled' /\ TextPairs' = TextPairs /\ Coded' = Coded /\ Len(text') = N /\ N \in Nat /\ Coded \in Seq(Symbols)
  BY <1>1, SameText
<1> HIDE DEF N
<1>5. words \in Seq(WordValues) /\ Words = words
  BY <1>3 DEF IsBytesOf, Words
<1>6. words \o Popped(stack) = words
  <2>1. Popped(stack) = <<>>
    BY <1>1, <1>2, PoppedIs
  <2> QED BY <1>5, <2>1, ConcatEmptySeq
<1>7. IsTrace(c, 0, N, TextPairs) /\ words = <<Word(x), Word(x \div Base)>> \o c[0].words
  BY <1>3, <1>6 DEF WayOf
<1>8. x \in Nat /\ InRange(x) /\ c[0].words \in Seq(WordValues)
  <2>1. 0 \in 0..N
    BY <1>4
  <2>2. c[0] \in CoderStates /\ InRange(c[0].x)
    BY <1>7, <2>1 DEF IsTrace
  <2> QED BY <1>3, <2>2 DEF CoderStates
<1>9. words[1] + words[2] * Base = x /\ Rest(words, 2, c[0].words)
  BY <1>7, <1>8, FlushRead
<1>10. Words' = words
  BY <1>1, <1>5 DEF Words
<1>11. x' = x
  BY <1>1, <1>5, <1>9
<1>12. \E d : IsTrace(d, 0, Len(text'), TextPairs') /\ x' = d[index'].x /\ Rest(Words', pos', d[index'].words)
  <2>1. IsTrace(c, 0, Len(text'), TextPairs') /\ x' = c[index'].x /\ Rest(Words', pos', c[index'].words)
    BY <1>1, <1>3, <1>4, <1>7, <1>9, <1>10, <1>11
  <2> QED BY <2>1
<1>13. out' = FirstOf(Coded', index')
  BY <1>1, <1>2, <1>4, FirstOfNone
<1>14. IsBytesOf(blob', Words')
  BY <1>1, <1>3, <1>10
<1>15. index' \in 0..Len(text')
  BY <1>1, <1>4
<1>16. WhileDecoding'
  BY <1>1, <1>2, <1>12, <1>13, <1>14, <1>15 DEF WhileDecoding
<1> QED BY <1>1, <1>4, <1>16 DEF Inv, WhileEncoding, WhileDraining, WhenDone

LEMMA DecodeSymbolKeeps ==
  ASSUME Inv, DecodeSymbol
  PROVE  Inv'
<1> DEFINE N == Len(text)
           prev == Context(out, index)
           s == FindSymbol(mstate, prev, Slot(x))
           y == Unshuffled(x, Width(mstate, prev, s), Start(mstate, prev, s))
           T == TextPairs
           p == T[index]
<1>1. /\ stage = "decode" /\ index < N /\ out' = Append(out, s) /\ index' = index + 1
      /\ \E w \in IF pos < Len(Words) THEN {Words[pos + 1]} ELSE 0..Base-1 : x' = Refilled(y, w)
      /\ pos' = IF Underflows(y) THEN pos + 1 ELSE pos
      /\ UNCHANGED <<stage, mstate, trained, text, bwt_index, seq, stack, blob>>
  BY DEF DecodeSymbol
<1>2. /\ StackHolds(stack) /\ stack.bufs = <<>> /\ IsBytesOf(blob, Words)
      /\ index \in 0..N /\ out = FirstOf(Coded, index)
  BY <1>1 DEF Inv, WhileDecoding
<1>3. PICK c : IsTrace(c, 0, N, T) /\ x = c[index].x /\ Rest(Words, pos, c[index].words)
  BY <1>1 DEF Inv, WhileDecoding
<1>4. /\ Settled' /\ T' = T /\ Coded' = Coded /\ Len(text') = N /\ N \in Nat
      /\ Coded \in Seq(Symbols) /\ Len(Coded) = N /\ IsModel(mstate)
  BY <1>1, SameText
<1>5. T = PairsOf(mstate, Coded)
  BY DEF TextPairs
<1> HIDE DEF N, T, prev, s, y
<1>6. index \in 0..N-1 /\ index + 1 \in 0..N /\ index \in Nat
  BY <1>1, <1>2, <1>4
<1>7. p \in LegalPairs /\ c[index] = Encoded(c[index + 1], p) /\ c[index + 1] \in CoderStates /\ InRange(c[index + 1].x)
  BY <1>3, <1>6 DEF IsTrace
<1>8. Words \in Seq(WordValues)
  BY <1>2 DEF IsBytesOf
<1> HIDE DEF p
<1>9. DecodedBack(Words, pos, c[index], c[index + 1], p)
  BY <1>3, <1>7, <1>8, DecodesBack
<1>10. p = PairsOf(mstate, Coded)[index]
  BY <1>5 DEF p
<1>11. Slot(x) \in p.bs..(p.bs + p.ls - 1)
  BY <1>3, <1>9 DEF DecodedBack
<1>12. Context(FirstOf(Coded, index), index) = Context(Coded, index) /\ FindSymbol(mstate, Context(Coded, index), Slot(x)) = Coded[index + 1]
  BY <1>4, <1>6, <1>10, <1>11, SymbolBack
<1>13. prev = Context(Coded, index) /\ s = Coded[index + 1]
  BY <1>2, <1>12 DEF prev, s
<1>14. p.ls = Width(mstate, prev, s) /\ p.bs = Start(mstate, prev, s)
  BY <1>4, <1>6, <1>10, <1>13, PairsLegal
<1>15. y = Unshuffled(x, p.ls, p.bs)
  BY <1>14 DEF y
<1>16. /\ \A w \in IF pos < Len(Words) THEN {Words[pos + 1]} ELSE WordValues : Refilled(y, w) = c[index + 1].x
       /\ Rest(Words, pos', c[index + 1].words)
  BY <1>1, <1>3, <1>9, <1>15 DEF DecodedBack
<1>17. x' = c[index + 1].x
  BY <1>1, <1>16 DEF WordValues
<1>18. Words' = Words
  BY <1>1 DEF Words
<1>19. \E d : IsTrace(d, 0, Len(text'), TextPairs') /\ x' = d[index'].x /\ Rest(Words', pos', d[index'].words)
  <2>1. IsTrace(c, 0, Len(text'), TextPairs') /\ x' = c[index'].x /\ Rest(Words', pos', c[index'].words)
    BY <1>1, <1>3, <1>4, <1>16, <1>17, <1>18 DEF T
  <2> QED BY <2>1
<1>20. out' = FirstOf(Coded', index')
  <2>1. Append(FirstOf(Coded, index), Coded[index + 1]) = FirstOf(Coded, index + 1)
    BY <1>4, <1>6, FirstOfNext
  <2> QED BY <1>1, <1>2, <1>4, <1>13, <2>1
<1>21. IsBytesOf(blob', Words')
  BY <1>1, <1>2, <1>18
<1>22. index' \in 0..Len(text')
  BY <1>1, <1>4, <1>6
<1>23. WhileDecoding'
  BY <1>1, <1>2, <1>19, <1>20, <1>21, <1>22 DEF WhileDecoding
<1> QED BY <1>1, <1>4, <1>23 DEF Inv, WhileEncoding, WhileDraining, WhenDone

LEMMA FinishKeeps ==
  ASSUME Inv, Finish
  PROVE  Inv'
<1>1. /\ stage = "decode" /\ index = Len(text) /\ seq' = BwtInvert(MtfInvert(out), bwt_index) /\ stage' = "done"
      /\ UNCHANGED <<mstate, trained, text, bwt_index, index, x, stack, blob, pos, out>>
  BY DEF Finish
<1>2. /\ StackHolds(stack) /\ IsBytesOf(blob, Words) /\ out = FirstOf(Coded, index)
  BY <1>1 DEF Inv, WhileDecoding
<1>3. PICK c : IsTrace(c, 0, Len(text), TextPairs) /\ x = c[index].x /\ Rest(Words, pos, c[index].words)
  BY <1>1 DEF Inv, WhileDecoding
<1>4. /\ Settled' /\ Coded' = Coded /\ Len(text') = Len(text)
      /\ Coded \in Seq(Symbols) /\ Len(Coded) = Len(text)
  BY <1>1, SameText
<1>5. bwt_index = BwtIndex(text) /\ IsInput(text)
  BY <1>1 DEF Inv, Settled
<1>6. out = Coded
  BY <1>1, <1>2, <1>4, FirstOfNone
<1>7. seq' = text
  <2>1. BwtInvert(MtfInvert(Transformed(text)), BwtIndex(text)) = text
    BY <1>5, TransformedIs
  <2> QED BY <1>1, <1>5, <1>6, <2>1 DEF Coded
<1>8. c[index] = [x |-> LowerBound, words |-> <<>>]
  BY <1>1, <1>3 DEF IsTrace
<1>9. x = LowerBound /\ pos = Len(Words)
  <2>1. x = LowerBound /\ Rest(Words, pos, <<>>)
    BY <1>3, <1>8
  <2>2. pos \in Nat /\ Len(Words) = pos + Len(<<>>) /\ Len(<<>>) = 0
    BY <2>1 DEF Rest
  <2> QED BY <2>1, <2>2
<1>10. Words' = Words
  BY <1>1 DEF Words
<1>11. WhenDone'
  BY <1>1, <1>2, <1>4, <1>6, <1>7, <1>9, <1>10 DEF WhenDone
<1> QED BY <1>1, <1>4, <1>11 DEF Inv, WhileEncoding, WhileDraining, WhileDecoding

LEMMA Invariant == Spec => []Inv
<1>1. Init => Inv
  BY Begins
<1>2. Inv /\ [Next]_vars => Inv'
  <2> SUFFICES ASSUME Inv, [Next]_vars PROVE Inv'
    OBVIOUS
  <2>1. ASSUME NEW d \in TrainingInputs, train(d) PROVE Inv'
    BY <2>1, TrainKeeps
  <2>2. ASSUME NEW d \in Inputs, compress(d) PROVE Inv'
    BY <2>2, CompressKeeps
  <2>3. CASE EncodeSymbol
    BY <2>3, EncodeSymbolKeeps
  <2>4. CASE Flush
    BY <2>4, FlushKeeps
  <2>5. CASE Drain
    BY <2>5, DrainKeeps
  <2>6. CASE decompress
    BY <2>6, DecompressKeeps
  <2>7. CASE DecodeSymbol
    BY <2>7, DecodeSymbolKeeps
  <2>8. CASE Finish
    BY <2>8, FinishKeeps
  <2>9. CASE UNCHANGED vars
    <3>1. UNCHANGED <<stage, mstate, trained, text, bwt_index, seq, index, x, stack, blob, pos, out>>
      BY <2>9 DEF vars
    <3>2. Coded' = Coded /\ TextPairs' = TextPairs /\ Words' = Words
      BY <3>1 DEF Coded, TextPairs, Words
    <3>3. Settled' /\ WhileEncoding'
      BY <3>1, <3>2 DEF Inv, Settled, WhileEncoding, IsInput, IsModel
    <3>4. WhileDraining'
      BY <3>1, <3>2 DEF Inv, WhileDraining
    <3>5. WhileDecoding' /\ WhenDone'
      BY <3>1, <3>2 DEF Inv, WhileDecoding, WhenDone
    <3> QED BY <3>3, <3>4, <3>5 DEF Inv
  <2> QED BY <2>1, <2>2, <2>3, <2>4, <2>5, <2>6, <2>7, <2>8, <2>9 DEF Next
<1> QED BY <1>1, <1>2, PTL DEF Spec

-----------------------------------------------------------------------------
(* The theorems *)
\* In every stage the coder's state is in its interval.
LEMMA XInRange ==
  ASSUME Inv
  PROVE  InRange(x) /\ index \in 0..Len(text)
<1>1. LowerBound \in Nat /\ InRange(LowerBound)
  BY TotalIs, LowerBoundIs
<1>2. CASE stage = "idle"
  <2>1. x = LowerBound /\ index = 0 /\ text = <<>>
    BY <1>2 DEF Inv, Settled
  <2>2. Len(text) = 0
    BY <2>1
  <2> QED BY <1>1, <2>1, <2>2
<1>3. CASE stage # "idle"
  <2> DEFINE N == Len(text)
  <2>1. N \in Nat /\ IsInput(text)
    BY <1>3, InputLength DEF Inv, Settled
  <2> HIDE DEF N
  <2>2. CASE stage = "encode"
    <3>1. index \in 0..N /\ CodedDownTo(index, N, TextPairs, x, stack)
      BY <2>2 DEF Inv, WhileEncoding, N
    <3>2. index \in Nat /\ index <= N
      BY <2>1, <3>1
    <3>3. InRange(x)
      BY <2>1, <3>1, <3>2, CodedIs
    <3> QED BY <3>1, <3>3 DEF N
  <2>3. CASE stage = "drain"
    <3>1. index = 0 /\ \E words, c : IsBytesOf(blob, words) /\ WayOf(c, words \o Popped(stack), N, TextPairs) /\ x = c[0].x
      BY <2>3 DEF Inv, WhileDraining, N
    <3>2. PICK words, c : WayOf(c, words \o Popped(stack), N, TextPairs) /\ x = c[0].x
      BY <3>1
    <3>3. 0 \in 0..N
      BY <2>1
    <3>4. InRange(x)
      BY <3>2, <3>3 DEF WayOf, IsTrace
    <3> QED BY <3>1, <3>3, <3>4 DEF N
  <2>4. CASE stage = "decode"
    <3>1. index \in 0..N /\ \E c : IsTrace(c, 0, N, TextPairs) /\ x = c[index].x
      BY <2>4 DEF Inv, WhileDecoding, N
    <3>2. InRange(x)
      BY <3>1 DEF IsTrace
    <3> QED BY <3>1, <3>2 DEF N
  <2>5. CASE stage = "done"
    <3>1. x = LowerBound /\ index = N
      BY <2>5 DEF Inv, WhenDone, N
    <3>2. N \in 0..N
      BY <2>1
    <3> QED BY <1>1, <3>1, <3>2 DEF N
  <2> QED BY <1>3, <2>2, <2>3, <2>4, <2>5 DEF Inv, Settled
<1> QED BY <1>2, <1>3

\* What is stored in the meantime.
LEMMA StoredTyped ==
  ASSUME Inv
  PROVE  StackHolds(stack) /\ blob \in Seq(ByteValues) /\ out \in Seq(Symbols)
<1>1. <<>> \in Seq(ByteValues) /\ <<>> \in Seq(Symbols)
  OBVIOUS
<1>2. CASE stage = "idle"
  <2>1. stack = EmptyStack /\ blob = <<>> /\ out = <<>>
    BY <1>2 DEF Inv, Settled
  <2>2. StackHolds(EmptyStack)
    BY DEF StackHolds, EmptyStack
  <2> QED BY <1>1, <2>1, <2>2
<1>3. CASE stage # "idle"
  <2>1. IsInput(text)
    BY <1>3 DEF Inv, Settled
  <2>2. Coded \in Seq(Symbols) /\ Len(Coded) = Len(text)
    BY <2>1, TransformedIs DEF Coded
  <2>3. CASE stage = "encode"
    BY <1>1, <2>3 DEF Inv, WhileEncoding, CodedDownTo
  <2>4. CASE stage = "drain"
    BY <1>1, <2>4 DEF Inv, WhileDraining, IsBytesOf
  <2>5. CASE stage = "decode"
    <3>1. StackHolds(stack) /\ IsBytesOf(blob, Words) /\ index \in 0..Len(Coded) /\ out = FirstOf(Coded, index)
      BY <2>2, <2>5 DEF Inv, WhileDecoding
    <3>2. out \in Seq(Symbols)
      BY <2>2, <3>1, FirstOfIs
    <3> QED BY <3>1, <3>2 DEF IsBytesOf
  <2>6. CASE stage = "done"
    BY <2>2, <2>6 DEF Inv, WhenDone, IsBytesOf
  <2> QED BY <1>3, <2>3, <2>4, <2>5, <2>6 DEF Inv, Settled
<1> QED BY <1>2, <1>3

\* The invariant has the types in it.
LEMMA InvTyped == Inv => TypeOK
<1> SUFFICES ASSUME Inv PROVE TypeOK
  OBVIOUS
<1>1. stage \in {"idle", "encode", "drain", "decode", "done"} /\ trained \in 0..MaxTrain
  BY DEF Inv, Settled
<1>2. mstate = NoModel \/ mstate \in [Symbols -> [Symbols -> Nat]]
  BY DEF Inv, Settled, IsModel
<1>3. InRange(x) /\ index \in 0..Len(text)
  BY XInRange
<1>4. StackHolds(stack) /\ blob \in Seq(ByteValues) /\ out \in Seq(Symbols)
  BY StoredTyped
<1>5. stack.index \in 0..BufSize /\ stack.bufs \in Seq(Seq(WordValues))
  <2>1. BufSize \in Nat \ {0}
    BY HzRansAssumption
  <2>2. stack.bufs \in Seq(Seq(WordValues))
    BY <1>4 DEF StackHolds
  <2>3. stack.index \in {0, BufSize} \/ stack.index \in 1..BufSize
    BY <1>4 DEF StackHolds
  <2> QED BY <2>1, <2>2, <2>3
<1>6. \A b \in DOMAIN stack.bufs : \A i \in DOMAIN stack.bufs[b] : stack.bufs[b][i] \in 0..Base-1
  <2> SUFFICES ASSUME NEW b \in DOMAIN stack.bufs, NEW i \in DOMAIN stack.bufs[b]
               PROVE  stack.bufs[b][i] \in 0..Base-1
    OBVIOUS
  <2> DEFINE v == stack.bufs[b]
  <2>1. v \in Seq(WordValues)
    BY <1>5
  <2>2. i \in DOMAIN v
    OBVIOUS
  <2> HIDE DEF v
  <2>3. v[i] \in WordValues
    BY <2>1, <2>2
  <2> QED BY <2>3 DEF v, WordValues
<1>7. \A i \in DOMAIN blob : blob[i] \in 0..ByteBase-1
  <2>1. \A i \in DOMAIN blob : blob[i] \in ByteValues
    BY <1>4
  <2> QED BY <2>1 DEF ByteValues
<1>8. \A i \in DOMAIN out : out[i] \in Symbols
  BY <1>4
<1> QED BY <1>1, <1>2, <1>3, <1>5, <1>6, <1>7, <1>8 DEF TypeOK

\* The type invariant: every word fits, and every symbol and byte; the state of
\* the coder stays in its interval.
THEOREM Typed == Spec => []TypeOK
BY Invariant, InvTyped, PTL

\* _normalize makes a distribution of every row of every mstate.
THEOREM Distributions == Spec => []RowsNormalised
<1>1. Inv => RowsNormalised
  <2> SUFFICES ASSUME Inv, mstate # NoModel, NEW a \in Symbols
               PROVE  /\ SumBelow(Normalised(mstate[a]), AlphabetSize) = Total
                      /\ \A s \in Symbols : Normalised(mstate[a])[s] >= 1
    BY DEF RowsNormalised
  <2>1. mstate[a] \in [Symbols -> Nat]
    BY DEF Inv, Settled, IsModel
  <2> DEFINE row == Normalised(mstate[a])
  <2>2. IsDistribution(row)
    BY <2>1, NormalisedIs
  <2> HIDE DEF row
  <2>3. SumBelow(row, AlphabetSize) = Total /\ \A s \in Symbols : row[s] >= 1
    BY <2>2 DEF IsDistribution
  <2> QED BY <2>3 DEF row
<1> QED BY <1>1, Invariant, PTL

\* The sort by triples sorts the suffixes of every text.
THEOREM SuffixesAreSorted == Spec => []SuffixesSorted
<1>1. Inv => SuffixesSorted
  <2> SUFFICES ASSUME Inv, stage = "encode"
               PROVE  LET SA == SuffixesOf(text)
                      IN  /\ {SA[k] : k \in DOMAIN SA} = 0..Len(text)
                          /\ \A k \in 1..Len(text) : Before(SA[k - 1], SA[k])
    BY DEF SuffixesSorted
  <2>1. IsInput(text)
    BY DEF Inv, Settled
  <2> QED BY <2>1, SuffixesInOrder
<1> QED BY <1>1, Invariant, PTL

\* What compress wrote, decompress gives back.
THEOREM Restored == Spec => []RoundTrip
<1>1. Inv => RoundTrip
  BY DEF Inv, WhenDone, RoundTrip
<1> QED BY <1>1, Invariant, PTL

================================================================================
