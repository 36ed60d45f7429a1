------------------------------ MODULE CodecProofs ------------------------------
(***************************************************************************)
(* What both codecs rest on, for every width: the coder of HzRans, whose   *)
(* decoder undoes its encoder step by step and so walks back the whole way *)
(* from the last word to the first, the frequency tables, and the          *)
(* arithmetic of ImageTransforms.  Induction is by the least               *)
(* counterexample, so that it needs no operator parameter; a recursive     *)
(* function or a fold is first shown to satisfy its equations.             *)
(***************************************************************************)
EXTENDS HzRans, ImageTransforms, SequencesExt, SequenceTheorems, WellFoundedInduction, FiniteSetTheorems, TLAPS

\* Division with remainder.
LEMMA DivMod ==
  ASSUME NEW a \in Nat, NEW d \in Nat \ {0}
  PROVE  /\ a \div d \in Nat /\ a % d \in 0..d-1
         /\ a = d * (a \div d) + (a % d)
BY SMT

\* Quotient and remainder are what the division of q * d + r must give.
LEMMA DivModUnique ==
  ASSUME NEW d \in Nat \ {0}, NEW q \in Nat, NEW r \in 0..d-1
  PROVE  (q * d + r) \div d = q /\ (q * d + r) % d = r
BY SMT

\* Multiplication keeps the order.
LEMMA Monotone ==
  ASSUME NEW a \in Nat, NEW b \in Nat, NEW c \in Nat, a <= b
  PROVE  a * c <= b * c
BY SMT

\* Renormalised, the state is in the interval that the shuffle expects of a
\* symbol of frequency ls.
LEMMA RenormalisedFits ==
  ASSUME NEW x \in Nat, InRange(x), NEW ls \in 1..Total
  PROVE  /\ Renormalised(x, ls) \in Nat
         /\ ls * Prefix <= Renormalised(x, ls)
         /\ Renormalised(x, ls) < ls * (Prefix * Base)
<1> DEFINE y == Renormalised(x, ls)
<1>0. /\ Total \in Nat \ {0} /\ Prefix \in Nat \ {0} /\ Base \in Nat \ {0} /\ ls \in Nat \ {0}
      /\ Total * Prefix <= Base
  BY HzRansAssumption, SMT
<1>1. LowerBound \in Nat /\ LowerBound <= Base /\ LowerBound <= x /\ x < LowerBound * Base
  BY <1>0, SMT DEF LowerBound, InRange
<1>2. ls * Prefix \in Nat \ {0} /\ ls * Prefix <= LowerBound
  BY <1>0, SMT DEF LowerBound
<1>3. ls * (Prefix * Base) = (ls * Prefix) * Base
  BY <1>0, SMT
<1>4. CASE Overflows(x, ls)
  <2>1. y = x \div Base
    BY <1>4 DEF Renormalised
  <2>2. (ls * Prefix) * Base <= x
    BY <1>4, <1>3 DEF Overflows
  <2>3. y \in Nat /\ x = Base * y + (x % Base) /\ x % Base \in 0..Base-1
    BY <2>1, <1>0, DivMod
  <2>4. ls * Prefix <= y
    BY <2>2, <2>3, <1>0, <1>2, SMT
  <2>5. y < LowerBound
    BY <2>3, <1>0, <1>1, SMT
  <2>6. Base <= (ls * Prefix) * Base
    BY <1>0, <1>2, SMT
  <2> QED
    BY <2>3, <2>4, <2>5, <2>6, <1>1, <1>2, <1>3, <1>0, SMT
<1>5. CASE ~ Overflows(x, ls)
  <2>1. y = x
    BY <1>5 DEF Renormalised
  <2>2. x < ls * (Prefix * Base)
    BY <1>5, <1>0, SMT DEF Overflows
  <2> QED
    BY <2>1, <2>2, <1>1, <1>2, SMT
<1> QED
  BY <1>4, <1>5

\* A step of the encoder keeps the state in its interval: one word of 32 bits
\* given off is always enough and never too much, so that the 64 bits of
\* hzrans64_t::x do not overflow.
THEOREM EncodeKeepsRange ==
  ASSUME NEW x \in Nat, InRange(x), NEW ls, NEW bs, IsSlot(ls, bs)
  PROVE  EncodeState(x, ls, bs) \in Nat /\ InRange(EncodeState(x, ls, bs))
<1> DEFINE y == Renormalised(x, ls)
<1> DEFINE q == y \div ls
<1> DEFINE r == y % ls
<1>0. /\ Total \in Nat \ {0} /\ Prefix \in Nat \ {0} /\ Base \in Nat \ {0}
      /\ ls \in 1..Total /\ ls \in Nat \ {0} /\ bs \in Nat /\ bs + ls <= Total
  BY HzRansAssumption, SMT DEF IsSlot
<1>1. y \in Nat /\ ls * Prefix <= y /\ y < ls * (Prefix * Base)
  BY <1>0, RenormalisedFits
<1>2. q \in Nat /\ r \in 0..ls-1 /\ y = ls * q + r
  BY <1>0, <1>1, DivMod
<1>3. EncodeState(x, ls, bs) = q * Total + bs + r
  BY DEF EncodeState, Shuffled
<1> HIDE DEF q, r, y
<1>4. bs + r \in 0..Total-1
  BY <1>0, <1>2, SMT
<1>5. Prefix <= q
  BY <1>0, <1>1, <1>2, SMT
<1>6. q < Prefix * Base
  BY <1>0, <1>1, <1>2, SMT
<1>7. Prefix * Total <= q * Total
  BY <1>0, <1>2, <1>5, Monotone
<1>8. (q + 1) * Total <= (Prefix * Base) * Total
  <2>1. Prefix * Base \in Nat /\ q + 1 \in Nat /\ q + 1 <= Prefix * Base
    BY <1>0, <1>2, <1>6, SMT
  <2> QED
    BY <2>1, <1>0, Monotone
<1>9. q * Total + Total = (q + 1) * Total /\ (Prefix * Base) * Total = (Total * Prefix) * Base
      /\ Prefix * Total = Total * Prefix /\ q * Total \in Nat
  BY <1>0, <1>2, SMT
<1>10. q * Total + bs + r \in Nat
       /\ Total * Prefix <= q * Total + bs + r
       /\ q * Total + bs + r < (Total * Prefix) * Base
  <2> DEFINE qT == q * Total
  <2> DEFINE low == Total * Prefix
  <2>1. qT \in Nat /\ low <= qT /\ qT + Total <= low * Base /\ low \in Nat /\ low * Base \in Nat
    BY <1>7, <1>8, <1>9, <1>0, SMT
  <2>2. r \in Nat
    BY <1>2, <1>0, SMT
  <2> HIDE DEF qT, low
  <2>3. qT + bs + r \in Nat /\ low <= qT + bs + r /\ qT + bs + r < low * Base
    BY <2>1, <2>2, <1>0, <1>4, SMT
  <2> QED
    BY <2>3 DEF qT, low
<1> QED
  BY <1>3, <1>10 DEF InRange, LowerBound

\* The slot in the encoded state is one of the symbol's, so that the decoder
\* finds the symbol.
THEOREM SlotFound ==
  ASSUME NEW x \in Nat, InRange(x), NEW ls, NEW bs, IsSlot(ls, bs)
  PROVE  Slot(EncodeState(x, ls, bs)) \in bs .. (bs + ls - 1)
<1> DEFINE y == Renormalised(x, ls)
<1> DEFINE q == y \div ls
<1> DEFINE r == y % ls
<1>0. /\ Total \in Nat \ {0} /\ ls \in 1..Total /\ ls \in Nat \ {0} /\ bs \in Nat /\ bs + ls <= Total
  BY HzRansAssumption, SMT DEF IsSlot
<1>1. y \in Nat
  BY <1>0, RenormalisedFits
<1>2. q \in Nat /\ r \in 0..ls-1
  BY <1>0, <1>1, DivMod
<1>3. EncodeState(x, ls, bs) = q * Total + (bs + r)
  <2>1. EncodeState(x, ls, bs) = q * Total + bs + r
    BY DEF EncodeState, Shuffled
  <2> HIDE DEF q, r, y
  <2> QED
    BY <2>1, <1>0, <1>2, SMT
<1> HIDE DEF q, r, y
<1>4. bs + r \in 0..Total-1
  BY <1>0, <1>2, SMT
<1>5. (q * Total + (bs + r)) % Total = bs + r
  BY <1>0, <1>2, <1>4, DivModUnique
<1> QED
  BY <1>0, <1>2, <1>3, <1>5, SMT DEF Slot

\* A step of the decoder undoes a step of the encoder.  It reads a word exactly
\* when the encoder wrote one, so the words on the stack stay in step, and with
\* that word it restores the state.
THEOREM DecodeInvertsEncode ==
  ASSUME NEW x \in Nat, InRange(x), NEW ls, NEW bs, IsSlot(ls, bs)
  PROVE  LET y == Unshuffled(EncodeState(x, ls, bs), ls, bs)
         IN  /\ Underflows(y) <=> Overflows(x, ls)
             /\ Refilled(y, Word(x)) = x
<1> DEFINE z == Renormalised(x, ls)
<1> DEFINE q == z \div ls
<1> DEFINE r == z % ls
<1> DEFINE e == EncodeState(x, ls, bs)
<1> DEFINE y == Unshuffled(e, ls, bs)
<1>0. /\ Total \in Nat \ {0} /\ ls \in 1..Total /\ ls \in Nat \ {0} /\ bs \in Nat /\ bs + ls <= Total
      /\ Base \in Nat \ {0} /\ Prefix \in Nat \ {0}
  BY HzRansAssumption, SMT DEF IsSlot
<1>1. z \in Nat
  BY <1>0, RenormalisedFits
<1>2. q \in Nat /\ r \in 0..ls-1 /\ z = ls * q + r
  BY <1>0, <1>1, DivMod
<1>3. e = q * Total + bs + r
  BY DEF EncodeState, Shuffled
<1>4. y = z
  <2>1. y = ls * (e \div Total) + (e % Total) - bs
    BY DEF Unshuffled
  <2> HIDE DEF q, r, z, e, y
  <2>2. e = q * Total + (bs + r) /\ bs + r \in 0..Total-1
    BY <1>0, <1>2, <1>3, SMT
  <2>3. e \div Total = q /\ e % Total = bs + r
    BY <1>0, <1>2, <2>2, DivModUnique
  <2> QED
    BY <2>1, <2>3, <1>0, <1>2, SMT
<1>5. LowerBound \in Nat /\ LowerBound <= x /\ x < LowerBound * Base
  BY <1>0, SMT DEF LowerBound, InRange
<1>6. CASE Overflows(x, ls)
  <2>1. z = x \div Base
    BY <1>6 DEF Renormalised
  <2>2. x = Base * z + (x % Base) /\ x % Base \in 0..Base-1
    BY <2>1, <1>0, DivMod
  <2> HIDE DEF q, r, z, e, y
  <2>3. z < LowerBound
    BY <2>2, <1>0, <1>1, <1>5, SMT
  <2>4. z * Base + Word(x) = x
    BY <2>2, <1>0, <1>1, SMT DEF Word
  <2>5. Underflows(y) /\ Refilled(y, Word(x)) = x
    BY <2>3, <2>4, <1>4 DEF Underflows, Refilled
  <2> QED
    BY <2>5, <1>6 DEF y, e
<1>7. CASE ~ Overflows(x, ls)
  <2>1. z = x
    BY <1>7 DEF Renormalised
  <2> HIDE DEF q, r, z, e, y
  <2>2. ~ (y < LowerBound)
    BY <2>1, <1>4, <1>5, SMT
  <2>3. ~ Underflows(y) /\ Refilled(y, Word(x)) = x
    BY <2>1, <2>2, <1>4 DEF Underflows, Refilled
  <2> QED
    BY <2>3, <1>7 DEF y, e
<1> QED
  BY <1>6, <1>7

-----------------------------------------------------------------------------
(* Induction and sums *)
\* Induction over the naturals for a set.
LEMMA Induction ==
  ASSUME NEW S, 0 \in S, \A n \in Nat : n \in S => n + 1 \in S
  PROVE  Nat \subseteq S
<1> DEFINE T == Nat \ S
<1> SUFFICES ASSUME T # {} PROVE FALSE
  OBVIOUS
<1>1. PICK n \in T : \A m \in T : ~(<<m, n>> \in OpToRel(<, Nat))
  BY NatLessThanWellFounded, WFMin
<1>2. n # 0 /\ n - 1 \in Nat /\ n - 1 < n
  BY SMT
<1>3. n - 1 \in S
  BY <1>1, <1>2 DEF OpToRel
<1> QED BY <1>2, <1>3

\* f adds up row.
IsSum(f, row, k) == f = [i \in 0..k |-> IF i = 0 THEN 0 ELSE f[i - 1] + row[i - 1]]

LEMMA SumExists ==
  ASSUME NEW row, NEW k \in Nat
  PROVE  \E f : IsSum(f, row, k)
<1> DEFINE S == {n \in Nat : \E f : IsSum(f, row, n)}
<1>1. 0 \in S
  <2>1. IsSum([i \in 0..0 |-> 0], row, 0)
    BY DEF IsSum
  <2> QED BY <2>1
<1>2. ASSUME NEW n \in Nat, n \in S PROVE n + 1 \in S
  <2>1. PICK f : IsSum(f, row, n)
    BY <1>2
  <2> DEFINE g == [i \in 0..n+1 |-> IF i = n + 1 THEN f[n] + row[n] ELSE f[i]]
  <2>2. \A i \in 0..n : f[i] = IF i = 0 THEN 0 ELSE f[i - 1] + row[i - 1]
    BY <2>1 DEF IsSum
  <2>3. \A i \in 0..n+1 : g[i] = IF i = 0 THEN 0 ELSE g[i - 1] + row[i - 1]
    BY <2>2
  <2>4. IsSum(g, row, n + 1)
    BY <2>3 DEF IsSum
  <2> QED BY <2>4
<1> QED BY <1>1, <1>2, Induction

LEMMA SumBelowSteps ==
  ASSUME NEW row, NEW k \in Nat
  PROVE  \E f : IsSum(f, row, k) /\ SumBelow(row, k) = f[k]
<1> DEFINE f == CHOOSE g : g = [i \in 0..k |-> IF i = 0 THEN 0 ELSE g[i - 1] + row[i - 1]]
<1>1. IsSum(f, row, k)
  BY SumExists DEF IsSum
<1>2. SumBelow(row, k) = f[k]
  BY DEF SumBelow
<1> QED BY <1>1, <1>2

LEMMA SumUnique ==
  ASSUME NEW row, NEW k \in Nat, NEW n \in 0..k, NEW f, IsSum(f, row, k), NEW g, IsSum(g, row, n)
  PROVE  f[n] = g[n]
<1> DEFINE S == {i \in Nat : i <= n => f[i] = g[i]}
<1>1. \A i \in 0..k : f[i] = IF i = 0 THEN 0 ELSE f[i - 1] + row[i - 1]
  BY DEF IsSum
<1>2. \A i \in 0..n : g[i] = IF i = 0 THEN 0 ELSE g[i - 1] + row[i - 1]
  BY DEF IsSum
<1>3. 0 \in S
  BY <1>1, <1>2
<1>4. ASSUME NEW i \in Nat, i \in S PROVE i + 1 \in S
  <2> SUFFICES ASSUME i + 1 <= n PROVE f[i + 1] = g[i + 1]
    OBVIOUS
  <2>1. f[i] = g[i]
    BY <1>4
  <2>2. f[i + 1] = f[i] + row[i]
    BY <1>1
  <2>3. g[i + 1] = g[i] + row[i]
    BY <1>2
  <2> QED BY <2>1, <2>2, <2>3
<1>5. Nat \subseteq S
  BY <1>3, <1>4, Induction
<1> QED BY <1>5

\* SumBelow adds up what lies below k.
LEMMA SumBelowIs ==
  ASSUME NEW row, NEW k \in Nat
  PROVE  SumBelow(row, 0) = 0 /\ SumBelow(row, k + 1) = SumBelow(row, k) + row[k]
<1>1. PICK f : IsSum(f, row, k) /\ SumBelow(row, k) = f[k]
  BY SumBelowSteps
<1>2. PICK g : IsSum(g, row, k + 1) /\ SumBelow(row, k + 1) = g[k + 1]
  BY SumBelowSteps
<1>3. g[k] = f[k]
  BY <1>1, <1>2, SumUnique
<1>4. g[k + 1] = g[k] + row[k]
  <2>1. k + 1 \in 0..k+1 /\ k + 1 # 0 /\ (k + 1) - 1 = k
    OBVIOUS
  <2> QED BY <1>2, <2>1 DEF IsSum
<1>5. PICK z : IsSum(z, row, 0) /\ SumBelow(row, 0) = z[0]
  BY SumBelowSteps
<1>6. z[0] = 0
  BY <1>5 DEF IsSum
<1> QED BY <1>1, <1>2, <1>3, <1>4, <1>5, <1>6

\* The sums of a row of numbers.
LEMMA SumBelowNat ==
  ASSUME NEW n \in Nat, NEW row, \A i \in 0..n-1 : row[i] \in Nat
  PROVE  /\ \A k \in 0..n : SumBelow(row, k) \in Nat
         /\ \A k \in 0..n : \A j \in 0..k : SumBelow(row, j) <= SumBelow(row, k)
<1> DEFINE S == {k \in Nat : k <= n => /\ SumBelow(row, k) \in Nat
                                       /\ \A j \in 0..k : SumBelow(row, j) <= SumBelow(row, k)}
<1>1. 0 \in S
  BY SumBelowIs
<1>2. ASSUME NEW k \in Nat, k \in S PROVE k + 1 \in S
  <2> SUFFICES ASSUME k + 1 <= n
               PROVE  /\ SumBelow(row, k + 1) \in Nat
                      /\ \A j \in 0..k+1 : SumBelow(row, j) <= SumBelow(row, k + 1)
    OBVIOUS
  <2>1. SumBelow(row, k) \in Nat /\ \A j \in 0..k : SumBelow(row, j) <= SumBelow(row, k)
    BY <1>2
  <2>2. SumBelow(row, k + 1) = SumBelow(row, k) + row[k] /\ row[k] \in Nat
    BY SumBelowIs
  <2>3. ASSUME NEW j \in 0..k+1 PROVE SumBelow(row, j) <= SumBelow(row, k + 1)
    <3>1. CASE j = k + 1
      BY <3>1, <2>1, <2>2
    <3>2. CASE j \in 0..k
      <4>1. SumBelow(row, j) <= SumBelow(row, k)
        BY <2>1, <3>2
      <4>2. SumBelow(row, j) \in Int
        <5> DEFINE T == {i \in Nat : i <= k => SumBelow(row, i) \in Int}
        <5>1. 0 \in T
          BY SumBelowIs
        <5>2. ASSUME NEW i \in Nat, i \in T PROVE i + 1 \in T
          <6>1. SumBelow(row, i + 1) = SumBelow(row, i) + row[i]
            BY SumBelowIs
          <6> QED BY <5>2, <6>1
        <5>3. Nat \subseteq T
          BY <5>1, <5>2, Induction
        <5> QED BY <5>3, <3>2
      <4> QED BY <4>1, <4>2, <2>1, <2>2
    <3> QED BY <3>1, <3>2
  <2> QED BY <2>1, <2>2, <2>3
<1>3. Nat \subseteq S
  BY <1>1, <1>2, Induction
<1> QED BY <1>3

\* Rows that agree have the same sums.
LEMMA SumBelowSame ==
  ASSUME NEW n \in Nat, NEW row, NEW other, \A i \in 0..n-1 : row[i] = other[i]
  PROVE  SumBelow(row, n) = SumBelow(other, n)
<1> DEFINE S == {k \in Nat : k <= n => SumBelow(row, k) = SumBelow(other, k)}
<1>1. 0 \in S
  BY SumBelowIs
<1>2. ASSUME NEW k \in Nat, k \in S PROVE k + 1 \in S
  <2>1. SumBelow(row, k + 1) = SumBelow(row, k) + row[k]
    BY SumBelowIs
  <2>2. SumBelow(other, k + 1) = SumBelow(other, k) + other[k]
    BY SumBelowIs
  <2> QED BY <1>2, <2>1, <2>2
<1>3. Nat \subseteq S
  BY <1>1, <1>2, Induction
<1> QED BY <1>3

\* A symbol's slots lie below the sum of its row.
LEMMA SlotInRow ==
  ASSUME NEW n \in Nat, NEW row, \A i \in 0..n-1 : row[i] \in Nat, NEW s \in 0..n-1
  PROVE  SumBelow(row, s) \in Nat /\ SumBelow(row, s) + row[s] <= SumBelow(row, n)
<1>1. s + 1 \in 0..n /\ s \in 0..n /\ n \in 0..n
  OBVIOUS
<1>2. SumBelow(row, s + 1) <= SumBelow(row, n) /\ SumBelow(row, s) \in Nat
  BY <1>1, SumBelowNat
<1>3. SumBelow(row, s + 1) = SumBelow(row, s) + row[s]
  BY <1>1, SumBelowIs
<1> QED BY <1>2, <1>3

-----------------------------------------------------------------------------
(* Frequency tables *)
\* Products of three numbers that occur below.
LEMMA Distribute ==
  ASSUME NEW a \in Nat, NEW b \in Nat, NEW c \in Nat
  PROVE  (a + b) * c = a * c + b * c /\ a * c \in Nat /\ c * (a + b) = c * a + c * b /\ a * c = c * a
BY SMT

LEMMA Division ==
  ASSUME NEW a \in Nat, NEW d \in Nat \ {0}
  PROVE  /\ a \div d \in Nat /\ a % d \in 0..d-1 /\ a % d \in Nat
         /\ a = (a \div d) * d + (a % d) /\ (a \div d) * d \in Nat
<1>1. a \div d \in Nat /\ a % d \in 0..d-1 /\ a = d * (a \div d) + (a % d)
  BY DivMod
<1>2. d * (a \div d) = (a \div d) * d /\ (a \div d) * d \in Nat
  BY <1>1, Distribute
<1> QED BY <1>1, <1>2

LEMMA DivBelow ==
  ASSUME NEW b \in Nat, NEW d \in Nat \ {0}, NEW a \in Nat, a < b * d
  PROVE  a \div d \in 0..b-1
<1> DEFINE q == a \div d
<1>1. q \in Nat /\ q * d \in Nat /\ q * d <= a
  BY Division
<1> HIDE DEF q
<1>2. ASSUME q >= b PROVE FALSE
  <2>1. b * d <= q * d
    BY <1>1, <1>2, Monotone
  <2>2. b * d \in Nat
    BY Distribute
  <2> QED BY <1>1, <2>1, <2>2
<1>3. q \in 0..b-1
  BY <1>1, <1>2
<1> QED BY <1>3 DEF q

LEMMA PlaceBelow ==
  ASSUME NEW b \in Nat, NEW d \in Nat \ {0}, NEW q \in 0..b-1, NEW r \in 0..d-1
  PROVE  q * d + r \in 0..b*d-1 /\ (q * d + r) \div d = q /\ (q * d + r) % d = r
<1>1. (q + 1) * d <= b * d /\ (q + 1) * d = q * d + 1 * d
  BY Monotone, Distribute
<1>2. q * d \in Nat /\ b * d \in Nat
  BY Distribute
<1>3. (q * d + r) \div d = q /\ (q * d + r) % d = r
  BY DivModUnique
<1>4. q * d + r \in 0..b*d-1
  BY <1>1, <1>2
<1> QED BY <1>3, <1>4

\* Shares by frequency, rounded down, add up to no more than what is shared.
LEMMA SharesFit ==
  ASSUME NEW size \in Nat \ {0}, NEW mul \in Nat, NEW weight,
         \A i \in 0..size-1 : weight[i] \in Nat,
         NEW sum \in Nat \ {0}, SumBelow(weight, size) <= sum,
         NEW share, \A i \in 0..size-1 : share[i] = (weight[i] * mul) \div sum
  PROVE  /\ \A i \in 0..size-1 : share[i] \in Nat
         /\ SumBelow(share, size) <= mul
<1>1. ASSUME NEW i \in 0..size-1 PROVE share[i] \in Nat /\ share[i] * sum <= weight[i] * mul
  <2>1. weight[i] * mul \in Nat
    BY Distribute
  <2>2. /\ (weight[i] * mul) \div sum \in Nat /\ (weight[i] * mul) % sum \in 0..sum-1
        /\ weight[i] * mul = sum * ((weight[i] * mul) \div sum) + ((weight[i] * mul) % sum)
    BY <2>1, DivMod
  <2>3. sum * ((weight[i] * mul) \div sum) = share[i] * sum /\ share[i] * sum \in Nat
    BY <2>2, Distribute
  <2> QED BY <2>1, <2>2, <2>3
<1> DEFINE S == {k \in Nat : k <= size => SumBelow(share, k) * sum <= SumBelow(weight, k) * mul}
<1>2. \A k \in 0..size : SumBelow(share, k) \in Nat /\ SumBelow(weight, k) \in Nat
  BY <1>1, SumBelowNat
<1>3. 0 \in S
  BY SumBelowIs, SMT
<1>4. ASSUME NEW k \in Nat, k \in S PROVE k + 1 \in S
  <2> SUFFICES ASSUME k + 1 <= size PROVE SumBelow(share, k + 1) * sum <= SumBelow(weight, k + 1) * mul
    OBVIOUS
  <2>1. SumBelow(share, k + 1) = SumBelow(share, k) + share[k]
    BY SumBelowIs
  <2>2. SumBelow(weight, k + 1) = SumBelow(weight, k) + weight[k]
    BY SumBelowIs
  <2>3. SumBelow(share, k) * sum <= SumBelow(weight, k) * mul
    BY <1>4
  <2>4. SumBelow(share, k) \in Nat /\ SumBelow(weight, k) \in Nat /\ weight[k] \in Nat
        /\ share[k] \in Nat /\ share[k] * sum <= weight[k] * mul
    BY <1>1, <1>2
  <2>5. (SumBelow(share, k) + share[k]) * sum = SumBelow(share, k) * sum + share[k] * sum
    BY <2>4, Distribute
  <2>6. (SumBelow(weight, k) + weight[k]) * mul = SumBelow(weight, k) * mul + weight[k] * mul
    BY <2>4, Distribute
  <2>7. /\ SumBelow(share, k) * sum \in Nat /\ share[k] * sum \in Nat
        /\ SumBelow(weight, k) * mul \in Nat /\ weight[k] * mul \in Nat
    BY <2>4, Distribute
  <2> QED BY <2>1, <2>2, <2>3, <2>4, <2>5, <2>6, <2>7
<1>5. SumBelow(share, size) * sum <= SumBelow(weight, size) * mul
  <2>1. size \in S
    BY <1>3, <1>4, Induction
  <2> QED BY <2>1
<1>6. SumBelow(weight, size) * mul <= sum * mul
  BY <1>2, Monotone
<1>7. SumBelow(share, size) <= mul
  <2> DEFINE a == SumBelow(share, size)
  <2>1. a \in Nat /\ SumBelow(weight, size) \in Nat
    BY <1>2
  <2>2. a * sum <= sum * mul
    <3>1. a * sum \in Nat /\ SumBelow(weight, size) * mul \in Nat /\ sum * mul \in Nat
      BY <2>1, Distribute
    <3> QED BY <3>1, <1>5, <1>6
  <2>3. ASSUME a > mul PROVE FALSE
    <3>1. (mul + 1) * sum <= a * sum
      BY <2>1, <2>3, Monotone
    <3>2. (mul + 1) * sum = mul * sum + 1 * sum /\ mul * sum = sum * mul /\ mul * sum \in Nat
      BY Distribute
    <3>3. a * sum \in Nat
      BY <2>1, Distribute
    <3> HIDE DEF a
    <3> QED BY <2>2, <3>1, <3>2, <3>3
  <2> QED BY <2>1, <2>3
<1> QED BY <1>1, <1>7

\* What is left goes round to the symbols in turn, and then nothing is left.
LEMMA RestGoesRound ==
  ASSUME NEW size \in Nat \ {0}, NEW total \in Nat, NEW part,
         \A i \in 0..size-1 : part[i] \in Nat,
         SumBelow(part, size) <= total,
         NEW rest, rest = total - SumBelow(part, size),
         NEW row, \A i \in 0..size-1 : row[i] = part[i] + rest \div size + (IF i < rest % size THEN 1 ELSE 0)
  PROVE  /\ \A i \in 0..size-1 : row[i] \in Nat /\ row[i] >= part[i]
         /\ SumBelow(row, size) = total
<1>1. \A k \in 0..size : SumBelow(part, k) \in Nat
  BY SumBelowNat
<1>2. rest \in Nat
  BY <1>1
<1> DEFINE q == rest \div size
           r == rest % size
           AtMost(k) == IF k < r THEN k ELSE r
<1>3. q \in Nat /\ r \in 0..size-1 /\ rest = size * q + r
  BY <1>2, DivMod
<1>4. \A i \in 0..size-1 : row[i] = part[i] + q + (IF i < r THEN 1 ELSE 0)
  OBVIOUS
<1> HIDE DEF q, r
<1> DEFINE S == {k \in Nat : k <= size => SumBelow(row, k) = SumBelow(part, k) + k * q + AtMost(k)}
<1>5. 0 \in S
  BY <1>3, SumBelowIs, SMT
<1>6. ASSUME NEW k \in Nat, k \in S PROVE k + 1 \in S
  <2> SUFFICES ASSUME k + 1 <= size
               PROVE  SumBelow(row, k + 1) = SumBelow(part, k + 1) + (k + 1) * q + AtMost(k + 1)
    OBVIOUS
  <2>1. SumBelow(row, k + 1) = SumBelow(row, k) + row[k]
    BY SumBelowIs
  <2>2. SumBelow(part, k + 1) = SumBelow(part, k) + part[k]
    BY SumBelowIs
  <2>3. SumBelow(row, k) = SumBelow(part, k) + k * q + AtMost(k)
    BY <1>6
  <2>4. (k + 1) * q = k * q + 1 * q /\ k * q \in Nat
    BY <1>3, Distribute
  <2>5. AtMost(k + 1) = AtMost(k) + (IF k < r THEN 1 ELSE 0) /\ AtMost(k) \in Nat
    BY <1>3
  <2>6. row[k] = part[k] + q + (IF k < r THEN 1 ELSE 0) /\ part[k] \in Nat
    BY <1>4
  <2> HIDE DEF AtMost
  <2> QED BY <1>1, <1>3, <2>1, <2>2, <2>3, <2>4, <2>5, <2>6
<1>7. SumBelow(row, size) = SumBelow(part, size) + size * q + AtMost(size)
  <2>1. size \in S
    BY <1>5, <1>6, Induction
  <2> QED BY <2>1
<1>8. AtMost(size) = r
  BY <1>3
<1>9. SumBelow(row, size) = total
  BY <1>1, <1>3, <1>7, <1>8
<1>10. \A i \in 0..size-1 : row[i] \in Nat /\ row[i] >= part[i]
  BY <1>3, <1>4
<1> QED BY <1>9, <1>10

\* hzrans64_create_ftable_nf makes a distribution of any frequencies: every symbol
\* has a slot and every slot a symbol.
THEOREM FtableSums ==
  ASSUME NEW size \in Nat \ {0}, NEW total \in Nat, total >= size,
         NEW freq, \A i \in 0..size-1 : freq[i] \in Nat
  PROVE  LET row == create_ftable_nf(freq, size, total)
         IN  /\ row \in [0..size-1 -> Nat \ {0}]
             /\ SumBelow(row, size) = total
<1> DEFINE mul    == total - size
           sum    == size + SumBelow(freq, size)
           weight == [k \in 0..size-1 |-> freq[k] + 1]
           share  == [k \in 0..size-1 |-> ((freq[k] + 1) * mul) \div sum]
           rest   == mul - SumBelow(share, size)
           part   == [k \in 0..size-1 |-> 1 + share[k]]
           row    == [k \in 0..size-1 |-> 1 + share[k] + rest \div size + (IF k < rest % size THEN 1 ELSE 0)]
<1>1. mul \in Nat /\ SumBelow(freq, size) \in Nat /\ sum \in Nat \ {0}
  BY SumBelowNat
<1>2. SumBelow(weight, size) = sum
  <2> DEFINE S == {k \in Nat : k <= size => SumBelow(weight, k) = k + SumBelow(freq, k)}
  <2>1. 0 \in S
    BY SumBelowIs
  <2>2. ASSUME NEW k \in Nat, k \in S PROVE k + 1 \in S
    <3>1. SumBelow(weight, k + 1) = SumBelow(weight, k) + weight[k]
      BY SumBelowIs
    <3>2. SumBelow(freq, k + 1) = SumBelow(freq, k) + freq[k]
      BY SumBelowIs
    <3>3. k \in 0..size => SumBelow(freq, k) \in Nat
      BY SumBelowNat
    <3>4. k + 1 <= size => weight[k] = freq[k] + 1 /\ freq[k] \in Nat
      OBVIOUS
    <3> HIDE DEF weight
    <3> QED BY <2>2, <3>1, <3>2, <3>3, <3>4
  <2>3. size \in S
    BY <2>1, <2>2, Induction
  <2> QED BY <2>3
<1>3. \A i \in 0..size-1 : weight[i] \in Nat /\ share[i] = (weight[i] * mul) \div sum
  OBVIOUS
<1>4. (\A i \in 0..size-1 : share[i] \in Nat) /\ SumBelow(share, size) <= mul
  <2>1. SumBelow(weight, size) <= sum
    BY <1>1, <1>2
  <2> HIDE DEF mul, sum, weight, share
  <2> QED BY <1>1, <2>1, <1>3, SharesFit
<1>6. SumBelow(part, size) = size + SumBelow(share, size)
  <2> DEFINE S == {k \in Nat : k <= size => SumBelow(part, k) = k + SumBelow(share, k)}
  <2>1. 0 \in S
    BY SumBelowIs
  <2>2. ASSUME NEW k \in Nat, k \in S PROVE k + 1 \in S
    <3>1. SumBelow(part, k + 1) = SumBelow(part, k) + part[k]
      BY SumBelowIs
    <3>2. SumBelow(share, k + 1) = SumBelow(share, k) + share[k]
      BY SumBelowIs
    <3>3. k \in 0..size => SumBelow(share, k) \in Nat
      BY <1>4, SumBelowNat
    <3>4. k + 1 <= size => part[k] = 1 + share[k] /\ share[k] \in Nat
      BY <1>4
    <3> HIDE DEF share, part
    <3> QED BY <2>2, <3>1, <3>2, <3>3, <3>4
  <2>3. size \in S
    BY <2>1, <2>2, Induction
  <2> QED BY <2>3
<1>7. \A i \in 0..size-1 : part[i] \in Nat \ {0}
  BY <1>4
<1>8. SumBelow(share, size) \in Nat
  <2>1. size \in 0..size
    OBVIOUS
  <2> HIDE DEF share
  <2> QED BY <1>4, <2>1, SumBelowNat
<1>9. SumBelow(part, size) <= total /\ rest = total - SumBelow(part, size)
  BY <1>4, <1>6, <1>8
<1>10. \A i \in 0..size-1 : row[i] = part[i] + rest \div size + (IF i < rest % size THEN 1 ELSE 0)
  OBVIOUS
<1>11. (\A i \in 0..size-1 : row[i] \in Nat /\ row[i] >= part[i]) /\ SumBelow(row, size) = total
  <2> HIDE DEF mul, sum, weight, share, rest, part, row
  <2> QED BY <1>7, <1>9, <1>10, RestGoesRound
<1>12. row \in [0..size-1 -> Nat \ {0}]
  BY <1>7, <1>11
<1>13. create_ftable_nf(freq, size, total) = row
  BY DEF create_ftable_nf
<1> HIDE DEF row
<1> QED BY <1>11, <1>12, <1>13

\* A symbol of such a table is coded with a legal slot (hzrans64_add_to_seq).
LEMMA FtableSlots ==
  ASSUME NEW size \in Nat \ {0}, Total >= size,
         NEW freq, \A i \in 0..size-1 : freq[i] \in Nat, NEW s \in 0..size-1
  PROVE  LET p == add_to_seq(create_ftable_nf(freq, size, Total), s)
         IN  /\ p \in [ls : Nat \ {0}, bs : Nat] /\ IsSlot(p.ls, p.bs)
<1> DEFINE row == create_ftable_nf(freq, size, Total)
<1>1. row \in [0..size-1 -> Nat \ {0}] /\ SumBelow(row, size) = Total
  BY HzRansAssumption, FtableSums
<1> HIDE DEF row
<1>2. SumBelow(row, s) \in Nat /\ SumBelow(row, s) + row[s] <= Total
  BY <1>1, SlotInRow
<1>3. add_to_seq(row, s) = [ls |-> row[s], bs |-> SumBelow(row, s)]
  BY DEF add_to_seq, Pair
<1>4. row[s] \in Nat \ {0}
  BY <1>1
<1> QED BY <1>2, <1>3, <1>4 DEF IsSlot, row

-----------------------------------------------------------------------------
(* Powers of two *)
\* f doubles from 1 on, up to n.
Doubles(f, n) == f = [i \in 0..n |-> IF i = 0 THEN 1 ELSE 2 * f[i - 1]]

LEMMA DoublesExists ==
  ASSUME NEW n \in Nat
  PROVE  \E f : Doubles(f, n)
<1> DEFINE S == {m \in Nat : \E f : Doubles(f, m)}
<1>1. 0 \in S
  <2>1. Doubles([i \in 0..0 |-> 1], 0)
    BY DEF Doubles
  <2> QED BY <2>1
<1>2. ASSUME NEW m \in Nat, m \in S PROVE m + 1 \in S
  <2>1. PICK f : Doubles(f, m)
    BY <1>2
  <2> DEFINE g == [i \in 0..m+1 |-> IF i = m + 1 THEN 2 * f[m] ELSE f[i]]
  <2>2. \A i \in 0..m : f[i] = IF i = 0 THEN 1 ELSE 2 * f[i - 1]
    BY <2>1 DEF Doubles
  <2>3. \A i \in 0..m+1 : g[i] = IF i = 0 THEN 1 ELSE 2 * g[i - 1]
    BY <2>2
  <2>4. Doubles(g, m + 1)
    BY <2>3 DEF Doubles
  <2> QED BY <2>4
<1> QED BY <1>1, <1>2, Induction

LEMMA DoublesUnique ==
  ASSUME NEW m \in Nat, NEW n \in Nat, NEW f, Doubles(f, m), NEW g, Doubles(g, n)
  PROVE  \A i \in Nat : i <= m /\ i <= n => f[i] = g[i]
<1> DEFINE S == {i \in Nat : i <= m /\ i <= n => f[i] = g[i]}
<1>1. \A i \in 0..m : f[i] = IF i = 0 THEN 1 ELSE 2 * f[i - 1]
  BY DEF Doubles
<1>2. \A i \in 0..n : g[i] = IF i = 0 THEN 1 ELSE 2 * g[i - 1]
  BY DEF Doubles
<1>3. 0 \in S
  BY <1>1, <1>2
<1>4. ASSUME NEW i \in Nat, i \in S PROVE i + 1 \in S
  <2> SUFFICES ASSUME i + 1 <= m, i + 1 <= n PROVE f[i + 1] = g[i + 1]
    OBVIOUS
  <2>1. f[i] = g[i]
    BY <1>4
  <2>2. f[i + 1] = 2 * f[i]
    BY <1>1
  <2>3. g[i + 1] = 2 * g[i]
    BY <1>2
  <2> QED BY <2>1, <2>2, <2>3
<1>5. Nat \subseteq S
  BY <1>3, <1>4, Induction
<1> QED BY <1>5

LEMMA Power2Steps == Power2[0] = 1 /\ \A n \in Nat : Power2[n + 1] = 2 * Power2[n]
<1> DEFINE Part(n) == CHOOSE f : Doubles(f, n)
           F == [n \in Nat |-> Part(n)[n]]
<1>1. \A n \in Nat : Doubles(Part(n), n)
  BY DoublesExists
<1> HIDE DEF Part
<1>2. F[0] = 1
  <2>1. Doubles(Part(0), 0)
    BY <1>1
  <2> QED BY <2>1 DEF Doubles
<1>3. ASSUME NEW n \in Nat PROVE F[n + 1] = 2 * F[n]
  <2>1. Doubles(Part(n + 1), n + 1) /\ Doubles(Part(n), n)
    BY <1>1
  <2>2. Part(n + 1)[n + 1] = 2 * Part(n + 1)[n]
    BY <2>1 DEF Doubles
  <2>3. Part(n + 1)[n] = Part(n)[n]
    BY <2>1, DoublesUnique
  <2> QED BY <2>2, <2>3
<1>4. ASSUME NEW n \in Nat PROVE F[n] = IF n = 0 THEN 1 ELSE 2 * F[n - 1]
  <2>1. CASE n = 0
    BY <1>2, <2>1
  <2>2. CASE n # 0
    <3>1. n - 1 \in Nat /\ (n - 1) + 1 = n
      BY <2>2
    <3>2. F[(n - 1) + 1] = 2 * F[n - 1]
      BY <1>3, <3>1
    <3> QED BY <2>2, <3>1, <3>2
  <2> QED BY <2>1, <2>2
<1>5. F = [n \in Nat |-> IF n = 0 THEN 1 ELSE 2 * F[n - 1]]
  BY <1>4
<1>6. Power2 = [n \in Nat |-> IF n = 0 THEN 1 ELSE 2 * Power2[n - 1]]
  <2> HIDE DEF F
  <2>1. \E f : f = [n \in Nat |-> IF n = 0 THEN 1 ELSE 2 * f[n - 1]]
    BY <1>5
  <2> QED BY <2>1 DEF Power2
<1>7. \A n \in Nat : Power2[n] = IF n = 0 THEN 1 ELSE 2 * Power2[n - 1]
  BY <1>6
<1> QED BY <1>7

\* Powers of two grow.
LEMMA Power2Grows ==
  /\ \A n \in Nat : Power2[n] \in Nat \ {0}
  /\ \A n \in Nat : \A k \in Nat : Power2[n] <= Power2[n + k]
<1>1. ASSUME NEW n \in Nat PROVE Power2[n] \in Nat \ {0}
  <2> DEFINE S == {m \in Nat : Power2[m] \in Nat \ {0}}
  <2>1. 0 \in S
    BY Power2Steps
  <2>2. \A m \in Nat : m \in S => m + 1 \in S
    BY Power2Steps
  <2>3. Nat \subseteq S
    BY <2>1, <2>2, Induction
  <2> QED BY <2>3
<1>2. ASSUME NEW n \in Nat, NEW k \in Nat PROVE Power2[n] <= Power2[n + k]
  <2> DEFINE S == {m \in Nat : Power2[n] <= Power2[n + m]}
  <2>1. 0 \in S
    BY <1>1
  <2>2. ASSUME NEW m \in Nat, m \in S PROVE m + 1 \in S
    <3>1. n + (m + 1) = (n + m) + 1 /\ n + m \in Nat
      OBVIOUS
    <3>2. Power2[n + (m + 1)] = 2 * Power2[n + m]
      BY <3>1, Power2Steps
    <3>3. Power2[n + m] \in Nat /\ Power2[n] \in Nat /\ Power2[n] <= Power2[n + m]
      BY <1>1, <2>2, <3>1
    <3> QED BY <3>2, <3>3
  <2>3. Nat \subseteq S
    BY <2>1, <2>2, Induction
  <2> QED BY <2>3
<1> QED BY <1>1, <1>2

-----------------------------------------------------------------------------
(* Folds *)
\* The largest of some numbers.
LEMMA MaxIs ==
  ASSUME NEW n \in Nat, NEW s \in SUBSET (1..n), s # {}
  PROVE  Max(s) \in s /\ \A y \in s : Max(s) >= y
<1> DEFINE S == {m \in Nat : \A t \in SUBSET (1..m) : t # {} => \E v \in t : \A y \in t : v >= y}
<1>1. 0 \in S
  <2>1. \A t \in SUBSET (1..0) : t = {}
    OBVIOUS
  <2> QED BY <2>1
<1>2. ASSUME NEW m \in Nat, m \in S PROVE m + 1 \in S
  <2> SUFFICES ASSUME NEW t \in SUBSET (1..m+1), t # {} PROVE \E v \in t : \A y \in t : v >= y
    OBVIOUS
  <2>1. CASE m + 1 \in t
    BY <2>1
  <2>2. CASE m + 1 \notin t
    <3>1. t \in SUBSET (1..m)
      BY <2>2
    <3> QED BY <1>2, <3>1
  <2> QED BY <2>1, <2>2
<1>3. n \in S
  BY <1>1, <1>2, Induction
<1>4. \E v \in s : \A y \in s : v >= y
  BY <1>3
<1> QED BY <1>4 DEF Max

\* it[s] is what a fold makes of base with the steps numbered by s, in order.
Iterates(it, n, base, step) ==
  it = [s \in SUBSET (1..n) |-> IF s = {} THEN base ELSE step[Max(s)][it[s \ {Max(s)}]]]

LEMMA IteratesExists ==
  ASSUME NEW n \in Nat, NEW D, NEW base \in D, NEW step \in [1..n -> [D -> D]]
  PROVE  \E it \in [SUBSET (1..n) -> D] : Iterates(it, n, base, step)
<1> DEFINE Some(m) == \E it \in [SUBSET (1..m) -> D] : Iterates(it, m, base, step)
           S == {m \in Nat : m <= n => Some(m)}
<1>1. 0 \in S
  <2>1. SUBSET (1..0) = {{}}
    OBVIOUS
  <2> DEFINE it == [s \in SUBSET (1..0) |-> base]
  <2>2. it \in [SUBSET (1..0) -> D] /\ \A s \in SUBSET (1..0) : s = {}
    BY <2>1
  <2>3. Iterates(it, 0, base, step)
    BY <2>2 DEF Iterates
  <2> QED BY <2>2, <2>3
<1>2. ASSUME NEW m \in Nat, m \in S PROVE m + 1 \in S
  <2> HIDE DEF Some
  <2> SUFFICES ASSUME m + 1 <= n PROVE Some(m + 1)
    OBVIOUS
  <2>0. Some(m)
    BY <1>2
  <2>1. PICK it \in [SUBSET (1..m) -> D] : Iterates(it, m, base, step)
    BY <2>0 DEF Some
  <2>2. \A s \in SUBSET (1..m) : it[s] = IF s = {} THEN base ELSE step[Max(s)][it[s \ {Max(s)}]]
    BY <2>1 DEF Iterates
  <2> DEFINE new == [s \in SUBSET (1..m+1) |-> IF m + 1 \in s THEN step[m + 1][it[s \ {m + 1}]] ELSE it[s]]
  <2>3. \A s \in SUBSET (1..m+1) : m + 1 \in s => Max(s) = m + 1
    <3> SUFFICES ASSUME NEW s \in SUBSET (1..m+1), m + 1 \in s PROVE Max(s) = m + 1
      OBVIOUS
    <3>1. Max(s) \in s /\ Max(s) >= m + 1
      <4>1. s # {} /\ m + 1 \in Nat
        OBVIOUS
      <4> QED BY <4>1, MaxIs
    <3>2. Max(s) \in 1..m+1
      BY <3>1
    <3> QED BY <3>1, <3>2
  <2>4. \A s \in SUBSET (1..m+1) : s \ {m + 1} \in SUBSET (1..m) /\ (m + 1 \notin s => s \in SUBSET (1..m))
    OBVIOUS
  <2>5. new \in [SUBSET (1..m+1) -> D]
    <3> SUFFICES ASSUME NEW s \in SUBSET (1..m+1) PROVE new[s] \in D
      OBVIOUS
    <3>1. step[m + 1] \in [D -> D]
      OBVIOUS
    <3> QED BY <2>4, <3>1
  <2>6. ASSUME NEW s \in SUBSET (1..m+1)
        PROVE  new[s] = IF s = {} THEN base ELSE step[Max(s)][new[s \ {Max(s)}]]
    <3>1. CASE m + 1 \in s
      <4>1. new[s \ {m + 1}] = it[s \ {m + 1}]
        BY <2>4
      <4> QED BY <2>3, <3>1, <4>1
    <3>2. CASE m + 1 \notin s
      <4>1. s \in SUBSET (1..m) /\ new[s] = it[s]
        BY <2>4, <3>2
      <4>2. s # {} => new[s \ {Max(s)}] = it[s \ {Max(s)}]
        BY <3>2, <4>1
      <4> QED BY <2>2, <4>1, <4>2
    <3> QED BY <3>1, <3>2
  <2>7. Iterates(new, m + 1, base, step)
    BY <2>6 DEF Iterates
  <2> QED BY <2>5, <2>7 DEF Some
<1>3. Some(n)
  <2> HIDE DEF Some
  <2>1. n \in S
    BY <1>1, <1>2, Induction
  <2> QED BY <2>1
<1> QED BY <1>3

\* The largest of 1..k+1 is taken off last.
LEMMA LastOfInterval ==
  ASSUME NEW n \in Nat, NEW k \in 0..n-1
  PROVE  /\ 1..k+1 \in SUBSET (1..n) /\ 1..k+1 # {} /\ Max(1..k+1) = k + 1
         /\ (1..k+1) \ {k + 1} = 1..k /\ 1..k \in SUBSET (1..n)
<1>1. 1..k+1 \in SUBSET (1..n) /\ 1..k+1 # {} /\ k + 1 \in 1..k+1 /\ (1..k+1) \ {k + 1} = 1..k
      /\ 1..k \in SUBSET (1..n)
  OBVIOUS
<1>2. Max(1..k+1) \in 1..k+1 /\ Max(1..k+1) >= k + 1
  BY <1>1, MaxIs
<1> QED BY <1>1, <1>2


\* A function from 1..m is a sequence.
LEMMA IsSequence ==
  ASSUME NEW S, NEW m \in Nat, NEW f \in [1..m -> S]
  PROVE  f \in Seq(S) /\ Len(f) = m
<1>1. f \in Seq(S)
  BY SeqDef
<1>2. DOMAIN f = 1..Len(f) /\ Len(f) \in Nat
  BY <1>1, LenProperties
<1> QED BY <1>1, <1>2

-----------------------------------------------------------------------------
(* The stack of words *)
WordValues == 0..Base-1

\* Every buffer below the last one is full, and the last one has index words.
StackHolds(s) ==
  /\ s \in [index : Nat, bufs : Seq(Seq(WordValues))]
  /\ IF s.bufs = <<>> THEN s.index \in {0, BufSize}
     ELSE /\ s.index \in 1..BufSize
          /\ \A b \in 1..Len(s.bufs) :
               Len(s.bufs[b]) >= IF b < Len(s.bufs) THEN BufSize ELSE s.index

Holding(s) == (Len(s.bufs) - 1) * BufSize + s.index

WordAt(s, m) == s.bufs[m \div BufSize + 1][(m % BufSize) + 1]

\* WordValues are numbered from the bottom of the stack.
LEMMA PoppedIs ==
  ASSUME NEW s, StackHolds(s)
  PROVE  /\ Popped(s) \in Seq(WordValues)
         /\ s.bufs = <<>> => Popped(s) = <<>>
         /\ s.bufs # <<>> => /\ Holding(s) \in Nat \ {0} /\ Len(Popped(s)) = Holding(s)
                             /\ \A k \in 1..Holding(s) : Popped(s)[k] = WordAt(s, Holding(s) - k)
                             /\ \A m \in 0..Holding(s)-1 :
                                  /\ m \div BufSize \in 0..Len(s.bufs)-1 /\ m % BufSize \in 0..BufSize-1
                                  /\ m = (m \div BufSize) * BufSize + (m % BufSize)
                                  /\ m \div BufSize = Len(s.bufs) - 1 => m % BufSize < s.index
<1> DEFINE B == BufSize
           L == Len(s.bufs)
           n == Holding(s)
<1>1. B \in Nat \ {0} /\ s.bufs \in Seq(Seq(WordValues)) /\ L \in Nat /\ s.index \in Nat
  BY HzRansAssumption DEF StackHolds
<1>2. Popped(s) = [k \in 1..n |-> WordAt(s, n - k)]
  BY DEF Popped, Holding, WordAt
<1>3. CASE s.bufs = <<>>
  <2>1. L = 0
    BY <1>1, <1>3
  <2>2. n = s.index - B
    BY <1>1, <2>1 DEF Holding
  <2>3. s.index <= B
    BY <1>1, <1>3 DEF StackHolds
  <2>4. 1..n = {}
    <3> HIDE DEF n
    <3> QED BY <1>1, <2>2, <2>3
  <2>5. Popped(s) = <<>>
    BY <1>2, <2>4
  <2> QED BY <1>3, <2>5
<1>4. CASE s.bufs # <<>>
  <2>1. L \in Nat \ {0} /\ s.index \in 1..B
    BY <1>1, <1>4 DEF StackHolds
  <2> DEFINE low == (L - 1) * B
  <2>2. low \in Nat /\ n = low + s.index /\ L * B = low + B
    <3>1. L - 1 \in Nat /\ L = (L - 1) + 1 /\ 1 * B = B
      BY <1>1, <2>1
    <3> DEFINE l == L - 1
    <3>2. l \in Nat /\ L = l + 1
      BY <3>1
    <3> HIDE DEF l
    <3>3. (l + 1) * B = l * B + 1 * B /\ l * B \in Nat
      BY <1>1, <3>2, Distribute
    <3>4. L * B = l * B + B /\ l * B \in Nat
      BY <3>1, <3>2, <3>3
    <3> QED BY <3>4 DEF l, Holding
  <2> HIDE DEF low
  <2>3. n \in Nat \ {0} /\ n <= L * B
    BY <1>1, <2>1, <2>2
  <2>4. ASSUME NEW m \in 0..n-1
        PROVE  /\ m \div B \in 0..L-1 /\ m % B \in 0..B-1 /\ m = (m \div B) * B + (m % B)
               /\ m \div B = L - 1 => m % B < s.index
    <3>1. m \in Nat
      BY <2>3
    <3> DEFINE q == m \div B
               r == m % B
    <3>2. q \in Nat /\ r \in 0..B-1 /\ q * B \in Nat /\ m = q * B + r
      BY <1>1, <3>1, Division
    <3> HIDE DEF q, r
    <3>3. q < L
      <4> SUFFICES ASSUME L <= q PROVE FALSE
        BY <2>1, <3>2
      <4>1. L * B <= q * B
        BY <1>1, <3>2, Monotone
      <4> QED BY <2>2, <2>3, <3>2, <4>1, <1>1
    <3>4. ASSUME q = L - 1 PROVE r < s.index
      <4>1. q * B = low
        BY <3>4 DEF low
      <4> QED BY <2>1, <2>2, <3>2, <4>1
    <3> QED BY <2>1, <3>2, <3>3, <3>4 DEF q, r
  <2>5. ASSUME NEW m \in 0..n-1 PROVE WordAt(s, m) \in WordValues
    <3> DEFINE b == m \div B + 1
               o == (m % B) + 1
    <3>1. b \in 1..L /\ o \in 1..B /\ (b = L => o <= s.index)
      <4>1. m \div B \in 0..L-1 /\ m % B \in 0..B-1 /\ (m \div B = L - 1 => m % B < s.index)
        BY <2>4
      <4> DEFINE q == m \div B
                 r == m % B
      <4>2. q \in 0..L-1 /\ r \in 0..B-1 /\ (q = L - 1 => r < s.index) /\ b = q + 1 /\ o = r + 1
        BY <4>1
      <4> HIDE DEF q, r, b, o
      <4> QED BY <1>1, <2>1, <4>2
    <3> HIDE DEF b, o
    <3>2. Len(s.bufs[b]) >= IF b < L THEN B ELSE s.index
      BY <1>4, <3>1 DEF StackHolds
    <3>3. s.bufs[b] \in Seq(WordValues)
      BY <1>1, <3>1
    <3>4. o \in 1..Len(s.bufs[b])
      <4>1. Len(s.bufs[b]) \in Nat
        BY <3>3
      <4> QED BY <1>1, <2>1, <3>1, <3>2, <4>1
    <3>5. s.bufs[b][o] \in WordValues
      BY <3>3, <3>4
    <3> QED BY <3>5 DEF WordAt, b, o
  <2> HIDE DEF n
  <2>6. \A k \in 1..n : n - k \in 0..n-1
    BY <2>3
  <2>7. Popped(s) \in [1..n -> WordValues]
    BY <1>2, <2>5, <2>6
  <2>8. Popped(s) \in Seq(WordValues) /\ Len(Popped(s)) = n
    BY <2>3, <2>7, IsSequence
  <2> QED BY <1>2, <1>4, <2>3, <2>4, <2>8 DEF n
<1> QED BY <1>3, <1>4

\* push puts a word on top.
LEMMA PushedOnTop ==
  ASSUME NEW s, StackHolds(s), s.bufs # <<>> \/ s.index = 0, NEW w \in WordValues
  PROVE  /\ StackHolds(push(s, w)) /\ push(s, w).bufs # <<>>
         /\ Popped(push(s, w)) = <<w>> \o Popped(s)
<1> DEFINE B == BufSize
           L == Len(s.bufs)
           t == push(s, w)
<1>1. B \in Nat \ {0} /\ s.bufs \in Seq(Seq(WordValues)) /\ L \in Nat /\ s.index \in Nat /\ s.index <= B
  BY HzRansAssumption DEF StackHolds
<1>2. CASE s.bufs = <<>>
  <2>1. s.index = 0 /\ t = [index |-> 1, bufs |-> <<<<w>>>>]
    <3>1. s.index = 0 /\ s.index < B
      BY <1>1, <1>2
    <3> DEFINE one == <<<<>>>>
    <3>2. /\ Len(one) = 1 /\ one[1] = <<>>
          /\ [one EXCEPT ![1] = Append(SubSeq(one[1], 1, 0), w)] = <<Append(SubSeq(one[1], 1, 0), w)>>
      OBVIOUS
    <3>3. SubSeq(one[1], 1, 0) = <<>>
      <4>1. <<>> \in Seq(WordValues)
        OBVIOUS
      <4> QED BY <3>2, <4>1, SubSeqProperties
    <3>4. Append(<<>>, w) = <<w>>
      OBVIOUS
    <3> QED BY <1>2, <3>1, <3>2, <3>3, <3>4 DEF push
  <2> DEFINE u == [index |-> 1, bufs |-> <<<<w>>>>]
  <2>2. /\ u.index = 1 /\ u.bufs = <<<<w>>>> /\ Len(u.bufs) = 1 /\ u.bufs # <<>> /\ u.bufs[1] = <<w>>
        /\ u.bufs \in Seq(Seq(WordValues)) /\ Len(u.bufs[1]) = 1 /\ u.bufs[1][1] = w
    OBVIOUS
  <2>3. StackHolds(u)
    <3>1. u \in [index : Nat, bufs : Seq(Seq(WordValues))]
      BY <2>2
    <3> HIDE DEF u
    <3>2. ASSUME NEW b \in 1..Len(u.bufs)
          PROVE  Len(u.bufs[b]) >= IF b < Len(u.bufs) THEN B ELSE u.index
      <4>1. b = 1 /\ Len(u.bufs) = 1 /\ ~(1 < 1) /\ 1 >= 1
        BY <2>2
      <4>2. Len(u.bufs[b]) = 1 /\ u.index = 1 /\ ~(b < Len(u.bufs))
        BY <2>2, <4>1
      <4> QED BY <4>1, <4>2
    <3> QED BY <1>1, <2>2, <3>1, <3>2 DEF StackHolds
  <2>4. Holding(u) = 1
    <3>1. (1 - 1) * B + 1 = 1
      BY <1>1
    <3> HIDE DEF u
    <3> QED BY <2>2, <3>1 DEF Holding
  <2> HIDE DEF u
  <2>5. Popped(u) \in Seq(WordValues) /\ Len(Popped(u)) = 1 /\ Popped(u)[1] = WordAt(u, 0)
    <3>1. /\ Popped(u) \in Seq(WordValues) /\ Len(Popped(u)) = Holding(u)
          /\ \A k \in 1..Holding(u) : Popped(u)[k] = WordAt(u, Holding(u) - k)
      BY <2>2, <2>3, PoppedIs
    <3> QED BY <2>4, <3>1
  <2>6. WordAt(u, 0) = w
    <3>1. 0 \div B = 0 /\ 0 % B = 0
      BY <1>1, SMT
    <3>2. 0 \div B + 1 = 1 /\ (0 % B) + 1 = 1
      BY <3>1
    <3> QED BY <2>2, <3>2 DEF WordAt
  <2>7. Popped(u) = <<w>> /\ Popped(s) = <<>>
    BY <1>2, <2>5, <2>6, PoppedIs
  <2>8. <<w>> \o <<>> = <<w>>
    OBVIOUS
  <2> QED BY <2>1, <2>2, <2>3, <2>7, <2>8 DEF u
<1>3. CASE s.bufs # <<>>
  <2>1. /\ s.index \in 1..B /\ L \in Nat \ {0}
        /\ \A b \in 1..L : s.bufs[b] \in Seq(WordValues)
        /\ \A b \in 1..L : Len(s.bufs[b]) >= IF b < L THEN B ELSE s.index
    BY <1>1, <1>3 DEF StackHolds
  <2> DEFINE n == Holding(s)
  <2>2. /\ n \in Nat \ {0} /\ Popped(s) \in Seq(WordValues) /\ Len(Popped(s)) = n
        /\ \A k \in 1..n : Popped(s)[k] = WordAt(s, n - k)
    BY <1>3, PoppedIs
  <2>3. ASSUME NEW m \in 0..n-1
        PROVE  /\ m \div B \in 0..L-1 /\ m % B \in 0..B-1
               /\ m \div B = L - 1 => m % B < s.index
    BY <1>3, PoppedIs
  \* It is enough that the new stack has one word more, and the others as before.
  <2>4. ASSUME StackHolds(t), t.bufs # <<>>, Holding(t) = n + 1, WordAt(t, n) = w,
               \A m \in 0..n-1 : WordAt(t, m) = WordAt(s, m)
        PROVE  Popped(t) = <<w>> \o Popped(s)
    <3> HIDE DEF t, n
    <3>1. /\ Popped(t) \in Seq(WordValues) /\ Len(Popped(t)) = n + 1
          /\ \A k \in 1..n+1 : Popped(t)[k] = WordAt(t, n + 1 - k)
      <4> DEFINE h == Holding(t)
      <4>1. StackHolds(t) /\ t.bufs # <<>> /\ h = n + 1
        BY <2>4
      <4>2. Popped(t) \in Seq(WordValues) /\ Len(Popped(t)) = h
        BY <4>1, PoppedIs
      <4>3. \A k \in 1..h : Popped(t)[k] = WordAt(t, h - k)
        BY <4>1, PoppedIs
      <4>4. Len(Popped(t)) = n + 1 /\ \A k \in 1..n+1 : Popped(t)[k] = WordAt(t, n + 1 - k)
        <5> HIDE DEF h
        <5>1. h = n + 1
          BY <4>1
        <5>2. Len(Popped(t)) = n + 1
          BY <4>2, <5>1
        <5>3. ASSUME NEW k \in 1..n+1 PROVE Popped(t)[k] = WordAt(t, n + 1 - k)
          <6>1. k \in 1..h
            BY <5>1
          <6>2. Popped(t)[k] = WordAt(t, h - k)
            BY <4>3, <6>1
          <6>3. h - k = n + 1 - k
            BY <2>2, <5>1
          <6> QED BY <6>2, <6>3
        <5> QED BY <5>2, <5>3
      <4> QED BY <4>2, <4>4
    <3> DEFINE both == <<w>> \o Popped(s)
    <3>2. both \in Seq(WordValues) /\ Len(both) = n + 1
          /\ \A k \in 1..n+1 : both[k] = IF k = 1 THEN w ELSE Popped(s)[k - 1]
      <4>1. <<w>> \in Seq(WordValues) /\ Len(<<w>>) = 1 /\ <<w>>[1] = w
        OBVIOUS
      <4> QED BY <2>2, <4>1, ConcatProperties
    <3> HIDE DEF both
    <3>3. ASSUME NEW k \in 1..n+1 PROVE Popped(t)[k] = both[k]
      <4>1. CASE k = 1
        <5>1. n + 1 - k = n
          BY <2>2, <4>1
        <5> QED BY <2>4, <3>1, <3>2, <4>1, <5>1
      <4>2. CASE k # 1
        <5>1. k - 1 \in 1..n /\ n + 1 - k \in 0..n-1 /\ n - (k - 1) = n + 1 - k
          BY <2>2, <4>2
        <5>2. Popped(s)[k - 1] = WordAt(s, n + 1 - k)
          BY <2>2, <5>1
        <5> QED BY <2>4, <3>1, <3>2, <4>2, <5>1, <5>2
      <4> QED BY <4>1, <4>2
    <3>4. Popped(t) = both
      BY <3>1, <3>2, <3>3, SeqEqual
    <3> QED BY <3>4 DEF both
  <2>5. CASE s.index < B
    <3> DEFINE last == Append(SubSeq(s.bufs[L], 1, s.index), w)
    <3>1. t = [index |-> s.index + 1, bufs |-> [s.bufs EXCEPT ![L] = last]]
      BY <1>3, <2>5 DEF push
    <3>2. /\ last \in Seq(WordValues) /\ Len(last) = s.index + 1 /\ last[s.index + 1] = w
          /\ \A o \in 1..s.index : last[o] = s.bufs[L][o]
      <4> DEFINE buf == s.bufs[L]
                 i == s.index
                 front == SubSeq(buf, 1, i)
      <4>1. buf \in Seq(WordValues) /\ i \in 1..Len(buf)
        <5>1. L \in 1..L /\ ~(L < L)
          BY <2>1
        <5>2. buf \in Seq(WordValues) /\ Len(buf) >= i
          BY <2>1, <5>1
        <5> QED BY <2>1, <5>2
      <4> HIDE DEF buf, i
      <4>2. front \in Seq(WordValues) /\ Len(front) = i /\ \A o \in 1..i : front[o] = buf[o]
        <5>1. \A o \in 1..i : buf[o] \in WordValues
          BY <4>1
        <5> QED BY <4>1, <5>1, SubSeqProperties
      <4> HIDE DEF front
      <4>3. /\ Append(front, w) \in Seq(WordValues) /\ Len(Append(front, w)) = i + 1
            /\ Append(front, w)[i + 1] = w
            /\ \A o \in 1..i : Append(front, w)[o] = front[o]
        BY <4>1, <4>2, AppendProperties
      <4> QED BY <4>2, <4>3 DEF front, buf, i
    <3> HIDE DEF last
    <3>3. /\ t.index = s.index + 1 /\ t.bufs = [s.bufs EXCEPT ![L] = last]
      BY <3>1
    <3>4. t.bufs \in Seq(Seq(WordValues)) /\ Len(t.bufs) = L /\ t.bufs # <<>>
          /\ \A b \in 1..L : t.bufs[b] = IF b = L THEN last ELSE s.bufs[b]
      <4> HIDE DEF t
      <4>1. s.bufs \in [1..L -> Seq(WordValues)]
        BY <1>1
      <4>2. t.bufs \in [1..L -> Seq(WordValues)]
        BY <3>2, <3>3, <4>1
      <4>3. t.bufs \in Seq(Seq(WordValues)) /\ Len(t.bufs) = L
        BY <1>1, <4>2, IsSequence
      <4> QED BY <2>1, <3>3, <4>1, <4>3
    <3>5. StackHolds(t)
      <4>1. t \in [index : Nat, bufs : Seq(Seq(WordValues))]
        BY <1>1, <3>1, <3>3, <3>4
      <4> HIDE DEF t
      <4> QED BY <1>1, <2>1, <2>5, <3>2, <3>3, <3>4, <4>1 DEF StackHolds
    <3>6. Holding(t) = n + 1
      <4> DEFINE low == (L - 1) * B
      <4>1. low \in Int
        BY <1>1
      <4>2. n = low + s.index /\ Holding(t) = low + (s.index + 1)
        BY <3>3, <3>4 DEF Holding
      <4> HIDE DEF low
      <4> QED BY <1>1, <4>1, <4>2
    <3>7. WordAt(t, n) = w
      <4>1. n \div B = L - 1 /\ n % B = s.index
        <5> DEFINE l == L - 1
        <5>1. l \in Nat /\ s.index \in 0..B-1 /\ n = l * B + s.index
          BY <1>1, <2>1, <2>5 DEF Holding
        <5> HIDE DEF l, n
        <5>2. n \div B = l /\ n % B = s.index
          BY <1>1, <5>1, DivModUnique
        <5> QED BY <5>2 DEF l
      <4>2. n \div B + 1 = L
        BY <1>1, <4>1
      <4>3. (n % B) + 1 = s.index + 1 /\ L \in 1..L
        BY <2>1, <4>1
      <4> HIDE DEF t, n
      <4>4. t.bufs[L][s.index + 1] = w
        BY <3>2, <3>4, <4>3
      <4> QED BY <4>2, <4>3, <4>4 DEF WordAt
    <3>8. ASSUME NEW m \in 0..n-1 PROVE WordAt(t, m) = WordAt(s, m)
      <4> DEFINE q == m \div B
                 r == m % B
      <4>1. q \in 0..L-1 /\ r \in 0..B-1 /\ (q = L - 1 => r < s.index)
        BY <2>3
      <4> HIDE DEF q, r, t
      <4>2. q + 1 \in 1..L /\ r + 1 \in Nat /\ (q + 1 = L => r + 1 \in 1..s.index)
        BY <1>1, <4>1
      <4>3. t.bufs[q + 1][r + 1] = s.bufs[q + 1][r + 1]
        BY <3>2, <3>4, <4>2
      <4> QED BY <4>3 DEF WordAt, q, r
    <3> QED BY <2>4, <3>4, <3>5, <3>6, <3>7, <3>8
  <2>6. CASE s.index = B
    <3>1. t = [index |-> 1, bufs |-> Append(s.bufs, <<w>>)]
      BY <1>1, <1>3, <2>6 DEF push
    <3>2. t.index = 1 /\ t.bufs = Append(s.bufs, <<w>>)
      BY <3>1
    <3>3. /\ t.bufs \in Seq(Seq(WordValues)) /\ Len(t.bufs) = L + 1 /\ t.bufs # <<>>
          /\ t.bufs[L + 1] = <<w>> /\ \A b \in 1..L : t.bufs[b] = s.bufs[b]
      <4>1. <<w>> \in Seq(WordValues)
        OBVIOUS
      <4> HIDE DEF t
      <4>2. /\ t.bufs \in Seq(Seq(WordValues)) /\ Len(t.bufs) = L + 1
            /\ t.bufs[L + 1] = <<w>> /\ \A b \in 1..L : t.bufs[b] = s.bufs[b]
        BY <1>1, <3>2, <4>1, AppendProperties
      <4> QED BY <1>1, <4>2
    <3>4. StackHolds(t)
      <4>1. t \in [index : Nat, bufs : Seq(Seq(WordValues))]
        BY <3>1, <3>2, <3>3
      <4>2. Len(<<w>>) = 1
        OBVIOUS
      <4> HIDE DEF t
      <4>3. \A b \in 1..L+1 : Len(t.bufs[b]) >= IF b < L + 1 THEN B ELSE 1
        <5> SUFFICES ASSUME NEW b \in 1..L+1 PROVE Len(t.bufs[b]) >= IF b < L + 1 THEN B ELSE 1
          OBVIOUS
        <5>1. CASE b = L + 1
          <6>1. t.bufs[b] = <<w>>
            BY <3>3, <5>1
          <6>2. Len(t.bufs[b]) = 1
            BY <4>2, <6>1
          <6> HIDE DEF L
          <6>3. ~(b < L + 1) /\ 1 >= 1
            BY <1>1, <5>1
          <6> QED BY <6>2, <6>3
        <5>2. CASE b # L + 1
          <6>1. b \in 1..L /\ b < L + 1
            BY <1>1, <5>2
          <6>2. Len(s.bufs[b]) >= IF b < L THEN B ELSE s.index
            BY <2>1, <6>1
          <6>3. Len(s.bufs[b]) >= B
            BY <2>6, <6>2
          <6> QED BY <3>3, <6>1, <6>3
        <5> QED BY <5>1, <5>2
      <4> QED BY <1>1, <3>2, <3>3, <4>1, <4>3 DEF StackHolds
    <3>5. n = L * B /\ Holding(t) = n + 1
      <4> DEFINE l == L - 1
      <4>1. l \in Nat /\ L = l + 1 /\ (L + 1) - 1 = L /\ 1 * B = B
        BY <1>1, <2>1
      <4>2. n = l * B + B
        BY <2>6 DEF Holding
      <4>3. Holding(t) = L * B + 1
        BY <3>2, <3>3, <4>1 DEF Holding
      <4> HIDE DEF l, n, t
      <4>4. (l + 1) * B = l * B + 1 * B
        BY <1>1, <4>1, Distribute
      <4> QED BY <4>1, <4>2, <4>3, <4>4
    <3>6. WordAt(t, n) = w
      <4>1. n = L * B + 0 /\ 0 \in 0..B-1
        BY <1>1, <2>2, <3>5
      <4> HIDE DEF n
      <4>2. n \div B = L /\ n % B = 0
        BY <1>1, <4>1, DivModUnique
      <4>3. (n % B) + 1 = 1 /\ <<w>>[1] = w
        BY <4>2
      <4> HIDE DEF t
      <4> QED BY <3>3, <4>2, <4>3 DEF WordAt
    <3>7. ASSUME NEW m \in 0..n-1 PROVE WordAt(t, m) = WordAt(s, m)
      <4> DEFINE q == m \div B
      <4>1. q \in 0..L-1
        BY <2>3
      <4> HIDE DEF q, t
      <4>2. q + 1 \in 1..L
        BY <1>1, <4>1
      <4> QED BY <3>3, <4>2 DEF WordAt, q
    <3> QED BY <2>4, <3>3, <3>4, <3>5, <3>6, <3>7
  <2> QED BY <1>1, <2>5, <2>6
<1> QED BY <1>2, <1>3


-----------------------------------------------------------------------------
(* What the decoder undoes *)
\* A residue is not changed by a multiple of the modulus.
LEMMA ResidueShift ==
  ASSUME NEW M \in Nat \ {0}, NEW r \in 0..M-1
  PROVE  r % M = r /\ (r + M) % M = r /\ (r - M) % M = r
BY SMT

\* The difference of two residues, taken back.
LEMMA DifferenceUndone ==
  ASSUME NEW depth, Power2[depth] \in Nat \ {0},
         NEW t \in 0..Power2[depth]-1, NEW d \in 0..Power2[depth]-1
  PROVE  Masked(Difference(t, d, depth) + d, depth) = t
<1> DEFINE M == Power2[depth]
<1>1. t % M = t /\ (t + M) % M = t
  BY ResidueShift
<1>2. Difference(t, d, depth) + d \in {t, t + M}
  BY DEF Difference
<1> QED BY <1>1, <1>2 DEF Masked

\* The lift and its inverse, of residues.
LEMMA LiftUndone ==
  ASSUME NEW depth, Power2[depth] \in Nat \ {0},
         NEW a \in 0..Power2[depth]-1, NEW b \in 0..Power2[depth]-1
  PROVE  reverse_lift(forward_lift(<<a, b>>, depth), depth) = <<a, b>>
<1> DEFINE M == Power2[depth]
           diff == (b - a) % M
           half == diff \div 2
           low  == (a + half) % M
<1>1. a % M = a /\ b % M = b /\ M \in Nat \ {0}
  BY ResidueShift
<1>2. diff \in 0..M-1 /\ diff \in {b - a, b - a + M}
  <2>1. CASE b >= a
    <3>1. b - a \in 0..M-1
      BY <2>1
    <3>2. (b - a) % M = b - a
      BY <1>1, <3>1, ResidueShift
    <3> QED BY <3>1, <3>2
  <2>2. CASE b < a
    <3> DEFINE r == b - a + M
    <3>1. r \in 0..M-1 /\ r - M = b - a
      BY <1>1, <2>2
    <3> HIDE DEF r
    <3>2. (r - M) % M = r
      BY <1>1, <3>1, ResidueShift
    <3> QED BY <3>1, <3>2 DEF r
  <2> QED BY <1>1, <2>1, <2>2
<1>3. half \in 0..M-1
  <2>1. \A n \in 0..M-1 : n \div 2 \in 0..M-1
    BY <1>1, SMT
  <2> QED BY <1>2, <2>1
<1> HIDE DEF half, diff
<1>4. low \in 0..M-1 /\ low \in {a + half, a + half - M}
  <2>1. CASE a + half < M
    <3>1. a + half \in 0..M-1
      BY <1>3, <2>1
    <3>2. (a + half) % M = a + half
      BY <1>1, <3>1, ResidueShift
    <3> QED BY <3>1, <3>2
  <2>2. CASE a + half >= M
    <3> DEFINE r == a + half - M
    <3>1. r \in 0..M-1 /\ r + M = a + half
      BY <1>1, <1>3, <2>2
    <3> HIDE DEF r
    <3>2. (r + M) % M = r
      BY <1>1, <3>1, ResidueShift
    <3> QED BY <3>1, <3>2 DEF r
  <2> QED BY <1>1, <1>3, <2>1, <2>2
<1> HIDE DEF low
<1>5. low % M = low /\ diff % M = diff
  BY <1>1, <1>2, <1>4, ResidueShift
<1>6. (low - half) % M = a
  <2>1. low - half \in {a, a - M}
    BY <1>1, <1>3, <1>4
  <2>2. (a - M) % M = a
    BY <1>1, ResidueShift
  <2> QED BY <1>1, <2>1, <2>2
<1>7. (a + diff) % M = b
  <2>1. a + (b - a) = b /\ a + (b - a + M) = b + M
    BY <1>1
  <2>2. a + diff \in {b, b + M}
    BY <1>2, <2>1
  <2>3. (b + M) % M = b
    BY <1>1, ResidueShift
  <2> QED BY <1>1, <2>2, <2>3
<1>8. forward_lift(<<a, b>>, depth) = <<low, diff>>
  <2>1. /\ Masked(a, depth) = a /\ Masked(b, depth) = b /\ Masked(b - a, depth) = diff
        /\ Masked(diff, depth) = diff /\ Masked(a + half, depth) = low
    BY <1>1, <1>5 DEF Masked, diff, low
  <2> QED BY <2>1 DEF forward_lift, half
<1>9. reverse_lift(<<low, diff>>, depth) = <<a, b>>
  <2>1. /\ Masked(diff, depth) = diff /\ Masked(low, depth) = low /\ Masked(low - half, depth) = a
        /\ Masked(a + diff, depth) = b
    BY <1>5, <1>6, <1>7 DEF Masked
  <2> QED BY <2>1 DEF reverse_lift, half
<1> QED BY <1>8, <1>9

\* Rows of one value.
LEMMA SumOfEquals ==
  ASSUME NEW n \in Nat, NEW q \in Nat, NEW row, \A i \in 0..n-1 : row[i] = q
  PROVE  \A k \in 0..n : SumBelow(row, k) = k * q
<1> DEFINE S == {k \in Nat : k <= n => SumBelow(row, k) = k * q}
<1>1. 0 \in S
  <2>1. 0 * q = 0
    OBVIOUS
  <2> QED BY <2>1, SumBelowIs
<1>2. ASSUME NEW k \in Nat, k \in S PROVE k + 1 \in S
  <2>1. SumBelow(row, k + 1) = SumBelow(row, k) + row[k]
    BY SumBelowIs
  <2>2. (k + 1) * q = k * q + 1 * q /\ 1 * q = q
    BY Distribute
  <2> QED BY <1>2, <2>1, <2>2
<1>3. Nat \subseteq S
  BY <1>1, <1>2, Induction
<1> QED BY <1>3

\* Nothing is added where a row is zero.
LEMMA SumOverGap ==
  ASSUME NEW row, NEW a \in Nat, NEW b \in Nat, a <= b, SumBelow(row, a) \in Int,
         \A j \in a..b-1 : row[j] = 0
  PROVE  SumBelow(row, b) = SumBelow(row, a)
<1> DEFINE S == {k \in Nat : a + k <= b => SumBelow(row, a + k) = SumBelow(row, a)}
<1>1. 0 \in S
  <2>1. a + 0 = a
    OBVIOUS
  <2> QED BY <2>1
<1>2. ASSUME NEW k \in Nat, k \in S PROVE k + 1 \in S
  <2> SUFFICES ASSUME a + (k + 1) <= b PROVE SumBelow(row, a + (k + 1)) = SumBelow(row, a)
    OBVIOUS
  <2>1. a + (k + 1) = (a + k) + 1 /\ a + k \in Nat /\ a + k \in a..b-1 /\ a + k <= b
    OBVIOUS
  <2>2. SumBelow(row, (a + k) + 1) = SumBelow(row, a + k) + row[a + k]
    BY <2>1, SumBelowIs
  <2>3. row[a + k] = 0 /\ SumBelow(row, a + k) = SumBelow(row, a)
    BY <1>2, <2>1
  <2> QED BY <2>1, <2>2, <2>3
<1>3. Nat \subseteq S
  BY <1>1, <1>2, Induction
<1>4. b - a \in Nat /\ a + (b - a) = b
  OBVIOUS
<1> QED BY <1>3, <1>4

\* A slot below the sum of a row has one owner, and inv_bs finds it.
LEMMA SlotOwner ==
  ASSUME NEW n \in Nat \ {0}, NEW row \in [0..n-1 -> Nat], NEW v \in Nat
  PROVE  /\ v < SumBelow(row, n) => /\ inv_bs(row, n, v) \in 0..n-1
                                    /\ SumBelow(row, inv_bs(row, n, v)) <= v
                                    /\ v < SumBelow(row, inv_bs(row, n, v) + 1)
         /\ \A s \in 0..n-1 : SumBelow(row, s) <= v /\ v < SumBelow(row, s) + row[s] => inv_bs(row, n, v) = s
<1> DEFINE Owns(s) == SumBelow(row, s) <= v /\ v < SumBelow(row, s + 1)
<1>1. /\ \A k \in 0..n : SumBelow(row, k) \in Nat
      /\ \A k \in 0..n : \A j \in 0..k : SumBelow(row, j) <= SumBelow(row, k)
  <2>1. \A i \in 0..n-1 : row[i] \in Nat
    OBVIOUS
  <2> QED BY <2>1, SumBelowNat
<1>2. ASSUME v < SumBelow(row, n) PROVE \E s \in 0..n-1 : Owns(s)
  <2> DEFINE S == {k \in Nat : k <= n /\ v < SumBelow(row, k) => \E s \in 0..n-1 : Owns(s)}
  <2>1. 0 \in S
    <3>1. SumBelow(row, 0) = 0
      BY SumBelowIs
    <3> QED BY <3>1
  <2>2. ASSUME NEW k \in Nat, k \in S PROVE k + 1 \in S
    <3> SUFFICES ASSUME k + 1 <= n, v < SumBelow(row, k + 1) PROVE \E s \in 0..n-1 : Owns(s)
      OBVIOUS
    <3>1. CASE v < SumBelow(row, k)
      BY <2>2, <3>1
    <3>2. CASE ~(v < SumBelow(row, k))
      <4>1. k \in 0..n-1 /\ SumBelow(row, k) <= v
        BY <1>1, <3>2
      <4> QED BY <4>1
    <3> QED BY <3>1, <3>2
  <2>3. Nat \subseteq S
    BY <2>1, <2>2, Induction
  <2> QED BY <1>2, <2>3
<1>3. ASSUME NEW s \in 0..n-1, NEW t \in 0..n-1, Owns(s), Owns(t) PROVE s = t
  <2>1. ASSUME NEW p \in 0..n-1, NEW q \in 0..n-1, Owns(p), Owns(q), p < q PROVE FALSE
    <3>1. p + 1 \in 0..q /\ q \in 0..n
      BY <2>1
    <3>2. SumBelow(row, p + 1) <= SumBelow(row, q)
      BY <1>1, <3>1
    <3>3. SumBelow(row, p + 1) \in Nat /\ SumBelow(row, q) \in Nat
      BY <1>1, <3>1
    <3> QED BY <2>1, <3>2, <3>3
  <2>2. s < t \/ t < s \/ s = t
    OBVIOUS
  <2> QED BY <1>3, <2>1, <2>2
<1>4. inv_bs(row, n, v) = CHOOSE s \in 0..n-1 : Owns(s)
  BY DEF inv_bs
<1>5. ASSUME v < SumBelow(row, n) PROVE inv_bs(row, n, v) \in 0..n-1 /\ Owns(inv_bs(row, n, v))
  BY <1>2, <1>4, <1>5
<1>6. ASSUME NEW s \in 0..n-1, SumBelow(row, s) <= v, v < SumBelow(row, s) + row[s]
      PROVE  inv_bs(row, n, v) = s
  <2>1. Owns(s)
    <3>1. SumBelow(row, s + 1) = SumBelow(row, s) + row[s]
      BY SumBelowIs
    <3> QED BY <1>6, <3>1
  <2>2. inv_bs(row, n, v) \in 0..n-1 /\ Owns(inv_bs(row, n, v))
    BY <1>4, <2>1
  <2> QED BY <1>3, <2>1, <2>2
<1> QED BY <1>5, <1>6

\* The two words of a flush hold the state.
LEMMA FlushHolds ==
  ASSUME NEW x \in Nat, InRange(x)
  PROVE  Word(x) \in WordValues /\ Word(x \div Base) \in WordValues /\ Word(x) + Word(x \div Base) * Base = x
<1>1. Base \in Nat \ {0} /\ LowerBound \in Nat /\ LowerBound <= Base /\ x < LowerBound * Base
  BY HzRansAssumption, SMT DEF LowerBound, InRange
<1> DEFINE q == x \div Base
<1>2. q \in Nat /\ x % Base \in 0..Base-1 /\ x = q * Base + (x % Base) /\ q * Base \in Nat
  BY <1>1, Division
<1>3. q \in 0..LowerBound-1
  BY <1>1, DivBelow
<1> HIDE DEF q
<1>4. q \in 0..Base-1
  BY <1>1, <1>3
<1>5. q % Base = q
  BY <1>1, <1>4, ResidueShift
<1> QED BY <1>2, <1>4, <1>5 DEF Word, WordValues, q

\* Two sequences one after the other.
Concatenates(c, a, b, m, n, S) ==
  /\ c \in Seq(S) /\ Len(c) = m + n
  /\ \A i \in 1..m+n : c[i] = IF i <= m THEN a[i] ELSE b[i - m]

LEMMA ConcatIs ==
  ASSUME NEW S, NEW a \in Seq(S), NEW b \in Seq(S), NEW m, m = Len(a), NEW n, n = Len(b)
  PROVE  Concatenates(a \o b, a, b, m, n, S)
BY ConcatProperties, LenProperties DEF Concatenates

\* c is w in front of a.
LEMMA FrontIs ==
  ASSUME NEW S, NEW w \in S, NEW a \in Seq(S), NEW n, n = Len(a), NEW c \in Seq(S), Len(c) = n + 1,
         c[1] = w, \A k \in 1..n : c[k + 1] = a[k]
  PROVE  c = <<w>> \o a
<1> DEFINE u == <<w>>
           d == u \o a
<1>0. n \in Nat
  BY LenProperties
<1>1. u \in Seq(S) /\ Len(u) = 1 /\ u[1] = w
  OBVIOUS
<1> HIDE DEF u
<1>2. Concatenates(d, u, a, 1, n, S)
  BY <1>1, ConcatIs
<1> HIDE DEF d
<1>3. d \in Seq(S) /\ Len(d) = 1 + n /\ \A i \in 1..1+n : d[i] = IF i <= 1 THEN u[i] ELSE a[i - 1]
  BY <1>2, Zenon DEF Concatenates
<1>4. ASSUME NEW i \in 1..n+1 PROVE d[i] = c[i]
  <2>1. i \in 1..1+n
    BY <1>0
  <2>2. CASE i = 1
    BY <1>1, <1>3, <2>1, <2>2
  <2>3. CASE i # 1
    <3> DEFINE k == i - 1
    <3>1. k \in 1..n /\ k + 1 = i /\ ~(i <= 1)
      BY <1>0, <2>3
    <3>2. d[i] = a[k]
      BY <1>3, <2>1, <3>1
    <3> HIDE DEF k
    <3>3. c[k + 1] = a[k]
      BY <3>1
    <3> QED BY <3>1, <3>2, <3>3
  <2> QED BY <2>2, <2>3
<1>5. c = [i \in 1..n+1 |-> c[i]] /\ d = [i \in 1..n+1 |-> d[i]]
  <2>1. Len(d) = n + 1
    BY <1>0, <1>3
  <2> QED BY <1>3, <2>1
<1>6. c = d
  BY <1>4, <1>5
<1> QED BY <1>6 DEF d, u

\* pop takes what top shows.
LEMMA PoppedOff ==
  ASSUME NEW s, StackHolds(s), s.bufs # <<>>
  PROVE  /\ StackHolds(pop(s)) /\ top(s) \in WordValues
         /\ Popped(s) = <<top(s)>> \o Popped(pop(s))
<1> DEFINE L == Len(s.bufs)
           t == pop(s)
           K == Len(t.bufs)
           n == Holding(s)
           h == top(s)
<1>1. BufSize \in Nat \ {0}
  BY HzRansAssumption
<1>2. /\ s \in [index : Nat, bufs : Seq(Seq(WordValues))]
      /\ s.index \in 1..BufSize
      /\ \A b \in 1..L : Len(s.bufs[b]) >= IF b < L THEN BufSize ELSE s.index
  BY DEF StackHolds
<1>3. L \in Nat \ {0} /\ s.bufs \in Seq(Seq(WordValues)) /\ s.index \in Nat
  BY <1>2, EmptySeq, LenProperties
<1>4. /\ Popped(s) \in Seq(WordValues) /\ n \in Nat \ {0} /\ Len(Popped(s)) = n
      /\ \A k \in 1..n : Popped(s)[k] = WordAt(s, n - k)
  BY PoppedIs
<1>5. n = (L - 1) * BufSize + s.index
  BY DEF Holding
<1>6. (L - 1) * BufSize \in Nat /\ L - 1 \in Nat
  <2>1. L - 1 \in Nat
    BY <1>3
  <2> QED BY <1>1, <2>1, Distribute
<1>7. s.bufs[L] \in Seq(WordValues) /\ Len(s.bufs[L]) >= s.index
  <2>1. L \in 1..L
    BY <1>3
  <2> HIDE DEF L
  <2>2. s.bufs[L] \in Seq(WordValues)
    BY <1>3, <2>1, ElementOfSeq DEF L
  <2> QED BY <1>2, <2>1, <2>2
<1>8. h = s.bufs[L][s.index]
  BY DEF top
<1>9. h \in WordValues
  <2> DEFINE b == s.bufs[L]
  <2>1. b \in Seq(WordValues) /\ Len(b) >= s.index /\ s.index \in 1..BufSize
    BY <1>2, <1>7
  <2> HIDE DEF b
  <2>2. s.index \in 1..Len(b)
    BY <1>1, <2>1, LenProperties
  <2>3. b[s.index] \in WordValues
    BY <2>1, <2>2, ElementOfSeq
  <2> QED BY <1>8, <2>3 DEF b
<1>10. WordAt(s, n - 1) = h
  <2> DEFINE q == L - 1
             r == s.index - 1
             a == q * BufSize
  <2>0. a \in Nat /\ n = a + s.index
    BY <1>5, <1>6
  <2>1. q \in Nat /\ r \in 0..BufSize-1 /\ n - 1 = q * BufSize + r /\ q + 1 = L /\ r + 1 = s.index
    <3> HIDE DEF n, a
    <3>1. n - 1 = a + r
      BY <1>2, <2>0
    <3>2. r \in 0..BufSize-1 /\ r + 1 = s.index
      BY <1>1, <1>2
    <3> HIDE DEF L, r
    <3>3. q \in Nat /\ q + 1 = L
      BY <1>3
    <3> QED BY <3>1, <3>2, <3>3 DEF a
  <2> HIDE DEF q, r
  <2>2. (n - 1) \div BufSize = q /\ (n - 1) % BufSize = r
    BY <1>1, <2>1, DivModUnique
  <2> QED BY <1>8, <2>1, <2>2 DEF WordAt
<1>11. Popped(s)[1] = h
  <2>1. 1 \in 1..n
    BY <1>4
  <2> HIDE DEF n
  <2> QED BY <1>4, <1>10, <2>1
<1> HIDE DEF h
<1>12. CASE s.index > 1
  <2>1. t = [s EXCEPT !.index = s.index - 1]
    BY <1>12 DEF pop
  <2>2. t.index = s.index - 1 /\ t.bufs = s.bufs /\ t \in [index : Nat, bufs : Seq(Seq(WordValues))]
    BY <1>2, <1>12, <2>1
  <2> HIDE DEF t
  <2>3. t.index \in 1..BufSize /\ K = L
    <3> DEFINE i == s.index
    <3>1. i \in 1..BufSize /\ i > 1
      BY <1>2, <1>12
    <3> HIDE DEF i
    <3>2. i - 1 \in 1..BufSize
      BY <1>1, <3>1
    <3>3. t.index = i - 1 /\ K = L
      BY <2>2 DEF i
    <3> QED BY <3>2, <3>3
  <2>4. ASSUME NEW b \in 1..L PROVE Len(s.bufs[b]) >= IF b < L THEN BufSize ELSE s.index - 1
    <3> DEFINE m == Len(s.bufs[b])
    <3>1. m >= IF b < L THEN BufSize ELSE s.index
      BY <1>2
    <3>2. m \in Nat
      BY <1>3, ElementOfSeq, LenProperties
    <3> HIDE DEF m, L
    <3>3. m >= IF b < L THEN BufSize ELSE s.index - 1
      BY <1>1, <1>3, <3>1, <3>2
    <3> QED BY <3>3 DEF m, L
  <2>5. StackHolds(t)
    <3>1. \A b \in 1..K : Len(t.bufs[b]) >= IF b < K THEN BufSize ELSE t.index
      BY <2>2, <2>3, <2>4
    <3> QED BY <2>2, <2>3, <3>1 DEF StackHolds
  <2>6. t.bufs # <<>>
    BY <2>2
  <2>7. /\ Popped(t) \in Seq(WordValues) /\ Holding(t) \in Nat /\ Len(Popped(t)) = Holding(t)
        /\ \A k \in 1..Holding(t) : Popped(t)[k] = WordAt(t, Holding(t) - k)
    BY <2>5, <2>6, PoppedIs
  <2>8. Holding(t) = n - 1
    <3>1. Holding(t) = (L - 1) * BufSize + (s.index - 1)
      BY <2>2 DEF Holding
    <3> DEFINE a == (L - 1) * BufSize
    <3>2. a \in Nat /\ n = a + s.index /\ Holding(t) = a + (s.index - 1)
      BY <1>5, <1>6, <3>1
    <3> HIDE DEF a, n
    <3> QED BY <1>3, <3>2
  <2>9. \A m : WordAt(t, m) = WordAt(s, m)
    BY <2>2 DEF WordAt
  <2> HIDE DEF n
  <2>10. ASSUME NEW k \in 1..n-1 PROVE Popped(s)[k + 1] = Popped(t)[k]
    <3>1. k + 1 \in 1..n /\ n - (k + 1) = (n - 1) - k
      BY <1>4
    <3>2. Popped(s)[k + 1] = WordAt(s, n - (k + 1))
      BY <1>4, <3>1
    <3>3. Popped(t)[k] = WordAt(t, (n - 1) - k)
      BY <2>7, <2>8
    <3> QED BY <2>9, <3>1, <3>2, <3>3
  <2>11. Popped(s) = <<h>> \o Popped(t)
    <3> DEFINE m == n - 1
    <3>1. m = Len(Popped(t)) /\ n = m + 1 /\ \A k \in 1..m : Popped(s)[k + 1] = Popped(t)[k]
      BY <1>4, <2>7, <2>8, <2>10
    <3> DEFINE a == Popped(t)
               c == Popped(s)
    <3>2. a \in Seq(WordValues) /\ c \in Seq(WordValues) /\ Len(c) = m + 1 /\ m = Len(a)
          /\ c[1] = h /\ \A k \in 1..m : c[k + 1] = a[k]
      BY <1>4, <1>11, <2>7, <3>1
    <3> HIDE DEF m, a, c
    <3>3. c = <<h>> \o a
      BY <1>9, <3>2, FrontIs
    <3> QED BY <3>3 DEF a, c
  <2> QED BY <1>9, <2>5, <2>11 DEF h, t
<1>13. CASE ~(s.index > 1)
  <2> DEFINE bufs == SubSeq(s.bufs, 1, L - 1)
  <2>0. s.index = 1
    BY <1>2, <1>13
  <2>1. t = [index |-> BufSize, bufs |-> bufs]
    BY <1>13 DEF pop
  <2>2. bufs \in Seq(Seq(WordValues)) /\ Len(bufs) = L - 1 /\ \A b \in 1..L-1 : bufs[b] = s.bufs[b]
    <3> HIDE DEF L
    <3>1. s.bufs \in Seq(Seq(WordValues)) /\ L = Len(s.bufs)
      BY <1>3 DEF L
    <3> QED BY <1>3, <3>1
  <2> HIDE DEF bufs
  <2>3. t.index = BufSize /\ t.bufs = bufs /\ t \in [index : Nat, bufs : Seq(Seq(WordValues))] /\ K = L - 1
    BY <1>1, <2>1, <2>2
  <2> HIDE DEF t
  <2>4. n = (L - 1) * BufSize + 1
    BY <1>5, <2>0
  <2>5. CASE L = 1
    <3>1. t.bufs = <<>>
      BY <2>2, <2>3, <2>5, EmptySeq
    <3>2. StackHolds(t)
      BY <2>3, <3>1 DEF StackHolds
    <3>3. Popped(t) = <<>>
      BY <3>1, <3>2, PoppedIs
    <3>4. n = 1
      <4>1. (L - 1) * BufSize = 0
        BY <1>1, <2>5
      <4> QED BY <2>4, <4>1
    <3>5. Popped(s) = <<h>> \o Popped(t)
      <4> HIDE DEF n
      <4>1. <<>> \in Seq(WordValues) /\ 0 = Len(<<>>) /\ 1..0 = {}
        OBVIOUS
      <4>2. Popped(s) = <<h>> \o <<>>
        BY <1>4, <1>9, <1>11, <3>4, <4>1, FrontIs
      <4> QED BY <3>3, <4>2
    <3> QED BY <1>9, <3>2, <3>5 DEF h, t
  <2>6. CASE L # 1
    <3>1. t.bufs # <<>> /\ K \in Nat \ {0}
      <4>1. K \in Nat \ {0}
        BY <1>3, <2>3, <2>6
      <4> QED BY <4>1, EmptySeq
    <3>2. ASSUME NEW b \in 1..K PROVE Len(t.bufs[b]) >= IF b < K THEN BufSize ELSE t.index
      <4>1. b \in 1..L /\ b < L /\ b \in 1..L-1
        BY <1>3, <2>3
      <4>2. Len(s.bufs[b]) >= BufSize
        BY <1>2, <4>1
      <4>3. t.bufs[b] = s.bufs[b]
        BY <2>2, <2>3, <4>1
      <4> QED BY <2>3, <4>2, <4>3
    <3>3. StackHolds(t)
      <4>1. t.index \in 1..BufSize
        BY <1>1, <2>3
      <4> QED BY <2>3, <3>1, <3>2, <4>1 DEF StackHolds
    <3>4. /\ Popped(t) \in Seq(WordValues) /\ Holding(t) \in Nat /\ Len(Popped(t)) = Holding(t)
          /\ \A k \in 1..Holding(t) : Popped(t)[k] = WordAt(t, Holding(t) - k)
          /\ \A m \in 0..Holding(t)-1 : m \div BufSize \in 0..K-1
      BY <3>1, <3>3, PoppedIs
    <3>5. Holding(t) = n - 1
      <4>1. Holding(t) = (K - 1) * BufSize + BufSize
        BY <2>3 DEF Holding
      <4>2. ((K - 1) + 1) * BufSize = (K - 1) * BufSize + 1 * BufSize /\ (K - 1) * BufSize \in Nat
        <5>1. K - 1 \in Nat /\ 1 \in Nat
          BY <3>1
        <5> HIDE DEF K
        <5> QED BY <1>1, <5>1, Distribute
      <4>3. (K - 1) + 1 = L - 1
        BY <1>3, <2>3
      <4> DEFINE a == (K - 1) * BufSize
                 b == (L - 1) * BufSize
      <4>4. a \in Nat /\ b = a + BufSize /\ Holding(t) = a + BufSize /\ n = b + 1
        BY <1>1, <2>4, <4>1, <4>2, <4>3
      <4> HIDE DEF a, b, n
      <4> QED BY <1>1, <4>4
    <3>6. ASSUME NEW m \in 0..Holding(t)-1 PROVE WordAt(t, m) = WordAt(s, m)
      <4> DEFINE b == m \div BufSize + 1
      <4>1. m \div BufSize \in 0..K-1
        BY <3>4
      <4>2. b \in 1..L-1
        <5> DEFINE q == m \div BufSize
        <5>1. q \in 0..K-1 /\ b = q + 1 /\ K = L - 1
          BY <2>3, <4>1
        <5> HIDE DEF q, b, K
        <5> QED BY <1>3, <5>1
      <4>3. t.bufs[b] = s.bufs[b]
        BY <2>2, <2>3, <4>2
      <4> QED BY <4>3 DEF WordAt
    <3> HIDE DEF n
    <3>7. ASSUME NEW k \in 1..n-1 PROVE Popped(s)[k + 1] = Popped(t)[k]
      <4>1. k + 1 \in 1..n /\ n - (k + 1) = (n - 1) - k /\ (n - 1) - k \in 0..(n-1)-1
        BY <1>4
      <4>2. Popped(s)[k + 1] = WordAt(s, n - (k + 1))
        BY <1>4, <4>1
      <4>3. Popped(t)[k] = WordAt(t, (n - 1) - k)
        BY <3>4, <3>5
      <4> QED BY <3>5, <3>6, <4>1, <4>2, <4>3
    <3>8. Popped(s) = <<h>> \o Popped(t)
      <4> DEFINE m == n - 1
      <4>1. m = Len(Popped(t)) /\ n = m + 1 /\ \A k \in 1..m : Popped(s)[k + 1] = Popped(t)[k]
        BY <1>4, <3>4, <3>5, <3>7
      <4> DEFINE a == Popped(t)
                 c == Popped(s)
      <4>2. a \in Seq(WordValues) /\ c \in Seq(WordValues) /\ Len(c) = m + 1 /\ m = Len(a)
            /\ c[1] = h /\ \A k \in 1..m : c[k + 1] = a[k]
        BY <1>4, <1>11, <3>4, <4>1
      <4> HIDE DEF m, a, c
      <4>3. c = <<h>> \o a
        BY <1>9, <4>2, FrontIs
      <4> QED BY <4>3 DEF a, c
    <3> QED BY <1>9, <3>3, <3>8 DEF h, t
  <2> QED BY <2>5, <2>6
<1> QED BY <1>12, <1>13

-----------------------------------------------------------------------------
(* The way of the coder *)
LegalPairs == {p \in [ls : Nat, bs : Nat] : IsSlot(p.ls, p.bs)}

CoderStates == [x : Nat, words : Seq(WordValues)]

\* The coder's state, and the words it has given off, after one more symbol.
Encoded(c, p) ==
  [x     |-> EncodeState(c.x, p.ls, p.bs),
   words |-> IF Overflows(c.x, p.ls) THEN <<Word(c.x)>> \o c.words ELSE c.words]

\* From state hi, where the coder begins, down to state lo.
IsTrace(c, lo, hi, p) ==
  /\ c \in [lo..hi -> CoderStates] /\ c[hi] = [x |-> LowerBound, words |-> <<>>]
  /\ \A k \in lo..hi : InRange(c[k].x)
  /\ \A k \in lo..hi-1 : p[k] \in LegalPairs /\ c[k] = Encoded(c[k + 1], p[k])

LEMMA EncodedTyped ==
  ASSUME NEW c \in CoderStates, InRange(c.x), NEW p \in LegalPairs
  PROVE  Encoded(c, p) \in CoderStates /\ InRange(Encoded(c, p).x)
<1>1. c.x \in Nat /\ c.words \in Seq(WordValues) /\ IsSlot(p.ls, p.bs)
  BY DEF CoderStates, LegalPairs
<1>2. EncodeState(c.x, p.ls, p.bs) \in Nat /\ InRange(EncodeState(c.x, p.ls, p.bs))
  BY <1>1, EncodeKeepsRange
<1>3. Word(c.x) \in WordValues
  BY <1>1, FlushHolds
<1>4. <<Word(c.x)>> \o c.words \in Seq(WordValues)
  <2> DEFINE w == Word(c.x)
  <2> HIDE DEF w
  <2>1. <<w>> \in Seq(WordValues)
    BY <1>3 DEF w
  <2> QED BY <1>1, <2>1, ConcatProperties DEF w
<1> QED BY <1>1, <1>2, <1>4 DEF Encoded, CoderStates

LEMMA TraceExtends ==
  ASSUME NEW hi \in Nat, NEW lo \in Nat, lo < hi, NEW p, NEW c, IsTrace(c, lo + 1, hi, p),
         p[lo] \in LegalPairs
  PROVE  \E d : IsTrace(d, lo, hi, p) /\ d[lo] = Encoded(c[lo + 1], p[lo])
<1> DEFINE e == Encoded(c[lo + 1], p[lo])
           d == [k \in lo..hi |-> IF k = lo THEN e ELSE c[k]]
<1>1. lo + 1 \in lo+1..hi /\ hi \in lo+1..hi /\ hi \in lo..hi /\ hi # lo /\ lo \in lo..hi
  OBVIOUS
<1>2. /\ c \in [lo+1..hi -> CoderStates] /\ c[hi] = [x |-> LowerBound, words |-> <<>>]
      /\ \A k \in lo+1..hi : InRange(c[k].x)
      /\ \A k \in lo+1..hi-1 : p[k] \in LegalPairs /\ c[k] = Encoded(c[k + 1], p[k])
  BY DEF IsTrace
<1>3. c[lo + 1] \in CoderStates /\ InRange(c[lo + 1].x)
  BY <1>1, <1>2
<1>4. e \in CoderStates /\ InRange(e.x)
  BY <1>3, EncodedTyped
<1> HIDE DEF e
<1>5. \A k \in lo..hi : k = lo \/ k \in lo+1..hi
  OBVIOUS
<1>6. \A k \in lo..hi : d[k] \in CoderStates /\ InRange(d[k].x)
  BY <1>2, <1>4, <1>5
<1>7. d \in [lo..hi -> CoderStates]
  BY <1>6
<1>8. d[lo] = e /\ d[lo + 1] = c[lo + 1] /\ d[hi] = c[hi]
  BY <1>1
<1>9. ASSUME NEW k \in lo..hi-1 PROVE p[k] \in LegalPairs /\ d[k] = Encoded(d[k + 1], p[k])
  <2>1. CASE k = lo
    BY <1>8, <2>1 DEF e
  <2>2. CASE k # lo
    <3>1. k \in lo+1..hi-1 /\ k \in lo..hi /\ k + 1 \in lo..hi /\ k + 1 # lo
      BY <2>2
    <3>2. d[k] = c[k] /\ d[k + 1] = c[k + 1]
      BY <2>2, <3>1
    <3> HIDE DEF d
    <3> QED BY <1>2, <3>1, <3>2
  <2> QED BY <2>1, <2>2
<1> HIDE DEF d
<1>10. IsTrace(d, lo, hi, p)
  BY <1>2, <1>6, <1>7, <1>8, <1>9 DEF IsTrace
<1>11. d[lo] = Encoded(c[lo + 1], p[lo])
  BY <1>8 DEF e
<1> QED BY <1>10, <1>11

\* The stack takes what one more symbol gives off.
LEMMA StackEncodes ==
  ASSUME NEW s, StackHolds(s), s.bufs # <<>> \/ s.index = 0, NEW y \in Nat, InRange(y), NEW p \in LegalPairs
  PROVE  /\ StackHolds(EncodeWords(s, y, p.ls))
         /\ EncodeWords(s, y, p.ls).bufs # <<>> \/ EncodeWords(s, y, p.ls).index = 0
         /\ [x |-> EncodeState(y, p.ls, p.bs), words |-> Popped(EncodeWords(s, y, p.ls))] =
              Encoded([x |-> y, words |-> Popped(s)], p)
<1>1. CASE Overflows(y, p.ls)
  <2>1. EncodeWords(s, y, p.ls) = push(s, Word(y))
    BY <1>1 DEF EncodeWords
  <2>2. Word(y) \in WordValues
    BY FlushHolds
  <2>3. /\ StackHolds(push(s, Word(y))) /\ push(s, Word(y)).bufs # <<>>
        /\ Popped(push(s, Word(y))) = <<Word(y)>> \o Popped(s)
    BY <2>2, PushedOnTop
  <2> QED BY <1>1, <2>1, <2>3 DEF Encoded
<1>2. CASE ~Overflows(y, p.ls)
  <2>1. EncodeWords(s, y, p.ls) = s
    BY <1>2 DEF EncodeWords
  <2> QED BY <1>2, <2>1 DEF Encoded
<1> QED BY <1>1, <1>2

\* What is left of some words at pos is r.
Rest(words, pos, r) ==
  /\ pos \in Nat /\ Len(words) = pos + Len(r)
  /\ \A k \in 1..Len(r) : words[pos + k] = r[k]

LEMMA RestAdvances ==
  ASSUME NEW words \in Seq(WordValues), NEW pos, NEW w \in WordValues, NEW r \in Seq(WordValues),
         Rest(words, pos, <<w>> \o r)
  PROVE  pos < Len(words) /\ words[pos + 1] = w /\ Rest(words, pos + 1, r)
<1>1. Len(r) \in Nat
  BY LenProperties
<1>2. /\ Len(<<w>> \o r) = 1 + Len(r)
      /\ \A i \in 1..1+Len(r) : (<<w>> \o r)[i] = IF i <= 1 THEN w ELSE r[i - 1]
  <2>1. <<w>> \in Seq(WordValues) /\ Len(<<w>>) = 1 /\ <<w>>[1] = w
    OBVIOUS
  <2>2. /\ Len(<<w>> \o r) = Len(<<w>>) + Len(r)
        /\ \A i \in 1..Len(<<w>>)+Len(r) : (<<w>> \o r)[i] = IF i <= Len(<<w>>) THEN <<w>>[i] ELSE r[i - Len(<<w>>)]
    BY <2>1, ConcatProperties
  <2>3. \A i \in 1..1+Len(r) : i <= 1 => i = 1
    BY <1>1
  <2> HIDE DEF Rest
  <2> QED BY <2>1, <2>2, <2>3
<1> DEFINE s == <<w>> \o r
           n == Len(r)
<1>3. /\ pos \in Nat /\ Len(words) = pos + Len(s) /\ \A k \in 1..Len(s) : words[pos + k] = s[k]
  BY DEF Rest
<1> HIDE DEF s, n
<1>4. /\ n \in Nat /\ Len(s) = 1 + n /\ s[1] = w /\ \A k \in 1..n : s[k + 1] = r[k]
  <2>1. n \in Nat /\ Len(s) = 1 + n
    BY <1>1, <1>2 DEF s, n
  <2>2. s[1] = w
    BY <1>2, <2>1 DEF s, n
  <2>3. ASSUME NEW k \in 1..n PROVE s[k + 1] = r[k]
    <3>1. k + 1 \in 1..1+n /\ ~(k + 1 <= 1) /\ (k + 1) - 1 = k
      BY <2>1
    <3> QED BY <1>2, <3>1 DEF s, n
  <2> QED BY <2>1, <2>2, <2>3
<1>5. pos < Len(words) /\ words[pos + 1] = w
  BY <1>3, <1>4
<1>6. pos + 1 \in Nat /\ Len(words) = (pos + 1) + n
  BY <1>3, <1>4
<1>7. ASSUME NEW k \in 1..n PROVE words[(pos + 1) + k] = r[k]
  <2>1. k + 1 \in 1..Len(s) /\ (pos + 1) + k = pos + (k + 1)
    BY <1>3, <1>4
  <2> QED BY <1>3, <1>4, <2>1
<1> QED BY <1>5, <1>6, <1>7 DEF Rest, n

\* The coder begins in its interval.
LEMMA LowerBoundIs ==
  ASSUME Total >= 2
  PROVE  LowerBound \in Nat /\ InRange(LowerBound)
<1>1. Total \in Nat \ {0} /\ Prefix \in Nat \ {0} /\ Base \in Nat /\ Total * Prefix <= Base
  BY HzRansAssumption
<1>2. LowerBound \in Nat /\ LowerBound >= Total /\ LowerBound <= Base
  <2>1. 1 * Total <= Prefix * Total /\ Prefix * Total = Total * Prefix /\ Total * Prefix \in Nat
    BY <1>1, Monotone, Distribute
  <2> QED BY <1>1, <2>1 DEF LowerBound
<1>3. LowerBound < LowerBound * Base
  <2> DEFINE l == LowerBound
             m == Base * l
  <2>1. 2 * l <= Base * l /\ Base * l = l * Base /\ l * Base \in Nat
    BY <1>1, <1>2, Monotone, Distribute
  <2>2. l > 0 /\ l \in Nat /\ m \in Nat /\ 2 * l <= m
    BY <1>1, <1>2, <2>1
  <2> HIDE DEF l, m
  <2>3. l < m
    BY <2>2
  <2> QED BY <2>1, <2>3 DEF l, m
<1> QED BY <1>2, <1>3 DEF InRange

\* The coder has come down from symbol hi to symbol lo: y and the stack s are
\* what it has then.
CodedDownTo(lo, hi, p, y, s) ==
  /\ StackHolds(s) /\ (s.bufs # <<>> \/ s.index = 0)
  /\ \E c : IsTrace(c, lo, hi, p) /\ c[lo] = [x |-> y, words |-> Popped(s)]

LEMMA CodedBegins ==
  ASSUME Total >= 2, NEW N \in Nat, NEW p
  PROVE  CodedDownTo(N, N, p, LowerBound, EmptyStack)
<1> DEFINE start == [x |-> LowerBound, words |-> <<>>]
           c == [k \in N..N |-> start]
<1>1. StackHolds(EmptyStack) /\ EmptyStack.index = 0 /\ EmptyStack.bufs = <<>>
  BY DEF StackHolds, EmptyStack
<1>2. Popped(EmptyStack) = <<>>
  BY <1>1, PoppedIs
<1>3. LowerBound \in Nat /\ InRange(LowerBound)
  BY LowerBoundIs
<1>4. start \in CoderStates
  BY <1>3 DEF CoderStates
<1>5. \A k \in N..N : c[k] = start
  OBVIOUS
<1>6. N \in N..N /\ N..N-1 = {} /\ c \in [N..N -> CoderStates]
  BY <1>4
<1> HIDE DEF c
<1>7. c[N] = start /\ \A k \in N..N : InRange(c[k].x)
  BY <1>3, <1>5, <1>6
<1>8. IsTrace(c, N, N, p)
  BY <1>6, <1>7 DEF IsTrace
<1>9. c[N] = [x |-> LowerBound, words |-> Popped(EmptyStack)]
  BY <1>2, <1>7
<1> QED BY <1>1, <1>8, <1>9 DEF CodedDownTo

LEMMA CodedIs ==
  ASSUME NEW lo \in Nat, NEW hi \in Nat, lo <= hi, NEW p, NEW y, NEW s, CodedDownTo(lo, hi, p, y, s)
  PROVE  y \in Nat /\ InRange(y)
<1>1. PICK c : IsTrace(c, lo, hi, p) /\ c[lo] = [x |-> y, words |-> Popped(s)]
  BY DEF CodedDownTo
<1>2. lo \in lo..hi
  OBVIOUS
<1>3. c[lo] \in CoderStates /\ InRange(c[lo].x)
  BY <1>1, <1>2 DEF IsTrace
<1> QED BY <1>1, <1>3 DEF CoderStates

LEMMA CodedStep ==
  ASSUME NEW lo \in Nat, NEW hi \in Nat, lo < hi, NEW p, p[lo] \in LegalPairs, NEW y, NEW s,
         CodedDownTo(lo + 1, hi, p, y, s)
  PROVE  CodedDownTo(lo, hi, p, EncodeState(y, p[lo].ls, p[lo].bs), EncodeWords(s, y, p[lo].ls))
<1> DEFINE l == p[lo].ls
           b == p[lo].bs
           z == EncodeState(y, l, b)
           t == EncodeWords(s, y, l)
<1>1. PICK c : IsTrace(c, lo + 1, hi, p) /\ c[lo + 1] = [x |-> y, words |-> Popped(s)]
  BY DEF CodedDownTo
<1>2. StackHolds(s) /\ (s.bufs # <<>> \/ s.index = 0)
  BY DEF CodedDownTo
<1>3. y \in Nat /\ InRange(y)
  BY CodedIs
<1>4. /\ StackHolds(t) /\ (t.bufs # <<>> \/ t.index = 0)
      /\ [x |-> z, words |-> Popped(t)] = Encoded([x |-> y, words |-> Popped(s)], p[lo])
  BY <1>2, <1>3, StackEncodes
<1>5. PICK d : IsTrace(d, lo, hi, p) /\ d[lo] = Encoded(c[lo + 1], p[lo])
  BY <1>1, TraceExtends
<1>6. d[lo] = [x |-> z, words |-> Popped(t)]
  BY <1>1, <1>4, <1>5
<1> HIDE DEF z, t
<1>7. CodedDownTo(lo, hi, p, z, t)
  BY <1>4, <1>5, <1>6 DEF CodedDownTo
<1> QED BY <1>7 DEF z, t

\* The two words of the flush in front of the others.
LEMMA Flushed ==
  ASSUME NEW s, StackHolds(s), s.bufs # <<>> \/ s.index = 0, NEW y \in Nat, InRange(y),
         NEW t, t = push(push(s, Word(y \div Base)), Word(y))
  PROVE  StackHolds(t) /\ t.bufs # <<>> /\ Popped(t) = <<Word(y), Word(y \div Base)>> \o Popped(s)
<1> DEFINE low == Word(y)
           high == Word(y \div Base)
           once == push(s, high)
<1>1. low \in WordValues /\ high \in WordValues
  BY FlushHolds
<1>2. StackHolds(once) /\ once.bufs # <<>> /\ Popped(once) = <<high>> \o Popped(s)
  BY <1>1, PushedOnTop
<1>3. t = push(once, low)
  OBVIOUS
<1> HIDE DEF once, low, high
<1>4. StackHolds(t) /\ t.bufs # <<>> /\ Popped(t) = <<low>> \o Popped(once)
  BY <1>1, <1>2, <1>3, PushedOnTop
<1>5. Popped(s) \in Seq(WordValues)
  BY PoppedIs
<1>6. <<low>> \o (<<high>> \o Popped(s)) = <<low, high>> \o Popped(s)
  <2>1. <<low>> \in Seq(WordValues) /\ <<high>> \in Seq(WordValues)
    BY <1>1
  <2>2. (<<low>> \o <<high>>) \o Popped(s) = <<low>> \o (<<high>> \o Popped(s))
    BY <1>5, <2>1, ConcatAssociative
  <2>3. <<low>> \o <<high>> = <<low, high>>
    <3> DEFINE a == <<low>> \o <<high>>
               b == <<low, high>>
    <3>1. a \in Seq(WordValues) /\ b \in Seq(WordValues)
      BY <1>1, <2>1, ConcatProperties
    <3>2. Len(a) = 2 /\ a[1] = low /\ a[2] = high
      <4>1. Len(<<low>>) = 1 /\ Len(<<high>>) = 1 /\ <<low>>[1] = low /\ <<high>>[1] = high
        OBVIOUS
      <4> QED BY <2>1, <4>1, ConcatProperties
    <3>3. Len(b) = 2 /\ b[1] = low /\ b[2] = high
      OBVIOUS
    <3> HIDE DEF a, b
    <3>4. a \in [1..2 -> WordValues] /\ b \in [1..2 -> WordValues]
      BY <3>1, <3>2, <3>3, LenProperties
    <3>5. \A i \in 1..2 : a[i] = b[i]
      <4>1. \A i \in 1..2 : i = 1 \/ i = 2
        OBVIOUS
      <4> QED BY <3>2, <3>3, <4>1
    <3>6. a = b
      BY <3>4, <3>5
    <3> QED BY <3>6 DEF a, b
  <2> QED BY <2>2, <2>3
<1> QED BY <1>2, <1>4, <1>6 DEF low, high

\* What the decoder begins with.
LEMMA FlushRead ==
  ASSUME NEW y \in Nat, InRange(y), NEW r \in Seq(WordValues),
         NEW words, words = <<Word(y), Word(y \div Base)>> \o r
  PROVE  /\ words \in Seq(WordValues) /\ Len(words) = 2 + Len(r)
         /\ words[1] + words[2] * Base = y /\ Rest(words, 2, r)
<1> DEFINE low == Word(y)
           high == Word(y \div Base)
           two == <<low, high>>
<1>1. low \in WordValues /\ high \in WordValues /\ low + high * Base = y
  BY FlushHolds
<1> HIDE DEF low, high
<1>2. two \in Seq(WordValues) /\ Len(two) = 2 /\ two[1] = low /\ two[2] = high
  BY <1>1
<1>3. words = two \o r
  BY DEF low, high
<1> HIDE DEF two
<1>4. Len(r) \in Nat
  BY LenProperties
<1>5. /\ words \in Seq(WordValues) /\ Len(words) = 2 + Len(r)
      /\ \A i \in 1..2+Len(r) : words[i] = IF i <= 2 THEN two[i] ELSE r[i - 2]
  <2>1. /\ two \o r \in Seq(WordValues) /\ Len(two \o r) = Len(two) + Len(r)
        /\ \A i \in 1..Len(two)+Len(r) : (two \o r)[i] = IF i <= Len(two) THEN two[i] ELSE r[i - Len(two)]
    BY <1>2, ConcatProperties
  <2> QED BY <1>2, <1>3, <2>1
<1>6. words[1] = low /\ words[2] = high
  <2>1. 1 \in 1..2+Len(r) /\ 2 \in 1..2+Len(r) /\ 1 <= 2 /\ 2 <= 2
    BY <1>4
  <2> QED BY <1>2, <1>5, <2>1
<1>7. Rest(words, 2, r)
  <2>1. ASSUME NEW k \in 1..Len(r) PROVE words[2 + k] = r[k]
    <3>1. 2 + k \in 1..2+Len(r) /\ ~(2 + k <= 2) /\ (2 + k) - 2 = k
      BY <1>4
    <3> QED BY <1>5, <3>1
  <2> QED BY <1>5, <2>1 DEF Rest
<1> QED BY <1>1, <1>5, <1>6, <1>7

\* One step of the decoder from where the encoder's step led.
DecodedBack(words, q, c, e, p) ==
  LET y == Unshuffled(c.x, p.ls, p.bs)
  IN  /\ Slot(c.x) \in p.bs..(p.bs + p.ls - 1)
      /\ \A w \in IF q < Len(words) THEN {words[q + 1]} ELSE WordValues : Refilled(y, w) = e.x
      /\ Rest(words, IF Underflows(y) THEN q + 1 ELSE q, e.words)

LEMMA DecodesBack ==
  ASSUME NEW words \in Seq(WordValues), NEW q, NEW e \in CoderStates, InRange(e.x), NEW p \in LegalPairs,
         NEW c, c = Encoded(e, p), Rest(words, q, c.words)
  PROVE  DecodedBack(words, q, c, e, p)
<1> DEFINE y == Unshuffled(c.x, p.ls, p.bs)
           P == IF Underflows(y) THEN q + 1 ELSE q
<1>1. e.x \in Nat /\ e.words \in Seq(WordValues) /\ IsSlot(p.ls, p.bs)
  BY DEF CoderStates, LegalPairs
<1>2. c.x = EncodeState(e.x, p.ls, p.bs)
  BY DEF Encoded
<1>3. Slot(c.x) \in p.bs..(p.bs + p.ls - 1)
  BY <1>1, <1>2, SlotFound
<1>4. (Underflows(y) <=> Overflows(e.x, p.ls)) /\ Refilled(y, Word(e.x)) = e.x
  BY <1>1, <1>2, DecodeInvertsEncode
<1>5. Word(e.x) \in WordValues
  BY <1>1, FlushHolds
<1> HIDE DEF y
<1>6. CASE Overflows(e.x, p.ls)
  <2>1. c.words = <<Word(e.x)>> \o e.words
    BY <1>6 DEF Encoded
  <2>2. Rest(words, q, <<Word(e.x)>> \o e.words)
    BY <2>1
  <2>3. q < Len(words) /\ words[q + 1] = Word(e.x) /\ Rest(words, q + 1, e.words)
    BY <1>1, <1>5, <2>2, RestAdvances
  <2>4. \A w \in IF q < Len(words) THEN {words[q + 1]} ELSE WordValues : Refilled(y, w) = e.x
    BY <1>4, <2>3
  <2>5. Rest(words, P, e.words)
    BY <1>4, <1>6, <2>3
  <2> HIDE DEF P
  <2> QED BY <1>3, <2>4, <2>5 DEF DecodedBack, y, P
<1>7. CASE ~Overflows(e.x, p.ls)
  <2>1. c.words = e.words
    BY <1>7 DEF Encoded
  <2>2. \A w : Refilled(y, w) = e.x
    BY <1>4, <1>7 DEF Refilled
  <2>3. Rest(words, P, e.words)
    BY <1>4, <1>7, <2>1
  <2> HIDE DEF P
  <2> QED BY <1>3, <2>2, <2>3 DEF DecodedBack, y, P
<1> QED BY <1>6, <1>7

=============================================================================
