------------------------------ MODULE SuffixArray ------------------------------
(***************************************************************************)
(* The suffix sorting of preprocessor/burrows_wheeler.h: the suffixes that *)
(* start at i % 3 # 0 are sorted by triples, recursively when triples      *)
(* repeat, and then merged with the rest.  Arrays start at 0, as in the    *)
(* code; T has three zeros after its n symbols.                            *)
(***************************************************************************)
EXTENDS Integers, FiniteSets

\* f itself; the comparison makes TLC compute its elements once.
Stored(f) == CHOOSE g \in {f} : g = f

\* How many of the first n positions radix_pass puts before position i.
Rank(key, n, i) == Cardinality({j \in 0..n-1 : key[j] < key[i] \/ (key[j] = key[i] /\ j < i)})

\* radix_pass: a stable counting sort of a by the keys T[a[i] + off].
radix_pass(a, T, off, n) ==
  LET key == Stored([i \in 0..n-1 |-> T[a[i] + off]])
  IN  Stored([k \in 0..n-1 |-> a[CHOOSE i \in 0..n-1 : Rank(key, n, i) = k]])

\* The members of a set of numbers in increasing order.
Ascending(S) ==
  Stored([k \in 0..Cardinality(S)-1 |-> CHOOSE i \in S : Cardinality({j \in S : j < i}) = k])

\* Three zeros, as R has at its end.
Padded(a, n) == Stored([i \in 0..n+2 |-> IF i < n THEN a[i] ELSE 0])

\* Mutant: the position is not compared any more after the first symbols agree.
LeqFirst(a, b) == a[1] <= b[1]

\* leq on pairs and triples: the lexicographic order.
leq(a, b) ==
  \A i \in DOMAIN a : (\A j \in 1..i-1 : a[j] = b[j]) => a[i] <= b[i]

\* n0, n1 and n02 of the code: how many suffixes start at i % 3 = 0, at i % 3 = 1,
\* and how many are sorted first.
N0(n) == (n + 2) \div 3
N1(n) == (n + 1) \div 3
N02(n) == N0(n) + n \div 3

\* The starts of the suffixes sorted first, sorted by triples.
Triples(T, n) ==
  LET m      == N02(n)
      starts == Ascending({i \in 1..n+(N0(n)-N1(n))-1 : i % 3 # 0})
  IN  radix_pass(radix_pass(radix_pass(starts, T, 2, m), T, 1, m), T, 0, m)

\* name: the i-th triple is named after the number of different ones up to it.
Differs(T, triples, i) == i = 0 \/ \E d \in 0..2 : T[triples[i] + d] # T[triples[i - 1] + d]

Names(T, triples, m) == Stored([i \in 0..m-1 |-> Cardinality({h \in 0..i : Differs(T, triples, h)})])

\* Where the suffix at s has its name in R, and the suffix that has place u.
Place(n, s) == IF s % 3 = 1 THEN s \div 3 ELSE s \div 3 + N0(n)

GetI(n, u) == IF u < N0(n) THEN u * 3 + 1 ELSE (u - N0(n)) * 3 + 2

ByPlace(n, triples, names) ==
  Stored([u \in 0..N02(n)-1 |-> names[CHOOSE i \in 0..N02(n)-1 : Place(n, triples[i]) = u]])

\* The suffixes that start at i % 3 = 0, by those that follow them.
Zeros(n, SA12) ==
  LET at == Ascending({h \in 0..N02(n)-1 : SA12[h] < N0(n)})
  IN  Stored([k \in 0..N0(n)-1 |-> 3 * SA12[at[k]]])

\* Is the suffix with place u smaller than the one at j?  R ranks the suffixes
\* sorted first.
Smaller(T, R, n, u, j) ==
  LET i == GetI(n, u)
  IN  IF u < N0(n)
      THEN leq(<<T[i], R[u + N0(n)]>>, <<T[j], R[j \div 3]>>)
      ELSE leq(<<T[i], T[i + 1], R[u - N0(n) + 1]>>, <<T[j], T[j + 1], R[j \div 3 + N0(n)]>>)

\* Is the next suffix of the result one of those sorted first, from t on, or one
\* of the others, from p on?
Takes12(T, R, SA12, SA0, n, at) ==
  at.t < N02(n) /\ (at.p = N0(n) \/ Smaller(T, R, n, SA12[at.t], SA0[at.p]))

\* The loop that merges: t and p before turn k, and what the turns take.
Merged(T, R, SA12, SA0, n) ==
  LET merge[k \in 0..n] ==
        IF k = 0 THEN [t |-> N0(n) - N1(n), p |-> 0]
        ELSE LET at == merge[k - 1]
             IN  IF Takes12(T, R, SA12, SA0, n, at) THEN [at EXCEPT !.t = @ + 1]
                 ELSE [at EXCEPT !.p = @ + 1]
  IN  Stored([k \in 0..n-1 |-> IF Takes12(T, R, SA12, SA0, n, merge[k])
                               THEN GetI(n, SA12[merge[k].t]) ELSE SA0[merge[k].p]])

\* SA12: the places of the suffixes sorted first, in order; that of the names'
\* suffixes, or of the names when no two are the same.
Sorted12(R, m, repeat, shorter) ==
  IF repeat THEN shorter[Padded(R, m)]
  ELSE Stored([h \in 0..m-1 |-> CHOOSE u \in 0..m-1 : R[u] - 1 = h])

\* R afterwards: the ranks of these suffixes, from 1 on.
Ranks(R, SA12, m, repeat) ==
  IF repeat THEN [u \in 0..m-1 |-> 1 + CHOOSE h \in 0..m-1 : SA12[h] = u] ELSE R

\* The body of suffix_array; shorter is what it calls.
sorted(n, T, shorter) ==
  LET m       == N02(n)
      triples == Triples(T, n)
      names   == Names(T, triples, m)
      R       == ByPlace(n, triples, names)
      repeat  == names[m - 1] < m
      SA12    == Sorted12(R, m, repeat, shorter)
      SA0     == radix_pass(Zeros(n, SA12), T, 0, N0(n))
  IN  Merged(T, Padded(Ranks(R, SA12, m, repeat), m), SA12, SA0, n)

\* suffix_array (n >= 2): the start of the k-th smallest suffix, for every k.
suffix_array[n \in Nat \ {0, 1}] ==
  [T \in [0..n+2 -> Nat] |-> sorted(n, T, suffix_array[N02(n)])]
=============================================================================
