-------------------------------- MODULE HzRans --------------------------------
(***************************************************************************)
(* The entropy coder of hzip_core/kernel/hzrans/hzrans64.cpp: a range      *)
(* asymmetric numeral system whose 64-bit state x gives off or takes in    *)
(* 32-bit words so as to stay in a fixed interval.  The widths are         *)
(* parameters (in the code 2^24, 2^7, 2^32 and buffers of 0x10000 words),  *)
(* so that small instances have every boundary of the real one.  And the   *)
(* frequency tables a codec makes for it.                                  *)
(***************************************************************************)
EXTENDS Integers, Sequences

CONSTANTS
  Total,   \* 1 << scale, what the frequencies of a context add up to
  Prefix,  \* lower_bound >> scale
  Base,    \* 1 << 32, the values of a word
  BufSize  \* words in a buffer of HZ_Stack

ASSUME HzRansAssumption ==
  /\ Total \in Nat \ {0} /\ Prefix \in Nat \ {0} /\ BufSize \in Nat \ {0}
  /\ Base \in Nat /\ Total * Prefix <= Base

LowerBound == Total * Prefix

\* The interval of the state between symbols.
InRange(x) == LowerBound <= x /\ x < LowerBound * Base

\* ls and bs: a symbol's frequency and the sum of those before it.
IsSlot(ls, bs) == ls \in Nat \ {0} /\ bs \in Nat /\ bs + ls <= Total

-----------------------------------------------------------------------------
(* HZ_Stack: a stack of buffers; index counts the words of the last one.   *)
EmptyStack == [index |-> 0, bufs |-> <<>>]

push(s, w) ==
  LET bufs == IF s.bufs = <<>> THEN <<<<>>>> ELSE s.bufs
      last == Len(bufs)
  IN  IF s.index < BufSize
      THEN [index |-> s.index + 1, bufs |-> [bufs EXCEPT ![last] = Append(SubSeq(@, 1, s.index), w)]]
      ELSE [index |-> 1, bufs |-> Append(bufs, <<w>>)]

pop(s) ==
  IF s.index > 1 THEN [s EXCEPT !.index = @ - 1]
  ELSE [index |-> BufSize, bufs |-> SubSeq(s.bufs, 1, Len(s.bufs) - 1)]

top(s) == s.bufs[Len(s.bufs)][s.index]

\* The words as they are popped, from the top.
Popped(s) ==
  LET n == (Len(s.bufs) - 1) * BufSize + s.index
  IN  [k \in 1..n |-> s.bufs[(n - k) \div BufSize + 1][((n - k) % BufSize) + 1]]

-----------------------------------------------------------------------------
(* hzrans64_encode_s *)
\* Mutant: a bound too high by one keeps a state that has to be shifted.
OverflowsLate(x, ls) == x > ls * (Prefix * Base)

\* x >= upper_bound: a word has to go first.
Overflows(x, ls) == x >= ls * (Prefix * Base)

Renormalised(x, ls) == IF Overflows(x, ls) THEN x \div Base ELSE x

Word(x) == x % Base

Shuffled(x, ls, bs) == (x \div ls) * Total + bs + (x % ls)

EncodeState(x, ls, bs) == Shuffled(Renormalised(x, ls), ls, bs)

EncodeWords(s, x, ls) == IF Overflows(x, ls) THEN push(s, Word(x)) ELSE s

-----------------------------------------------------------------------------
(* hzrans64_decode_s *)
Slot(x) == x % Total

Unshuffled(x, ls, bs) == ls * (x \div Total) + (x % Total) - bs

\* Mutant: off by one at the lower bound.
UnderflowsEarly(x) == x <= LowerBound

Underflows(x) == x < LowerBound

\* The next word is read exactly when the state is too small.
Refilled(x, w) == IF Underflows(x) THEN x * Base + w ELSE x

-----------------------------------------------------------------------------
(* hzrans64_create_ftable_nf and hzrans64_add_to_seq *)
SumBelow(row, k) ==
  LET sum[i \in 0..k] == IF i = 0 THEN 0 ELSE sum[i - 1] + row[i - 1]
  IN  sum[k]

\* Mutant: a symbol with a share of nothing gets nothing.
ftable_without_ones(freq, size, total) ==
  LET sum   == size + SumBelow(freq, size)
      share == [k \in 0..size-1 |-> ((freq[k] + 1) * total) \div sum]
      rest  == total - SumBelow(share, size)
  IN  [k \in 0..size-1 |-> share[k] + rest \div size + (IF k < rest % size THEN 1 ELSE 0)]

\* Every symbol gets one, a share of the rest by its frequency, and what rounding
\* lost goes round to the symbols in turn.
create_ftable_nf(freq, size, total) ==
  LET mulFactor == total - size
      sum       == size + SumBelow(freq, size)
      share     == [k \in 0..size-1 |-> ((freq[k] + 1) * mulFactor) \div sum]
      rest      == mulFactor - SumBelow(share, size)
  IN  [k \in 0..size-1 |-> 1 + share[k] + rest \div size + (IF k < rest % size THEN 1 ELSE 0)]

\* A pair (SSTPair): a symbol's share and the sum of those before it.
Pair(ls, bs) == [ls |-> ls, bs |-> bs]

add_to_seq(ftable, s) == Pair(ftable[s], SumBelow(ftable, s))

\* hzrans64_inv_bs: the symbol before the first one that starts beyond slot bs.
inv_bs(ftable, size, bs) ==
  CHOOSE s \in 0..size-1 : SumBelow(ftable, s) <= bs /\ bs < SumBelow(ftable, s + 1)
=============================================================================
