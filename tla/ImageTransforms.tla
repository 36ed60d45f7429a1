---------------------------- MODULE ImageTransforms ----------------------------
(***************************************************************************)
(* The arithmetic of the image codec, sample by sample: the colour lifts   *)
(* of hzip_core/preprocessor/color.cpp and the Paeth differential of       *)
(* hzip_core/models/paeth.cpp.  A buffer is planar, a function from        *)
(* 0..size-1 to samples; widths are parameters.                            *)
(***************************************************************************)
EXTENDS Integers, Sequences, FiniteSets

\* 1 << n
Power2[n \in Nat] == IF n = 0 THEN 1 ELSE 2 * Power2[n - 1]

\* _mask, 2^bit_depth - 1, keeps the low bits of a sample.
Masked(v, depth) == v % Power2[depth]

-----------------------------------------------------------------------------
(* LinearU16XColorTransformer *)
forward_lift(p, depth) ==
  LET x    == Masked(p[1], depth)
      diff == Masked(Masked(p[2], depth) - x, depth)
  IN  <<Masked(x + diff \div 2, depth), diff>>

reverse_lift(p, depth) ==
  LET diff == Masked(p[2], depth)
      x    == Masked(Masked(p[1], depth) - diff \div 2, depth)
  IN  <<x, Masked(x + diff, depth)>>

\* One turn of the loop of cpu_rgb_to_ycocg, and of the kernel: pixel i of n.
rgb_to_ycocg(buf, i, n, depth) ==
  LET tempCo == forward_lift(<<buf[i], buf[i + 2 * n]>>, depth)
      yCg    == forward_lift(<<buf[i + n], tempCo[1]>>, depth)
  IN  [buf EXCEPT ![i] = yCg[1], ![i + n] = tempCo[2], ![i + 2 * n] = yCg[2]]

\* One turn of cpu_ycocg_to_rgb.
ycocg_to_rgb(buf, i, n, depth) ==
  LET greenTemp == reverse_lift(<<buf[i], buf[i + 2 * n]>>, depth)
      redBlue   == reverse_lift(<<greenTemp[2], buf[i + n]>>, depth)
  IN  [buf EXCEPT ![i] = redBlue[1], ![i + n] = greenTemp[1], ![i + 2 * n] = redBlue[2]]

-----------------------------------------------------------------------------
(* LinearU16PaethDifferential *)
absdiff(x, y) == IF x > y THEN x - y ELSE y - x

\* The neighbour nearest to |a + b - c|: left, up or diagonal, in that order.
PaethNearest(a, b, c) ==
  LET d       == absdiff(a + b, c)
      Near(v) == \A u \in {a, b, c} : absdiff(v, d) <= absdiff(u, d)
  IN  IF Near(a) THEN a ELSE IF Near(b) THEN b ELSE c

\* The prediction of sample i from the ones before it in its plane; the first
\* sample has none.
Prediction(buf, i, width, height) ==
  LET x == i % width
      y == (i \div width) % height
  IN  CASE x > 0 /\ y > 0 -> PaethNearest(buf[i - 1], buf[i - width], buf[i - width - 1])
        [] x > 0 /\ y = 0 -> buf[i - 1]
        [] x = 0 /\ y > 0 -> buf[i - width]
        [] x = 0 /\ y = 0 -> 0

\* Mutant: the borrow is one short.
DifferenceShort(t, d, depth) == IF t > d THEN t - d ELSE Power2[depth] + t - d

\* t >= d or a borrow of 1 << bit_depth.
Difference(t, d, depth) == IF t >= d THEN t - d ELSE Power2[depth] + t - d
=============================================================================
