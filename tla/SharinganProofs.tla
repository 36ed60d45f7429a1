----------------------------- MODULE SharinganProofs -----------------------------
(***************************************************************************)
(* Sharingan, for every image, every parameter and every number of work    *)
(* items: the transforms work in place, and every pair the coder gets is a *)
(* legal slot.  And, for samples of one byte, it is lossless: the decoder  *)
(* that the code lacks gets back from the words what the encoder was       *)
(* given.  The pairs are those of the model "as far as it has been         *)
(* decoded", the coder is a chain of encoder steps that the decoder walks  *)
(* back, and the transforms are undone sample by sample.                   *)
(***************************************************************************)
EXTENDS Sharingan, CodecProofs

(* Work items *)
Members(it) == {it[k] : k \in 1..Len(it)}

NoRepeats(it) == \A k, l \in 1..Len(it) : it[k] = it[l] => k = l

\* What is still to do: the members of the items.
ToDo(W) == UNION {Members(it) : it \in W}

\* Nothing is to be done twice.
Once(W) ==
  /\ \A it \in W : it \in Seq(Nat) /\ it # <<>> /\ NoRepeats(it)
  /\ \A a, b \in W : a # b => Members(a) \cap Members(b) = {}


LEMMA RestOf ==
  ASSUME NEW it \in Seq(Nat), it # <<>>, NoRepeats(it)
  PROVE  /\ Tail(it) \in Seq(Nat) /\ NoRepeats(Tail(it))
         /\ Members(Tail(it)) = Members(it) \ {Head(it)}
         /\ Head(it) \in Members(it) /\ Head(it) = it[1]
         /\ Tail(it) = <<>> <=> Members(it) = {Head(it)}
<1> DEFINE n == Len(it) - 1
           rest == Tail(it)
<1>1. n \in Nat /\ Len(it) = n + 1 /\ Head(it) = it[1] /\ 1 \in 1..Len(it)
      /\ rest \in Seq(Nat) /\ Len(rest) = n /\ \A k \in 1..n : rest[k] = it[k + 1]
  OBVIOUS
<1> HIDE DEF n, rest
<1>2. rest = <<>> <=> n = 0
  BY <1>1
<1>3. \A k, l \in 1..n+1 : it[k] = it[l] => k = l
  BY <1>1 DEF NoRepeats
<1>4. NoRepeats(rest)
  <2> SUFFICES ASSUME NEW k \in 1..n, NEW l \in 1..n, rest[k] = rest[l] PROVE k = l
    BY <1>1 DEF NoRepeats
  <2>1. it[k + 1] = it[l + 1] /\ k + 1 \in 1..n+1 /\ l + 1 \in 1..n+1
    BY <1>1
  <2>2. k + 1 = l + 1
    BY <2>1, <1>3
  <2> QED BY <2>2
<1>5. ASSUME NEW v \in Members(rest) PROVE v \in Members(it) \ {it[1]}
  <2>1. PICK k \in 1..n : rest[k] = v
    BY <1>1 DEF Members
  <2>2. v = it[k + 1] /\ k + 1 \in 1..n+1 /\ 1 \in 1..n+1 /\ k + 1 # 1
    BY <1>1, <2>1
  <2>3. v # it[1]
    BY <2>2, <1>3
  <2> QED BY <2>2, <2>3, <1>1 DEF Members
<1>6. ASSUME NEW v \in Members(it), v # it[1] PROVE v \in Members(rest)
  <2>1. PICK k \in 1..n+1 : it[k] = v
    BY <1>1 DEF Members
  <2>2. k - 1 \in 1..n /\ (k - 1) + 1 = k
    BY <2>1, <1>6, <1>1
  <2>3. rest[k - 1] = v
    BY <1>1, <2>1, <2>2
  <2> QED BY <2>2, <2>3, <1>1 DEF Members
<1>7. it[1] \in Members(it)
  BY <1>1 DEF Members
<1>8. n = 0 <=> Members(rest) = {}
  <2>1. n = 0 => Members(rest) = {}
    BY <1>1 DEF Members
  <2>2. n # 0 => rest[1] \in Members(rest)
    BY <1>1 DEF Members
  <2> QED BY <2>1, <2>2
<1> QED BY <1>1, <1>2, <1>4, <1>5, <1>6, <1>7, <1>8 DEF rest

LEMMA Advances ==
  ASSUME NEW W, Once(W), NEW it \in W, NEW V, V = (W \ {it}) \cup ({Tail(it)} \ {<<>>})
  PROVE  /\ Once(V) /\ ToDo(V) = ToDo(W) \ {Head(it)}
         /\ Head(it) \in ToDo(W) /\ Head(it) \in Nat
<1> DEFINE rest == Tail(it)
           v == Head(it)
<1>1. it \in Seq(Nat) /\ it # <<>> /\ NoRepeats(it) /\ v \in Nat
  BY DEF Once
<1>2. /\ rest \in Seq(Nat) /\ NoRepeats(rest)
      /\ Members(rest) = Members(it) \ {v} /\ v \in Members(it)
      /\ rest = <<>> <=> Members(it) = {v}
  BY <1>1, RestOf
<1>r. V = (W \ {it}) \cup ({rest} \ {<<>>})
  OBVIOUS
<1> HIDE DEF rest, v
<1>3. \A b : b \in V <=> (b \in W /\ b # it) \/ (b = rest /\ rest # <<>>)
  BY <1>r
<1>4. \A b \in W : b # it => Members(b) \cap Members(it) = {}
  BY DEF Once
<1>5. \A b \in V : b \in Seq(Nat) /\ b # <<>> /\ NoRepeats(b)
  BY <1>2, <1>3 DEF Once
<1>6. ASSUME NEW a \in V, NEW b \in V, a # b PROVE Members(a) \cap Members(b) = {}
  BY <1>2, <1>3, <1>4, <1>6 DEF Once
<1>7. Once(V)
  BY <1>5, <1>6 DEF Once
<1>8. ASSUME NEW b \in W, NEW m \in Members(b), m # v PROVE m \in ToDo(V)
  <2>1. CASE b = it
    <3>1. m \in Members(rest)
      BY <1>2, <1>8, <2>1
    <3>2. rest # <<>>
      BY <1>2, <1>8, <2>1
    <3> QED BY <3>1, <3>2, <1>3 DEF ToDo
  <2>2. CASE b # it
    BY <1>3, <1>8, <2>2 DEF ToDo
  <2> QED BY <2>1, <2>2
<1>9. ASSUME NEW b \in V, NEW m \in Members(b) PROVE m \in ToDo(W) /\ m # v
  <2>1. CASE b = rest
    BY <1>2, <1>9, <2>1 DEF ToDo
  <2>2. CASE b \in W /\ b # it
    BY <1>2, <1>4, <1>9, <2>2 DEF ToDo
  <2> QED BY <1>3, <2>1, <2>2
<1>10. ToDo(V) = ToDo(W) \ {v}
  BY <1>8, <1>9 DEF ToDo
<1> QED BY <1>1, <1>2, <1>7, <1>10 DEF ToDo, v

LEMMA NothingToDo ==
  ASSUME NEW W, Once(W)
  PROVE  (W = {}) <=> (ToDo(W) = {})
<1>1. ASSUME NEW it \in W PROVE it[1] \in ToDo(W)
  <2>1. it \in Seq(Nat) /\ it # <<>>
    BY DEF Once
  <2>2. 1 \in 1..Len(it)
    BY <2>1
  <2> QED BY <2>2 DEF ToDo, Members
<1>2. W = {} => ToDo(W) = {}
  BY DEF ToDo
<1> QED BY <1>1, <1>2

-----------------------------------------------------------------------------
(* What there is to do at first *)
LEMMA AscendingToDo ==
  ASSUME NEW n \in Nat \ {0}
  PROVE  Once({Ascending(n)}) /\ ToDo({Ascending(n)}) = 0..n-1
<1> DEFINE it == Ascending(n)
<1>1. it \in Seq(Nat) /\ Len(it) = n /\ \A k \in 1..n : it[k] = k - 1
  BY DEF Ascending
<1> HIDE DEF it
<1>2. it # <<>>
  BY <1>1
<1>3. NoRepeats(it)
  BY <1>1 DEF NoRepeats
<1>4. Members(it) = 0..n-1
  <2>1. ASSUME NEW v \in 0..n-1 PROVE v \in Members(it)
    <3>1. v + 1 \in 1..n /\ it[v + 1] = v
      BY <1>1
    <3> QED BY <3>1, <1>1 DEF Members
  <2>2. ASSUME NEW v \in Members(it) PROVE v \in 0..n-1
    <3>1. PICK k \in 1..n : it[k] = v
      BY <1>1 DEF Members
    <3> QED BY <3>1, <1>1
  <2> QED BY <2>1, <2>2
<1>5. Once({it})
  BY <1>1, <1>2, <1>3 DEF Once
<1>6. ToDo({it}) = Members(it)
  BY DEF ToDo
<1> QED BY <1>4, <1>5, <1>6 DEF it

LEMMA SinglesToDo ==
  ASSUME NEW n \in Nat
  PROVE  Once({<<c>> : c \in 0..n-1}) /\ ToDo({<<c>> : c \in 0..n-1}) = 0..n-1
<1> DEFINE W == {<<c>> : c \in 0..n-1}
<1>1. ASSUME NEW c \in 0..n-1
      PROVE  /\ <<c>> \in Seq(Nat) /\ <<c>> # <<>> /\ NoRepeats(<<c>>)
             /\ Members(<<c>>) = {c}
  <2> DEFINE it == <<c>>
  <2>1. it \in Seq(Nat) /\ it # <<>> /\ Len(it) = 1 /\ it[1] = c
    OBVIOUS
  <2> HIDE DEF it
  <2>2. NoRepeats(it)
    BY <2>1 DEF NoRepeats
  <2>3. Members(it) = {c}
    <3>1. 1 \in 1..Len(it) /\ \A k \in 1..Len(it) : k = 1
      BY <2>1
    <3> QED BY <2>1, <3>1 DEF Members
  <2> QED BY <2>1, <2>2, <2>3 DEF it
<1>2. \A it \in W : \E c \in 0..n-1 : it = <<c>>
  OBVIOUS
<1>3. \A c \in 0..n-1 : <<c>> \in W
  OBVIOUS
<1> HIDE DEF W
<1>4. ASSUME NEW a \in W, NEW b \in W, a # b PROVE Members(a) \cap Members(b) = {}
  <2>1. PICK c \in 0..n-1 : a = <<c>>
    BY <1>2
  <2>2. PICK d \in 0..n-1 : b = <<d>>
    BY <1>2
  <2>3. c # d
    BY <1>4, <2>1, <2>2
  <2> QED BY <1>1, <2>1, <2>2, <2>3
<1>5. ASSUME NEW it \in W PROVE it \in Seq(Nat) /\ it # <<>> /\ NoRepeats(it)
  BY <1>1, <1>2
<1>6. Once(W)
  BY <1>4, <1>5 DEF Once
<1>7. ASSUME NEW c \in 0..n-1 PROVE c \in ToDo(W)
  <2>1. <<c>> \in W /\ c \in Members(<<c>>)
    BY <1>1, <1>3
  <2> QED BY <2>1 DEF ToDo
<1>8. ASSUME NEW v \in ToDo(W) PROVE v \in 0..n-1
  <2>1. PICK it \in W : v \in Members(it)
    BY DEF ToDo
  <2>2. PICK c \in 0..n-1 : it = <<c>>
    BY <1>2
  <2> QED BY <1>1, <2>1, <2>2
<1> QED BY <1>6, <1>7, <1>8 DEF W

\* Rounding up.
LEMMA CeilingIs ==
  ASSUME NEW a \in Nat \ {0}, NEW b \in Nat \ {0}
  PROVE  /\ Ceiling(a, b) \in Nat \ {0} /\ a <= Ceiling(a, b) * b
         /\ \A k \in Nat : k < Ceiling(a, b) <=> k * b < a
<1> DEFINE q == a \div b
           r == a % b
           c == Ceiling(a, b)
<1>1. q \in Nat /\ r \in 0..b-1 /\ a = b * q + r
  BY DivMod
<1>2. c = q + (IF r # 0 THEN 1 ELSE 0)
  BY DEF Ceiling
<1> HIDE DEF q, r, c
<1>3. b * q \in Nat /\ b * q = q * b /\ (q + 1) * b = q * b + 1 * b
  BY <1>1, Distribute
<1>4. c \in Nat \ {0}
  <2>1. q = 0 => r # 0
    BY <1>1, <1>3, SMT
  <2> QED BY <1>1, <1>2, <2>1
<1>5. a <= c * b
  BY <1>1, <1>2, <1>3
<1>6. ASSUME NEW k \in Nat, k < c PROVE k * b < a
  <2>1. CASE r = 0
    <3>1. c = q /\ a = q * b /\ k + 1 <= q
      BY <1>1, <1>2, <1>3, <1>6, <2>1
    <3>2. (k + 1) * b <= q * b
      BY <3>1, <1>1, Monotone
    <3>3. (k + 1) * b = k * b + 1 * b /\ k * b \in Nat
      BY Distribute
    <3> QED BY <3>1, <3>2, <3>3, <1>3
  <2>2. CASE r # 0
    <3>1. c = q + 1 /\ k <= q
      BY <1>1, <1>2, <1>6, <2>2
    <3>2. k * b <= q * b /\ k * b \in Nat
      BY <3>1, <1>1, Monotone, Distribute
    <3> QED BY <3>2, <1>1, <1>3, <2>2
  <2> QED BY <2>1, <2>2
<1>7. ASSUME NEW k \in Nat, k >= c PROVE k * b >= a
  <2>1. c * b <= k * b
    BY <1>4, <1>7, Monotone
  <2>2. c * b \in Nat /\ k * b \in Nat
    BY <1>4, Distribute
  <2> QED BY <1>5, <2>1, <2>2
<1>8. ASSUME NEW k \in Nat PROVE k < c <=> k * b < a
  <2>1. k * b \in Nat
    BY Distribute
  <2> QED BY <1>4, <1>6, <1>7, <2>1
<1> QED BY <1>4, <1>5, <1>8 DEF c

\* The work items of a kernel share n indices out (the last ones have none).
LEMMA StridesToDo ==
  ASSUME NEW n \in Nat \ {0}
  PROVE  Once(Strides(n)) /\ ToDo(Strides(n)) = 0..n-1
<1> DEFINE stride == Ceiling(n, ClKernels)
           groups == Ceiling(Ceiling(n, stride), LocalSize)
           global == groups * LocalSize
           End(tid) == IF (tid + 1) * stride > n THEN n ELSE (tid + 1) * stride
           Item(tid) == [k \in 1..End(tid) - tid * stride |-> tid * stride + k - 1]
           tids == {t \in 0..global-1 : t * stride < n}
           W == {Item(tid) : tid \in tids}
<1>1. stride \in Nat \ {0}
  BY SharinganAssumption, CeilingIs
<1>2. global \in Nat /\ \A t \in Nat : t * stride < n => t < global
  <2>1. Ceiling(n, stride) \in Nat \ {0} /\ \A t \in Nat : t < Ceiling(n, stride) <=> t * stride < n
    BY <1>1, CeilingIs
  <2>2. groups \in Nat \ {0} /\ Ceiling(n, stride) <= groups * LocalSize
    BY <2>1, SharinganAssumption, CeilingIs
  <2>3. groups * LocalSize \in Nat
    BY <2>2, SharinganAssumption, Distribute
  <2> HIDE DEF stride, groups
  <2> QED BY <2>1, <2>2, <2>3
<1>3. Strides(n) = W
  BY DEF Strides
<1> HIDE DEF stride, groups, global
<1>4. ASSUME NEW t \in tids
      PROVE  /\ t \in Nat /\ t * stride \in Nat /\ t * stride < n
             /\ (t + 1) * stride = t * stride + stride
             /\ End(t) \in Nat /\ t * stride < End(t) /\ End(t) <= n /\ End(t) <= t * stride + stride
  <2>1. t \in Nat /\ t * stride < n
    OBVIOUS
  <2>2. t * stride \in Nat /\ (t + 1) * stride = t * stride + 1 * stride
    BY <1>1, <2>1, Distribute
  <2> QED BY <1>1, <2>1, <2>2
<1> HIDE DEF End
<1>5. ASSUME NEW t \in tids
      PROVE  /\ Item(t) \in Seq(Nat) /\ Item(t) # <<>> /\ NoRepeats(Item(t))
             /\ Members(Item(t)) = t * stride .. End(t)-1
  <2> DEFINE it == Item(t)
             a  == t * stride
             m  == End(t) - a
  <2>1. a \in Nat /\ m \in Nat \ {0} /\ End(t) = a + m
    BY <1>4
  <2> HIDE DEF a, m
  <2>2. it = [k \in 1..m |-> a + k - 1]
    BY DEF a, m
  <2>3. it \in Seq(Nat) /\ Len(it) = m /\ \A k \in 1..m : it[k] = a + k - 1
    <3>1. \A k \in 1..m : a + k - 1 \in Nat
      BY <2>1
    <3>2. it \in [1..m -> Nat] /\ \A k \in 1..m : it[k] = a + k - 1
      BY <2>2, <3>1
    <3>3. it \in Seq(Nat) /\ Len(it) = m
      BY <2>1, <3>2, IsSequence
    <3> QED BY <3>2, <3>3
  <2> HIDE DEF it
  <2>4. it # <<>> /\ NoRepeats(it)
    BY <2>1, <2>3 DEF NoRepeats
  <2>5. ASSUME NEW v \in a..a+m-1 PROVE v \in Members(it)
    <3>1. v - a + 1 \in 1..m /\ it[v - a + 1] = v
      BY <2>1, <2>3
    <3> QED BY <3>1, <2>3 DEF Members
  <2>6. ASSUME NEW v \in Members(it) PROVE v \in a..a+m-1
    <3>1. PICK k \in 1..m : it[k] = v
      BY <2>3 DEF Members
    <3> QED BY <2>1, <2>3, <3>1
  <2>7. Members(it) = a..End(t)-1
    <3>1. Members(it) = a..a+m-1
      BY <2>5, <2>6
    <3> QED BY <2>1, <3>1
  <2> QED BY <2>3, <2>4, <2>7 DEF it, a
<1>6. \A it \in W : \E t \in tids : it = Item(t)
  OBVIOUS
<1>7. \A t \in tids : Item(t) \in W
  OBVIOUS
<1> HIDE DEF W, Item, tids
<1>8. ASSUME NEW a \in W, NEW b \in W, a # b PROVE Members(a) \cap Members(b) = {}
  <2>1. PICK t \in tids : a = Item(t)
    BY <1>6
  <2>2. PICK u \in tids : b = Item(u)
    BY <1>6
  <2> SUFFICES ASSUME NEW v, v \in Members(a), v \in Members(b) PROVE FALSE
    OBVIOUS
  <2>3. v \in t * stride .. End(t)-1 /\ v \in u * stride .. End(u)-1
    BY <1>5, <2>1, <2>2
  <2>4. \A w \in tids : /\ w \in Nat /\ w * stride \in Nat /\ End(w) \in Nat
                        /\ End(w) <= w * stride + stride
    BY <1>4
  <2>5. v - t * stride \in 0..stride-1 /\ v - u * stride \in 0..stride-1 /\ v \in Nat
    BY <1>1, <2>3, <2>4
  <2>6. (t * stride + (v - t * stride)) \div stride = t
    BY <1>1, <2>4, <2>5, DivModUnique
  <2>7. (u * stride + (v - u * stride)) \div stride = u
    BY <1>1, <2>4, <2>5, DivModUnique
  <2>8. t * stride + (v - t * stride) = v /\ u * stride + (v - u * stride) = v
    BY <2>4, <2>5
  <2> QED BY <1>8, <2>1, <2>2, <2>6, <2>7, <2>8
<1>9. Once(W)
  <2>1. \A it \in W : it \in Seq(Nat) /\ it # <<>> /\ NoRepeats(it)
    BY <1>5, <1>6
  <2> QED BY <1>8, <2>1 DEF Once
<1>10. ASSUME NEW v \in 0..n-1 PROVE v \in ToDo(W)
  <2> DEFINE t == v \div stride
  <2>1. t \in Nat /\ v % stride \in 0..stride-1 /\ v = stride * t + (v % stride)
    BY <1>1, DivMod
  <2> HIDE DEF t
  <2>2. stride * t = t * stride /\ t * stride \in Nat
    BY <1>1, <2>1, Distribute
  <2>3. t * stride <= v /\ v < t * stride + stride
    BY <1>1, <2>1, <2>2
  <2>4. t \in 0..global-1 /\ t * stride < n
    BY <1>2, <2>1, <2>2, <2>3
  <2>5. t \in tids
    BY <2>4 DEF tids
  <2>6. v <= End(t) - 1
    <3>1. (t + 1) * stride = t * stride + stride
      BY <1>4, <2>5
    <3> QED BY <1>1, <2>2, <2>3, <3>1 DEF End
  <2>7. v \in Members(Item(t))
    <3>1. Members(Item(t)) = t * stride .. End(t)-1
      BY <1>5, <2>5
    <3>2. End(t) \in Nat
      BY <1>4, <2>5
    <3> QED BY <2>2, <2>3, <2>6, <3>1, <3>2
  <2> QED BY <1>7, <2>5, <2>7 DEF ToDo
<1>11. ASSUME NEW v \in ToDo(W) PROVE v \in 0..n-1
  <2>1. PICK it \in W : v \in Members(it)
    BY DEF ToDo
  <2>2. PICK t \in tids : it = Item(t)
    BY <1>6
  <2>3. v \in t * stride .. End(t)-1
    BY <1>5, <2>1, <2>2
  <2>4. t * stride \in Nat /\ End(t) \in Nat /\ End(t) <= n
    BY <1>4
  <2> QED BY <2>3, <2>4
<1> QED BY <1>3, <1>9, <1>10, <1>11

-----------------------------------------------------------------------------
(* The inductive invariant *)
Size         == nchannels * pixels
BufferLength == RowBytes(img) * img.height
SampleValues == 0..Power2[img.depth]-1

\* The samples as read, and what the colour transform and the filter make of
\* them.
Raw      == Planes(0)
Coloured == ColourOf(Raw)
Filtered == FilterOf(Coloured)

\* cpu_filter comes to the samples of a plane last one first, and all before one
\* that is to do are to do.
Descends(it) ==
  \A k, l \in 1..Len(it) : k < l /\ it[k] \div pixels = it[l] \div pixels => it[l] < it[k]

ToDoBefore(V) == \A v \in V : \A j \in 0..v : j \div pixels = v \div pixels => j \in V

\* A kernel of the filter is done with sample i.
FilterDone(i) ==
  i \div pixels < channel \/ (i \div pixels = channel /\ i % pixels \notin ToDo(work))

Settled ==
  /\ stage \in {"read", "preprocess", "colour", "apply_filter", "filter", "precode", "chunks",
                "encode", "done", "failed", "crashed"}
  /\ img \in Inputs /\ opencl \in BOOLEAN /\ params \in Parameters /\ device \in BOOLEAN
  /\ img = NotPng => stage \in {"read", "failed"}
  /\ IF stage = "read" \/ img = NotPng THEN buf = NoData ELSE buf \in [0..BufferLength-1 -> SampleValues]
  /\ device => opencl
  /\ Once(work)
  /\ stage \notin {"colour", "filter", "chunks"} => work = {}

ColourSoFar ==
  /\ stage = "preprocess" => \A i \in 0..Size-1 : buf[i] = Raw[i]
  /\ stage = "colour" =>
       /\ Transformable /\ ToDo(work) \subseteq 0..pixels-1
       /\ \A i \in 0..Size-1 : buf[i] = IF i % pixels \in ToDo(work) THEN Raw[i] ELSE Coloured[i]
  /\ stage = "apply_filter" => \A i \in 0..Size-1 : buf[i] = Coloured[i]

FilterSoFar ==
  /\ stage = "filter" /\ device =>
       /\ channel \in 0..nchannels-1 /\ ToDo(work) \subseteq 0..pixels-1
       /\ \A i \in channel * pixels .. Size-1 : input[i] = Coloured[i]
       /\ \A i \in 0..Size-1 : buf[i] = IF FilterDone(i) THEN Filtered[i] ELSE Coloured[i]
  /\ stage = "filter" /\ ~device =>
       /\ ToDo(work) \subseteq 0..Size-1 /\ ToDoBefore(ToDo(work))
       /\ \A a, b \in work : a = b
       /\ \A it \in work : Descends(it)
       /\ \A i \in 0..Size-1 : buf[i] = IF i \in ToDo(work) THEN Coloured[i] ELSE Filtered[i]
  /\ stage = "filter" => img.colour # "PALETTE"
  /\ stage \in {"precode", "chunks", "encode", "done"} =>
       \A i \in 0..Size-1 : buf[i] = Filtered[i]

\* The chunk of sample r of a plane.
ChunkNumber(r) ==
  ((r \div img.width) \div params.chunk_height) * XChunks + (r % img.width) \div params.chunk_width

ChunkDone(i) ==
  i \div pixels < channel \/ (i \div pixels = channel /\ ChunkNumber(i % pixels) \notin ToDo(work))

IsSet(i) == pairs[i] = NoPair => ResidueMisplaced(i)

PairsSoFar ==
  /\ \/ pairs = NoData /\ index = 0 /\ stage \notin {"chunks", "encode"}
     \/ /\ img # NotPng
        /\ pairs \in [0..Passes * pixels - 1 -> LegalPairs \cup {NoPair}]
        /\ index \in 0..Passes * pixels
  /\ stage = "chunks" =>
       /\ channel \in 0..Passes-1 /\ fresh \in Nat
       /\ ToDo(work) \subseteq 0..XChunks * YChunks - 1
       /\ \A i \in 0..Passes * pixels - 1 : ChunkDone(i) => IsSet(i)
  /\ stage = "encode" => \A i \in 0..Passes * pixels - 1 : IsSet(i)
  /\ x \in Nat /\ InRange(x)

Inv == Settled /\ ColourSoFar /\ FilterSoFar /\ PairsSoFar

-----------------------------------------------------------------------------
(* The image *)
LEMMA ImageFacts ==
  ASSUME img \in Inputs, img # NotPng
  PROVE  /\ IsImage(img) /\ nchannels \in {1, 3, 4} /\ nchannels \in Nat \ {0}
         /\ Transformable => nchannels \in {3, 4}
         /\ img.width \in Nat \ {0} /\ img.height \in Nat \ {0}
         /\ pixels \in Nat \ {0} /\ Size \in Nat \ {0} /\ pixels <= Size
         /\ BufferLength \in Nat /\ Size <= BufferLength
         /\ shift \in Nat /\ (shift # 0 => BufferLength = 2 * Size)
         /\ img.depth \in Nat
<1>1. IsImage(img) /\ ByteBits \in Nat \ {0}
  BY SharinganAssumption
<1> DEFINE c == nchannels
           w == img.width
           h == img.height
           d == img.depth
<1>2. w \in Nat \ {0} /\ h \in Nat \ {0} /\ d \in {ByteBits, 2 * ByteBits} /\ img.colour \in Colours
  BY <1>1 DEF IsImage
<1>3. c \in {1, 3, 4} /\ (Transformable => c \in {3, 4})
  BY <1>2 DEF nchannels, Channels, Colours, Transformable
<1>4. Size = c * (w * h) /\ BufferLength = c * w * (d \div ByteBits) * h /\ pixels = w * h
  BY DEF Size, BufferLength, RowBytes, pixels, nchannels
<1>5. shift = IF d > ByteBits THEN d - ByteBits ELSE 0
  BY DEF shift
<1> HIDE DEF c, w, h, d
<1>6. w * h \in Nat \ {0}
  BY <1>2, SMT
<1>7. (d = ByteBits => d \div ByteBits = 1) /\ (d = 2 * ByteBits => d \div ByteBits = 2)
  BY <1>1, SMT
<1>8. \A a, b, e \in Nat : (a * b * 1) * e = a * (b * e) /\ (a * b * 2) * e = 2 * (a * (b * e))
  BY SMT
<1>9. /\ d = ByteBits => BufferLength = c * (w * h)
      /\ d = 2 * ByteBits => BufferLength = 2 * (c * (w * h))
  BY <1>2, <1>3, <1>4, <1>7, <1>8
<1> DEFINE n == w * h
<1>10. n \in Nat \ {0} /\ c * n \in Nat /\ n <= c * n
  <2>1. n \in Nat \ {0}
    BY <1>6
  <2> HIDE DEF n
  <2> QED BY <2>1, <1>3
<1>11. Size = c * n /\ pixels = n
  BY <1>4
<1>12. /\ d = ByteBits => BufferLength = c * n
       /\ d = 2 * ByteBits => BufferLength = 2 * (c * n)
  BY <1>9
<1> DEFINE cn == c * n
<1> HIDE DEF n
<1>13. /\ cn \in Nat \ {0} /\ Size = cn /\ pixels \in Nat \ {0} /\ pixels <= cn
       /\ d = ByteBits => BufferLength = cn
       /\ d = 2 * ByteBits => BufferLength = 2 * cn
  BY <1>10, <1>11, <1>12
<1> HIDE DEF cn
<1>14. BufferLength \in Nat /\ Size <= BufferLength /\ shift \in Nat /\ d \in Nat
       /\ (shift # 0 => BufferLength = 2 * Size)
  BY <1>1, <1>2, <1>5, <1>13
<1> QED BY <1>1, <1>2, <1>3, <1>13, <1>14 DEF c, w, h, d

\* The values of a sample.
LEMMA ValueFacts ==
  ASSUME img \in Inputs, img # NotPng
  PROVE  /\ Power2[img.depth] \in Nat \ {0} /\ AlphabetSize \in Nat /\ AlphabetSize >= 2
         /\ Symbols \subseteq SampleValues /\ Power2[shift] \in Nat \ {0}
<1>1. ByteBits \in Nat \ {0} /\ img.depth \in {ByteBits, 2 * ByteBits} /\ shift \in Nat /\ img.depth \in Nat
  BY SharinganAssumption, ImageFacts DEF IsImage
<1>2. AlphabetSize \in Nat \ {0} /\ Power2[img.depth] \in Nat \ {0} /\ Power2[shift] \in Nat \ {0}
  BY <1>1, Power2Grows DEF AlphabetSize
<1>3. AlphabetSize <= Power2[img.depth]
  <2>1. \E k \in Nat : img.depth = ByteBits + k
    BY <1>1
  <2> QED BY <1>1, <2>1, Power2Grows DEF AlphabetSize
<1>4. AlphabetSize >= 2
  <2>1. ByteBits - 1 \in Nat /\ ByteBits = 1 + (ByteBits - 1) /\ 1 = 0 + 1
    BY <1>1
  <2>2. Power2[1] = 2
    BY <2>1, Power2Steps
  <2>3. Power2[1] <= Power2[1 + (ByteBits - 1)]
    BY <2>1, Power2Grows
  <2> QED BY <1>2, <2>1, <2>2, <2>3 DEF AlphabetSize
<1> QED BY <1>2, <1>3, <1>4 DEF Symbols, SampleValues


\* What depends on the image alone stays as it is.
LEMMA SameImage ==
  ASSUME img' = img
  PROVE  /\ pixels' = pixels /\ nchannels' = nchannels /\ Size' = Size
         /\ BufferLength' = BufferLength /\ SampleValues' = SampleValues
         /\ Transformable' = Transformable /\ shift' = shift
         /\ Raw' = Raw /\ Coloured' = Coloured /\ Filtered' = Filtered
<1>1. pixels' = pixels /\ nchannels' = nchannels
  BY DEF pixels, nchannels
<1>2. Transformable' = Transformable /\ shift' = shift /\ SampleValues' = SampleValues
  BY DEF Transformable, shift, SampleValues
<1>3. Size' = Size /\ BufferLength' = BufferLength
  BY <1>1 DEF Size, BufferLength, RowBytes
<1>4. Raw' = Raw
  BY <1>1 DEF Raw, Planes, RowBytes
<1>5. Coloured' = Coloured
  BY <1>1, <1>2, <1>4 DEF Coloured, ColourOf
<1>6. Filtered' = Filtered
  BY <1>5 DEF Filtered, FilterOf
<1> QED BY <1>1, <1>2, <1>3, <1>4, <1>5, <1>6


-----------------------------------------------------------------------------
(* Where a sample lies *)
\* Sample i of c planes of w * h is in line (i \div w) % h and column i % w of its
\* plane.
Splits(i, c, w, h, n) ==
  /\ i \div n \in 0..c-1 /\ i % n \in 0..n-1
  /\ i = (i \div n) * n + (i % n) /\ (i \div n) * n \in Nat
  /\ (i % n) \div w \in 0..h-1 /\ i % w \in 0..w-1
  /\ (i \div w) % h = (i % n) \div w
  /\ (i % n) % w = i % w
  /\ i % n = ((i % n) \div w) * w + (i % w) /\ ((i % n) \div w) * w \in Nat

LEMMA PlaneSplit ==
  ASSUME NEW c \in Nat \ {0}, NEW w \in Nat \ {0}, NEW h \in Nat \ {0}, NEW n \in Nat,
         n = w * h, NEW i \in Nat, i < c * n
  PROVE  Splits(i, c, w, h, n)
<1> DEFINE p == i \div n
           r == i % n
           y == r \div w
           col == r % w
<1>1. n \in Nat \ {0} /\ n = h * w
  BY SMT
<1>3. p \in 0..c-1 /\ r \in 0..n-1 /\ i = p * n + r /\ p * n \in Nat
  BY <1>1, DivBelow, Division
<1>4. y \in 0..h-1 /\ col \in 0..w-1 /\ r = y * w + col /\ y * w \in Nat
  <2>1. r \in Nat /\ r < h * w
    BY <1>1, <1>3
  <2> HIDE DEF r
  <2>2. y \in 0..h-1
    BY <2>1, DivBelow
  <2> QED BY <2>1, <2>2, Division
<1> HIDE DEF p, r, y, col
<1>5. p * n = (p * h) * w /\ p * h \in Nat
  <2>1. \A e \in Nat : e * (h * w) = (e * h) * w /\ e * h \in Nat
    BY SMT
  <2> QED BY <1>1, <1>3, <2>1
<1>6. (p * h) * w + y * w = (p * h + y) * w
  <2>1. y \in Nat
    BY <1>4
  <2> QED BY <1>5, <2>1, Distribute
<1>7. i = (p * h + y) * w + col
  BY <1>3, <1>4, <1>5, <1>6
<1>8. i \div w = p * h + y /\ i % w = col
  <2>1. p * h + y \in Nat
    BY <1>4, <1>5
  <2> HIDE DEF p
  <2> QED BY <1>4, <1>7, <2>1, DivModUnique
<1>9. (i \div w) % h = y
  <2>1. p \in Nat
    BY <1>3
  <2> QED BY <1>4, <1>8, <2>1, DivModUnique
<1> QED BY <1>3, <1>4, <1>8, <1>9 DEF p, r, y, col, Splits

\* The samples of the image.
LEMMA SamplePlace ==
  ASSUME img \in Inputs, img # NotPng, NEW i \in 0..Size-1
  PROVE  /\ i \in Nat /\ i \div pixels \in 0..nchannels-1 /\ i % pixels \in 0..pixels-1
         /\ i = (i \div pixels) * pixels + (i % pixels) /\ (i \div pixels) * pixels \in Nat
         /\ (i % pixels) \div img.width \in 0..img.height-1 /\ i % img.width \in 0..img.width-1
         /\ (i \div img.width) % img.height = (i % pixels) \div img.width
         /\ i % pixels = ((i % pixels) \div img.width) * img.width + (i % img.width)
         /\ ((i % pixels) \div img.width) * img.width \in Nat
         /\ i \in 0..BufferLength-1
<1>1. nchannels \in Nat \ {0} /\ img.width \in Nat \ {0} /\ img.height \in Nat \ {0}
      /\ Size \in Nat /\ BufferLength \in Nat /\ Size <= BufferLength
  BY ImageFacts
<1>2. pixels = img.width * img.height /\ Size = nchannels * pixels
  BY DEF pixels, Size
<1>3. i \in 0..BufferLength-1
  BY <1>1
<1>4. i \in 0..nchannels * pixels - 1
  BY <1>2
<1> DEFINE c == nchannels
           n == pixels
           w == img.width
           h == img.height
<1>5. /\ c \in Nat \ {0} /\ w \in Nat \ {0} /\ h \in Nat \ {0}
      /\ n \in Nat /\ n = w * h /\ i \in Nat /\ i < c * n
  <2>1. Size \in Nat /\ pixels \in Nat
    BY ImageFacts
  <2> QED BY <1>1, <1>2, <1>4, <2>1
<1> HIDE DEF c, n, w, h
<1>6. Splits(i, c, w, h, n)
  BY <1>5, PlaneSplit
<1> QED BY <1>3, <1>5, <1>6 DEF c, n, w, h, Splits

\* The planes hold samples, and beyond them what was there.
LEMMA PlanesTyped ==
  ASSUME img \in Inputs, img # NotPng, NEW fill \in Symbols
  PROVE  /\ Planes(fill) \in [0..BufferLength-1 -> SampleValues]
         /\ \A i \in 0..Size-1 : Planes(fill)[i] = Raw[i]
<1> DEFINE Value(i) == img.rows[(i % pixels) \div img.width][nchannels * (i % img.width) + (i \div pixels)]
<1>1. \A f : Planes(f) = [i \in 0..BufferLength-1 |-> IF i < Size THEN Value(i) ELSE f]
  BY DEF Planes, BufferLength, Size
<1>2. ASSUME NEW i \in 0..Size-1 PROVE Value(i) \in Symbols
  <2> DEFINE y == (i % pixels) \div img.width
             col == i % img.width
             z == i \div pixels
  <2>1. y \in 0..img.height-1 /\ col \in 0..img.width-1 /\ z \in 0..nchannels-1
    BY SamplePlace
  <2>2. nchannels \in Nat \ {0} /\ img.width \in Nat \ {0}
    BY ImageFacts
  <2>3. img.rows \in [0..img.height-1 -> [0..RowBytes(img)-1 -> Symbols]]
    BY ImageFacts DEF IsImage
  <2>4. nchannels * col + z \in 0..nchannels * img.width - 1
    <3> HIDE DEF y, col, z
    <3>1. col * nchannels + z \in 0..img.width * nchannels - 1
      BY <2>1, <2>2, PlaceBelow
    <3>2. col * nchannels = nchannels * col /\ img.width * nchannels = nchannels * img.width
      BY <2>1, <2>2, Distribute
    <3> QED BY <3>1, <3>2
  <2>5. RowBytes(img) \in Nat /\ nchannels * img.width <= RowBytes(img)
    <3>1. img.depth \in {ByteBits, 2 * ByteBits} /\ ByteBits \in Nat \ {0}
      BY SharinganAssumption, ImageFacts DEF IsImage
    <3>2. img.depth \div ByteBits \in {1, 2}
      BY <3>1, SMT
    <3>3. RowBytes(img) = nchannels * img.width * (img.depth \div ByteBits)
      BY DEF RowBytes, nchannels
    <3>4. nchannels * img.width \in Nat
      BY <2>2, Distribute
    <3> DEFINE line == nchannels * img.width
    <3>5. line \in Nat /\ RowBytes(img) = line * (img.depth \div ByteBits)
      BY <3>3, <3>4
    <3> HIDE DEF line
    <3>6. RowBytes(img) \in Nat /\ line <= RowBytes(img)
      BY <3>2, <3>5
    <3> QED BY <3>6 DEF line
  <2>6. nchannels * col + z \in 0..RowBytes(img)-1
    <3>1. nchannels * img.width \in Nat
      BY <2>2, Distribute
    <3> QED BY <2>4, <2>5, <3>1
  <2> HIDE DEF y, col, z
  <2>7. img.rows[y][nchannels * col + z] \in Symbols
    BY <2>1, <2>3, <2>6
  <2> QED BY <2>7 DEF y, col, z
<1> HIDE DEF Value
<1>3. Symbols \subseteq SampleValues /\ Size \in Nat /\ BufferLength \in Nat /\ Size <= BufferLength
  BY ValueFacts, ImageFacts
<1>4. ASSUME NEW i \in 0..BufferLength-1 PROVE (IF i < Size THEN Value(i) ELSE fill) \in SampleValues
  BY <1>2, <1>3
<1>5. Planes(fill) \in [0..BufferLength-1 -> SampleValues]
  BY <1>1, <1>4
<1>6. ASSUME NEW i \in 0..Size-1 PROVE Planes(fill)[i] = Raw[i]
  <2>1. i \in 0..BufferLength-1 /\ i < Size
    BY <1>3
  <2>2. Planes(fill)[i] = Value(i) /\ Planes(0)[i] = Value(i)
    BY <1>1, <2>1
  <2> QED BY <2>2 DEF Raw
<1> QED BY <1>5, <1>6


-----------------------------------------------------------------------------
(* The transforms, sample by sample *)
LEMMA MaskedTyped ==
  ASSUME NEW depth, Power2[depth] \in Nat \ {0}, NEW v \in Int
  PROVE  Masked(v, depth) \in 0..Power2[depth]-1
<1>1. \A m \in Nat \ {0} : v % m \in 0..m-1
  BY SMT
<1> QED BY <1>1 DEF Masked

LEMMA LiftTyped ==
  ASSUME NEW depth, Power2[depth] \in Nat \ {0}, NEW a \in Int, NEW b \in Int
  PROVE  /\ forward_lift(<<a, b>>, depth)[1] \in 0..Power2[depth]-1
         /\ forward_lift(<<a, b>>, depth)[2] \in 0..Power2[depth]-1
<1> DEFINE m    == Masked(a, depth)
           diff == Masked(Masked(b, depth) - m, depth)
           M    == Power2[depth]
<1>1. M \in Nat \ {0} /\ \A v \in Int : Masked(v, depth) \in 0..M-1
  BY MaskedTyped
<1>2. forward_lift(<<a, b>>, depth) = <<Masked(m + diff \div 2, depth), diff>>
  BY DEF forward_lift
<1> HIDE DEF M
<1>3. m \in Int /\ Masked(b, depth) \in Int
  BY <1>1
<1> HIDE DEF m
<1>4. Masked(b, depth) - m \in Int
  BY <1>3
<1>5. diff \in 0..M-1
  BY <1>1, <1>4
<1> HIDE DEF diff
<1>6. m + diff \div 2 \in Int
  BY <1>1, <1>3, <1>5
<1>7. Masked(m + diff \div 2, depth) \in 0..M-1
  BY <1>1, <1>6
<1> QED BY <1>2, <1>5, <1>7 DEF M

\* A turn of the colour transform changes the three samples of its pixel, to what
\* they alone determine.
TurnIsLocal(b, c, p, n, L, depth) ==
  /\ rgb_to_ycocg(b, p, n, depth) \in [0..L-1 -> 0..Power2[depth]-1]
  /\ \A i \in 0..L-1 : rgb_to_ycocg(b, p, n, depth)[i] =
       IF i \in {p, p + n, p + 2 * n} THEN rgb_to_ycocg(c, p, n, depth)[i] ELSE b[i]

LEMMA ColourStep ==
  ASSUME NEW n \in Nat \ {0}, NEW L \in Nat, 3 * n <= L, NEW p \in 0..n-1,
         NEW depth, Power2[depth] \in Nat \ {0},
         NEW b \in [0..L-1 -> 0..Power2[depth]-1], NEW c \in [0..L-1 -> 0..Power2[depth]-1],
         \A i \in {p, p + n, p + 2 * n} : b[i] = c[i]
  PROVE  TurnIsLocal(b, c, p, n, L, depth)
<1> DEFINE Value(k) == forward_lift(<<b[p], b[p + 2 * n]>>, depth)[k]
           yCg(k)   == forward_lift(<<b[p + n], Value(1)>>, depth)[k]
<1>1. {p, p + n, p + 2 * n} \subseteq 0..L-1 /\ p # p + n /\ p # p + 2 * n /\ p + n # p + 2 * n
  OBVIOUS
<1>2. b[p] = c[p] /\ b[p + n] = c[p + n] /\ b[p + 2 * n] = c[p + 2 * n]
  OBVIOUS
<1>3. rgb_to_ycocg(b, p, n, depth) =
        [b EXCEPT ![p] = yCg(1), ![p + n] = Value(2), ![p + 2 * n] = yCg(2)]
  BY DEF rgb_to_ycocg
<1>4. rgb_to_ycocg(c, p, n, depth) =
        [c EXCEPT ![p] = yCg(1), ![p + n] = Value(2), ![p + 2 * n] = yCg(2)]
  BY <1>2 DEF rgb_to_ycocg
<1>5. b[p] \in Int /\ b[p + n] \in Int /\ b[p + 2 * n] \in Int
  <2>1. Power2[depth] \in Nat
    OBVIOUS
  <2> QED BY <1>1, <2>1
<1>6. Value(1) \in 0..Power2[depth]-1 /\ Value(2) \in 0..Power2[depth]-1
  BY <1>5, LiftTyped
<1>7. Value(1) \in Int
  <2> HIDE DEF Value
  <2> QED BY <1>6
<1>8. yCg(1) \in 0..Power2[depth]-1 /\ yCg(2) \in 0..Power2[depth]-1
  <2> HIDE DEF Value
  <2> QED BY <1>5, <1>7, LiftTyped
<1> DEFINE u == yCg(1)
           v == Value(2)
           w == yCg(2)
           W == 0..Power2[depth]-1
           mine == {p, p + n, p + 2 * n}
           e == [b EXCEPT ![p] = u, ![p + n] = v, ![p + 2 * n] = w]
           g == [c EXCEPT ![p] = u, ![p + n] = v, ![p + 2 * n] = w]
<1>9. u \in W /\ v \in W /\ w \in W
  BY <1>6, <1>8
<1> HIDE DEF Value, yCg, u, v, w, W
<1>10. e \in [0..L-1 -> W]
  BY <1>9 DEF W
<1>11. \A i \in mine : e[i] = g[i]
  BY <1>1
<1>12. \A i \in 0..L-1 : i \notin mine => e[i] = b[i]
  OBVIOUS
<1>13. rgb_to_ycocg(b, p, n, depth) = e /\ rgb_to_ycocg(c, p, n, depth) = g
  BY <1>3, <1>4 DEF u, v, w
<1> HIDE DEF e, g, mine
<1>14. \A i \in 0..L-1 : e[i] = IF i \in mine THEN g[i] ELSE b[i]
  BY <1>11, <1>12
<1> QED BY <1>10, <1>13, <1>14 DEF TurnIsLocal, W, mine

\* A prediction depends on samples before it in its plane, and is a sample.
Predicts(from, other, i, w, h, V) ==
  Prediction(from, i, w, h) = Prediction(other, i, w, h) /\ Prediction(other, i, w, h) \in V

LEMMA PredictionLocal ==
  ASSUME NEW w \in Nat \ {0}, NEW h \in Nat \ {0}, NEW n \in Nat, n = w * h,
         NEW i \in Nat, NEW V, 0 \in V, NEW from, NEW other,
         \A j \in 0..i-1 : j \div n = i \div n => from[j] = other[j] /\ other[j] \in V
  PROVE  Predicts(from, other, i, w, h, V)
<1> DEFINE p == i \div n
           r == i % n
           y == (i \div w) % h
           col == i % w
<1>1. /\ p \in Nat /\ r \in 0..n-1 /\ i = p * n + r /\ p * n \in Nat
      /\ y \in Nat /\ col \in 0..w-1 /\ r = y * w + col /\ y * w \in Nat
  <2>1. i + 1 \in Nat \ {0} /\ i < (i + 1) * n
    <3>1. n \in Nat \ {0}
      BY SMT
    <3>2. (i + 1) * 1 <= (i + 1) * n
      <4>1. 1 * (i + 1) <= n * (i + 1)
        BY <3>1, Monotone
      <4>2. (i + 1) * n = n * (i + 1)
        BY Distribute
      <4> QED BY <4>1, <4>2
    <3>3. (i + 1) * n \in Nat
      BY Distribute
    <3> QED BY <3>2, <3>3
  <2>2. Splits(i, i + 1, w, h, n)
    BY <2>1, PlaneSplit
  <2>3. p \in 0..(i+1)-1 /\ r \in 0..n-1 /\ i = p * n + r /\ p * n \in Nat
    BY <2>2 DEF Splits
  <2>4. y = r \div w /\ y \in 0..h-1 /\ col \in 0..w-1
    BY <2>2 DEF Splits
  <2>5. r = (r \div w) * w + col /\ (r \div w) * w \in Nat
    BY <2>2 DEF Splits
  <2> HIDE DEF p, r, y, col
  <2>6. r = y * w + col /\ y * w \in Nat
    BY <2>4, <2>5
  <2> QED BY <2>3, <2>4, <2>6
<1>2. \A j \in 0..i-1 : j \div n = p => from[j] = other[j] /\ other[j] \in V
  OBVIOUS
<1>3. n \in Nat \ {0}
  BY SMT
<1> HIDE DEF p, r, y, col
<1>4. ASSUME NEW k \in 1..r PROVE from[i - k] = other[i - k] /\ other[i - k] \in V
  <2>1. i - k = p * n + (r - k) /\ r - k \in 0..n-1 /\ i - k \in 0..i-1
    BY <1>1
  <2>2. (i - k) \div n = p
    BY <1>1, <1>3, <2>1, DivModUnique
  <2> QED BY <1>2, <2>1, <2>2
<1>5. y > 0 => y * w >= w
  <2>1. y > 0 => 1 * w <= y * w
    BY <1>1, Monotone
  <2> QED BY <1>1, <2>1
<1>6. col > 0 => from[i - 1] = other[i - 1] /\ other[i - 1] \in V
  <2>1. col > 0 => 1 \in 1..r
    BY <1>1
  <2> QED BY <1>4, <2>1
<1>7. y > 0 => from[i - w] = other[i - w] /\ other[i - w] \in V
  <2>1. y > 0 => w \in 1..r
    BY <1>1, <1>5
  <2> QED BY <1>4, <2>1
<1>8. y > 0 /\ col > 0 => from[i - w - 1] = other[i - w - 1] /\ other[i - w - 1] \in V
  <2>1. y > 0 /\ col > 0 => w + 1 \in 1..r /\ i - (w + 1) = i - w - 1
    BY <1>1, <1>5
  <2> QED BY <1>4, <2>1
<1>9. \A a, b, d : PaethNearest(a, b, d) \in {a, b, d}
  BY DEF PaethNearest
<1>10. \A f : Prediction(f, i, w, h) =
                IF col > 0 THEN IF y > 0 THEN PaethNearest(f[i - 1], f[i - w], f[i - w - 1]) ELSE f[i - 1]
                ELSE IF y > 0 THEN f[i - w] ELSE 0
  <2>1. (col > 0 \/ col = 0) /\ ~(col > 0 /\ col = 0) /\ (y > 0 \/ y = 0) /\ ~(y > 0 /\ y = 0)
    BY <1>1
  <2> SUFFICES ASSUME NEW f
               PROVE  Prediction(f, i, w, h) =
                IF col > 0 THEN IF y > 0 THEN PaethNearest(f[i - 1], f[i - w], f[i - w - 1]) ELSE f[i - 1]
                ELSE IF y > 0 THEN f[i - w] ELSE 0
    OBVIOUS
  <2> DEFINE both == PaethNearest(f[i - 1], f[i - w], f[i - w - 1])
             left == f[i - 1]
             up   == f[i - w]
  <2>2. Prediction(f, i, w, h) =
          CASE col > 0 /\ y > 0 -> both [] col > 0 /\ y = 0 -> left
            [] col = 0 /\ y > 0 -> up [] col = 0 /\ y = 0 -> 0
    BY DEF Prediction, y, col
  <2> HIDE DEF both, left, up
  <2>3. Prediction(f, i, w, h) = IF col > 0 THEN IF y > 0 THEN both ELSE left ELSE IF y > 0 THEN up ELSE 0
    BY <2>1, <2>2
  <2> QED BY <2>3 DEF both, left, up
<1>12. CASE col > 0 /\ y > 0
  BY <1>6, <1>7, <1>8, <1>9, <1>10, <1>12 DEF Predicts
<1>13. CASE col > 0 /\ ~(y > 0)
  BY <1>6, <1>10, <1>13 DEF Predicts
<1>14. CASE ~(col > 0)
  BY <1>7, <1>10, <1>14 DEF Predicts
<1> QED BY <1>12, <1>13, <1>14

LEMMA DifferenceTyped ==
  ASSUME NEW depth, Power2[depth] \in Nat \ {0},
         NEW t \in 0..Power2[depth]-1, NEW d \in 0..Power2[depth]-1
  PROVE  Difference(t, d, depth) \in 0..Power2[depth]-1
BY DEF Difference

\* The image at every stage holds samples.
LEMMA ColouredTyped ==
  ASSUME img \in Inputs, img # NotPng
  PROVE  /\ Raw \in [0..BufferLength-1 -> SampleValues]
         /\ Coloured \in [0..BufferLength-1 -> SampleValues]
         /\ Transformable => \A i \in 0..BufferLength-1 :
              Coloured[i] = rgb_to_ycocg(Raw, i % pixels, pixels, img.depth)[i]
         /\ ~Transformable => Coloured = Raw
<1>1. Raw \in [0..BufferLength-1 -> SampleValues]
  <2>1. AlphabetSize \in Nat /\ AlphabetSize >= 2
    BY ValueFacts
  <2>2. 0 \in Symbols
    BY <2>1 DEF Symbols
  <2> QED BY <2>2, PlanesTyped DEF Raw
<1>2. /\ pixels \in Nat \ {0} /\ BufferLength \in Nat /\ Size = nchannels * pixels
      /\ Power2[img.depth] \in Nat \ {0} /\ Size <= BufferLength
      /\ Transformable => nchannels \in {3, 4}
  BY ImageFacts, ValueFacts DEF Size
<1>3. CASE Transformable
  <2>1. 3 * pixels <= BufferLength
    BY <1>2, <1>3
  <2>2. Coloured = [i \in 0..BufferLength-1 |-> rgb_to_ycocg(Raw, i % pixels, pixels, img.depth)[i]]
    BY <1>1, <1>3 DEF Coloured, ColourOf
  <2>3. ASSUME NEW i \in 0..BufferLength-1
        PROVE  rgb_to_ycocg(Raw, i % pixels, pixels, img.depth)[i] \in SampleValues
    <3>1. i % pixels \in 0..pixels-1
      BY <1>2, DivMod
    <3>2. rgb_to_ycocg(Raw, i % pixels, pixels, img.depth) \in [0..BufferLength-1 -> SampleValues]
      BY <1>1, <1>2, <2>1, <3>1, ColourStep DEF SampleValues, TurnIsLocal
    <3> QED BY <3>2
  <2> QED BY <1>1, <1>3, <2>2, <2>3
<1>4. CASE ~Transformable
  BY <1>1, <1>4 DEF Coloured, ColourOf
<1> QED BY <1>3, <1>4

LEMMA FilteredIs ==
  ASSUME img \in Inputs, img # NotPng
  PROVE  /\ img.colour = "PALETTE" => Filtered = Coloured
         /\ img.colour # "PALETTE" => \A i \in 0..Size-1 :
              Filtered[i] = Difference(Coloured[i], Prediction(Coloured, i, img.width, img.height), img.depth)
<1>1. Coloured \in [0..BufferLength-1 -> SampleValues]
  BY ColouredTyped
<1>2. \A i \in 0..Size-1 : i \in 0..BufferLength-1
  BY SamplePlace
<1> QED BY <1>1, <1>2 DEF Filtered, FilterOf

\* Sample i filtered from a buffer that agrees with the coloured image on i and on
\* what is before it in its plane.
LEMMA FilterStep ==
  ASSUME img \in Inputs, img # NotPng, img.colour # "PALETTE", NEW i \in 0..Size-1, NEW from,
         \A j \in 0..i : j \div pixels = i \div pixels => from[j] = Coloured[j]
  PROVE  /\ Difference(from[i], Prediction(from, i, img.width, img.height), img.depth) = Filtered[i]
         /\ Filtered[i] \in SampleValues
<1> DEFINE c == nchannels
           w == img.width
           h == img.height
           n == pixels
           M == Power2[img.depth]
           other == Coloured
<1>1. /\ c \in Nat \ {0} /\ w \in Nat \ {0} /\ h \in Nat \ {0} /\ n \in Nat /\ n = w * h
      /\ i \in Nat /\ i < c * n /\ M \in Nat \ {0} /\ Size \in Nat /\ Size <= BufferLength
      /\ BufferLength \in Nat
  <2>1. pixels = img.width * img.height /\ Size = nchannels * pixels
    BY DEF pixels, Size
  <2>2. i \in Nat /\ Size \in Nat /\ i < Size
    BY ImageFacts
  <2> QED BY <2>1, <2>2, ImageFacts, ValueFacts
<1>2. \A j \in 0..i : other[j] \in 0..M-1
  <2>1. Coloured \in [0..BufferLength-1 -> 0..M-1]
    BY ColouredTyped DEF SampleValues
  <2>2. \A j \in 0..i : j \in 0..BufferLength-1
    BY <1>1
  <2> QED BY <2>1, <2>2
<1>3. \A j \in 0..i-1 : j \div n = i \div n => from[j] = other[j] /\ other[j] \in 0..M-1
  BY <1>1, <1>2
<1>4. from[i] = other[i] /\ other[i] \in 0..M-1
  BY <1>1, <1>2
<1>5. Filtered[i] = Difference(other[i], Prediction(other, i, w, h), img.depth)
  BY FilteredIs
<1> HIDE DEF c, w, h, n, other, M
<1>6. Predicts(from, other, i, w, h, 0..M-1)
  <2>1. 0 \in 0..M-1
    BY <1>1
  <2> QED BY <1>1, <1>3, <2>1, PredictionLocal
<1>7. Filtered[i] \in 0..M-1
  BY <1>1, <1>4, <1>5, <1>6, DifferenceTyped DEF M, Predicts
<1> QED BY <1>4, <1>5, <1>6, <1>7 DEF w, h, M, SampleValues, Predicts


-----------------------------------------------------------------------------
(* The order of cpu_filter *)
LEMMA FilterOrderIs ==
  ASSUME img \in Inputs, img # NotPng
  PROVE  /\ Once({FilterOrder}) /\ ToDo({FilterOrder}) = 0..Size-1
         /\ Descends(FilterOrder) /\ ToDoBefore(0..Size-1)
<1> DEFINE it == FilterOrder
           n  == pixels
           p(k) == (k - 1) \div n
           r(k) == (k - 1) % n
<1>1. n \in Nat \ {0} /\ nchannels \in Nat /\ Size \in Nat \ {0} /\ Size = nchannels * n
  BY ImageFacts DEF Size
<1>2. it = [k \in 1..Size |-> p(k) * n + n - 1 - r(k)]
  BY DEF FilterOrder, Size
<1> HIDE DEF n
<1>3. ASSUME NEW k \in 1..Size
      PROVE  /\ p(k) \in 0..nchannels-1 /\ r(k) \in 0..n-1 /\ k - 1 = p(k) * n + r(k) /\ p(k) * n \in Nat
             /\ it[k] = p(k) * n + (n - 1 - r(k)) /\ it[k] \in 0..Size-1 /\ it[k] \in Nat
             /\ it[k] \div n = p(k) /\ it[k] % n = n - 1 - r(k)
  <2>1. k - 1 \in Nat /\ k - 1 < nchannels * n
    BY <1>1
  <2>2. p(k) \in 0..nchannels-1 /\ r(k) \in 0..n-1 /\ k - 1 = p(k) * n + r(k) /\ p(k) * n \in Nat
    BY <1>1, <2>1, DivBelow, Division
  <2>3. it[k] = p(k) * n + n - 1 - r(k)
    BY <1>2
  <2> DEFINE a == p(k)
             b == n - 1 - r(k)
  <2>4. a \in 0..nchannels-1 /\ b \in 0..n-1
    <3> HIDE DEF p, r
    <3> QED BY <1>1, <2>2
  <2>5. it[k] = a * n + b
    <3> HIDE DEF p, r, it
    <3> QED BY <1>1, <2>2, <2>3
  <2>6. a * n + b \in 0..nchannels*n-1 /\ (a * n + b) \div n = a /\ (a * n + b) % n = b
    <3> HIDE DEF a, b
    <3> QED BY <1>1, <2>4, PlaceBelow
  <2> HIDE DEF it, p, r
  <2>7. it[k] \in 0..Size-1 /\ it[k] \in Nat
    BY <1>1, <2>5, <2>6
  <2> QED BY <2>2, <2>5, <2>6, <2>7
<1>4. it \in Seq(Nat) /\ Len(it) = Size
  <2>1. DOMAIN it = 1..Size
    BY <1>2
  <2>2. it \in [1..Size -> Nat]
    <3> HIDE DEF p, r
    <3>1. \A k \in 1..Size : p(k) * n + n - 1 - r(k) = it[k]
      BY <1>2
    <3> QED BY <1>2, <1>3, <3>1
  <2> HIDE DEF it
  <2> QED BY <1>1, <2>2, IsSequence
<1> HIDE DEF it, p, r
<1>5. it # <<>>
  BY <1>1, <1>4
<1>6. ASSUME NEW k \in 1..Size, NEW l \in 1..Size, it[k] = it[l] PROVE k = l
  <2>1. p(k) = p(l) /\ n - 1 - r(k) = n - 1 - r(l)
    BY <1>3, <1>6
  <2>2. r(k) \in 0..n-1 /\ r(l) \in 0..n-1
    BY <1>3
  <2>3. r(k) = r(l)
    BY <1>1, <2>1, <2>2
  <2>4. k - 1 = p(k) * n + r(k) /\ l - 1 = p(l) * n + r(l) /\ p(k) * n \in Nat
    BY <1>3
  <2> QED BY <2>1, <2>2, <2>3, <2>4
<1>7. NoRepeats(it)
  BY <1>4, <1>6 DEF NoRepeats
<1>8. ASSUME NEW v \in 0..Size-1 PROVE v \in Members(it)
  <2> DEFINE a == v \div n
             b == v % n
             m == a * n + (n - 1 - b)
  <2>1. v \in Nat /\ v < nchannels * n
    BY <1>1
  <2>2. a \in 0..nchannels-1 /\ b \in 0..n-1 /\ v = a * n + b /\ a * n \in Nat
    BY <1>1, <2>1, DivBelow, Division
  <2>3. n - 1 - b \in 0..n-1
    <3> HIDE DEF b
    <3> QED BY <1>1, <2>2
  <2>4. m \in 0..nchannels*n-1 /\ m \div n = a /\ m % n = n - 1 - b
    <3> DEFINE c == n - 1 - b
    <3> HIDE DEF a, c
    <3> QED BY <1>1, <2>2, <2>3, PlaceBelow
  <2> HIDE DEF a, b, m
  <2>5. m + 1 \in 1..Size /\ (m + 1) - 1 = m
    BY <1>1, <2>4
  <2>6. p(m + 1) = a /\ r(m + 1) = n - 1 - b
    BY <2>4, <2>5 DEF p, r
  <2>7. it[m + 1] = a * n + (n - 1 - (n - 1 - b))
    BY <1>3, <2>5, <2>6
  <2>8. it[m + 1] = v
    BY <1>1, <2>2, <2>7
  <2> QED BY <1>4, <2>5, <2>8 DEF Members
<1>9. ASSUME NEW v \in Members(it) PROVE v \in 0..Size-1
  BY <1>3, <1>4 DEF Members
<1>10. Once({it}) /\ ToDo({it}) = Members(it)
  BY <1>4, <1>5, <1>7 DEF Once, ToDo
<1>11. ToDo({it}) = 0..Size-1
  BY <1>8, <1>9, <1>10
<1>12. Descends(it)
  <2> SUFFICES ASSUME NEW k \in 1..Size, NEW l \in 1..Size, k < l, it[k] \div n = it[l] \div n
               PROVE  it[l] < it[k]
    BY <1>4 DEF Descends, n
  <2>1. p(k) = p(l)
    BY <1>3
  <2>2. /\ k - 1 = p(k) * n + r(k) /\ l - 1 = p(l) * n + r(l) /\ p(k) * n \in Nat
        /\ r(k) \in 0..n-1 /\ r(l) \in 0..n-1
        /\ it[k] = p(k) * n + (n - 1 - r(k)) /\ it[l] = p(l) * n + (n - 1 - r(l))
    BY <1>3
  <2>3. r(k) < r(l)
    BY <1>1, <2>1, <2>2
  <2> QED BY <1>1, <2>1, <2>2, <2>3
<1>13. ToDoBefore(0..Size-1)
  <2> SUFFICES ASSUME NEW v \in 0..Size-1, NEW j \in 0..v PROVE j \in 0..Size-1
    BY DEF ToDoBefore
  <2> QED BY <1>1
<1> QED BY <1>10, <1>11, <1>12, <1>13 DEF it

LEMMA DescendsOn ==
  ASSUME NEW it \in Seq(Nat), it # <<>>, NoRepeats(it), Descends(it), ToDoBefore(Members(it))
  PROVE  Descends(Tail(it)) /\ ToDoBefore(Members(it) \ {Head(it)})
<1> DEFINE n == Len(it) - 1
           rest == Tail(it)
<1>1. n \in Nat /\ Len(it) = n + 1 /\ Head(it) = it[1] /\ 1 \in 1..n+1
      /\ Len(rest) = n /\ \A k \in 1..n : rest[k] = it[k + 1]
  OBVIOUS
<1> HIDE DEF n, rest
<1>2. \A k \in 1..n+1 : \A l \in 1..n+1 : k < l /\ it[k] \div pixels = it[l] \div pixels => it[l] < it[k]
  BY <1>1 DEF Descends
<1>3. Descends(rest)
  <2> SUFFICES ASSUME NEW k \in 1..n, NEW l \in 1..n, k < l, rest[k] \div pixels = rest[l] \div pixels
               PROVE  rest[l] < rest[k]
    BY <1>1 DEF Descends
  <2>1. k + 1 \in 1..n+1 /\ l + 1 \in 1..n+1 /\ k + 1 < l + 1 /\ rest[k] = it[k + 1] /\ rest[l] = it[l + 1]
    BY <1>1
  <2> QED BY <1>2, <2>1
<1>4. ASSUME NEW v \in Members(it) \ {it[1]}, NEW j \in 0..v, j \div pixels = v \div pixels
      PROVE  j \in Members(it) \ {it[1]}
  <2>1. j \in Members(it)
    BY <1>4 DEF ToDoBefore
  <2>2. PICK l \in 1..n+1 : it[l] = v
    BY <1>1 DEF Members
  <2>3. 1 < l
    BY <1>1, <2>2
  <2>4. it[1] \div pixels = v \div pixels => v < it[1]
    BY <1>1, <1>2, <2>2, <2>3
  <2>5. j # it[1]
    <3> SUFFICES ASSUME j = it[1] PROVE FALSE
      OBVIOUS
    <3>1. v < it[1]
      BY <1>4, <2>4
    <3>2. it[1] \in Nat /\ v \in Nat
      BY <1>1, <2>2
    <3> QED BY <3>1, <3>2
  <2> QED BY <2>1, <2>5
<1> QED BY <1>1, <1>3, <1>4 DEF ToDoBefore, rest


-----------------------------------------------------------------------------
(* A step of a transform *)
LEMMA ColourPixelKeeps ==
  ASSUME Settled, ColourSoFar, NEW it \in work, ColourPixel(it)
  PROVE  Settled' /\ ColourSoFar' /\ FilterSoFar'
<1> DEFINE p == Head(it)
           n == pixels
           turn(b) == rgb_to_ycocg(b, p, n, img.depth)
<1>1. /\ stage = "colour" /\ img' = img /\ opencl' = opencl /\ params' = params /\ device' = device
      /\ buf' = turn(buf) /\ work' = Advanced(it)
      /\ stage' = IF work' = {} THEN "apply_filter" ELSE stage
  BY DEF ColourPixel
<1>2. /\ img \in Inputs /\ img # NotPng /\ Once(work) /\ buf \in [0..BufferLength-1 -> SampleValues]
      /\ opencl \in BOOLEAN /\ params \in Parameters /\ device \in BOOLEAN /\ (device => opencl)
  BY <1>1 DEF Settled
<1>3. /\ Transformable /\ ToDo(work) \subseteq 0..n-1
      /\ \A i \in 0..Size-1 : buf[i] = IF i % n \in ToDo(work) THEN Raw[i] ELSE Coloured[i]
  BY <1>1 DEF ColourSoFar
<1>4. /\ Once(work') /\ ToDo(work') = ToDo(work) \ {p} /\ p \in ToDo(work) /\ p \in Nat
  BY <1>1, <1>2, Advances DEF Advanced
<1>5. /\ pixels' = n /\ Size' = Size /\ BufferLength' = BufferLength /\ SampleValues' = SampleValues
      /\ Transformable' = Transformable /\ Raw' = Raw /\ Coloured' = Coloured
  BY <1>1, SameImage
<1>6. /\ n \in Nat \ {0} /\ BufferLength \in Nat /\ Size = nchannels * n /\ nchannels \in {3, 4}
      /\ Size <= BufferLength /\ Power2[img.depth] \in Nat \ {0} /\ p \in 0..n-1
  BY <1>2, <1>3, <1>4, ImageFacts, ValueFacts DEF Size
<1>7. 3 * n <= Size /\ 3 * n <= BufferLength /\ Size \in Nat
  BY <1>6
<1>8. /\ Raw \in [0..BufferLength-1 -> SampleValues]
      /\ \A i \in 0..BufferLength-1 : Coloured[i] = rgb_to_ycocg(Raw, i % n, n, img.depth)[i]
  BY <1>2, <1>3, ColouredTyped
<1>9. \A i \in {p, p + n, p + 2 * n} : i \in 0..Size-1 /\ i % n = p
  <2>1. \A k \in Nat : (k * n + p) % n = p
    BY <1>6, DivModUnique
  <2>2. 0 * n + p = p /\ 1 * n + p = p + n /\ 2 * n + p = p + 2 * n
    BY <1>6
  <2>3. p % n = p /\ (p + n) % n = p /\ (p + 2 * n) % n = p
    BY <2>1, <2>2
  <2> QED BY <1>6, <1>7, <2>3
<1>10. \A i \in {p, p + n, p + 2 * n} : buf[i] = Raw[i]
  BY <1>3, <1>4, <1>9
<1> HIDE DEF p, n
<1>11. /\ turn(buf) \in [0..BufferLength-1 -> SampleValues]
       /\ \A i \in 0..BufferLength-1 : turn(buf)[i] =
            IF i \in {p, p + n, p + 2 * n} THEN turn(Raw)[i] ELSE buf[i]
  <2>1. TurnIsLocal(buf, Raw, p, n, BufferLength, img.depth)
    BY <1>2, <1>6, <1>7, <1>8, <1>10, ColourStep DEF SampleValues
  <2> QED BY <2>1 DEF TurnIsLocal, SampleValues
<1>12. \A i \in 0..BufferLength-1 : turn(Raw)[i] =
         IF i \in {p, p + n, p + 2 * n} THEN turn(Raw)[i] ELSE Raw[i]
  <2>1. TurnIsLocal(Raw, Raw, p, n, BufferLength, img.depth)
    BY <1>6, <1>7, <1>8, ColourStep DEF SampleValues
  <2> QED BY <2>1 DEF TurnIsLocal
<1> HIDE DEF turn
<1>13. ASSUME NEW i \in 0..Size-1
       PROVE  buf'[i] = IF i % n \in ToDo(work') THEN Raw[i] ELSE Coloured[i]
  <2>0. i \in 0..BufferLength-1
    BY <1>6, <1>7
  <2>1. CASE i \in {p, p + n, p + 2 * n}
    <3>1. i % n = p /\ i % n \notin ToDo(work')
      BY <1>4, <1>9, <2>1
    <3>2. Coloured[i] = turn(Raw)[i]
      BY <1>8, <2>0, <3>1 DEF turn
    <3> QED BY <1>1, <1>11, <2>0, <2>1, <3>1, <3>2
  <2>2. CASE i \notin {p, p + n, p + 2 * n} /\ i % n = p
    <3>1. i % n \notin ToDo(work') /\ buf[i] = Raw[i]
      BY <1>3, <1>4, <2>2 DEF n
    <3>2. Coloured[i] = turn(Raw)[i]
      BY <1>8, <2>0, <2>2 DEF turn
    <3>3. turn(Raw)[i] = Raw[i]
      BY <1>12, <2>0, <2>2
    <3> QED BY <1>1, <1>11, <2>0, <2>2, <3>1, <3>2, <3>3
  <2>3. CASE i % n # p
    <3>1. i \notin {p, p + n, p + 2 * n}
      BY <1>9, <2>3
    <3>2. (i % n \in ToDo(work')) <=> (i % n \in ToDo(work))
      BY <1>4, <2>3
    <3>3. buf'[i] = buf[i]
      BY <1>1, <1>11, <2>0, <3>1
    <3> QED BY <1>3, <3>2, <3>3 DEF n
  <2> QED BY <2>1, <2>2, <2>3
<1>14. Settled'
  <2>1. buf' \in [0..BufferLength'-1 -> SampleValues']
    BY <1>1, <1>5, <1>11
  <2>2. stage' \in {"colour", "apply_filter"} /\ (stage' = "apply_filter" => work' = {})
    BY <1>1
  <2> QED BY <1>1, <1>2, <1>4, <2>1, <2>2 DEF Settled
<1>15. ColourSoFar'
  <2>1. stage' = "apply_filter" => \A i \in 0..Size-1 : buf'[i] = Coloured[i]
    <3> SUFFICES ASSUME stage' = "apply_filter", NEW i \in 0..Size-1 PROVE buf'[i] = Coloured[i]
      OBVIOUS
    <3>1. ToDo(work') = {}
      BY <1>1 DEF ToDo
    <3> QED BY <1>13, <3>1
  <2>2. stage' \in {"colour", "apply_filter"} /\ ToDo(work') \subseteq 0..n-1
    BY <1>1, <1>3, <1>4
  <2> QED BY <1>3, <1>5, <1>13, <2>1, <2>2 DEF ColourSoFar
<1>16. FilterSoFar'
  <2>1. stage' \in {"colour", "apply_filter"}
    BY <1>1
  <2> QED BY <2>1 DEF FilterSoFar
<1> QED BY <1>14, <1>15, <1>16


\* A sample filtered in place by the loop.
LEMMA FilterLoopKeeps ==
  ASSUME Settled, FilterSoFar, NEW it \in work, FilterSample(it), ~device
  PROVE  Settled' /\ ColourSoFar' /\ FilterSoFar'
<1> DEFINE v == Head(it)
<1>1. /\ stage = "filter" /\ img' = img /\ opencl' = opencl /\ params' = params /\ device' = device
      /\ buf' = [buf EXCEPT ![0 + v] =
           Difference(buf[0 + v], Prediction(buf, 0 + v, img.width, img.height), img.depth)]
      /\ work' = Advanced(it)
      /\ stage' = IF work' = {} THEN "precode" ELSE stage
  BY DEF FilterSample
<1>2. /\ img \in Inputs /\ img # NotPng /\ Once(work) /\ buf \in [0..BufferLength-1 -> SampleValues]
      /\ opencl \in BOOLEAN /\ params \in Parameters /\ device \in BOOLEAN
  BY <1>1 DEF Settled
<1>3. /\ img.colour # "PALETTE" /\ ToDo(work) \subseteq 0..Size-1 /\ ToDoBefore(ToDo(work))
      /\ \A a \in work : a = it
      /\ Descends(it)
      /\ \A i \in 0..Size-1 : buf[i] = IF i \in ToDo(work) THEN Coloured[i] ELSE Filtered[i]
  BY <1>1 DEF FilterSoFar
<1>4. /\ Once(work') /\ ToDo(work') = ToDo(work) \ {v} /\ v \in ToDo(work) /\ v \in Nat
  BY <1>1, <1>2, Advances DEF Advanced
<1>5. /\ pixels' = pixels /\ Size' = Size /\ BufferLength' = BufferLength /\ SampleValues' = SampleValues
      /\ Coloured' = Coloured /\ Filtered' = Filtered
  BY <1>1, SameImage
<1>6. v \in 0..Size-1 /\ 0 + v = v /\ v \in 0..BufferLength-1 /\ Size \in Nat /\ Size <= BufferLength
      /\ BufferLength \in Nat
  BY <1>2, <1>3, <1>4, ImageFacts
<1>7. \A j \in 0..v : j \div pixels = v \div pixels => buf[j] = Coloured[j]
  <2> SUFFICES ASSUME NEW j \in 0..v, j \div pixels = v \div pixels PROVE buf[j] = Coloured[j]
    OBVIOUS
  <2>1. j \in ToDo(work)
    BY <1>3, <1>4 DEF ToDoBefore
  <2>2. j \in 0..Size-1
    BY <1>3, <2>1
  <2> QED BY <1>3, <2>1, <2>2
<1>8. /\ Difference(buf[v], Prediction(buf, v, img.width, img.height), img.depth) = Filtered[v]
      /\ Filtered[v] \in SampleValues
  BY <1>2, <1>3, <1>6, <1>7, FilterStep
<1>9. buf' = [buf EXCEPT ![v] = Filtered[v]]
  BY <1>1, <1>6, <1>8
<1>10. ASSUME NEW i \in 0..Size-1
       PROVE  buf'[i] = IF i \in ToDo(work') THEN Coloured[i] ELSE Filtered[i]
  <2>1. i \in 0..BufferLength-1
    BY <1>6
  <2>2. buf'[i] = IF i = v THEN Filtered[v] ELSE buf[i]
    BY <1>2, <1>9, <2>1
  <2> QED BY <1>3, <1>4, <2>2
<1>11. /\ Descends(Tail(it)) /\ ToDoBefore(ToDo(work'))
  <2>1. ToDo(work) = Members(it)
    BY <1>3 DEF ToDo
  <2>2. it \in Seq(Nat) /\ it # <<>> /\ NoRepeats(it)
    BY <1>2 DEF Once
  <2>3. ToDoBefore(Members(it))
    BY <1>3, <2>1
  <2>4. Descends(Tail(it)) /\ ToDoBefore(Members(it) \ {v})
    BY <1>3, <2>2, <2>3, DescendsOn
  <2> QED BY <1>4, <2>1, <2>4
<1>12. \A a \in work' : a = Tail(it)
  BY <1>1, <1>3 DEF Advanced
<1>13. stage' \in {"filter", "precode"} /\ (stage' = "precode" => work' = {})
  BY <1>1
<1>14. Settled'
  <2>1. buf' \in [0..BufferLength'-1 -> SampleValues']
    BY <1>2, <1>5, <1>8, <1>9
  <2> QED BY <1>1, <1>2, <1>4, <1>13, <2>1 DEF Settled
<1>15. ColourSoFar'
  BY <1>13 DEF ColourSoFar
<1>16. Descends(Tail(it))' /\ ToDoBefore(ToDo(work))'
  <2>1. Descends(Tail(it))'
    BY <1>5, <1>11 DEF Descends
  <2>2. ToDoBefore(ToDo(work))'
    BY <1>5, <1>11 DEF ToDoBefore
  <2> QED BY <2>1, <2>2
<1>17. FilterSoFar'
  <2>1. stage' = "precode" => \A i \in 0..Size-1 : buf'[i] = Filtered[i]
    <3> SUFFICES ASSUME stage' = "precode", NEW i \in 0..Size-1 PROVE buf'[i] = Filtered[i]
      OBVIOUS
    <3>1. ToDo(work') = {}
      BY <1>13 DEF ToDo
    <3> QED BY <1>10, <3>1
  <2>2. ToDo(work') \subseteq 0..Size-1
    BY <1>3, <1>4
  <2>3. \A a \in work' : Descends(a)'
    BY <1>12, <1>16
  <2>4. \A a, b \in work' : a = b
    BY <1>12
  <2>5. img'.colour # "PALETTE" /\ device' = FALSE
    BY <1>1, <1>2, <1>3
  <2> QED BY <1>5, <1>10, <1>13, <1>16, <2>1, <2>2, <2>3, <2>4, <2>5 DEF FilterSoFar
<1> QED BY <1>14, <1>15, <1>17

\* A sample filtered by a work item of a kernel, from the copy.
LEMMA FilterKernelKeeps ==
  ASSUME Settled, FilterSoFar, NEW it \in work, FilterSample(it), device
  PROVE  Settled' /\ ColourSoFar' /\ FilterSoFar'
<1> DEFINE v == Head(it)
           n == pixels
           i == channel * n + v
           rest == Advanced(it)
           again == rest = {} /\ channel + 1 < nchannels
           Done(j) == j \div n < channel \/ (j \div n = channel /\ j % n \notin ToDo(rest))
<1>1. /\ stage = "filter" /\ img' = img /\ opencl' = opencl /\ params' = params /\ device' = device
      /\ buf' = [buf EXCEPT ![i] =
           Difference(input[i], Prediction(input, i, img.width, img.height), img.depth)]
      /\ work' = IF again THEN Strides(n) ELSE rest
      /\ channel' = IF again THEN channel + 1 ELSE channel
      /\ input' = IF again THEN buf' ELSE IF rest = {} THEN NoData ELSE input
      /\ stage' = IF work' = {} THEN "precode" ELSE stage
  BY DEF FilterSample
<1>2. /\ img \in Inputs /\ img # NotPng /\ Once(work) /\ buf \in [0..BufferLength-1 -> SampleValues]
      /\ opencl \in BOOLEAN /\ params \in Parameters /\ device \in BOOLEAN /\ opencl
  BY <1>1 DEF Settled
<1>3. /\ img.colour # "PALETTE" /\ channel \in 0..nchannels-1 /\ ToDo(work) \subseteq 0..n-1
      /\ \A j \in channel * n .. Size-1 : input[j] = Coloured[j]
      /\ \A j \in 0..Size-1 : buf[j] = IF FilterDone(j) THEN Filtered[j] ELSE Coloured[j]
  BY <1>1 DEF FilterSoFar
<1>4. /\ Once(rest) /\ ToDo(rest) = ToDo(work) \ {v} /\ v \in ToDo(work) /\ v \in Nat
  BY <1>2, Advances DEF Advanced
<1>5. /\ pixels' = pixels /\ Size' = Size /\ BufferLength' = BufferLength /\ SampleValues' = SampleValues
      /\ Coloured' = Coloured /\ Filtered' = Filtered /\ nchannels' = nchannels
  BY <1>1, SameImage
<1>6. /\ n \in Nat \ {0} /\ nchannels \in Nat \ {0} /\ Size = nchannels * n /\ Size \in Nat
      /\ BufferLength \in Nat /\ Size <= BufferLength
  BY <1>2, ImageFacts DEF Size
<1>7. \A j \in 0..Size-1 : /\ j \in Nat /\ j \in 0..BufferLength-1 /\ j \div n \in 0..nchannels-1
                           /\ j % n \in 0..n-1 /\ j = (j \div n) * n + (j % n)
                           /\ (j \div n) * n \in Nat
  BY <1>2, SamplePlace
<1>8. v \in 0..n-1
  BY <1>3, <1>4
<1>9. i \in 0..Size-1 /\ i \div n = channel /\ i % n = v
  <2> HIDE DEF n, v
  <2> QED BY <1>3, <1>6, <1>8, PlaceBelow
<1>10. \A j \in 0..i : j \div n = i \div n => input[j] = Coloured[j]
  <2> SUFFICES ASSUME NEW j \in 0..i, j \div n = channel PROVE input[j] = Coloured[j]
    BY <1>9
  <2>1. j \in 0..Size-1
    <3> HIDE DEF i
    <3> QED BY <1>6, <1>9
  <2>2. j = channel * n + (j % n) /\ channel * n \in Nat /\ j % n \in 0..n-1
    BY <1>7, <2>1
  <2>3. j \in channel * n .. Size-1
    <3> DEFINE cn == channel * n
               m  == j % n
    <3>1. j = cn + m /\ cn \in Nat /\ m \in 0..n-1
      BY <2>2
    <3> HIDE DEF cn, m, n
    <3>2. j \in cn..Size-1
      BY <2>1, <1>6, <3>1
    <3> QED BY <3>2 DEF cn
  <2> QED BY <1>3, <2>3
<1> HIDE DEF v, n, i, rest, again
<1>11. /\ Difference(input[i], Prediction(input, i, img.width, img.height), img.depth) = Filtered[i]
       /\ Filtered[i] \in SampleValues
  BY <1>2, <1>3, <1>9, <1>10, FilterStep DEF n
<1>12. buf' = [buf EXCEPT ![i] = Filtered[i]]
  BY <1>1, <1>11
<1>13. ASSUME NEW j \in 0..Size-1
       PROVE  buf'[j] = IF Done(j) THEN Filtered[j] ELSE Coloured[j]
  <2>1. j \in 0..BufferLength-1
    BY <1>6
  <2>2. buf'[j] = IF j = i THEN Filtered[i] ELSE buf[j]
    BY <1>2, <1>12, <2>1
  <2>3. CASE j = i
    BY <1>4, <1>9, <2>2, <2>3
  <2>4. CASE j # i
    <3>1. ~(j \div n = channel /\ j % n = v)
      BY <1>7, <1>9, <2>4
    <3>2. Done(j) <=> FilterDone(j)
      BY <1>4, <3>1 DEF FilterDone, n
    <3> QED BY <1>3, <2>2, <2>4, <3>2
  <2> QED BY <2>3, <2>4
<1>14. Once(Strides(n)) /\ ToDo(Strides(n)) = 0..n-1
  BY <1>6, StridesToDo
<1>15. Once(work') /\ ToDo(work') \subseteq 0..n-1
  BY <1>1, <1>3, <1>4, <1>14
<1>16. stage' \in {"filter", "precode"} /\ (stage' = "precode" => work' = {})
  BY <1>1
<1>17. Settled'
  <2>1. buf' \in [0..BufferLength'-1 -> SampleValues']
    BY <1>2, <1>5, <1>11, <1>12
  <2> QED BY <1>1, <1>2, <1>15, <1>16, <2>1 DEF Settled
<1>18. ColourSoFar'
  BY <1>16 DEF ColourSoFar
<1>19. ASSUME NEW j \in 0..Size-1 PROVE Done(j) <=> FilterDone(j)'
  <2>1. FilterDone(j)' <=> (j \div n < channel' \/ (j \div n = channel' /\ j % n \notin ToDo(work')))
    BY <1>5 DEF FilterDone, n
  <2>2. CASE ~again
    BY <1>1, <2>1, <2>2
  <2>3. CASE again
    <3>1. channel' = channel + 1 /\ ToDo(work') = 0..n-1 /\ ToDo(rest) = {}
      BY <1>1, <1>14, <2>3 DEF again, ToDo
    <3>2. j % n \in 0..n-1 /\ j \div n \in 0..nchannels-1 /\ channel \in 0..nchannels-1
      BY <1>3, <1>7
    <3> DEFINE q == j \div n
    <3>3. Done(j) <=> q < channel \/ q = channel
      BY <3>1
    <3>4. FilterDone(j)' <=> q < channel + 1
      BY <2>1, <3>1, <3>2
    <3>5. q \in Nat /\ channel \in Nat
      BY <3>2
    <3> HIDE DEF q
    <3> QED BY <3>3, <3>4, <3>5
  <2> QED BY <2>2, <2>3
<1>20. ASSUME NEW j \in channel' * n .. Size-1, stage' = "filter" PROVE input'[j] = Coloured[j]
  <2>1. CASE ~again
    <3>1. work' = rest /\ rest # {} /\ channel' = channel /\ input' = input
      BY <1>1, <1>20, <2>1
    <3> QED BY <1>3, <3>1 DEF n
  <2>2. CASE again
    <3>1. channel' = channel + 1 /\ input' = buf' /\ channel \in Nat
      BY <1>1, <1>3, <2>2
    <3>2. (channel + 1) * n \in Nat /\ j \in (channel + 1) * n .. Size-1
      BY <1>6, <3>1, Distribute
    <3>3. j \in 0..Size-1 /\ (channel + 1) * n <= j
      BY <1>6, <3>2
    <3> DEFINE q == j \div n
    <3>4. q \in Nat /\ j = q * n + (j % n) /\ j % n \in 0..n-1
      BY <1>7, <3>3
    <3>5. q >= channel + 1
      <4> HIDE DEF q
      <4> SUFFICES ASSUME q <= channel PROVE FALSE
        BY <3>1, <3>4
      <4>1. q * n <= channel * n /\ (channel + 1) * n = channel * n + 1 * n
        BY <1>6, <3>1, <3>4, Monotone, Distribute
      <4>2. q * n \in Nat /\ channel * n \in Nat
        BY <1>6, <3>1, <3>4, Distribute
      <4> QED BY <1>6, <3>3, <3>4, <4>1, <4>2
    <3>6. ~Done(j)
      BY <3>1, <3>4, <3>5
    <3> QED BY <1>13, <3>1, <3>3, <3>6
  <2> QED BY <2>1, <2>2
<1>21. stage' = "precode" => \A j \in 0..Size-1 : buf'[j] = Filtered[j]
  <2> SUFFICES ASSUME stage' = "precode", NEW j \in 0..Size-1 PROVE buf'[j] = Filtered[j]
    OBVIOUS
  <2>1. Strides(n) # {}
    <3>1. 0 \in ToDo(Strides(n))
      BY <1>6, <1>14
    <3> QED BY <3>1 DEF ToDo
  <2>2. ~again /\ rest = {}
    BY <1>1, <1>16, <2>1
  <2>3. ~(channel + 1 < nchannels) /\ ToDo(rest) = {}
    BY <2>2 DEF again, ToDo
  <2>4. j \div n \in 0..nchannels-1 /\ channel \in 0..nchannels-1
    BY <1>3, <1>7
  <2>5. Done(j)
    BY <1>6, <2>3, <2>4
  <2> QED BY <1>13, <2>5
<1>22. FilterSoFar'
  <2>1. channel' \in 0..nchannels-1
    BY <1>1, <1>3, <1>6 DEF again
  <2>2. \A j \in 0..Size-1 : buf'[j] = IF FilterDone(j)' THEN Filtered[j] ELSE Coloured[j]
    BY <1>13, <1>19
  <2>3. img'.colour # "PALETTE" /\ device'
    BY <1>1, <1>3
  <2> QED BY <1>5, <1>15, <1>16, <1>20, <1>21, <2>1, <2>2, <2>3 DEF FilterSoFar, n
<1> QED BY <1>17, <1>18, <1>22


-----------------------------------------------------------------------------
(* The chunks of a plane *)
\* A chunk ends within the side, and has every index that falls to it.
LEMMA ChunkSideIs ==
  ASSUME NEW side \in Nat \ {0}, NEW chunk \in Nat \ {0}, NEW k \in Nat, k < Ceiling(side, chunk)
  PROVE  /\ ChunkSide(k, chunk, side) \in 1..chunk /\ k * chunk \in Nat
         /\ k * chunk + ChunkSide(k, chunk, side) <= side
         /\ \A a \in 0..side-1 : a \div chunk = k => a % chunk \in 0..ChunkSide(k, chunk, side)-1
<1> DEFINE s == ChunkSide(k, chunk, side)
           kc == k * chunk
<1>1. kc \in Nat /\ kc < side
  BY CeilingIs, Distribute
<1>2. s = IF kc + chunk > side THEN side % chunk ELSE chunk
  BY DEF ChunkSide
<1>3. kc + chunk > side => side % chunk = side - kc
  <2> DEFINE r == side - kc
  <2>1. kc + chunk > side => r \in 0..chunk-1
    BY <1>1
  <2>2. k * chunk + r = side
    BY <1>1
  <2> HIDE DEF r
  <2>3. r \in 0..chunk-1 => (k * chunk + r) % chunk = r
    BY DivModUnique
  <2> QED BY <2>1, <2>2, <2>3 DEF r
<1>4. s \in 1..chunk /\ kc + s <= side /\ (s = chunk \/ kc + s = side)
  <2> HIDE DEF kc, s
  <2> QED BY <1>1, <1>2, <1>3
<1>5. ASSUME NEW a \in 0..side-1, a \div chunk = k PROVE a % chunk \in 0..s-1
  <2>1. a \in Nat
    OBVIOUS
  <2>2. a % chunk \in 0..chunk-1 /\ a = (a \div chunk) * chunk + (a % chunk)
    BY <2>1, Division
  <2>3. a = kc + (a % chunk)
    BY <1>5, <2>2
  <2> HIDE DEF kc, s
  <2> QED BY <1>1, <1>4, <2>1, <2>2, <2>3
<1> QED BY <1>1, <1>4, <1>5

\* Where sample `at' of a chunk lies in its plane.
Place(chunk, at) == ChunkOffset(chunk) + at[2] * img.width + at[1]

\* And where its residue is taken to lie.
ResiduePlace(chunk, at) == ResidueOffset(chunk) + at[2] * img.width + at[1]

LEMMA ChunkFacts ==
  ASSUME img \in Inputs, img # NotPng, params \in Parameters
  PROVE  /\ params.chunk_width \in Nat \ {0} /\ params.chunk_height \in Nat \ {0}
         /\ params.order \in Nat /\ params.rate \in Nat
         /\ XChunks \in Nat \ {0} /\ YChunks \in Nat \ {0} /\ XChunks * YChunks \in Nat \ {0}
<1>1. /\ params.chunk_width \in Nat \ {0} /\ params.chunk_height \in Nat \ {0}
      /\ params.order \in Nat /\ params.rate \in Nat
  BY SharinganAssumption
<1>2. XChunks \in Nat \ {0} /\ YChunks \in Nat \ {0}
  BY <1>1, ImageFacts, CeilingIs DEF XChunks, YChunks
<1>3. XChunks * YChunks \in Nat \ {0}
  BY <1>2, SMT
<1> QED BY <1>1, <1>2, <1>3

\* A chunk's column and row of chunks, and its sides.
LEMMA ChunkShape ==
  ASSUME img \in Inputs, img # NotPng, params \in Parameters, NEW chunk \in 0..XChunks*YChunks-1
  PROVE  LET X == chunk % XChunks
             Y == chunk \div XChunks
             w == ChunkSide(X, params.chunk_width, img.width)
             h == ChunkSide(Y, params.chunk_height, img.height)
         IN  /\ X \in 0..XChunks-1 /\ Y \in 0..YChunks-1 /\ w \in Nat \ {0} /\ h \in Nat \ {0}
             /\ X * params.chunk_width \in Nat /\ X * params.chunk_width + w <= img.width
             /\ Y * params.chunk_height \in Nat /\ Y * params.chunk_height + h <= img.height
             /\ \A a \in 0..img.width-1 :
                  a \div params.chunk_width = X => a % params.chunk_width \in 0..w-1
             /\ \A a \in 0..img.height-1 :
                  a \div params.chunk_height = Y => a % params.chunk_height \in 0..h-1
<1> DEFINE X == chunk % XChunks
           Y == chunk \div XChunks
<1>1. /\ params.chunk_width \in Nat \ {0} /\ params.chunk_height \in Nat \ {0}
      /\ XChunks \in Nat \ {0} /\ YChunks \in Nat \ {0}
      /\ img.width \in Nat \ {0} /\ img.height \in Nat \ {0}
  BY ChunkFacts, ImageFacts
<1>2. X \in 0..XChunks-1 /\ Y \in 0..YChunks-1
  <2>1. XChunks * YChunks = YChunks * XChunks /\ XChunks * YChunks \in Nat
    BY <1>1, Distribute
  <2>2. chunk \in Nat /\ chunk < YChunks * XChunks
    BY <2>1
  <2> QED BY <1>1, <2>2, DivBelow, Division
<1>3. X \in Nat /\ X < Ceiling(img.width, params.chunk_width)
  <2> HIDE DEF X
  <2> QED BY <1>1, <1>2 DEF XChunks
<1>4. Y \in Nat /\ Y < Ceiling(img.height, params.chunk_height)
  <2> HIDE DEF Y
  <2> QED BY <1>1, <1>2 DEF YChunks
<1> HIDE DEF X, Y
<1>5. /\ ChunkSide(X, params.chunk_width, img.width) \in Nat \ {0}
      /\ X * params.chunk_width \in Nat
      /\ X * params.chunk_width + ChunkSide(X, params.chunk_width, img.width) <= img.width
      /\ \A a \in 0..img.width-1 : a \div params.chunk_width = X =>
           a % params.chunk_width \in 0..ChunkSide(X, params.chunk_width, img.width)-1
  <2> DEFINE s == ChunkSide(X, params.chunk_width, img.width)
  <2>1. /\ s \in 1..params.chunk_width /\ X * params.chunk_width \in Nat
        /\ X * params.chunk_width + s <= img.width
        /\ \A a \in 0..img.width-1 : a \div params.chunk_width = X => a % params.chunk_width \in 0..s-1
    BY <1>1, <1>3, ChunkSideIs
  <2>2. s \in Nat \ {0}
    <3> HIDE DEF s
    <3> QED BY <1>1, <2>1
  <2> QED BY <2>1, <2>2
<1>6. /\ ChunkSide(Y, params.chunk_height, img.height) \in Nat \ {0}
      /\ Y * params.chunk_height \in Nat
      /\ Y * params.chunk_height + ChunkSide(Y, params.chunk_height, img.height) <= img.height
      /\ \A a \in 0..img.height-1 : a \div params.chunk_height = Y =>
           a % params.chunk_height \in 0..ChunkSide(Y, params.chunk_height, img.height)-1
  <2> DEFINE s == ChunkSide(Y, params.chunk_height, img.height)
  <2>1. /\ s \in 1..params.chunk_height /\ Y * params.chunk_height \in Nat
        /\ Y * params.chunk_height + s <= img.height
        /\ \A a \in 0..img.height-1 : a \div params.chunk_height = Y => a % params.chunk_height \in 0..s-1
    BY <1>1, <1>4, ChunkSideIs
  <2>2. s \in Nat \ {0}
    <3> HIDE DEF s
    <3> QED BY <1>1, <2>1
  <2> QED BY <2>1, <2>2
<1> QED BY <1>2, <1>5, <1>6 DEF X, Y

\* The samples of a chunk lie in its plane.
LEMMA SamplesAre ==
  ASSUME img \in Inputs, img # NotPng, params \in Parameters, NEW chunk \in 0..XChunks*YChunks-1
  PROVE  /\ Samples(chunk) \in Seq(Nat \X Nat)
         /\ \A k \in 1..Len(Samples(chunk)) :
              LET at == Samples(chunk)[k]
              IN  /\ at[1] \in Nat /\ at[2] \in Nat /\ at[2] * img.width \in Nat
                  /\ ChunkOffset(chunk) \in Nat /\ Place(chunk, at) \in 0..pixels-1
                  /\ ResidueOffset(chunk) \in Nat
                  /\ ResiduePlace(chunk, at) \in 0..pixels-1
<1> DEFINE X == chunk % XChunks
           Y == chunk \div XChunks
           w == ChunkSide(X, params.chunk_width, img.width)
           h == ChunkSide(Y, params.chunk_height, img.height)
           n == w * h
           s == Samples(chunk)
           cw == X * params.chunk_width
           chh == Y * params.chunk_height
           wid == img.width
           hei == img.height
<1>1. /\ w \in Nat \ {0} /\ h \in Nat \ {0} /\ cw \in Nat /\ chh \in Nat
      /\ cw + w <= wid /\ chh + h <= hei
  BY ChunkShape
<1>2. wid \in Nat \ {0} /\ hei \in Nat \ {0} /\ pixels = wid * hei
  BY ImageFacts DEF pixels
<1>3. s = [k \in 1..n |-> <<(k - 1) % w, (k - 1) \div w>>]
  BY DEF Samples
<1>4. ChunkOffset(chunk) = chh * wid + cw /\ ResidueOffset(chunk) = chh + cw
  BY DEF ChunkOffset, ResidueOffset
<1> HIDE DEF X, Y, w, h, s, cw, chh, wid, hei
<1>5. n \in Nat /\ n = h * w
  BY <1>1, Distribute
<1> HIDE DEF n
<1>6. ASSUME NEW k \in 1..n PROVE (k - 1) % w \in 0..w-1 /\ (k - 1) \div w \in 0..h-1
  <2>1. k - 1 \in Nat /\ k - 1 < h * w
    BY <1>5
  <2> QED BY <1>1, <2>1, DivBelow, Division
<1>7. \A k \in 1..n : (k - 1) % w \in Nat /\ (k - 1) \div w \in Nat
  BY <1>1, <1>6
<1>8. s \in [1..n -> Nat \X Nat]
  BY <1>3, <1>7
<1>9. s \in Seq(Nat \X Nat) /\ Len(s) = n
  BY <1>5, <1>8, IsSequence
<1>10. ASSUME NEW k \in 1..n
       PROVE  /\ s[k][1] \in Nat /\ s[k][2] \in Nat /\ s[k][2] * wid \in Nat
              /\ ChunkOffset(chunk) \in Nat
              /\ ChunkOffset(chunk) + s[k][2] * wid + s[k][1] \in 0..pixels-1
              /\ ResidueOffset(chunk) \in Nat
              /\ ResidueOffset(chunk) + s[k][2] * wid + s[k][1] \in 0..pixels-1
  <2> DEFINE a == s[k][1]
             b == s[k][2]
  <2>1. a = (k - 1) % w /\ b = (k - 1) \div w
    BY <1>3
  <2>2. a \in 0..w-1 /\ b \in 0..h-1
    BY <1>6, <2>1
  <2> HIDE DEF a, b
  <2>3. a \in Nat /\ b \in Nat /\ cw + a \in 0..wid-1 /\ chh + b \in 0..hei-1
    BY <1>1, <1>2, <2>2
  <2>4. (chh + b) * wid = chh * wid + b * wid /\ b * wid \in Nat /\ chh * wid \in Nat
        /\ hei * wid = wid * hei /\ chh * 1 <= chh * wid
    <3>1. 1 * chh <= wid * chh /\ wid * chh = chh * wid
      BY <1>1, <1>2, Monotone, Distribute
    <3> QED BY <1>1, <1>2, <2>3, <3>1, Distribute
  <2>5. (chh + b) * wid + (cw + a) \in 0..hei*wid-1
    <3> DEFINE q == chh + b
               r == cw + a
    <3>1. q \in 0..hei-1 /\ r \in 0..wid-1
      BY <2>3
    <3> HIDE DEF q, r
    <3>2. q * wid + r \in 0..hei*wid-1
      BY <1>2, <3>1, PlaceBelow
    <3> QED BY <3>2 DEF q, r
  <2> DEFINE A == chh * wid
             B == b * wid
             N == wid * hei
  <2>6. A \in Nat /\ B \in Nat /\ chh <= A /\ A + B + (cw + a) \in 0..N-1
    BY <1>1, <2>4, <2>5
  <2> HIDE DEF A, B, N
  <2>7. A + cw \in Nat /\ A + cw + B + a \in 0..N-1 /\ chh + cw \in Nat /\ chh + cw + B + a \in 0..N-1
    <3>1. N \in Nat
      BY <1>2, Distribute DEF N
    <3> QED BY <1>1, <2>3, <2>6, <3>1
  <2>8. ChunkOffset(chunk) = A + cw /\ ResidueOffset(chunk) = chh + cw /\ pixels = N
    BY <1>2, <1>4 DEF A, N
  <2> QED BY <2>3, <2>6, <2>7, <2>8 DEF a, b, B
<1> QED BY <1>9, <1>10 DEF Place, ResiduePlace, wid, s

\* Every sample of a plane lies in the chunk of its number.
LEMMA ChunksTile ==
  ASSUME img \in Inputs, img # NotPng, params \in Parameters, NEW r \in 0..pixels-1
  PROVE  /\ ChunkNumber(r) \in 0..XChunks*YChunks-1
         /\ \E k \in 1..Len(Samples(ChunkNumber(r))) :
              Place(ChunkNumber(r), Samples(ChunkNumber(r))[k]) = r
<1> DEFINE y == r \div img.width
           col == r % img.width
           X == col \div params.chunk_width
           Y == y \div params.chunk_height
           wid == img.width
           cwid == params.chunk_width
           chei == params.chunk_height
<1>1. /\ cwid \in Nat \ {0} /\ chei \in Nat \ {0}
      /\ XChunks \in Nat \ {0} /\ YChunks \in Nat \ {0}
      /\ wid \in Nat \ {0} /\ img.height \in Nat \ {0}
  BY ChunkFacts, ImageFacts
<1>2. /\ y \in 0..img.height-1 /\ col \in 0..wid-1 /\ r = y * wid + col /\ y * wid \in Nat
  <2>1. pixels = img.height * img.width /\ pixels \in Nat
    BY ImageFacts, Distribute DEF pixels
  <2>2. r \in Nat /\ r < img.height * img.width
    BY <2>1
  <2> QED BY <1>1, <2>2, DivBelow, Division
<1>3. X \in 0..XChunks-1 /\ col = X * cwid + (col % cwid) /\ col % cwid \in 0..cwid-1
  <2>1. col \in Nat /\ col < wid
    BY <1>1, <1>2
  <2>2. wid <= XChunks * cwid /\ XChunks * cwid \in Nat
    BY <1>1, CeilingIs, Distribute DEF XChunks
  <2> HIDE DEF y, col, wid, cwid
  <2>3. col < XChunks * cwid
    BY <1>1, <2>1, <2>2
  <2> QED BY <1>1, <2>1, <2>3, DivBelow, Division DEF cwid
<1>4. Y \in 0..YChunks-1 /\ y = Y * chei + (y % chei) /\ y % chei \in 0..chei-1
  <2>1. y \in Nat /\ y < img.height
    <3> HIDE DEF y
    <3> QED BY <1>1, <1>2
  <2>2. img.height <= YChunks * chei /\ YChunks * chei \in Nat
    BY <1>1, CeilingIs, Distribute DEF YChunks
  <2> HIDE DEF y, col, wid, chei
  <2>3. y < YChunks * chei
    BY <1>1, <2>1, <2>2
  <2> QED BY <1>1, <2>1, <2>3, DivBelow, Division DEF chei
<1> DEFINE c == ChunkNumber(r)
<1>5. c = Y * XChunks + X
  BY DEF ChunkNumber
<1> HIDE DEF X, Y, c
<1>6. c \in 0..XChunks*YChunks-1 /\ c \div XChunks = Y /\ c % XChunks = X
  <2>1. Y * XChunks + X \in 0..YChunks*XChunks-1 /\ (Y * XChunks + X) \div XChunks = Y
        /\ (Y * XChunks + X) % XChunks = X
    <3>1. Y \in 0..YChunks-1 /\ X \in 0..XChunks-1
      BY <1>3, <1>4
    <3>2. YChunks \in Nat
      BY <1>1
    <3> QED BY <1>1, <3>1, <3>2, PlaceBelow
  <2>2. YChunks * XChunks = XChunks * YChunks
    BY <1>1, Distribute
  <2> QED BY <1>5, <2>1, <2>2
<1> DEFINE w == ChunkSide(X, cwid, wid)
           h == ChunkSide(Y, chei, img.height)
           a == col % cwid
           b == y % chei
           s == Samples(c)
<1>7. w \in Nat \ {0} /\ h \in Nat \ {0} /\ a \in 0..w-1 /\ b \in 0..h-1
  <2>1. col \div cwid = X /\ y \div chei = Y
    BY DEF X, Y
  <2> HIDE DEF y, col
  <2> QED BY <1>2, <1>6, <2>1, ChunkShape
<1>8. s = [k \in 1..w * h |-> <<(k - 1) % w, (k - 1) \div w>>]
  BY <1>6 DEF Samples
<1>9. ChunkOffset(c) = Y * chei * wid + X * cwid
  BY <1>6 DEF ChunkOffset
<1> HIDE DEF y, col, wid, cwid, chei, w, h, a, b, s
<1> DEFINE k == b * w + a + 1
<1>10. k \in 1..w*h /\ k - 1 = b * w + a
  <2>1. b * w + a \in 0..h*w-1 /\ h * w = w * h
    BY <1>7, PlaceBelow, Distribute
  <2> DEFINE m == b * w + a
             N == w * h
  <2>2. m \in 0..N-1 /\ N \in Nat
    BY <1>7, <2>1, Distribute
  <2>3. k = m + 1
    OBVIOUS
  <2> HIDE DEF m, N
  <2>4. k \in 1..N /\ k - 1 = m
    BY <2>2, <2>3
  <2> QED BY <2>4 DEF m, N
<1>11. (b * w + a) % w = a /\ (b * w + a) \div w = b
  BY <1>7, PlaceBelow
<1> HIDE DEF k
<1>12. s[k] = <<a, b>>
  BY <1>8, <1>10, <1>11
<1>13. Place(c, s[k]) = r
  <2>1. Place(c, s[k]) = Y * chei * wid + X * cwid + b * wid + a
    BY <1>9, <1>12 DEF Place, wid
  <2>2. y = Y * chei + b /\ col = X * cwid + a /\ r = y * wid + col
    BY <1>2, <1>3, <1>4 DEF a, b
  <2>3. Y \in Nat /\ X \in Nat /\ b \in Nat /\ a \in Nat
    BY <1>1, <1>3, <1>4, <1>7
  <2>4. Y * chei \in Nat /\ X * cwid \in Nat
    BY <1>1, <2>3, Distribute
  <2>5. (Y * chei + b) * wid = Y * chei * wid + b * wid /\ Y * chei * wid \in Nat /\ b * wid \in Nat
    BY <1>1, <2>3, <2>4, Distribute
  <2> QED BY <2>1, <2>2, <2>3, <2>4, <2>5
<1>14. k \in 1..Len(s)
  <2>1. w * h \in Nat
    BY <1>7, Distribute
  <2>2. \A j \in 1..w*h : (j - 1) % w \in Int /\ (j - 1) \div w \in Int
    BY <1>7, SMT
  <2>3. s \in [1..w*h -> Int \X Int]
    BY <1>8, <2>2
  <2>4. Len(s) = w * h
    BY <2>1, <2>3, IsSequence
  <2> QED BY <1>10, <2>4
<1> QED BY <1>6, <1>13, <1>14 DEF c, s


-----------------------------------------------------------------------------
(* The model of a chunk *)
FMaps    == [Symbols -> [Symbols -> Nat]]
PairMaps == [0..Passes * pixels - 1 -> LegalPairs \cup {NoPair}]

\* The maps as the contexts of a sample are learnt, one after the other.
LearntTurn(m, c, s) == [m EXCEPT ![c[1]][s] = @ + c[2]]

LearntFold(f_map, contexts, s, h) ==
  /\ h \in [0..Len(contexts) -> FMaps] /\ h[0] = f_map
  /\ \A k \in 0..Len(contexts)-1 : h[k + 1] = LearntTurn(h[k], contexts[k + 1], s)
  /\ Learnt(f_map, contexts, s) = h[Len(contexts)]

LEMMA LearntFolds ==
  ASSUME NEW f_map \in FMaps, NEW contexts \in Seq(Symbols \X Nat), NEW s \in Symbols
  PROVE  \E h : LearntFold(f_map, contexts, s, h)
<1> DEFINE n == Len(contexts)
           Turn(m, c) == [m EXCEPT ![c[1]][s] = @ + c[2]]
           step == [k \in 1..n |-> [m \in FMaps |-> Turn(m, contexts[k])]]
           IsFold(it) ==
             it = [t \in SUBSET (1..n) |->
                    IF t = {} THEN f_map ELSE Turn(it[t \ {Max(t)}], contexts[Max(t)])]
           fold == CHOOSE it : IsFold(it)
<1>1. n \in Nat /\ contexts \in [1..n -> Symbols \X Nat] /\ DOMAIN contexts = 1..n
  BY LenProperties
<1>2. ASSUME NEW m \in FMaps, NEW k \in 1..n PROVE Turn(m, contexts[k]) \in FMaps
  <2>1. contexts[k] \in Symbols \X Nat
    BY <1>1
  <2>2. contexts[k][1] \in Symbols /\ contexts[k][2] \in Nat
    BY <2>1
  <2> DEFINE c == contexts[k][1]
             d == contexts[k][2]
  <2> HIDE DEF c, d
  <2>3. c \in Symbols /\ d \in Nat
    BY <2>2 DEF c, d
  <2> DEFINE row == [m[c] EXCEPT ![s] = m[c][s] + d]
  <2>4. row \in [Symbols -> Nat]
    <3>1. m[c] \in [Symbols -> Nat]
      BY <2>3 DEF FMaps
    <3>2. m[c][s] + d \in Nat
      BY <2>3, <3>1
    <3> QED BY <3>1, <3>2
  <2>5. Turn(m, contexts[k]) = [m EXCEPT ![c] = row]
    BY DEF c, d
  <2> HIDE DEF row, Turn
  <2>6. m \in [Symbols -> [Symbols -> Nat]]
    BY DEF FMaps
  <2>7. [m EXCEPT ![c] = row] \in [Symbols -> [Symbols -> Nat]]
    BY <2>3, <2>4, <2>6
  <2> QED BY <2>5, <2>7 DEF FMaps
<1>3. step \in [1..n -> [FMaps -> FMaps]]
  <2> HIDE DEF Turn
  <2> QED BY <1>2
<1>4. PICK g \in [SUBSET (1..n) -> FMaps] : Iterates(g, n, f_map, step)
  <2> HIDE DEF step
  <2> QED BY <1>1, <1>3, IteratesExists
<1> HIDE DEF n
<1>5. IsFold(g)
  <2> SUFFICES ASSUME NEW t \in SUBSET (1..n), t # {}
               PROVE  step[Max(t)][g[t \ {Max(t)}]] = Turn(g[t \ {Max(t)}], contexts[Max(t)])
    <3> HIDE DEF Turn, step
    <3> QED BY <1>4 DEF Iterates
  <2>1. Max(t) \in 1..n
    BY <1>1, MaxIs
  <2>2. g[t \ {Max(t)}] \in FMaps
    BY <1>4
  <2> HIDE DEF Turn
  <2> QED BY <2>1, <2>2
<1>6. IsFold(fold)
  <2> HIDE DEF IsFold
  <2> QED BY <1>5
<1>7. Learnt(f_map, contexts, s) = fold[1..n]
  BY <1>1 DEF Learnt, FoldLeft, MapThenFoldSet
<1>8. \A t \in SUBSET (1..n) : fold[t] =
        IF t = {} THEN f_map ELSE Turn(fold[t \ {Max(t)}], contexts[Max(t)])
  <2> HIDE DEF fold, Turn
  <2> QED BY <1>6
<1> HIDE DEF fold, Turn
<1> DEFINE S == {k \in Nat : k <= n => fold[1..k] \in FMaps}
<1>9. 0 \in S
  <2>1. 1..0 = {} /\ {} \in SUBSET (1..n)
    OBVIOUS
  <2> QED BY <1>8, <2>1
<1>10. ASSUME NEW k \in Nat, k \in S PROVE k + 1 \in S
  <2> SUFFICES ASSUME k + 1 <= n PROVE fold[1..k+1] \in FMaps
    OBVIOUS
  <2>1. k \in 0..n-1 /\ k + 1 \in 1..n /\ fold[1..k] \in FMaps
    BY <1>1, <1>10
  <2>2. 1..k+1 \in SUBSET (1..n) /\ 1..k+1 # {} /\ Max(1..k+1) = k + 1 /\ (1..k+1) \ {k + 1} = 1..k
    BY <1>1, <2>1, LastOfInterval
  <2>3. fold[1..k+1] = Turn(fold[1..k], contexts[k + 1])
    BY <1>8, <2>2
  <2> QED BY <1>2, <2>1, <2>3
<1> DEFINE h == [k \in 0..n |-> fold[1..k]]
<1>11. \A k \in 0..n : fold[1..k] \in FMaps
  <2>1. Nat \subseteq S
    BY <1>9, <1>10, Induction
  <2>2. \A k \in 0..n : k \in Nat /\ k <= n
    BY <1>1
  <2> QED BY <2>1, <2>2
<1>12. h \in [0..n -> FMaps]
  BY <1>11
<1>13. h[0] = f_map
  <2>1. 1..0 = {} /\ {} \in SUBSET (1..n) /\ 0 \in 0..n
    BY <1>1
  <2> QED BY <1>8, <2>1
<1>14. ASSUME NEW k \in 0..n-1 PROVE h[k + 1] = LearntTurn(h[k], contexts[k + 1], s)
  <2>1. 1..k+1 \in SUBSET (1..n) /\ 1..k+1 # {} /\ Max(1..k+1) = k + 1 /\ (1..k+1) \ {k + 1} = 1..k
    BY <1>1, LastOfInterval
  <2>2. fold[1..k+1] = Turn(fold[1..k], contexts[k + 1])
    BY <1>8, <2>1
  <2>3. k \in 0..n /\ k + 1 \in 0..n
    BY <1>1
  <2> QED BY <2>2, <2>3 DEF LearntTurn, Turn
<1>15. Learnt(f_map, contexts, s) = h[n]
  BY <1>1, <1>7
<1> HIDE DEF h
<1> QED BY <1>12, <1>13, <1>14, <1>15 DEF LearntFold, n

LEMMA LearntTyped ==
  ASSUME NEW f_map \in FMaps, NEW contexts \in Seq(Symbols \X Nat), NEW s \in Symbols
  PROVE  Learnt(f_map, contexts, s) \in FMaps
<1>1. PICK h : LearntFold(f_map, contexts, s, h)
  BY LearntFolds
<1>2. Len(contexts) \in Nat
  BY LenProperties
<1> QED BY <1>1, <1>2 DEF LearntFold

LEMMA UniformLegal ==
  ASSUME NEW s \in Symbols
  PROVE  uniform_pair(s) \in LegalPairs
<1> DEFINE A == AlphabetSize
           q == Total \div A
<1>1. A \in Nat \ {0} /\ Total \in Nat \ {0} /\ Total % A = 0 /\ Total > A
  BY SharinganAssumption, HzRansAssumption, Power2Grows DEF AlphabetSize
<1>2. q \in Nat /\ Total = q * A + (Total % A) /\ q * A \in Nat
  BY <1>1, Division
<1>3. s \in 0..A-1
  BY DEF Symbols
<1> HIDE DEF A, q
<1>4. q \in Nat \ {0} /\ Total = q * A
  <2>1. q = 0 => q * A = 0
    BY <1>1, SMT
  <2> QED BY <1>1, <1>2, <2>1
<1>5. s * q \in Nat /\ s * q + q <= Total
  <2>1. (s + 1) * q <= A * q /\ A * q = q * A
    BY <1>1, <1>3, <1>4, Monotone, Distribute
  <2>2. (s + 1) * q = s * q + 1 * q /\ s * q \in Nat
    BY <1>3, <1>4, Distribute
  <2>3. A * q \in Nat
    BY <1>1, <1>4, Distribute
  <2> QED BY <1>4, <2>1, <2>2, <2>3
<1>6. uniform_pair(s) = [ls |-> q, bs |-> s * q]
  BY DEF uniform_pair, Pair, q, A
<1>7. IsSlot(q, s * q)
  BY <1>4, <1>5 DEF IsSlot
<1> QED BY <1>4, <1>5, <1>6, <1>7 DEF LegalPairs

LEMMA TableLegal ==
  ASSUME NEW freq \in [Symbols -> Nat], NEW s \in Symbols
  PROVE  add_to_seq(Ftable(freq), s) \in LegalPairs
<1> DEFINE p == add_to_seq(create_ftable_nf(freq, AlphabetSize, Total), s)
<1>1. AlphabetSize \in Nat \ {0} /\ Total \in Nat /\ Total >= AlphabetSize
  BY SharinganAssumption, HzRansAssumption, Power2Grows DEF AlphabetSize
<1>2. (\A i \in 0..AlphabetSize-1 : freq[i] \in Nat) /\ s \in 0..AlphabetSize-1
  BY DEF Symbols
<1>3. p \in [ls : Nat \ {0}, bs : Nat] /\ IsSlot(p.ls, p.bs)
  BY <1>1, <1>2, FtableSlots
<1>4. add_to_seq(Ftable(freq), s) = p
  BY DEF Ftable
<1> HIDE DEF p
<1> QED BY <1>3, <1>4 DEF LegalPairs

\* The symbols a sample follows are there, and are symbols.
LEMMA ContextsTyped ==
  ASSUME img \in Inputs, img # NotPng, params \in Parameters,
         NEW L \in Nat, NEW sym \in [0..L-1 -> Symbols], NEW i \in 0..L-1,
         NEW at, at[1] \in Nat, at[2] \in Nat, at[2] * img.width + at[1] <= i
  PROVE  Contexts(sym, i, at) \in Seq(Symbols \X Nat)
<1> DEFINE T == Symbols \X Nat
           a == at[1]
           b == at[2]
           w == img.width
           bw == b * w
           rate == params.rate
           half == params.rate \div 2
           left == IF a > 0 THEN <<<<sym[i - 1], rate>>>> ELSE <<>>
           up   == IF b > 0 /\ params.order > 1 THEN <<<<sym[i - w], rate>>>> ELSE <<>>
           diag == IF a > 0 /\ b > 0 /\ params.order > 2 THEN <<<<sym[i - w - 1], half>>>> ELSE <<>>
<1>1. /\ w \in Nat \ {0} /\ rate \in Nat /\ half \in Nat /\ a \in Nat /\ b \in Nat /\ bw + a <= i
      /\ i \in Nat
  <2>1. params.rate \in Nat
    BY ChunkFacts
  <2>2. params.rate \div 2 \in Nat
    BY <2>1, SMT
  <2> QED BY <2>1, <2>2, ImageFacts
<1>2. bw \in Nat /\ (b > 0 => w <= bw)
  <2>1. w \in Nat \ {0} /\ b \in Nat
    BY <1>1
  <2> HIDE DEF b, w
  <2>2. b > 0 => 1 * w <= b * w
    BY <2>1, Monotone
  <2>3. b * w \in Nat
    BY <2>1, Distribute
  <2> QED BY <2>1, <2>2, <2>3
<1>3. Contexts(sym, i, at) = left \o up \o diag
  BY DEF Contexts
<1> HIDE DEF a, b, w, bw, rate, half
<1>4. /\ a > 0 => i - 1 \in 0..L-1
      /\ b > 0 => i - w \in 0..L-1
      /\ a > 0 /\ b > 0 => i - w - 1 \in 0..L-1
  BY <1>1, <1>2
<1>5. \A e \in T : <<e>> \in Seq(T)
  OBVIOUS
<1>6. <<>> \in Seq(T)
  OBVIOUS
<1>7. left \in Seq(T)
  <2>1. a > 0 => <<sym[i - 1], rate>> \in T
    BY <1>1, <1>4
  <2> HIDE DEF T
  <2> QED BY <1>5, <1>6, <2>1
<1>8. up \in Seq(T)
  <2>1. b > 0 => <<sym[i - w], rate>> \in T
    BY <1>1, <1>4
  <2> HIDE DEF T
  <2> QED BY <1>5, <1>6, <2>1
<1>9. diag \in Seq(T)
  <2>1. a > 0 /\ b > 0 => <<sym[i - w - 1], half>> \in T
    BY <1>1, <1>4
  <2> HIDE DEF T
  <2> QED BY <1>5, <1>6, <2>1
<1> HIDE DEF left, up, diag, T
<1>10. left \o up \in Seq(T)
  BY <1>7, <1>8
<1>11. left \o up \o diag \in Seq(T)
  BY <1>9, <1>10
<1> QED BY <1>3, <1>11 DEF T


\* A pass covers its plane, and its samples are in the buffer.
LEMMA PassFits ==
  ASSUME img \in Inputs, img # NotPng, NEW c \in 0..Passes-1, NEW r \in 0..pixels-1
  PROVE  /\ c * pixels \in Nat /\ c * pixels + r \in 0..Passes*pixels-1
         /\ c * pixels + r \in 0..BufferLength-1
         /\ (c * pixels + r) \div pixels = c /\ (c * pixels + r) % pixels = r
         /\ Passes \in Nat \ {0} /\ Passes * pixels \in Nat
<1> DEFINE n == pixels
           P == Passes
<1>1. /\ n \in Nat \ {0} /\ nchannels \in Nat \ {0} /\ Size = nchannels * n
      /\ BufferLength \in Nat /\ Size <= BufferLength /\ (shift # 0 => BufferLength = 2 * Size)
  BY ImageFacts DEF Size
<1>2. P = IF shift = 0 THEN nchannels ELSE 2 * nchannels
  BY DEF Passes
<1>3. P \in Nat \ {0}
  <2> HIDE DEF P
  <2> QED BY <1>1, <1>2
<1>4. P * n <= BufferLength
  <2>1. 2 * nchannels = nchannels + nchannels
    BY <1>1
  <2>2. (nchannels + nchannels) * n = nchannels * n + nchannels * n /\ nchannels * n \in Nat
    BY <1>1, Distribute
  <2> HIDE DEF P, n
  <2>3. shift = 0 => P * n = Size
    BY <1>1, <1>2
  <2>4. shift # 0 => P * n = Size + Size
    BY <1>1, <1>2, <2>1, <2>2
  <2>5. Size \in Nat
    BY <1>1, <2>2
  <2> QED BY <1>1, <2>3, <2>4, <2>5
<1> HIDE DEF P, n
<1>5. c \in 0..P-1 /\ r \in 0..n-1
  BY DEF P, n
<1>6. c * n + r \in 0..P*n-1 /\ (c * n + r) \div n = c /\ (c * n + r) % n = r
  BY <1>1, <1>3, <1>5, PlaceBelow
<1>7. c * n \in Nat /\ P * n \in Nat
  BY <1>1, <1>3, <1>5, Distribute
<1>8. c * n + r \in 0..BufferLength-1
  <2> DEFINE m == c * n + r
             N == P * n
  <2>1. m \in 0..N-1 /\ N \in Nat /\ N <= BufferLength
    BY <1>4, <1>6, <1>7
  <2> HIDE DEF m, N
  <2>2. m \in 0..BufferLength-1
    BY <1>1, <2>1
  <2> QED BY <2>2 DEF m
<1> QED BY <1>3, <1>6, <1>7, <1>8 DEF n, P

\* What the loops and kernels of dynamic_precode are given.
Coding(chunk) ==
  /\ img \in Inputs /\ img # NotPng /\ params \in Parameters
  /\ buf \in [0..BufferLength-1 -> SampleValues] /\ pairs \in PairMaps
  /\ channel \in 0..Passes-1 /\ fresh \in Nat
  /\ chunk \in 0..XChunks*YChunks-1

\* Pairs that are legal, none lost, with those at the places set.
PairsSet(new, old, places) ==
  /\ new \in PairMaps
  /\ \A j \in 0..Passes*pixels-1 : new[j] = NoPair => old[j] = NoPair /\ j \notin places

LEMMA NoPairIllegal == NoPair \notin LegalPairs
BY SharinganAssumption DEF LegalPairs

\* Setting one pair.
LEMMA SetPair ==
  ASSUME NEW acc \in PairMaps, NEW i, NEW p \in LegalPairs
  PROVE  PairsSet([acc EXCEPT ![i] = p], acc, {i})
<1>1. [acc EXCEPT ![i] = p] \in PairMaps
  BY DEF PairMaps
<1>2. ASSUME NEW j \in 0..Passes*pixels-1, [acc EXCEPT ![i] = p][j] = NoPair
      PROVE  acc[j] = NoPair /\ j \notin {i}
  <2>1. DOMAIN acc = 0..Passes*pixels-1
    BY DEF PairMaps
  <2>2. [acc EXCEPT ![i] = p][j] = IF j = i THEN p ELSE acc[j]
    BY <2>1
  <2> QED BY <1>2, <2>2, NoPairIllegal
<1> QED BY <1>1, <1>2 DEF PairsSet

LEMMA PairsSetMore ==
  ASSUME NEW a, NEW b, NEW c, NEW P, NEW Q, PairsSet(b, a, P), PairsSet(c, b, Q)
  PROVE  PairsSet(c, a, P \cup Q)
BY DEF PairsSet

LEMMA LeadingTyped ==
  ASSUME NEW chunk, Coding(chunk), NEW i \in 0..BufferLength-1
  PROVE  Leading(i) \in Symbols
<1>1. Power2[shift] \in Nat \ {0} /\ AlphabetSize \in Nat \ {0} /\ Power2[img.depth] \in Nat \ {0}
  BY ValueFacts DEF Coding
<1>2. buf[i] \in Nat
  BY <1>1 DEF Coding, SampleValues
<1>3. buf[i] \div Power2[shift] \in Nat
  BY <1>1, <1>2, Division
<1>4. (buf[i] \div Power2[shift]) % AlphabetSize \in 0..AlphabetSize-1
  BY <1>1, <1>3, Division
<1> QED BY <1>4 DEF Leading, Symbols

\* The maps and the pairs as the samples of a chunk come, one after the other.
LeadingSymbols == [i \in DOMAIN buf |-> Leading(i)]

Visited(chunk, at) == channel * pixels + ChunkOffset(chunk) + at[2] * img.width + at[1]

LeadingTurn(acc, sym, i, at) ==
  [f_map |-> Learnt(acc.f_map, Contexts(sym, i, at), sym[i]),
   pairs |-> [acc.pairs EXCEPT ![i] = CodePair(acc.f_map, Contexts(sym, i, at), sym[i])]]

LeadingStates == [f_map : FMaps, pairs : PairMaps]

LeadingFold(chunk, h) ==
  /\ h \in [0..Len(Samples(chunk)) -> LeadingStates]
  /\ h[0] = [f_map |-> [c \in Symbols |-> [s \in Symbols |-> fresh]], pairs |-> pairs]
  /\ \A k \in 0..Len(Samples(chunk))-1 :
       h[k + 1] = LeadingTurn(h[k], LeadingSymbols, Visited(chunk, Samples(chunk)[k + 1]), Samples(chunk)[k + 1])
  /\ LeadingPairs(chunk) = h[Len(Samples(chunk))].pairs

\* Setting pairs one by one.
SetOneByOne(chunk, h) ==
  \A k \in 1..Len(Samples(chunk)) :
    PairsSet(h[k].pairs, h[k - 1].pairs, {channel * pixels + Place(chunk, Samples(chunk)[k])})

LEMMA LeadingFolds ==
  ASSUME NEW chunk, Coding(chunk)
  PROVE  \E h : LeadingFold(chunk, h) /\ SetOneByOne(chunk, h)
<1> DEFINE s == Samples(chunk)
           n == Len(s)
           sym == [i \in DOMAIN buf |-> Leading(i)]
           At(at) == channel * pixels + ChunkOffset(chunk) + at[2] * img.width + at[1]
           Turn(acc, at) ==
             [f_map |-> Learnt(acc.f_map, Contexts(sym, At(at), at), sym[At(at)]),
              pairs |-> [acc.pairs EXCEPT ![At(at)] =
                           CodePair(acc.f_map, Contexts(sym, At(at), at), sym[At(at)])]]
           D == [f_map : FMaps, pairs : PairMaps]
           base == [f_map |-> [c \in Symbols |-> [d \in Symbols |-> fresh]], pairs |-> pairs]
           step == [k \in 1..n |-> [acc \in D |-> Turn(acc, s[k])]]
           IsFold(it) ==
             it = [t \in SUBSET (1..n) |->
                    IF t = {} THEN base ELSE Turn(it[t \ {Max(t)}], s[Max(t)])]
           fold == CHOOSE it : IsFold(it)
           place(k) == channel * pixels + Place(chunk, s[k])
<1>1. /\ img \in Inputs /\ img # NotPng /\ params \in Parameters
      /\ buf \in [0..BufferLength-1 -> SampleValues] /\ pairs \in PairMaps
      /\ channel \in 0..Passes-1 /\ fresh \in Nat /\ chunk \in 0..XChunks*YChunks-1
      /\ BufferLength \in Nat /\ pixels \in Nat
  BY ImageFacts DEF Coding
<1>2. s \in Seq(Nat \X Nat) /\ n \in Nat /\ DOMAIN s = 1..n
  <2>1. s \in Seq(Nat \X Nat)
    BY <1>1, SamplesAre
  <2> QED BY <2>1, LenProperties
<1>3. sym \in [0..BufferLength-1 -> Symbols]
  BY <1>1, LeadingTyped
<1>4. ASSUME NEW k \in 1..n
      PROVE  /\ s[k][1] \in Nat /\ s[k][2] \in Nat
             /\ At(s[k]) = place(k) /\ At(s[k]) \in 0..BufferLength-1
             /\ s[k][2] * img.width + s[k][1] <= At(s[k])
  <2>1. /\ s[k][1] \in Nat /\ s[k][2] \in Nat /\ s[k][2] * img.width \in Nat
        /\ ChunkOffset(chunk) \in Nat /\ Place(chunk, s[k]) \in 0..pixels-1
    BY <1>1, SamplesAre
  <2>2. channel * pixels \in Nat /\ channel * pixels + Place(chunk, s[k]) \in 0..BufferLength-1
    BY <1>1, <2>1, PassFits
  <2> DEFINE cn == channel * pixels
             o == ChunkOffset(chunk)
             bw == s[k][2] * img.width
             a == s[k][1]
  <2>3. At(s[k]) = cn + o + bw + a /\ place(k) = cn + (o + bw + a)
    BY DEF Place
  <2>4. cn \in Nat /\ o \in Nat /\ bw \in Nat /\ a \in Nat
    BY <2>1, <2>2
  <2> HIDE DEF cn, o, bw, a
  <2>5. At(s[k]) = place(k) /\ bw + a <= At(s[k])
    <3> HIDE DEF At, place
    <3> QED BY <2>3, <2>4
  <2> HIDE DEF At
  <2> QED BY <2>1, <2>2, <2>5 DEF bw, a
<1> HIDE DEF sym, At, place, s, n
<1>5. ASSUME NEW acc \in D, NEW k \in 1..n
      PROVE  /\ Turn(acc, s[k]) \in D
             /\ PairsSet(Turn(acc, s[k]).pairs, acc.pairs, {place(k)})
  <2> DEFINE at == s[k]
             i  == At(at)
             cs == Contexts(sym, i, at)
             p  == CodePair(acc.f_map, cs, sym[i])
  <2>1. i \in 0..BufferLength-1 /\ sym[i] \in Symbols /\ i = place(k)
    BY <1>3, <1>4
  <2>2. cs \in Seq(Symbols \X Nat)
    BY <1>1, <1>3, <1>4, ContextsTyped
  <2>3. acc.f_map \in FMaps /\ acc.pairs \in PairMaps
    OBVIOUS
  <2>4. Turn(acc, at) = [f_map |-> Learnt(acc.f_map, cs, sym[i]), pairs |-> [acc.pairs EXCEPT ![i] = p]]
    OBVIOUS
  <2> HIDE DEF at, i, cs, Turn
  <2>5. Learnt(acc.f_map, cs, sym[i]) \in FMaps
    BY <2>1, <2>2, <2>3, LearntTyped
  <2>6. p \in LegalPairs
    <3>1. CASE cs = <<>>
      BY <2>1, <3>1, UniformLegal DEF CodePair
    <3>2. CASE cs # <<>>
      <4>1. cs[1] \in Symbols \X Nat
        <5>1. Len(cs) \in Nat /\ cs \in [1..Len(cs) -> Symbols \X Nat] /\ Len(cs) # 0
          BY <2>2, <3>2, LenProperties
        <5> QED BY <5>1
      <4>2. acc.f_map[cs[1][1]] \in [Symbols -> Nat]
        BY <2>3, <4>1 DEF FMaps
      <4> QED BY <2>1, <3>2, <4>2, TableLegal DEF CodePair
    <3> QED BY <3>1, <3>2
  <2> HIDE DEF p
  <2>7. PairsSet([acc.pairs EXCEPT ![i] = p], acc.pairs, {i})
    BY <2>3, <2>6, SetPair
  <2>8. [acc.pairs EXCEPT ![i] = p] \in PairMaps
    BY <2>7 DEF PairsSet
  <2> QED BY <2>1, <2>4, <2>5, <2>7, <2>8 DEF at
<1>6. base \in D
  BY <1>1 DEF FMaps
<1>7. step \in [1..n -> [D -> D]]
  <2> HIDE DEF Turn, D
  <2> QED BY <1>5
<1>8. PICK g \in [SUBSET (1..n) -> D] : Iterates(g, n, base, step)
  <2> HIDE DEF step, D, base
  <2> QED BY <1>2, <1>6, <1>7, IteratesExists
<1>9. IsFold(g)
  <2> SUFFICES ASSUME NEW t \in SUBSET (1..n), t # {}
               PROVE  step[Max(t)][g[t \ {Max(t)}]] = Turn(g[t \ {Max(t)}], s[Max(t)])
    <3> HIDE DEF Turn, step, base
    <3> QED BY <1>8 DEF Iterates
  <2>1. Max(t) \in 1..n
    BY <1>2, MaxIs
  <2>2. g[t \ {Max(t)}] \in D
    BY <1>8
  <2> HIDE DEF Turn, D
  <2> QED BY <2>1, <2>2
<1>10. IsFold(fold)
  <2> HIDE DEF IsFold
  <2> QED BY <1>9
<1>11. LeadingPairs(chunk) = fold[1..n].pairs
  BY <1>2 DEF LeadingPairs, FoldLeft, MapThenFoldSet, s, sym, At
<1>12. \A t \in SUBSET (1..n) : fold[t] = IF t = {} THEN base ELSE Turn(fold[t \ {Max(t)}], s[Max(t)])
  <2> HIDE DEF fold, Turn, base
  <2> QED BY <1>10
<1> HIDE DEF fold, Turn, D
<1> DEFINE S == {k \in Nat : k <= n => fold[1..k] \in D}
<1>13. 0 \in S
  <2>1. 1..0 = {} /\ {} \in SUBSET (1..n)
    OBVIOUS
  <2>2. fold[1..0] = base
    BY <1>12, <2>1
  <2> HIDE DEF base
  <2> QED BY <1>6, <2>2
<1>14. ASSUME NEW k \in 0..n-1 PROVE fold[1..k+1] = Turn(fold[1..k], s[k + 1])
  <2>1. 1..k+1 \in SUBSET (1..n) /\ 1..k+1 # {} /\ Max(1..k+1) = k + 1 /\ (1..k+1) \ {k + 1} = 1..k
    BY <1>2, LastOfInterval
  <2> QED BY <1>12, <2>1
<1>15. ASSUME NEW k \in Nat, k \in S PROVE k + 1 \in S
  <2> SUFFICES ASSUME k + 1 <= n PROVE fold[1..k+1] \in D
    OBVIOUS
  <2>1. k \in 0..n-1 /\ k + 1 \in 1..n /\ fold[1..k] \in D
    BY <1>2, <1>15
  <2> QED BY <1>5, <1>14, <2>1
<1> DEFINE h == [k \in 0..n |-> fold[1..k]]
<1>16. \A k \in 0..n : fold[1..k] \in D
  <2>1. Nat \subseteq S
    BY <1>13, <1>15, Induction
  <2>2. \A k \in 0..n : k \in Nat /\ k <= n
    BY <1>2
  <2> QED BY <2>1, <2>2
<1>17. h \in [0..n -> D]
  BY <1>16
<1>18. h[0] = base
  <2>1. 1..0 = {} /\ {} \in SUBSET (1..n) /\ 0 \in 0..n
    BY <1>2
  <2> HIDE DEF base
  <2> QED BY <1>12, <2>1
<1>19. ASSUME NEW k \in 0..n-1
       PROVE  /\ h[k + 1] = Turn(h[k], s[k + 1])
              /\ PairsSet(h[k + 1].pairs, h[k].pairs, {place(k + 1)})
  <2>1. k \in 0..n /\ k + 1 \in 0..n /\ k + 1 \in 1..n
    BY <1>2
  <2>2. h[k + 1] = fold[1..k+1] /\ h[k] = fold[1..k] /\ fold[1..k] \in D
    BY <1>16, <2>1
  <2> HIDE DEF h
  <2> QED BY <1>5, <1>14, <2>1, <2>2
<1>20. LeadingPairs(chunk) = h[n].pairs
  BY <1>2, <1>11
<1> HIDE DEF h
<1>21. LeadingFold(chunk, h)
  <2>1. \A k \in 0..n-1 : h[k + 1] = LeadingTurn(h[k], LeadingSymbols, Visited(chunk, s[k + 1]), s[k + 1])
    BY <1>19 DEF LeadingTurn, LeadingSymbols, Visited, Turn, sym, At
  <2>2. D = LeadingStates
    BY DEF D, LeadingStates
  <2> HIDE DEF LeadingTurn
  <2> QED BY <1>17, <1>18, <1>20, <2>1, <2>2 DEF LeadingFold, n, s, base
<1>22. ASSUME NEW k \in 1..n PROVE PairsSet(h[k].pairs, h[k - 1].pairs, {place(k)})
  <2>1. k - 1 \in 0..n-1 /\ (k - 1) + 1 = k
    BY <1>2
  <2>2. PairsSet(h[(k - 1) + 1].pairs, h[k - 1].pairs, {place((k - 1) + 1)})
    BY <1>19, <2>1
  <2> QED BY <2>1, <2>2
<1> QED BY <1>21, <1>22 DEF SetOneByOne, n, s, place

\* The pairs of a chunk's leading bytes.
LEMMA LeadingPairsSet ==
  ASSUME NEW chunk, Coding(chunk)
  PROVE  PairsSet(LeadingPairs(chunk), pairs,
                  {channel * pixels + Place(chunk, Samples(chunk)[k]) : k \in 1..Len(Samples(chunk))})
<1> DEFINE s == Samples(chunk)
           n == Len(s)
           place(k) == channel * pixels + Place(chunk, s[k])
<1>1. PICK h : LeadingFold(chunk, h) /\ SetOneByOne(chunk, h)
  BY LeadingFolds
<1>2. n \in Nat
  <2>1. s \in Seq(Nat \X Nat)
    BY SamplesAre DEF Coding
  <2> QED BY <2>1, LenProperties
<1>3. h[0].pairs = pairs /\ LeadingPairs(chunk) = h[n].pairs
  BY <1>1 DEF LeadingFold
<1>4. \A k \in 1..n : PairsSet(h[k].pairs, h[k - 1].pairs, {place(k)})
  BY <1>1 DEF SetOneByOne
<1> HIDE DEF s, n, place
<1> DEFINE Good(k) == PairsSet(h[k].pairs, pairs, {place(l) : l \in 1..k})
           S == {k \in Nat : k <= n => Good(k)}
<1>5. 0 \in S
  <2>1. PairsSet(pairs, pairs, {})
    BY DEF PairsSet, Coding
  <2>2. {place(l) : l \in 1..0} = {}
    OBVIOUS
  <2> QED BY <1>3, <2>1, <2>2
<1>6. ASSUME NEW k \in Nat, k \in S PROVE k + 1 \in S
  <2> SUFFICES ASSUME k + 1 <= n PROVE Good(k + 1)
    OBVIOUS
  <2>1. k + 1 \in 1..n /\ (k + 1) - 1 = k /\ Good(k)
    BY <1>2, <1>6
  <2>2. PairsSet(h[k + 1].pairs, h[k].pairs, {place(k + 1)})
    BY <1>4, <2>1
  <2>3. {place(l) : l \in 1..k} \cup {place(k + 1)} = {place(l) : l \in 1..k+1}
    <3>1. 1..k+1 = (1..k) \cup {k + 1}
      OBVIOUS
    <3> QED BY <3>1
  <2>4. PairsSet(h[k + 1].pairs, pairs, {place(l) : l \in 1..k} \cup {place(k + 1)})
    BY <2>1, <2>2, PairsSetMore
  <2> QED BY <2>3, <2>4
<1>7. Good(n)
  <2> HIDE DEF Good
  <2>1. n \in S
    BY <1>2, <1>5, <1>6, Induction
  <2> QED BY <1>2, <2>1
<1> QED BY <1>3, <1>7 DEF s, n, place

\* The pairs of a chunk's residues.
LEMMA ResiduePairsSet ==
  ASSUME NEW chunk, Coding(chunk)
  PROVE  PairsSet(ResiduePairs(chunk), pairs,
                  {channel * pixels + ResiduePlace(chunk, Samples(chunk)[k]) : k \in 1..Len(Samples(chunk))})
<1> DEFINE s == Samples(chunk)
           n == Len(s)
           Sym(i) == buf[i] % AlphabetSize
           At(at) == channel * pixels + ResidueOffset(chunk) + at[2] * img.width + at[1]
           Turn(acc, at) ==
             [f_dist |-> [acc.f_dist EXCEPT ![Sym(At(at))] = @ + 2 * params.rate],
              pairs |-> [acc.pairs EXCEPT ![At(at)] =
                           IF at = <<0, 0>> THEN uniform_pair(Sym(At(at)))
                           ELSE add_to_seq(Ftable(acc.f_dist), Sym(At(at)))]]
           D == [f_dist : [Symbols -> Nat], pairs : PairMaps]
           base == [f_dist |-> [d \in Symbols |-> IF d = 0 THEN 1 ELSE 0], pairs |-> pairs]
           step == [k \in 1..n |-> [acc \in D |-> Turn(acc, s[k])]]
           IsFold(it) ==
             it = [t \in SUBSET (1..n) |->
                    IF t = {} THEN base ELSE Turn(it[t \ {Max(t)}], s[Max(t)])]
           fold == CHOOSE it : IsFold(it)
           place(k) == channel * pixels + ResiduePlace(chunk, s[k])
<1>1. /\ img \in Inputs /\ img # NotPng /\ params \in Parameters
      /\ buf \in [0..BufferLength-1 -> SampleValues] /\ pairs \in PairMaps
      /\ channel \in 0..Passes-1 /\ fresh \in Nat /\ chunk \in 0..XChunks*YChunks-1
      /\ BufferLength \in Nat /\ pixels \in Nat
  BY ImageFacts DEF Coding
<1>2. s \in Seq(Nat \X Nat) /\ n \in Nat /\ DOMAIN s = 1..n
  <2>1. s \in Seq(Nat \X Nat)
    BY <1>1, SamplesAre
  <2> QED BY <2>1, LenProperties
<1>3. ASSUME NEW i \in 0..BufferLength-1 PROVE Sym(i) \in Symbols
  <2>1. AlphabetSize \in Nat \ {0} /\ Power2[img.depth] \in Nat \ {0}
    BY <1>1, ValueFacts
  <2>2. buf[i] \in Nat
    BY <1>1, <2>1 DEF SampleValues
  <2>3. buf[i] % AlphabetSize \in 0..AlphabetSize-1
    BY <2>1, <2>2, Division
  <2> QED BY <2>3 DEF Symbols
<1>4. ASSUME NEW k \in 1..n
      PROVE  /\ s[k][1] \in Nat /\ s[k][2] \in Nat
             /\ At(s[k]) = place(k) /\ At(s[k]) \in 0..BufferLength-1
  <2>1. /\ s[k][1] \in Nat /\ s[k][2] \in Nat /\ s[k][2] * img.width \in Nat
        /\ ResidueOffset(chunk) \in Nat /\ ResiduePlace(chunk, s[k]) \in 0..pixels-1
    BY <1>1, SamplesAre
  <2>2. channel * pixels \in Nat /\ channel * pixels + ResiduePlace(chunk, s[k]) \in 0..BufferLength-1
    BY <1>1, <2>1, PassFits
  <2> DEFINE cn == channel * pixels
             o == ResidueOffset(chunk)
             bw == s[k][2] * img.width
             a == s[k][1]
  <2>3. At(s[k]) = cn + o + bw + a /\ place(k) = cn + (o + bw + a)
    BY DEF ResiduePlace
  <2>4. cn \in Nat /\ o \in Nat /\ bw \in Nat /\ a \in Nat
    BY <2>1, <2>2
  <2> HIDE DEF cn, o, bw, a
  <2>5. At(s[k]) = place(k)
    <3> HIDE DEF At, place
    <3> QED BY <2>3, <2>4
  <2>6. place(k) \in 0..BufferLength-1
    BY <2>2
  <2> HIDE DEF At, place, s
  <2> QED BY <2>1, <2>5, <2>6
<1> HIDE DEF Sym, At, place, s, n
<1>5. ASSUME NEW acc \in D, NEW k \in 1..n
      PROVE  /\ Turn(acc, s[k]) \in D
             /\ PairsSet(Turn(acc, s[k]).pairs, acc.pairs, {place(k)})
  <2> DEFINE at == s[k]
             i  == At(at)
             v  == Sym(i)
             p  == IF at = <<0, 0>> THEN uniform_pair(v) ELSE add_to_seq(Ftable(acc.f_dist), v)
             dist == [acc.f_dist EXCEPT ![v] = @ + 2 * params.rate]
  <2>1. v \in Symbols /\ i = place(k)
    BY <1>3, <1>4
  <2>3. acc.f_dist \in [Symbols -> Nat] /\ acc.pairs \in PairMaps
    OBVIOUS
  <2>4. Turn(acc, at) = [f_dist |-> dist, pairs |-> [acc.pairs EXCEPT ![i] = p]]
    OBVIOUS
  <2> HIDE DEF at, i, v, Turn
  <2>5. dist \in [Symbols -> Nat]
    <3>1. params.rate \in Nat
      BY <1>1, ChunkFacts
    <3>2. acc.f_dist[v] + 2 * params.rate \in Nat
      BY <2>1, <2>3, <3>1
    <3> QED BY <2>1, <2>3, <3>2
  <2>6. p \in LegalPairs
    BY <2>1, <2>3, UniformLegal, TableLegal
  <2> HIDE DEF p, dist
  <2>7. PairsSet([acc.pairs EXCEPT ![i] = p], acc.pairs, {i})
    BY <2>3, <2>6, SetPair
  <2>8. [acc.pairs EXCEPT ![i] = p] \in PairMaps
    BY <2>7 DEF PairsSet
  <2> QED BY <2>1, <2>4, <2>5, <2>7, <2>8 DEF at
<1>6. base \in D
  BY <1>1
<1>7. step \in [1..n -> [D -> D]]
  <2> HIDE DEF Turn, D
  <2> QED BY <1>5
<1>8. PICK g \in [SUBSET (1..n) -> D] : Iterates(g, n, base, step)
  <2> HIDE DEF step, D, base
  <2> QED BY <1>2, <1>6, <1>7, IteratesExists
<1>9. IsFold(g)
  <2> SUFFICES ASSUME NEW t \in SUBSET (1..n), t # {}
               PROVE  step[Max(t)][g[t \ {Max(t)}]] = Turn(g[t \ {Max(t)}], s[Max(t)])
    <3> HIDE DEF Turn, step, base
    <3> QED BY <1>8 DEF Iterates
  <2>1. Max(t) \in 1..n
    BY <1>2, MaxIs
  <2>2. g[t \ {Max(t)}] \in D
    BY <1>8
  <2> HIDE DEF Turn, D
  <2> QED BY <2>1, <2>2
<1>10. IsFold(fold)
  <2> HIDE DEF IsFold
  <2> QED BY <1>9
<1>11. ResiduePairs(chunk) = fold[1..n].pairs
  BY <1>2 DEF ResiduePairs, FoldLeft, MapThenFoldSet, s, Sym, At
<1>12. \A t \in SUBSET (1..n) : fold[t] = IF t = {} THEN base ELSE Turn(fold[t \ {Max(t)}], s[Max(t)])
  <2> HIDE DEF fold, Turn, base
  <2> QED BY <1>10
<1> HIDE DEF fold, Turn, D
<1> DEFINE Good(k) == fold[1..k] \in D /\ PairsSet(fold[1..k].pairs, pairs, {place(l) : l \in 1..k})
           S == {k \in Nat : k <= n => Good(k)}
<1>13. 0 \in S
  <2>1. 1..0 = {} /\ {} \in SUBSET (1..n)
    OBVIOUS
  <2>2. fold[1..0] = base
    BY <1>12, <2>1
  <2>3. base.pairs = pairs
    OBVIOUS
  <2>4. PairsSet(pairs, pairs, {})
    BY <1>1 DEF PairsSet
  <2>5. {place(l) : l \in 1..0} = {}
    BY <2>1
  <2> HIDE DEF base
  <2> QED BY <1>6, <2>2, <2>3, <2>4, <2>5
<1>14. ASSUME NEW k \in Nat, k \in S PROVE k + 1 \in S
  <2> SUFFICES ASSUME k + 1 <= n PROVE Good(k + 1)
    OBVIOUS
  <2>1. k \in 0..n-1 /\ k + 1 \in 1..n /\ fold[1..k] \in D
        /\ PairsSet(fold[1..k].pairs, pairs, {place(l) : l \in 1..k})
    BY <1>2, <1>14
  <2>2. 1..k+1 \in SUBSET (1..n) /\ 1..k+1 # {} /\ Max(1..k+1) = k + 1 /\ (1..k+1) \ {k + 1} = 1..k
    BY <1>2, <2>1, LastOfInterval
  <2>3. fold[1..k+1] = Turn(fold[1..k], s[k + 1])
    BY <1>12, <2>2
  <2>4. fold[1..k+1] \in D /\ PairsSet(fold[1..k+1].pairs, fold[1..k].pairs, {place(k + 1)})
    BY <1>5, <2>1, <2>3
  <2>5. {place(l) : l \in 1..k} \cup {place(k + 1)} = {place(l) : l \in 1..k+1}
    <3>1. 1..k+1 = (1..k) \cup {k + 1}
      OBVIOUS
    <3> QED BY <3>1
  <2>6. PairsSet(fold[1..k+1].pairs, pairs, {place(l) : l \in 1..k} \cup {place(k + 1)})
    BY <2>1, <2>4, PairsSetMore
  <2> QED BY <2>4, <2>5, <2>6
<1>15. Good(n)
  <2> HIDE DEF Good
  <2>1. n \in S
    BY <1>2, <1>13, <1>14, Induction
  <2> QED BY <1>2, <2>1
<1> QED BY <1>11, <1>15 DEF s, n, place


-----------------------------------------------------------------------------
(* Steps of the coding of the chunks *)
LEMMA SameChunks ==
  ASSUME img' = img, params' = params
  PROVE  /\ XChunks' = XChunks /\ YChunks' = YChunks /\ Passes' = Passes /\ PairMaps' = PairMaps
         /\ \A r : ChunkNumber(r)' = ChunkNumber(r)
         /\ \A i : ResidueMisplaced(i)' <=> ResidueMisplaced(i)
<1>1. /\ pixels' = pixels /\ nchannels' = nchannels /\ shift' = shift
  BY SameImage
<1>2. XChunks' = XChunks /\ YChunks' = YChunks
  BY DEF XChunks, YChunks
<1>3. Passes' = Passes
  BY <1>1 DEF Passes
<1>4. PairMaps' = PairMaps
  BY <1>1, <1>3 DEF PairMaps
<1>5. \A r : ChunkNumber(r)' = ChunkNumber(r)
  BY <1>2 DEF ChunkNumber
<1>6. \A i : ResidueMisplaced(i)' <=> ResidueMisplaced(i)
  BY <1>1, <1>2 DEF ResidueMisplaced
<1> QED BY <1>2, <1>3, <1>4, <1>5, <1>6

\* One row of chunks, or one column of samples: the residues lie where they belong.
LEMMA ResiduesInPlace ==
  ASSUME img \in Inputs, img # NotPng, params \in Parameters, NEW chunk \in 0..XChunks*YChunks-1,
         ~(YChunks > 1 /\ img.width > 1)
  PROVE  ResidueOffset(chunk) = ChunkOffset(chunk)
<1> DEFINE Y == chunk \div XChunks
           cx == (chunk % XChunks) * params.chunk_width
           ch == params.chunk_height
<1>1. Y \in 0..YChunks-1 /\ cx \in Nat /\ ch \in Nat \ {0} /\ YChunks \in Nat \ {0}
      /\ img.width \in Nat \ {0} /\ Y * ch \in Nat
  BY ChunkShape, ChunkFacts, ImageFacts
<1>2. ResidueOffset(chunk) = Y * ch + cx /\ ChunkOffset(chunk) = Y * ch * img.width + cx
  BY DEF ResidueOffset, ChunkOffset
<1> HIDE DEF Y, cx, ch
<1>3. CASE img.width = 1
  BY <1>1, <1>2, <1>3
<1>4. CASE img.width # 1
  <2>1. Y = 0
    BY <1>1, <1>4
  <2>2. Y * ch = 0 /\ 0 * img.width = 0
    BY <1>1, <2>1
  <2>3. Y * ch * img.width = 0
    BY <2>2
  <2> QED BY <1>1, <1>2, <2>2, <2>3
<1> QED BY <1>3, <1>4

\* Pair i of a pass belongs to sample i % pixels of channel i \div pixels.
LEMMA PairPlace ==
  ASSUME img \in Inputs, img # NotPng, NEW i \in 0..Passes*pixels-1
  PROVE  /\ i \div pixels \in 0..Passes-1 /\ i % pixels \in 0..pixels-1
         /\ i = (i \div pixels) * pixels + (i % pixels)
<1>1. pixels \in Nat \ {0} /\ nchannels \in Nat \ {0}
  BY ImageFacts
<1>2. Passes \in Nat \ {0} /\ Passes * pixels \in Nat
  <2>1. Passes \in Nat \ {0}
    BY <1>1 DEF Passes
  <2> QED BY <1>1, <2>1, Distribute
<1>3. i \in Nat /\ i < Passes * pixels
  BY <1>2
<1> HIDE DEF pixels, Passes
<1> QED BY <1>1, <1>2, <1>3, DivBelow, Division

LEMMA PrecodeChunkKeeps ==
  ASSUME Settled, PairsSoFar, NEW it \in work, PrecodeChunk(it)
  PROVE  PairsSoFar'
<1> DEFINE c == Head(it)
           n == pixels
           seq == Samples(c)
           leading == {channel * n + Place(c, seq[k]) : k \in 1..Len(seq)}
           residue == {channel * n + ResiduePlace(c, seq[k]) : k \in 1..Len(seq)}
           places == IF Residues(channel) THEN residue ELSE leading
<1>1. /\ stage = "chunks" /\ stage' = "chunks" /\ img' = img /\ params' = params /\ buf' = buf
      /\ pairs' = IF Residues(channel) THEN ResiduePairs(c) ELSE LeadingPairs(c)
      /\ work' = Advanced(it) /\ channel' = channel /\ fresh' = fresh /\ index' = index /\ x' = x
  BY DEF PrecodeChunk, coder
<1>2. /\ img \in Inputs /\ img # NotPng /\ params \in Parameters /\ Once(work)
      /\ buf \in [0..BufferLength-1 -> SampleValues]
  BY <1>1 DEF Settled
<1>3. /\ pairs \in PairMaps /\ index \in 0..Passes*n
      /\ channel \in 0..Passes-1 /\ fresh \in Nat
      /\ ToDo(work) \subseteq 0..XChunks*YChunks-1
      /\ \A i \in 0..Passes*n-1 : ChunkDone(i) => IsSet(i)
      /\ x \in Nat /\ InRange(x)
  BY <1>1 DEF PairsSoFar, PairMaps
<1>4. Once(work') /\ ToDo(work') = ToDo(work) \ {c} /\ c \in ToDo(work)
  BY <1>1, <1>2, Advances DEF Advanced
<1>5. Coding(c)
  BY <1>2, <1>3, <1>4 DEF Coding
<1>6. PairsSet(pairs', pairs, places)
  BY <1>1, <1>5, LeadingPairsSet, ResiduePairsSet
<1>7. /\ pixels' = n /\ XChunks' = XChunks /\ YChunks' = YChunks /\ Passes' = Passes
      /\ PairMaps' = PairMaps
      /\ \A r : ChunkNumber(r)' = ChunkNumber(r)
      /\ \A i : ResidueMisplaced(i)' <=> ResidueMisplaced(i)
  BY <1>1, SameImage, SameChunks
<1>8. ASSUME NEW i \in 0..Passes*n-1, pairs'[i] = NoPair, ChunkDone(i)'
      PROVE  ResidueMisplaced(i)
  <2>1. pairs[i] = NoPair /\ i \notin places
    BY <1>6, <1>8 DEF PairsSet
  <2>2. CASE ChunkDone(i)
    BY <1>3, <2>1, <2>2 DEF IsSet
  <2>3. CASE ~ChunkDone(i)
    <3>1. i \div n = channel /\ ChunkNumber(i % n) = c
      BY <1>1, <1>4, <1>7, <1>8, <2>3 DEF ChunkDone
    <3>2. i % n \in 0..n-1 /\ i = channel * n + (i % n)
      BY <1>2, <3>1, PairPlace
    <3>3. PICK k \in 1..Len(seq) : Place(c, seq[k]) = i % n
      BY <1>2, <3>1, <3>2, ChunksTile
    <3>4. i \in leading
      BY <3>2, <3>3
    <3>5. Residues(channel)
      BY <2>1, <3>4
    <3>6. shift > 0 /\ i >= nchannels * n
      <4>1. /\ n \in Nat \ {0} /\ nchannels \in Nat \ {0} /\ shift \in Nat
            /\ channel \in Nat /\ channel >= nchannels
        <5>1. nchannels \in Nat \ {0} /\ Passes \in Nat
          BY <1>2, ImageFacts DEF Passes
        <5> QED BY <1>2, <1>3, <3>5, <5>1, ImageFacts DEF Residues
      <4>2. shift > 0
        BY <1>3, <4>1 DEF Passes
      <4>3. nchannels * n <= channel * n /\ nchannels * n \in Nat /\ channel * n \in Nat
        BY <4>1, Monotone, Distribute
      <4> HIDE DEF n
      <4> QED BY <3>2, <4>1, <4>2, <4>3
    <3>7. CASE YChunks > 1 /\ img.width > 1
      BY <3>6, <3>7 DEF ResidueMisplaced
    <3>8. CASE ~(YChunks > 1 /\ img.width > 1)
      <4>1. ResidueOffset(c) = ChunkOffset(c)
        BY <1>2, <1>3, <1>4, <3>8, ResiduesInPlace
      <4>2. ResiduePlace(c, seq[k]) = i % n
        BY <3>3, <4>1 DEF Place, ResiduePlace
      <4>3. i \in residue
        BY <3>2, <4>2
      <4> QED BY <2>1, <3>5, <4>3
    <3> QED BY <3>7, <3>8
  <2> QED BY <2>2, <2>3
<1>9. pairs' \in PairMaps
  BY <1>6 DEF PairsSet
<1>10. \A i \in 0..Passes*n-1 : ChunkDone(i)' => IsSet(i)'
  BY <1>7, <1>8 DEF IsSet
<1>11. ToDo(work') \subseteq 0..XChunks*YChunks-1
  BY <1>3, <1>4
<1> HIDE DEF n, places, seq, leading, residue
<1> QED BY <1>1, <1>2, <1>3, <1>7, <1>9, <1>10, <1>11 DEF PairsSoFar, PairMaps

\* What a pass finds to do.
LEMMA ChunksToDo ==
  ASSUME img \in Inputs, img # NotPng, params \in Parameters, NEW onDevice \in BOOLEAN
  PROVE  Once(Chunks(onDevice)) /\ ToDo(Chunks(onDevice)) = 0..XChunks*YChunks-1
<1> DEFINE n == XChunks * YChunks
<1>1. n \in Nat \ {0}
  BY ChunkFacts
<1>2. Chunks(onDevice) = IF onDevice THEN {<<c>> : c \in 0..n-1} ELSE {Ascending(n)}
  BY DEF Chunks
<1> HIDE DEF n
<1>3. Once(Chunks(onDevice)) /\ ToDo(Chunks(onDevice)) = 0..n-1
  BY <1>1, <1>2, SinglesToDo, AscendingToDo
<1> QED BY <1>3 DEF n

LEMMA StartPrecodeKeeps ==
  ASSUME Settled, PairsSoFar, StartPrecode
  PROVE  PairsSoFar' /\ Once(work')
<1>1. /\ stage = "precode" /\ stage' = "chunks" /\ img' = img /\ params' = params
      /\ work' = Chunks(device') /\ channel' = 0
      /\ pairs' = [i \in 0..Passes * pixels - 1 |-> NoPair]
      /\ fresh' \in (IF device' THEN Leftovers ELSE {0})
      /\ device' = (pixels > ClPixels) /\ index' = index /\ x' = x
  BY DEF StartPrecode, coder
<1>2. img \in Inputs /\ img # NotPng /\ params \in Parameters
  BY <1>1 DEF Settled
<1>3. fresh' \in Nat
  <2>1. Leftovers \subseteq Symbols /\ AlphabetSize \in Nat
    BY <1>2, SharinganAssumption, ValueFacts
  <2>2. Symbols \subseteq Nat
    BY <2>1 DEF Symbols
  <2> QED BY <1>1, <2>1, <2>2
<1>4. Once(work') /\ ToDo(work') = 0..XChunks*YChunks-1
  <2>1. device' \in BOOLEAN
    BY <1>1
  <2> DEFINE d == device'
  <2>2. d \in BOOLEAN /\ work' = Chunks(d)
    BY <1>1, <2>1
  <2> HIDE DEF d
  <2>3. Once(Chunks(d)) /\ ToDo(Chunks(d)) = 0..XChunks*YChunks-1
    BY <1>2, <2>2, ChunksToDo
  <2> QED BY <2>2, <2>3
<1>5. /\ pixels' = pixels /\ XChunks' = XChunks /\ YChunks' = YChunks /\ Passes' = Passes
      /\ \A r : ChunkNumber(r)' = ChunkNumber(r)
  BY <1>1, SameImage, SameChunks
<1>6. pairs' \in [0..Passes*pixels-1 -> LegalPairs \cup {NoPair}]
  BY <1>1
<1>7. \A i \in 0..Passes*pixels-1 : ~ChunkDone(i)'
  <2> SUFFICES ASSUME NEW i \in 0..Passes*pixels-1, ChunkDone(i)' PROVE FALSE
    OBVIOUS
  <2>1. i \div pixels \in 0..Passes-1 /\ i % pixels \in 0..pixels-1
    BY <1>2, PairPlace
  <2>2. i \div pixels < 0 \/ ChunkNumber(i % pixels) \notin ToDo(work')
    BY <1>1, <1>5 DEF ChunkDone
  <2>3. ChunkNumber(i % pixels) \in 0..XChunks*YChunks-1
    BY <1>2, <2>1, ChunksTile
  <2> DEFINE q == i \div pixels
  <2> HIDE DEF q
  <2>4. q \in 0..Passes-1 /\ q < 0
    BY <1>4, <2>1, <2>2, <2>3 DEF q
  <2> QED BY <2>4
<1>8. x \in Nat /\ InRange(x)
  BY DEF PairsSoFar
<1>9. index \in 0..Passes*pixels /\ 0 \in 0..Passes-1
  <2>1. pixels \in Nat \ {0} /\ nchannels \in Nat \ {0}
    BY <1>2, ImageFacts
  <2>2. Passes \in Nat \ {0}
    BY <2>1 DEF Passes
  <2>3. Passes * pixels \in Nat
    BY <2>1, <2>2, Distribute
  <2>4. index = 0 \/ index \in 0..Passes*pixels
    BY DEF PairsSoFar
  <2> HIDE DEF pixels, Passes
  <2> QED BY <2>2, <2>3, <2>4
<1> QED BY <1>1, <1>2, <1>3, <1>4, <1>5, <1>6, <1>7, <1>8, <1>9 DEF PairsSoFar

\* A pass is over when nothing is to do.
LEMMA PassOver ==
  ASSUME img \in Inputs, img # NotPng, PairsSoFar, stage = "chunks", work = {},
         NEW i \in 0..Passes*pixels-1, i \div pixels < channel + 1
  PROVE  IsSet(i)
<1>1. ToDo(work) = {}
  BY DEF ToDo
<1>2. channel \in 0..Passes-1 /\ i \div pixels \in 0..Passes-1
  BY PairPlace DEF PairsSoFar
<1> DEFINE q == i \div pixels
<1> HIDE DEF q
<1>3. q \in Nat /\ channel \in Nat /\ q < channel + 1
  BY <1>2 DEF q
<1>4. q < channel \/ q = channel
  BY <1>3
<1>5. ChunkDone(i)
  BY <1>1, <1>4 DEF ChunkDone, q
<1> QED BY <1>5 DEF PairsSoFar

LEMMA NextPassKeeps ==
  ASSUME Settled, PairsSoFar, NextPass
  PROVE  PairsSoFar' /\ Once(work')
<1>1. /\ stage = "chunks" /\ work = {} /\ channel + 1 < Passes /\ stage' = "chunks"
      /\ img' = img /\ params' = params
      /\ channel' = channel + 1 /\ work' = Chunks(device)
      /\ fresh' \in (IF device THEN Leftovers ELSE {0})
      /\ pairs' = pairs /\ index' = index /\ x' = x
  BY DEF NextPass, coder
<1>2. img \in Inputs /\ img # NotPng /\ params \in Parameters /\ device \in BOOLEAN
  BY <1>1 DEF Settled
<1>3. fresh' \in Nat
  <2>1. Leftovers \subseteq Symbols /\ AlphabetSize \in Nat
    BY <1>2, SharinganAssumption, ValueFacts
  <2>2. Symbols \subseteq Nat
    BY <2>1 DEF Symbols
  <2> QED BY <1>1, <2>1, <2>2
<1>4. Once(work') /\ ToDo(work') = 0..XChunks*YChunks-1
  BY <1>1, <1>2, ChunksToDo
<1>5. /\ pixels' = pixels /\ XChunks' = XChunks /\ YChunks' = YChunks /\ Passes' = Passes
      /\ \A r : ChunkNumber(r)' = ChunkNumber(r)
      /\ \A i : ResidueMisplaced(i)' <=> ResidueMisplaced(i)
  BY <1>1, <1>2, SameImage, SameChunks
<1>6. /\ pairs \in [0..Passes*pixels-1 -> LegalPairs \cup {NoPair}] /\ index \in 0..Passes*pixels
      /\ channel \in 0..Passes-1 /\ x \in Nat /\ InRange(x)
  BY <1>1 DEF PairsSoFar
<1>7. ASSUME NEW i \in 0..Passes*pixels-1, ChunkDone(i)' PROVE IsSet(i)'
  <2>1. i \div pixels \in 0..Passes-1 /\ i % pixels \in 0..pixels-1
    BY <1>2, PairPlace
  <2>2. i \div pixels < channel + 1 \/ ChunkNumber(i % pixels) \notin ToDo(work')
    BY <1>1, <1>5, <1>7 DEF ChunkDone
  <2>3. ChunkNumber(i % pixels) \in 0..XChunks*YChunks-1
    BY <1>2, <2>1, ChunksTile
  <2>4. i \div pixels < channel + 1
    BY <1>4, <2>2, <2>3
  <2>5. IsSet(i)
    BY <1>1, <1>2, <2>4, PassOver
  <2> QED BY <1>1, <1>5, <2>5 DEF IsSet
<1>8. channel + 1 \in 0..Passes-1
  <2>1. Passes \in Nat
    <3>1. nchannels \in Nat \ {0}
      BY <1>2, ImageFacts
    <3> QED BY <3>1 DEF Passes
  <2> HIDE DEF Passes
  <2> QED BY <1>1, <1>6, <2>1
<1> QED BY <1>1, <1>2, <1>3, <1>4, <1>5, <1>6, <1>7, <1>8 DEF PairsSoFar

\* There are two slots or more.
LEMMA TotalIs == Total >= 2
<1>1. AlphabetSize \in Nat /\ Total \in Nat \ {0} /\ Total > AlphabetSize
  BY HzRansAssumption, SharinganAssumption, Power2Grows DEF AlphabetSize
<1>2. AlphabetSize > 0
  BY SharinganAssumption, Power2Grows DEF AlphabetSize
<1> QED BY <1>1, <1>2

\* The coder's state begins in its interval.
LEMMA CoderBegins == LowerBound \in Nat /\ InRange(LowerBound)
BY TotalIs, LowerBoundIs

LEMMA StartEncodeKeeps ==
  ASSUME Settled, PairsSoFar, StartEncode
  PROVE  PairsSoFar'
<1>1. /\ stage = "chunks" /\ work = {} /\ channel + 1 = Passes /\ stage' = "encode"
      /\ img' = img /\ params' = params /\ pairs' = pairs
      /\ index' = Passes * pixels /\ x' = LowerBound
  BY DEF StartEncode
<1>2. img \in Inputs /\ img # NotPng /\ params \in Parameters
  BY <1>1 DEF Settled
<1>3. /\ pixels' = pixels /\ Passes' = Passes
      /\ \A i : ResidueMisplaced(i)' <=> ResidueMisplaced(i)
  BY <1>1, <1>2, SameImage, SameChunks
<1>4. /\ pairs \in [0..Passes*pixels-1 -> LegalPairs \cup {NoPair}] /\ channel \in 0..Passes-1
  BY <1>1 DEF PairsSoFar
<1>5. ASSUME NEW i \in 0..Passes*pixels-1 PROVE IsSet(i)'
  <2>1. i \div pixels \in 0..Passes-1
    BY <1>2, PairPlace
  <2>2. i \div pixels < channel + 1
    <3> DEFINE q == i \div pixels
    <3> HIDE DEF q
    <3>1. q \in 0..Passes-1 /\ Passes = channel + 1
      BY <1>1, <2>1 DEF q
    <3>2. channel \in Nat
      BY <1>4
    <3>3. q < channel + 1
      BY <3>1, <3>2
    <3> QED BY <3>3 DEF q
  <2>3. IsSet(i)
    BY <1>1, <1>2, <2>2, PassOver
  <2> QED BY <1>1, <1>3, <2>3 DEF IsSet
<1>6. x' \in Nat /\ InRange(x')
  BY <1>1, CoderBegins
<1>7. Passes * pixels \in 0..Passes*pixels
  <2>1. pixels \in Nat \ {0} /\ nchannels \in Nat \ {0}
    BY <1>2, ImageFacts
  <2>2. Passes \in Nat
    BY <2>1 DEF Passes
  <2>3. Passes * pixels \in Nat
    BY <2>1, <2>2, Distribute
  <2> QED BY <2>3
<1> QED BY <1>1, <1>2, <1>3, <1>4, <1>5, <1>6, <1>7 DEF PairsSoFar

LEMMA EncodePairKeeps ==
  ASSUME Settled, PairsSoFar, EncodePair
  PROVE  PairsSoFar'
<1>1. /\ stage = "encode" /\ stage' = "encode" /\ index > 0 /\ pairs[index - 1] # NoPair
      /\ x' = EncodeState(x, pairs[index - 1].ls, pairs[index - 1].bs)
      /\ index' = index - 1 /\ img' = img /\ params' = params /\ pairs' = pairs
  BY DEF EncodePair
<1>2. img \in Inputs /\ img # NotPng /\ params \in Parameters
  BY <1>1 DEF Settled
<1>3. /\ pixels' = pixels /\ Passes' = Passes
      /\ \A i : ResidueMisplaced(i)' <=> ResidueMisplaced(i)
  BY <1>1, <1>2, SameImage, SameChunks
<1>4. /\ pairs \in [0..Passes*pixels-1 -> LegalPairs \cup {NoPair}] /\ index \in 0..Passes*pixels
      /\ x \in Nat /\ InRange(x) /\ \A i \in 0..Passes*pixels-1 : IsSet(i)
  BY <1>1 DEF PairsSoFar
<1>5. index - 1 \in 0..Passes*pixels-1 /\ index - 1 \in 0..Passes*pixels
  <2>1. pixels \in Nat \ {0} /\ nchannels \in Nat \ {0}
    BY <1>2, ImageFacts
  <2>2. Passes \in Nat
    BY <2>1 DEF Passes
  <2> DEFINE N == Passes * pixels
  <2>3. N \in Nat /\ index \in 0..N /\ index > 0
    BY <1>1, <1>4, <2>1, <2>2, Distribute
  <2> HIDE DEF N
  <2>4. index - 1 \in 0..N-1 /\ index - 1 \in 0..N
    BY <2>3
  <2> QED BY <2>4 DEF N
<1>6. x' \in Nat /\ InRange(x')
  <2> DEFINE p == pairs[index - 1]
  <2>1. p \in LegalPairs
    BY <1>1, <1>4, <1>5
  <2> HIDE DEF p
  <2>2. IsSlot(p.ls, p.bs)
    BY <2>1 DEF LegalPairs
  <2>3. EncodeState(x, p.ls, p.bs) \in Nat /\ InRange(EncodeState(x, p.ls, p.bs))
    BY <1>4, <2>2, EncodeKeepsRange
  <2> QED BY <1>1, <2>3 DEF p
<1>7. \A i \in 0..Passes*pixels-1 : IsSet(i)'
  BY <1>1, <1>3, <1>4 DEF IsSet
<1> QED BY <1>1, <1>2, <1>3, <1>4, <1>5, <1>6, <1>7 DEF PairsSoFar

\* A step outside the coding leaves the pairs alone.
LEMMA PairsKept ==
  ASSUME PairsSoFar, img' = img, params' = params, pairs' = pairs, index' = index, x' = x,
         stage' \notin {"chunks", "encode"}
  PROVE  PairsSoFar'
<1>1. pixels' = pixels /\ Passes' = Passes
  BY SameImage, SameChunks
<1> QED BY <1>1 DEF PairsSoFar


-----------------------------------------------------------------------------
(* The other steps *)
TransformsSoFar == Settled /\ ColourSoFar /\ FilterSoFar

\* After the transforms the buffer stays as it is.
LEMMA BufferKept ==
  ASSUME TransformsSoFar, stage \in {"precode", "chunks", "encode"},
         stage' \in {"precode", "chunks", "encode", "done", "failed", "crashed"},
         img' = img, opencl' = opencl, params' = params, buf' = buf,
         device' \in BOOLEAN, device' => opencl, Once(work'), stage' # "chunks" => work' = {}
  PROVE  TransformsSoFar'
<1>1. /\ Size' = Size /\ BufferLength' = BufferLength /\ SampleValues' = SampleValues
      /\ Filtered' = Filtered
  BY SameImage
<1>2. /\ img \in Inputs /\ img # NotPng /\ opencl \in BOOLEAN /\ params \in Parameters
      /\ buf \in [0..BufferLength-1 -> SampleValues]
  BY DEF TransformsSoFar, Settled
<1>3. \A i \in 0..Size-1 : buf[i] = Filtered[i]
  BY DEF TransformsSoFar, FilterSoFar
<1>4. Settled'
  BY <1>1, <1>2 DEF Settled
<1>5. ColourSoFar' /\ FilterSoFar'
  BY <1>1, <1>3 DEF ColourSoFar, FilterSoFar
<1> QED BY <1>4, <1>5 DEF TransformsSoFar

\* A stage that is skipped, and a call that throws.
LEMMA StageSkipped ==
  ASSUME TransformsSoFar, img' = img, opencl' = opencl, params' = params, buf' = buf,
         device' = device, work' = work, work = {},
         \/ stage' = "failed" /\ (stage = "read" <=> img = NotPng)
         \/ stage = "preprocess" /\ ~Transformable /\ stage' = "apply_filter"
         \/ stage = "apply_filter" /\ img.colour = "PALETTE" /\ stage' = "precode"
  PROVE  TransformsSoFar'
<1>1. /\ Size' = Size /\ BufferLength' = BufferLength /\ SampleValues' = SampleValues
      /\ Coloured' = Coloured /\ Filtered' = Filtered
  BY SameImage
<1>2. Settled'
  BY <1>1 DEF TransformsSoFar, Settled
<1>3. CASE stage' = "failed"
  <2>1. ColourSoFar' /\ FilterSoFar'
    BY <1>3 DEF ColourSoFar, FilterSoFar
  <2> QED BY <1>2, <2>1 DEF TransformsSoFar
<1>4. CASE stage = "preprocess" /\ ~Transformable /\ stage' = "apply_filter"
  <2>1. img \in Inputs /\ img # NotPng /\ \A i \in 0..Size-1 : buf[i] = Raw[i]
    BY <1>4 DEF TransformsSoFar, Settled, ColourSoFar
  <2>2. Coloured = Raw
    BY <1>4, <2>1, ColouredTyped
  <2>3. ColourSoFar' /\ FilterSoFar'
    BY <1>1, <1>4, <2>1, <2>2 DEF ColourSoFar, FilterSoFar
  <2> QED BY <1>2, <2>3 DEF TransformsSoFar
<1>5. CASE stage = "apply_filter" /\ img.colour = "PALETTE" /\ stage' = "precode"
  <2>1. img \in Inputs /\ img # NotPng /\ \A i \in 0..Size-1 : buf[i] = Coloured[i]
    BY <1>5 DEF TransformsSoFar, Settled, ColourSoFar
  <2>2. Filtered = Coloured
    BY <1>5, <2>1, FilteredIs
  <2>3. ColourSoFar' /\ FilterSoFar'
    BY <1>1, <1>5, <2>1, <2>2 DEF ColourSoFar, FilterSoFar
  <2> QED BY <1>2, <2>3 DEF TransformsSoFar
<1> QED BY <1>3, <1>4, <1>5

LEMMA ReadKeeps ==
  ASSUME TransformsSoFar, read_bundle
  PROVE  TransformsSoFar'
<1>1. /\ stage = "read" /\ img # NotPng /\ stage' = "preprocess" /\ img' = img
      /\ opencl' = opencl /\ params' = params /\ device' = device /\ work' = work
  BY DEF read_bundle, loop
<1>2. PICK fill \in Leftovers : buf' = Planes(fill)
  BY DEF read_bundle
<1>3. /\ img \in Inputs /\ opencl \in BOOLEAN /\ params \in Parameters /\ device \in BOOLEAN
      /\ (device => opencl) /\ Once(work) /\ work = {}
  BY <1>1 DEF TransformsSoFar, Settled
<1>4. fill \in Symbols
  BY SharinganAssumption
<1>5. /\ buf' \in [0..BufferLength-1 -> SampleValues]
      /\ \A i \in 0..Size-1 : buf'[i] = Raw[i]
  BY <1>1, <1>2, <1>3, <1>4, PlanesTyped
<1>6. /\ Size' = Size /\ BufferLength' = BufferLength /\ SampleValues' = SampleValues /\ Raw' = Raw
  BY <1>1, SameImage
<1>7. Settled'
  BY <1>1, <1>3, <1>5, <1>6 DEF Settled
<1>8. ColourSoFar' /\ FilterSoFar'
  BY <1>1, <1>5, <1>6 DEF ColourSoFar, FilterSoFar
<1> QED BY <1>7, <1>8 DEF TransformsSoFar

LEMMA StartColourKeeps ==
  ASSUME TransformsSoFar, stage = "preprocess", Transformable, NEW onDevice \in BOOLEAN,
         onDevice => opencl, StartColour(onDevice)
  PROVE  TransformsSoFar'
<1>1. /\ stage' = "colour" /\ device' = onDevice /\ img' = img /\ opencl' = opencl
      /\ params' = params /\ buf' = buf
      /\ work' = IF onDevice THEN Strides(pixels) ELSE {Ascending(pixels)}
  BY DEF StartColour
<1>2. /\ img \in Inputs /\ img # NotPng /\ opencl \in BOOLEAN /\ params \in Parameters
      /\ buf \in [0..BufferLength-1 -> SampleValues] /\ \A i \in 0..Size-1 : buf[i] = Raw[i]
  BY DEF TransformsSoFar, Settled, ColourSoFar
<1>3. pixels \in Nat \ {0}
  BY <1>2, ImageFacts
<1>4. Once(work') /\ ToDo(work') = 0..pixels-1
  BY <1>1, <1>3, StridesToDo, AscendingToDo
<1>5. /\ pixels' = pixels /\ Transformable' = Transformable /\ Size' = Size
      /\ BufferLength' = BufferLength /\ SampleValues' = SampleValues
      /\ Raw' = Raw /\ Coloured' = Coloured
  BY <1>1, SameImage
<1>6. Settled'
  BY <1>1, <1>2, <1>4, <1>5 DEF Settled
<1>7. \A i \in 0..Size-1 : i % pixels \in ToDo(work')
  BY <1>2, <1>4, SamplePlace
<1>8. ColourSoFar'
  BY <1>1, <1>2, <1>4, <1>5, <1>7 DEF ColourSoFar
<1>9. FilterSoFar'
  BY <1>1 DEF FilterSoFar
<1> QED BY <1>6, <1>8, <1>9 DEF TransformsSoFar

LEMMA StartFilterKeeps ==
  ASSUME TransformsSoFar, StartFilter
  PROVE  TransformsSoFar'
<1>1. /\ stage = "apply_filter" /\ img.colour # "PALETTE" /\ stage' = "filter"
      /\ device' = OnDevice /\ channel' = 0 /\ img' = img /\ opencl' = opencl
      /\ params' = params /\ buf' = buf
      /\ input' = IF OnDevice THEN buf ELSE NoData
      /\ work' = IF OnDevice THEN Strides(pixels) ELSE {FilterOrder}
  BY DEF StartFilter
<1>2. /\ img \in Inputs /\ img # NotPng /\ opencl \in BOOLEAN /\ params \in Parameters
      /\ buf \in [0..BufferLength-1 -> SampleValues] /\ \A i \in 0..Size-1 : buf[i] = Coloured[i]
  BY <1>1 DEF TransformsSoFar, Settled, ColourSoFar
<1>3. /\ pixels \in Nat \ {0} /\ nchannels \in Nat \ {0} /\ Size \in Nat
  BY <1>2, ImageFacts
<1>4. /\ Once(work') /\ device' \in BOOLEAN /\ (device' => opencl)
      /\ device' => ToDo(work') = 0..pixels-1
      /\ ~device' => /\ ToDo(work') = 0..Size-1 /\ ToDoBefore(0..Size-1)
                     /\ work' = {FilterOrder} /\ Descends(FilterOrder)
  <2>1. Once(Strides(pixels)) /\ ToDo(Strides(pixels)) = 0..pixels-1
    BY <1>3, StridesToDo
  <2>2. /\ Once({FilterOrder}) /\ ToDo({FilterOrder}) = 0..Size-1
        /\ Descends(FilterOrder) /\ ToDoBefore(0..Size-1)
    BY <1>2, FilterOrderIs
  <2>3. OnDevice \in BOOLEAN /\ (OnDevice => opencl)
    BY <1>2 DEF OnDevice
  <2> QED BY <1>1, <2>1, <2>2, <2>3
<1>5. /\ pixels' = pixels /\ nchannels' = nchannels /\ Size' = Size
      /\ BufferLength' = BufferLength /\ SampleValues' = SampleValues
      /\ Filtered' = Filtered /\ Coloured' = Coloured
  BY <1>1, SameImage
<1>6. Settled'
  BY <1>1, <1>2, <1>4, <1>5 DEF Settled
<1>7. ColourSoFar'
  BY <1>1 DEF ColourSoFar
<1>8. CASE device'
  <2>1. \A i \in 0..Size-1 : ~FilterDone(i)'
    <3> SUFFICES ASSUME NEW i \in 0..Size-1 PROVE ~FilterDone(i)'
      OBVIOUS
    <3> DEFINE q == i \div pixels
               r == i % pixels
    <3>1. q \in 0..nchannels-1 /\ r \in ToDo(work')
      BY <1>2, <1>4, <1>8, SamplePlace
    <3> HIDE DEF q, r
    <3>2. ~(q < 0)
      BY <1>3, <3>1
    <3>3. ~(q < channel' \/ (q = channel' /\ r \notin ToDo(work')))
      BY <1>1, <3>1, <3>2
    <3> QED BY <1>5, <3>3 DEF FilterDone, q, r
  <2>2. channel' \in 0..nchannels-1 /\ ToDo(work') \subseteq 0..pixels-1
    BY <1>1, <1>3, <1>4, <1>8
  <2>3. \A i \in channel' * pixels .. Size-1 : input'[i] = Coloured[i]
    <3>1. 0 * pixels = 0 /\ input' = buf
      BY <1>1, <1>3, <1>8
    <3> QED BY <1>1, <1>2, <3>1
  <2>4. \A i \in 0..Size-1 : buf'[i] = IF FilterDone(i)' THEN Filtered[i] ELSE Coloured[i]
    BY <1>1, <1>2, <2>1
  <2>5. FilterSoFar'
    BY <1>1, <1>5, <1>8, <2>2, <2>3, <2>4 DEF FilterSoFar
  <2> QED BY <1>6, <1>7, <2>5 DEF TransformsSoFar
<1>9. CASE ~device'
  <2>1. (ToDoBefore(ToDo(work)))'
    BY <1>4, <1>5, <1>9 DEF ToDoBefore
  <2>2. \A it \in work' : Descends(it)'
    BY <1>4, <1>5, <1>9 DEF Descends
  <2>3. FilterSoFar'
    BY <1>1, <1>2, <1>4, <1>5, <1>9, <2>1, <2>2 DEF FilterSoFar
  <2> QED BY <1>6, <1>7, <2>3 DEF TransformsSoFar
<1> QED BY <1>8, <1>9, <1>4


LEMMA TransformsKept ==
  ASSUME TransformsSoFar, PairsSoFar, [Next]_vars
  PROVE  TransformsSoFar'
<1>0. Settled /\ ColourSoFar /\ FilterSoFar
  BY DEF TransformsSoFar
<1>1. CASE read_bundle
  BY <1>1, ReadKeeps
<1>2. CASE ReadThrows
  <2>1. /\ stage = "read" /\ img = NotPng /\ stage' = "failed" /\ img' = img /\ opencl' = opencl
        /\ params' = params /\ buf' = buf /\ device' = device /\ work' = work
    BY <1>2 DEF ReadThrows, loop
  <2>2. work = {}
    BY <1>0, <2>1 DEF Settled
  <2> QED BY <2>1, <2>2, StageSkipped
<1>3. CASE PreprocessSkips \/ ColourThrows \/ FilterSkips
  <2>1. /\ img' = img /\ opencl' = opencl /\ params' = params /\ buf' = buf
        /\ device' = device /\ work' = work /\ stage \in {"preprocess", "apply_filter"}
        /\ \/ stage' = "failed"
           \/ stage = "preprocess" /\ ~Transformable /\ stage' = "apply_filter"
           \/ stage = "apply_filter" /\ img.colour = "PALETTE" /\ stage' = "precode"
    BY <1>3 DEF PreprocessSkips, ColourThrows, FilterSkips, loop
  <2>2. work = {} /\ stage # "read" /\ img # NotPng
    BY <1>0, <2>1 DEF Settled
  <2> QED BY <2>1, <2>2, StageSkipped
<1>4. CASE ColourOnCpu
  <2>1. stage = "preprocess" /\ Transformable /\ StartColour(FALSE)
    BY <1>4 DEF ColourOnCpu
  <2> QED BY <2>1, StartColourKeeps
<1>5. CASE ColourOnDevice
  <2>1. stage = "preprocess" /\ Transformable /\ opencl /\ StartColour(TRUE)
    BY <1>5 DEF ColourOnDevice
  <2> QED BY <2>1, StartColourKeeps
<1>6. CASE StartFilter
  BY <1>6, StartFilterKeeps
<1>7. CASE StartPrecode
  <2>1. /\ stage = "precode" /\ opencl /\ stage' = "chunks" /\ img' = img /\ opencl' = opencl
        /\ params' = params /\ buf' = buf /\ device' = (pixels > ClPixels)
    BY <1>7 DEF StartPrecode
  <2>2. Once(work')
    BY <1>0, <1>7, StartPrecodeKeeps
  <2>3. device' \in BOOLEAN
    BY <2>1
  <2> QED BY <2>1, <2>2, <2>3, BufferKept
<1>8. CASE PrecodeUndefined \/ ResiduesThrow \/ StartEncode \/ EncodePair \/ EncodeUnset \/ Flush
  <2>1. /\ img' = img /\ opencl' = opencl /\ params' = params /\ buf' = buf
        /\ device' = device /\ work' = work
        /\ stage \in {"precode", "chunks", "encode"} /\ (stage = "chunks" => work = {})
        /\ stage' \in {"encode", "done", "failed", "crashed"}
    BY <1>8 DEF PrecodeUndefined, ResiduesThrow, StartEncode, EncodePair, EncodeUnset, Flush, loop
  <2>2. work = {} /\ Once(work) /\ device \in BOOLEAN /\ (device => opencl)
    BY <1>0, <2>1 DEF Settled
  <2>3. /\ device' \in BOOLEAN /\ (device' => opencl) /\ Once(work') /\ work' = {}
        /\ stage' \in {"precode", "chunks", "encode", "done", "failed", "crashed"}
    BY <2>1, <2>2
  <2> QED BY <2>1, <2>3, BufferKept
<1>9. CASE NextPass
  <2>1. /\ stage = "chunks" /\ stage' = "chunks" /\ img' = img /\ opencl' = opencl
        /\ params' = params /\ buf' = buf /\ device' = device
    BY <1>9 DEF NextPass
  <2>2. Once(work')
    BY <1>0, <1>9, NextPassKeeps
  <2>3. device \in BOOLEAN /\ (device => opencl)
    BY <1>0 DEF Settled
  <2>4. device' \in BOOLEAN /\ (device' => opencl)
    BY <2>1, <2>3
  <2> QED BY <2>1, <2>2, <2>4, BufferKept
<1>10. ASSUME NEW it \in work, ColourPixel(it) PROVE TransformsSoFar'
  BY <1>0, <1>10, ColourPixelKeeps DEF TransformsSoFar
<1>11. ASSUME NEW it \in work, FilterSample(it) PROVE TransformsSoFar'
  <2>1. CASE device
    BY <1>0, <1>11, <2>1, FilterKernelKeeps DEF TransformsSoFar
  <2>2. CASE ~device
    BY <1>0, <1>11, <2>2, FilterLoopKeeps DEF TransformsSoFar
  <2> QED BY <2>1, <2>2
<1>12. ASSUME NEW it \in work, PrecodeChunk(it) PROVE TransformsSoFar'
  <2>1. /\ stage = "chunks" /\ stage' = "chunks" /\ img' = img /\ opencl' = opencl
        /\ params' = params /\ buf' = buf /\ device' = device /\ work' = Advanced(it)
    BY <1>12 DEF PrecodeChunk
  <2>2. Once(work) /\ device \in BOOLEAN /\ (device => opencl)
    BY <1>0 DEF Settled
  <2>3. Once(work')
    BY <2>1, <2>2, Advances DEF Advanced
  <2>4. device' \in BOOLEAN /\ (device' => opencl)
    BY <2>1, <2>2
  <2> QED BY <2>1, <2>3, <2>4, BufferKept
<1>13. CASE UNCHANGED vars
  <2>1. /\ stage' = stage /\ img' = img /\ opencl' = opencl /\ params' = params /\ buf' = buf
        /\ device' = device /\ work' = work /\ channel' = channel /\ input' = input
    BY <1>13 DEF vars
  <2>2. /\ Size' = Size /\ BufferLength' = BufferLength /\ SampleValues' = SampleValues
        /\ pixels' = pixels /\ nchannels' = nchannels /\ Transformable' = Transformable
        /\ Raw' = Raw /\ Coloured' = Coloured /\ Filtered' = Filtered
    BY <2>1, SameImage
  <2>3. Settled'
    BY <1>0, <2>1, <2>2 DEF Settled
  <2>4. ColourSoFar'
    BY <1>0, <2>1, <2>2 DEF ColourSoFar
  <2>5. /\ (ToDoBefore(ToDo(work)))' <=> ToDoBefore(ToDo(work))
        /\ \A it : Descends(it)' <=> Descends(it)
        /\ \A i : FilterDone(i)' <=> FilterDone(i)
    BY <2>1, <2>2 DEF ToDoBefore, Descends, FilterDone
  <2>6. FilterSoFar'
    BY <1>0, <2>1, <2>2, <2>5 DEF FilterSoFar
  <2> QED BY <2>3, <2>4, <2>6 DEF TransformsSoFar
<1> QED BY <1>1, <1>2, <1>3, <1>4, <1>5, <1>6, <1>7, <1>8, <1>9, <1>10, <1>11, <1>12, <1>13 DEF Next

LEMMA PairsStayLegal ==
  ASSUME Settled, PairsSoFar, [Next]_vars
  PROVE  PairsSoFar'
<1>1. CASE StartPrecode
  BY <1>1, StartPrecodeKeeps
<1>2. CASE NextPass
  BY <1>2, NextPassKeeps
<1>3. CASE StartEncode
  BY <1>3, StartEncodeKeeps
<1>4. CASE EncodePair
  BY <1>4, EncodePairKeeps
<1>5. ASSUME NEW it \in work, PrecodeChunk(it) PROVE PairsSoFar'
  BY <1>5, PrecodeChunkKeeps
<1>6. CASE \/ read_bundle \/ ReadThrows \/ PreprocessSkips \/ ColourOnCpu \/ ColourOnDevice
           \/ ColourThrows \/ FilterSkips \/ StartFilter \/ PrecodeUndefined \/ ResiduesThrow
           \/ EncodeUnset \/ Flush
  <2>1. /\ img' = img /\ params' = params /\ pairs' = pairs /\ index' = index /\ x' = x
        /\ stage' \notin {"chunks", "encode"}
    BY <1>6 DEF read_bundle, ReadThrows, PreprocessSkips, ColourOnCpu, ColourOnDevice, StartColour,
                ColourThrows, FilterSkips, StartFilter, PrecodeUndefined, ResiduesThrow,
                EncodeUnset, Flush, coder
  <2> QED BY <2>1, PairsKept
<1>7. ASSUME NEW it \in work, ColourPixel(it) \/ FilterSample(it) PROVE PairsSoFar'
  <2>1. /\ img' = img /\ params' = params /\ pairs' = pairs /\ index' = index /\ x' = x
        /\ stage' \notin {"chunks", "encode"}
    BY <1>7 DEF ColourPixel, FilterSample, coder
  <2> QED BY <2>1, PairsKept
<1>8. CASE UNCHANGED vars
  <2>1. /\ stage' = stage /\ img' = img /\ params' = params /\ pairs' = pairs /\ index' = index
        /\ x' = x /\ channel' = channel /\ work' = work /\ fresh' = fresh
    BY <1>8 DEF vars
  <2>2. pixels' = pixels /\ XChunks' = XChunks /\ YChunks' = YChunks /\ Passes' = Passes
    BY <2>1, SameImage, SameChunks
  <2>3. \A r : ChunkNumber(r)' = ChunkNumber(r)
    BY <2>1, SameChunks
  <2>4. \A i : ChunkDone(i)' <=> ChunkDone(i)
    BY <2>1, <2>2, <2>3 DEF ChunkDone
  <2>5. \A i : ResidueMisplaced(i)' <=> ResidueMisplaced(i)
    BY <2>1, SameChunks
  <2>6. \A i : IsSet(i)' <=> IsSet(i)
    BY <2>1, <2>5 DEF IsSet
  <2> QED BY <2>1, <2>2, <2>4, <2>6 DEF PairsSoFar
<1> QED BY <1>1, <1>2, <1>3, <1>4, <1>5, <1>6, <1>7, <1>8 DEF Next

\* The inductive invariant: what every stage has made of the buffer and of the
\* pairs so far, with what its work items have left to do.
THEOREM Invariant == Spec => []Inv
<1>1. Init => Inv
  <2> SUFFICES ASSUME Init PROVE Inv
    OBVIOUS
  <2>1. Settled
    BY DEF Init, Settled, Once
  <2>2. ColourSoFar /\ FilterSoFar
    BY DEF Init, ColourSoFar, FilterSoFar
  <2>3. PairsSoFar
    BY CoderBegins DEF Init, PairsSoFar
  <2> QED BY <2>1, <2>2, <2>3 DEF Inv
<1>2. Inv /\ [Next]_vars => Inv'
  <2> SUFFICES ASSUME Inv, [Next]_vars PROVE Inv'
    OBVIOUS
  <2>1. TransformsSoFar /\ Settled /\ PairsSoFar
    BY DEF Inv, TransformsSoFar
  <2>2. TransformsSoFar'
    BY <2>1, TransformsKept
  <2>3. PairsSoFar'
    BY <2>1, PairsStayLegal
  <2> QED BY <2>2, <2>3 DEF Inv, TransformsSoFar
<1> QED BY <1>1, <1>2, PTL DEF Spec


-----------------------------------------------------------------------------
(* What follows *)
\* There are no more chunks than samples of a plane.
LEMMA ChunksFit ==
  ASSUME img \in Inputs, img # NotPng, params \in Parameters
  PROVE  XChunks * YChunks \in Nat /\ XChunks * YChunks <= pixels
<1>1. ASSUME NEW a \in Nat \ {0}, NEW b \in Nat \ {0} PROVE Ceiling(a, b) <= a
  <2> DEFINE c == Ceiling(a, b)
  <2>1. c \in Nat /\ (a < c => a * b < a)
    BY <1>1, CeilingIs
  <2>2. a * 1 <= a * b
    <3>1. 1 * a <= b * a /\ 1 * a = a * 1 /\ b * a = a * b
      BY <1>1, Monotone, Distribute
    <3> QED BY <3>1
  <2> DEFINE m == a * b
  <2>3. m \in Nat /\ a <= m
    BY <1>1, <2>2, Distribute
  <2> HIDE DEF c, m
  <2>4. ~(m < a)
    BY <1>1, <2>3
  <2>5. ~(a < c)
    BY <2>1, <2>4 DEF m
  <2>6. c <= a
    BY <1>1, <2>1, <2>5
  <2> QED BY <2>6 DEF c
<1> DEFINE X == XChunks
           Y == YChunks
           w == img.width
           h == img.height
<1>2. X \in Nat /\ Y \in Nat /\ w \in Nat /\ h \in Nat /\ X <= w /\ Y <= h
  BY <1>1, ChunkFacts, ImageFacts DEF XChunks, YChunks
<1> HIDE DEF X, Y, w, h
<1>3. X * Y <= w * Y /\ Y * w <= h * w /\ Y * w = w * Y /\ h * w = w * h
  BY <1>2, Monotone, Distribute
<1>4. X * Y \in Nat /\ w * Y \in Nat /\ w * h \in Nat
  BY <1>2, Distribute
<1> DEFINE p == X * Y
           q == w * Y
           r == w * h
<1>5. p \in Nat /\ q \in Nat /\ r \in Nat /\ p <= q /\ q <= r
  BY <1>3, <1>4
<1> HIDE DEF p, q, r
<1>6. p <= r
  BY <1>5
<1> QED BY <1>4, <1>6 DEF p, r, X, Y, w, h, pixels

\* A work item has only samples, pixels or chunks of the image to do.
LEMMA WorkWithin ==
  ASSUME Inv
  PROVE  ToDo(work) \subseteq 0..Size-1
<1>1. /\ Settled /\ ColourSoFar /\ FilterSoFar /\ PairsSoFar
  BY DEF Inv
<1>2. CASE work = {}
  BY <1>2 DEF ToDo
<1>3. CASE work # {}
  <2>1. /\ stage \in {"colour", "filter", "chunks"} /\ img \in Inputs /\ img # NotPng
        /\ params \in Parameters /\ device \in BOOLEAN
    BY <1>1, <1>3 DEF Settled
  <2>2. pixels \in Nat \ {0} /\ Size \in Nat \ {0} /\ pixels <= Size
    BY <2>1, ImageFacts
  <2>3. CASE stage = "colour" \/ (stage = "filter" /\ device)
    <3>1. ToDo(work) \subseteq 0..pixels-1
      BY <1>1, <2>3 DEF ColourSoFar, FilterSoFar
    <3> QED BY <2>2, <3>1
  <2>4. CASE stage = "filter" /\ ~device
    BY <1>1, <2>4 DEF FilterSoFar
  <2>5. CASE stage = "chunks"
    <3> DEFINE n == XChunks * YChunks
    <3>1. ToDo(work) \subseteq 0..n-1 /\ n \in Nat /\ n <= pixels
      BY <1>1, <2>1, <2>5, ChunksFit DEF PairsSoFar
    <3> HIDE DEF n
    <3> QED BY <2>2, <3>1
  <2> QED BY <2>1, <2>3, <2>4, <2>5
<1> QED BY <1>2, <1>3

\* The type invariant: samples stay within the bit depth (color.cpp's and
\* paeth.cpp's masks), work items within the image, the encoder's index within
\* the pairs and its state within rANS's interval.
THEOREM Typed == Spec => []TypeOK
<1>1. Inv => TypeOK
  <2> SUFFICES ASSUME Inv PROVE TypeOK
    OBVIOUS
  <2>1. Settled /\ PairsSoFar
    BY DEF Inv
  <2>2. \A i \in DOMAIN buf : buf[i] \in 0..Power2[img.depth]-1
    <3>1. CASE buf = NoData
      <4>1. DOMAIN NoData = {}
        BY DEF NoData
      <4> QED BY <3>1, <4>1
    <3>2. CASE buf \in [0..BufferLength-1 -> SampleValues]
      BY <3>2 DEF SampleValues
    <3> QED BY <2>1, <3>1, <3>2 DEF Settled
  <2>3. ASSUME NEW it \in work
        PROVE  it # <<>> /\ \A k \in DOMAIN it : it[k] \in 0..nchannels * pixels - 1
    <3>1. it \in Seq(Nat) /\ it # <<>>
      BY <2>1 DEF Settled, Once
    <3>2. DOMAIN it = 1..Len(it)
      BY <3>1, LenProperties
    <3>3. \A k \in DOMAIN it : it[k] \in ToDo(work)
      BY <3>2 DEF ToDo, Members
    <3> QED BY <3>1, <3>3, WorkWithin DEF Size
  <2>4. index \in 0..Cardinality(DOMAIN pairs)
    <3>1. CASE pairs = NoData /\ index = 0
      <4>1. DOMAIN pairs = {}
        BY <3>1 DEF NoData
      <4>2. Cardinality(DOMAIN pairs) = 0
        BY <4>1, FS_EmptySet
      <4> QED BY <3>1, <4>2
    <3>2. CASE /\ img # NotPng
               /\ pairs \in [0..Passes * pixels - 1 -> LegalPairs \cup {NoPair}]
               /\ index \in 0..Passes * pixels
      <4> DEFINE n == Passes * pixels
      <4>1. n \in Nat
        <5>1. img \in Inputs /\ img # NotPng
          BY <2>1, <3>2 DEF Settled
        <5>2. pixels \in Nat /\ nchannels \in Nat
          BY <5>1, ImageFacts
        <5>3. Passes \in Nat
          BY <5>2 DEF Passes
        <5> QED BY <5>2, <5>3, Distribute
      <4>2. DOMAIN pairs = 0..n-1 /\ index \in 0..n
        BY <3>2
      <4> HIDE DEF n
      <4>3. Cardinality(0..n-1) = n
        BY <4>1, FS_Interval
      <4> QED BY <4>2, <4>3
    <3> QED BY <2>1, <3>1, <3>2 DEF PairsSoFar
  <2> QED BY <2>1, <2>2, <2>3, <2>4 DEF TypeOK, Settled, PairsSoFar
<1> QED BY <1>1, Invariant, PTL

\* The colour transform and the differential work in place: whatever the order
\* and the strides of the work items, on the CPU or on a device, a sample is
\* transformed once, from its neighbours as they were (color.cpp:44, paeth.cpp:46).
THEOREM InPlace == Spec => []TransformsInPlace
<1>1. Inv => TransformsInPlace
  <2> SUFFICES ASSUME Inv, stage = "precode"
               PROVE  \A i \in 0..nchannels * pixels - 1 : buf[i] = FilterOf(ColourOf(Planes(0)))[i]
    BY DEF TransformsInPlace
  <2>1. \A i \in 0..Size-1 : buf[i] = Filtered[i]
    BY DEF Inv, FilterSoFar
  <2> QED BY <2>1 DEF Size, Filtered, Coloured, Raw
<1> QED BY <1>1, Invariant, PTL

\* The chunks tile every plane, and every pair the encoder starts with is a
\* slot within the scale that is not empty; only residues of images of several
\* rows of chunks may be missing (state_transition.cpp).
THEOREM Legal == Spec => []SlotsLegal
<1>1. Inv => SlotsLegal
  <2> SUFFICES ASSUME Inv, stage = "encode", NEW i \in DOMAIN pairs
               PROVE  IF pairs[i] = NoPair THEN ResidueMisplaced(i)
                      ELSE IsSlot(pairs[i].ls, pairs[i].bs)
    BY DEF SlotsLegal
  <2>1. /\ pairs \in [0..Passes * pixels - 1 -> LegalPairs \cup {NoPair}]
        /\ \A j \in 0..Passes * pixels - 1 : IsSet(j)
    BY DEF Inv, PairsSoFar
  <2>2. IsSet(i) /\ pairs[i] \in LegalPairs \cup {NoPair}
    BY <2>1
  <2> QED BY <2>2 DEF IsSet, LegalPairs
<1> QED BY <1>1, Invariant, PTL

-----------------------------------------------------------------------------
(* Losslessness *)
\* A call with samples of one byte.
Plain == img \in Inputs /\ img # NotPng /\ params \in Parameters /\ shift = 0

LEMMA PlainFacts ==
  ASSUME Plain
  PROVE  /\ img.depth = ByteBits /\ Passes = nchannels
         /\ BufferLength = Size /\ SampleValues = Symbols /\ Passes * pixels = Size
         /\ Size \in Nat \ {0} /\ pixels \in Nat \ {0} /\ nchannels \in Nat \ {0}
         /\ AlphabetSize \in Nat \ {0} /\ AlphabetSize >= 2 /\ Symbols = 0..AlphabetSize-1
         /\ ByteBits \in Nat \ {0}
<1>1. /\ IsImage(img) /\ nchannels \in Nat \ {0} /\ pixels \in Nat \ {0} /\ Size \in Nat \ {0}
      /\ ByteBits \in Nat \ {0} /\ AlphabetSize \in Nat /\ AlphabetSize >= 2
  BY ImageFacts, ValueFacts, SharinganAssumption DEF Plain
<1>2. img.depth \in {ByteBits, 2 * ByteBits}
  BY <1>1 DEF IsImage
<1>3. img.depth = ByteBits
  <2> DEFINE d == img.depth
  <2>1. (IF d > ByteBits THEN d - ByteBits ELSE 0) = 0
    BY DEF Plain, shift
  <2>2. d \in {ByteBits, 2 * ByteBits}
    BY <1>2
  <2> HIDE DEF d
  <2>3. d = ByteBits
    BY <1>1, <2>1, <2>2
  <2> QED BY <2>3 DEF d
<1>4. BufferLength = Size
  <2> DEFINE c == nchannels
             w == img.width
             h == img.height
  <2>1. c \in Nat /\ w \in Nat /\ h \in Nat
    BY <1>1 DEF IsImage
  <2>2. BufferLength = c * w * (ByteBits \div ByteBits) * h /\ Size = c * (w * h)
    BY <1>3 DEF BufferLength, RowBytes, Size, pixels, nchannels
  <2> HIDE DEF c, w, h
  <2>3. ByteBits \div ByteBits = 1
    BY <1>1, SMT
  <2>4. (c * w * 1) * h = c * (w * h)
    BY <2>1, SMT
  <2> QED BY <2>2, <2>3, <2>4
<1>5. SampleValues = Symbols
  BY <1>3 DEF SampleValues, Symbols, AlphabetSize
<1>6. Passes = nchannels
  BY DEF Passes, Plain
<1>7. Passes * pixels = Size
  BY <1>6 DEF Size
<1> QED BY <1>1, <1>3, <1>4, <1>5, <1>6, <1>7 DEF Symbols

LEMMA PlainBuffers ==
  ASSUME Plain
  PROVE  /\ Raw \in [0..Size-1 -> Symbols] /\ Coloured \in [0..Size-1 -> Symbols]
         /\ Filtered \in [0..Size-1 -> Symbols]
<1>1. Raw \in [0..Size-1 -> Symbols] /\ Coloured \in [0..Size-1 -> Symbols]
  BY PlainFacts, ColouredTyped DEF Plain
<1>2. CASE img.colour = "PALETTE"
  BY <1>1, <1>2, FilteredIs DEF Plain
<1>3. CASE img.colour # "PALETTE"
  <2> DEFINE f(i) == Difference(Coloured[i], Prediction(Coloured, i, img.width, img.height), img.depth)
  <2>1. Filtered = [i \in 0..Size-1 |-> f(i)]
    BY <1>1, <1>3 DEF Filtered, FilterOf
  <2>2. ASSUME NEW i \in 0..Size-1 PROVE Filtered[i] \in Symbols
    <3>1. \A j \in 0..i : j \div pixels = i \div pixels => Coloured[j] = Coloured[j]
      OBVIOUS
    <3>2. Filtered[i] \in SampleValues
      BY <1>3, <3>1, FilterStep DEF Plain
    <3> QED BY <3>2, PlainFacts
  <2> HIDE DEF f
  <2>3. \A i \in 0..Size-1 : f(i) \in Symbols
    BY <2>1, <2>2
  <2>4. Filtered \in [0..Size-1 -> Symbols]
    BY <2>1, <2>3
  <2> QED BY <1>1, <2>4
<1> QED BY <1>1, <1>2, <1>3

\* What the precoding reads of a plain image.
LEMMA PlainLeading ==
  ASSUME Plain, buf = Filtered
  PROVE  LeadingSymbols = Filtered
<1>1. Filtered \in [0..Size-1 -> Symbols]
  BY PlainBuffers
<1>2. Power2[shift] = 1
  BY Power2Steps DEF Plain
<1>3. ASSUME NEW i \in 0..Size-1 PROVE Leading(i) = Filtered[i]
  <2>1. Filtered[i] \in 0..AlphabetSize-1 /\ AlphabetSize \in Nat \ {0}
    BY <1>1, PlainFacts
  <2>2. \A v \in Nat : v \div 1 = v
    BY SMT
  <2>3. Filtered[i] \div 1 = Filtered[i]
    BY <2>1, <2>2
  <2>4. Filtered[i] % AlphabetSize = Filtered[i]
    BY <2>1, ResidueShift
  <2> QED BY <1>2, <2>3, <2>4 DEF Leading
<1>4. LeadingSymbols = [i \in 0..Size-1 |-> Filtered[i]]
  BY <1>1, <1>3 DEF LeadingSymbols
<1> QED BY <1>1, <1>4

-----------------------------------------------------------------------------
(* What is learnt *)
\* The sums of a row are the weights of c in the first contexts.
Weighs(row, contexts, c) ==
  /\ \A k \in 0..Len(contexts) : SumBelow(row, k) \in Nat
  /\ \A k \in 0..Len(contexts)-1 :
       SumBelow(row, k + 1) = SumBelow(row, k) + (IF contexts[k + 1][1] = c THEN contexts[k + 1][2] ELSE 0)
  /\ SumBelow(row, 0) = 0 /\ Weight(contexts, c) = SumBelow(row, Len(contexts))

LEMMA WeightIs ==
  ASSUME NEW contexts \in Seq(Symbols \X Nat), NEW c
  PROVE  \E row : Weighs(row, contexts, c)
<1> DEFINE n == Len(contexts)
           row == [k \in 0..n-1 |-> IF contexts[k + 1][1] = c THEN contexts[k + 1][2] ELSE 0]
<1>1. n \in Nat /\ \A k \in 1..n : contexts[k] \in Symbols \X Nat
  BY LenProperties
<1>2. \A k \in 0..n-1 : row[k] \in Nat
  <2>1. \A k \in 0..n-1 : k + 1 \in 1..n
    BY <1>1
  <2>2. \A k \in 0..n-1 : contexts[k + 1][2] \in Nat
    BY <1>1, <2>1
  <2> QED BY <2>2
<1>3. Weight(contexts, c) = SumBelow(row, n)
  BY DEF Weight
<1> HIDE DEF n
<1>4. \A k \in 0..n : SumBelow(row, k) \in Nat
  <2> HIDE DEF row
  <2> QED BY <1>1, <1>2, SumBelowNat
<1>5. ASSUME NEW k \in 0..n-1
      PROVE  SumBelow(row, k + 1) = SumBelow(row, k) + (IF contexts[k + 1][1] = c THEN contexts[k + 1][2] ELSE 0)
  <2>1. k \in Nat
    BY <1>1
  <2>2. SumBelow(row, k + 1) = SumBelow(row, k) + row[k]
    BY <2>1, SumBelowIs
  <2>3. row[k] = IF contexts[k + 1][1] = c THEN contexts[k + 1][2] ELSE 0
    OBVIOUS
  <2> QED BY <2>2, <2>3
<1>6. SumBelow(row, 0) = 0
  BY SumBelowIs
<1> HIDE DEF row
<1>7. Weighs(row, contexts, c)
  BY <1>3, <1>4, <1>5, <1>6 DEF n, Weighs
<1> QED BY <1>7

\* Learning the contexts of a sample adds their weights.
Adds(m, f_map, contexts, s) ==
  \A c \in Symbols : \A d \in Symbols :
    m[c][d] = f_map[c][d] + (IF d = s THEN Weight(contexts, c) ELSE 0)

LEMMA LearntIs ==
  ASSUME NEW f_map \in FMaps, NEW contexts \in Seq(Symbols \X Nat), NEW s \in Symbols
  PROVE  Adds(Learnt(f_map, contexts, s), f_map, contexts, s)
<1> DEFINE n == Len(contexts)
<1>1. n \in Nat /\ \A k \in 1..n : contexts[k] \in Symbols \X Nat
  BY LenProperties
<1>2. PICK h : LearntFold(f_map, contexts, s, h)
  BY LearntFolds
<1>3. /\ h \in [0..n -> FMaps] /\ h[0] = f_map /\ Learnt(f_map, contexts, s) = h[n]
      /\ \A k \in 0..n-1 : h[k + 1] = LearntTurn(h[k], contexts[k + 1], s)
  BY <1>2 DEF LearntFold
<1> SUFFICES ASSUME NEW c \in Symbols, NEW d \in Symbols
             PROVE  h[n][c][d] = f_map[c][d] + (IF d = s THEN Weight(contexts, c) ELSE 0)
  BY <1>3 DEF Adds
<1>4. PICK row : Weighs(row, contexts, c)
  BY WeightIs
<1>5. /\ \A k \in 0..n : SumBelow(row, k) \in Nat
      /\ \A k \in 0..n-1 : SumBelow(row, k + 1) =
           SumBelow(row, k) + (IF contexts[k + 1][1] = c THEN contexts[k + 1][2] ELSE 0)
      /\ SumBelow(row, 0) = 0 /\ Weight(contexts, c) = SumBelow(row, n)
  BY <1>4 DEF Weighs
<1> HIDE DEF n
<1> DEFINE Is(k) == h[k][c][d] = f_map[c][d] + (IF d = s THEN SumBelow(row, k) ELSE 0)
           S == {k \in Nat : k <= n => Is(k)}
<1>6. f_map[c][d] \in Nat
  BY DEF FMaps
<1>7. 0 \in S
  BY <1>3, <1>5, <1>6
<1>8. ASSUME NEW k \in Nat, k \in S PROVE k + 1 \in S
  <2> SUFFICES ASSUME k + 1 <= n PROVE Is(k + 1)
    OBVIOUS
  <2>1. k \in 0..n-1 /\ k \in 0..n /\ k + 1 \in 1..n /\ Is(k)
    BY <1>1, <1>8
  <2> DEFINE e == contexts[k + 1][1]
             v == contexts[k + 1][2]
             m == h[k]
  <2>2. e \in Symbols /\ v \in Nat
    BY <1>1, <2>1
  <2>3. h[k + 1] = [m EXCEPT ![e][s] = @ + v]
    BY <1>3, <2>1 DEF LearntTurn
  <2>4. SumBelow(row, k + 1) = SumBelow(row, k) + (IF e = c THEN v ELSE 0)
    BY <1>5, <2>1
  <2>5. m \in [Symbols -> [Symbols -> Nat]]
    BY <1>3, <2>1 DEF FMaps
  <2>6. SumBelow(row, k) \in Nat
    BY <1>5, <2>1
  <2>7. h[k + 1][c][d] = m[c][d] + (IF e = c /\ d = s THEN v ELSE 0)
    <3> HIDE DEF e, v, m, Is
    <3>1. CASE e = c /\ d = s
      BY <2>2, <2>3, <2>5, <3>1
    <3>2. CASE ~(e = c /\ d = s)
      <4>1. h[k + 1][c][d] = m[c][d]
        BY <2>2, <2>3, <2>5, <3>2
      <4>2. m[c][d] \in Nat
        BY <2>5
      <4> QED BY <3>2, <4>1, <4>2
    <3> QED BY <3>1, <3>2
  <2>8. m[c][d] = f_map[c][d] + (IF d = s THEN SumBelow(row, k) ELSE 0)
    BY <2>1
  <2> HIDE DEF e, v, m
  <2> QED BY <1>6, <2>2, <2>4, <2>6, <2>7, <2>8
<1>9. Is(n)
  <2> HIDE DEF Is
  <2>1. n \in S
    BY <1>1, <1>7, <1>8, Induction
  <2> QED BY <1>1, <2>1
<1> QED BY <1>5, <1>9

-----------------------------------------------------------------------------
(* The model at a sample *)
\* A sample's place in its chunk is not beyond it.
Fits(i) ==
  Within(i)[1] \in Nat /\ Within(i)[2] \in Nat /\ Within(i)[2] * img.width + Within(i)[1] <= i

LEMMA WithinFits ==
  ASSUME Plain, NEW i \in 0..Size-1
  PROVE  Fits(i)
<1> DEFINE w == img.width
           col == i % w
           y == (i % pixels) \div w
           cw == params.chunk_width
           ch == params.chunk_height
           a == col % cw
           b == y % ch
<1>1. w \in Nat \ {0} /\ cw \in Nat \ {0} /\ ch \in Nat \ {0} /\ i \in Nat
  BY ImageFacts, ChunkFacts DEF Plain
<1>2. /\ i = (i \div pixels) * pixels + (i % pixels) /\ (i \div pixels) * pixels \in Nat
      /\ i % pixels = y * w + col /\ y * w \in Nat /\ y \in Nat /\ col \in Nat
  <2>1. /\ i = (i \div pixels) * pixels + (i % pixels) /\ (i \div pixels) * pixels \in Nat
        /\ y \in 0..img.height-1 /\ i % img.width \in 0..img.width-1
        /\ i % pixels = y * img.width + (i % img.width) /\ y * img.width \in Nat
    BY SamplePlace DEF Plain
  <2> HIDE DEF y
  <2>2. y \in Nat /\ i % img.width \in Nat
    BY <2>1
  <2> QED BY <2>1, <2>2
<1>3. Within(i) = <<a, b>>
  BY DEF Within
<1> DEFINE p == (i \div pixels) * pixels
           r == i % pixels
<1>4. i = p + r /\ p \in Nat /\ r = y * w + col
  BY <1>2
<1> HIDE DEF w, col, y, cw, ch, p, r
<1>5. a \in Nat /\ b \in Nat /\ a <= col /\ b <= y
  <2>1. a \in 0..cw-1 /\ col = (col \div cw) * cw + a /\ (col \div cw) * cw \in Nat
    BY <1>1, <1>2, Division
  <2>2. b \in 0..ch-1 /\ y = (y \div ch) * ch + b /\ (y \div ch) * ch \in Nat
    BY <1>1, <1>2, Division
  <2> DEFINE ac == (col \div cw) * cw
             bc == (y \div ch) * ch
  <2> HIDE DEF ac, bc, a, b
  <2>3. ac \in Nat /\ bc \in Nat /\ col = ac + a /\ y = bc + b /\ a \in Nat /\ b \in Nat
    BY <1>1, <2>1, <2>2 DEF ac, bc
  <2> QED BY <2>3
<1> HIDE DEF a, b
<1>6. b * w <= y * w /\ b * w \in Nat
  BY <1>1, <1>2, <1>5, Monotone, Distribute
<1>7. b * w + a <= i
  <2> DEFINE bw == b * w
             yw == y * w
  <2>1. bw \in Nat /\ yw \in Nat /\ bw <= yw /\ r = yw + col
    BY <1>2, <1>4, <1>6
  <2> HIDE DEF bw, yw
  <2>2. bw + a <= i
    BY <1>1, <1>2, <1>4, <1>5, <2>1
  <2> QED BY <2>2 DEF bw
<1> QED BY <1>3, <1>5, <1>7 DEF Fits, w

\* The contexts of a sample are among the symbols before it.
LEMMA ContextsLocal ==
  ASSUME Plain, NEW i \in Nat, NEW at, at[1] \in Nat, at[2] \in Nat, at[2] * img.width + at[1] <= i,
         NEW sym, NEW other, \A j \in 0..i-1 : sym[j] = other[j]
  PROVE  Contexts(sym, i, at) = Contexts(other, i, at)
<1> DEFINE a == at[1]
           b == at[2]
           w == img.width
           bw == b * w
<1>1. w \in Nat \ {0} /\ a \in Nat /\ b \in Nat /\ bw + a <= i
  BY ImageFacts DEF Plain
<1>2. bw \in Nat /\ (b > 0 => w <= bw)
  <2>1. w \in Nat \ {0} /\ b \in Nat
    BY <1>1
  <2> HIDE DEF b, w
  <2>2. b > 0 => 1 * w <= b * w
    BY <2>1, Monotone
  <2>3. b * w \in Nat
    BY <2>1, Distribute
  <2> QED BY <2>1, <2>2, <2>3
<1> HIDE DEF bw, w, a, b
<1>3. /\ a > 0 => i - 1 \in 0..i-1
      /\ b > 0 => i - w \in 0..i-1
      /\ a > 0 /\ b > 0 => i - w - 1 \in 0..i-1
  BY <1>1, <1>2
<1>4. /\ a > 0 => sym[i - 1] = other[i - 1]
      /\ b > 0 => sym[i - w] = other[i - w]
      /\ a > 0 /\ b > 0 => sym[i - w - 1] = other[i - w - 1]
  BY <1>3
<1>5. /\ at[1] > 0 => sym[i - 1] = other[i - 1]
      /\ at[2] > 0 => sym[i - img.width] = other[i - img.width]
      /\ at[1] > 0 /\ at[2] > 0 => sym[i - img.width - 1] = other[i - img.width - 1]
  BY <1>4 DEF a, b, w
<1> DEFINE left(s) == IF at[1] > 0 THEN <<<<s[i - 1], params.rate>>>> ELSE <<>>
           up(s) == IF at[2] > 0 /\ params.order > 1 THEN <<<<s[i - img.width], params.rate>>>> ELSE <<>>
           diag(s) == IF at[1] > 0 /\ at[2] > 0 /\ params.order > 2
                      THEN <<<<s[i - img.width - 1], params.rate \div 2>>>> ELSE <<>>
<1>6. left(sym) = left(other) /\ up(sym) = up(other) /\ diag(sym) = diag(other)
  BY <1>5
<1>7. /\ Contexts(sym, i, at) = left(sym) \o up(sym) \o diag(sym)
      /\ Contexts(other, i, at) = left(other) \o up(other) \o diag(other)
  BY DEF Contexts
<1> HIDE DEF left, up, diag
<1> QED BY <1>6, <1>7

\* What sample j adds to a count for sample i.
Share(sym, i, c, s, j) ==
  IF ChunkOf(j) = ChunkOf(i) /\ sym[j] = s THEN Weight(Contexts(sym, j, Within(j)), c) ELSE 0

LEMMA ShareTyped ==
  ASSUME Plain, NEW sym \in [0..Size-1 -> Symbols], NEW j \in 0..Size-1
  PROVE  /\ Contexts(sym, j, Within(j)) \in Seq(Symbols \X Nat)
         /\ \A i, c, s : Share(sym, i, c, s, j) \in Nat
<1>1. Contexts(sym, j, Within(j)) \in Seq(Symbols \X Nat)
  <2>1. Size \in Nat
    BY PlainFacts
  <2> QED BY <2>1, WithinFits, ContextsTyped DEF Plain, Fits
<1>2. ASSUME NEW c PROVE Weight(Contexts(sym, j, Within(j)), c) \in Nat
  <2> DEFINE cs == Contexts(sym, j, Within(j))
  <2>1. cs \in Seq(Symbols \X Nat)
    BY <1>1
  <2> HIDE DEF cs
  <2>2. PICK row : Weighs(row, cs, c)
    BY <2>1, WeightIs
  <2>3. Len(cs) \in 0..Len(cs)
    BY <2>1, LenProperties
  <2>4. Weight(cs, c) \in Nat
    BY <2>2, <2>3 DEF Weighs
  <2> QED BY <2>4 DEF cs
<1> QED BY <1>1, <1>2 DEF Share

LEMMA CountIs ==
  ASSUME Plain, NEW sym \in [0..Size-1 -> Symbols], NEW i \in 0..Size-1, NEW c, NEW s
  PROVE  Count(sym, i, c, s) \in Nat /\ Count(sym, i, c, s) = SumBelow([j \in 0..i-1 |-> Share(sym, i, c, s, j)], i)
<1> DEFINE row == [j \in 0..i-1 |-> Share(sym, i, c, s, j)]
<1>1. i \in Nat /\ Size \in Nat
  BY PlainFacts
<1>2. Count(sym, i, c, s) = SumBelow(row, i)
  BY DEF Count, Share
<1>3. \A j \in 0..i-1 : row[j] \in Nat
  <2>1. \A j \in 0..i-1 : j \in 0..Size-1
    BY <1>1
  <2> QED BY <2>1, ShareTyped
<1> HIDE DEF row
<1>4. i \in 0..i
  BY <1>1
<1>5. SumBelow(row, i) \in Nat
  BY <1>1, <1>3, <1>4, SumBelowNat
<1> QED BY <1>2, <1>5 DEF row

LEMMA CountLocal ==
  ASSUME Plain, NEW sym \in [0..Size-1 -> Symbols], NEW other \in [0..Size-1 -> Symbols],
         NEW i \in 0..Size-1, \A j \in 0..i-1 : sym[j] = other[j]
  PROVE  \A c, s : Count(sym, i, c, s) = Count(other, i, c, s)
<1> SUFFICES ASSUME NEW c, NEW s PROVE Count(sym, i, c, s) = Count(other, i, c, s)
  OBVIOUS
<1> DEFINE row == [j \in 0..i-1 |-> Share(sym, i, c, s, j)]
           row2 == [j \in 0..i-1 |-> Share(other, i, c, s, j)]
<1>1. i \in Nat /\ Size \in Nat
  BY PlainFacts
<1>2. ASSUME NEW j \in 0..i-1 PROVE Share(sym, i, c, s, j) = Share(other, i, c, s, j)
  <2>1. j \in Nat /\ j \in 0..Size-1 /\ sym[j] = other[j] /\ \A k \in 0..j-1 : sym[k] = other[k]
    BY <1>1
  <2>2. Fits(j)
    BY <2>1, WithinFits
  <2>3. Contexts(sym, j, Within(j)) = Contexts(other, j, Within(j))
    BY <2>1, <2>2, ContextsLocal DEF Fits
  <2> QED BY <2>1, <2>3 DEF Share
<1>3. \A j \in 0..i-1 : row[j] = row2[j]
  BY <1>2
<1>4. Count(sym, i, c, s) = SumBelow(row, i) /\ Count(other, i, c, s) = SumBelow(row2, i)
  BY CountIs
<1> HIDE DEF row, row2
<1>5. SumBelow(row, i) = SumBelow(row2, i)
  BY <1>1, <1>3, SumBelowSame
<1> QED BY <1>4, <1>5

\* The table for sample i when sym is known before it.
ModelTable(sym, i) ==
  LET cs == Contexts(sym, i, Within(i))
  IN  IF cs = <<>> THEN [s \in Symbols |-> Total \div AlphabetSize]
      ELSE Ftable([s \in Symbols |-> Count(sym, i, cs[1][1], s)])

LEMMA UniformTable ==
  LET q == Total \div AlphabetSize
      row == [s \in Symbols |-> q]
  IN  /\ row \in [Symbols -> Nat \ {0}] /\ SumBelow(row, AlphabetSize) = Total
      /\ \A s \in Symbols : uniform_pair(s) = add_to_seq(row, s)
<1> DEFINE q == Total \div AlphabetSize
           row == [s \in Symbols |-> q]
           A == AlphabetSize
<1>1. A \in Nat \ {0} /\ Total \in Nat \ {0} /\ Total % A = 0 /\ Total > A
  BY SharinganAssumption, HzRansAssumption, Power2Grows DEF AlphabetSize
<1>2. Symbols = 0..A-1
  BY DEF Symbols
<1>3. q \in Nat /\ Total = q * A + (Total % A) /\ q * A \in Nat
  BY <1>1, Division
<1> HIDE DEF q, A
<1>4. q \in Nat \ {0} /\ A * q = Total
  <2>1. q # 0
    <3> SUFFICES ASSUME q = 0 PROVE FALSE
      OBVIOUS
    <3>1. 0 * A = 0
      BY <1>1
    <3> QED BY <1>1, <1>3, <3>1
  <2>2. A * q = q * A
    BY <1>1, <1>3, Distribute
  <2> DEFINE qA == q * A
  <2>3. Total = qA + 0 /\ qA \in Nat
    BY <1>1, <1>3
  <2> QED BY <1>3, <2>1, <2>2, <2>3
<1>5. row \in [Symbols -> Nat \ {0}] /\ \A s \in 0..A-1 : row[s] = q
  BY <1>2, <1>4
<1>6. \A k \in 0..A : SumBelow(row, k) = k * q
  <2> HIDE DEF row
  <2> QED BY <1>1, <1>4, <1>5, SumOfEquals
<1>7. SumBelow(row, A) = Total
  BY <1>1, <1>4, <1>6
<1>8. ASSUME NEW s \in Symbols PROVE uniform_pair(s) = add_to_seq(row, s)
  <2>1. s \in 0..A-1 /\ s \in 0..A
    BY <1>1, <1>2
  <2>2. row[s] = q /\ SumBelow(row, s) = s * q
    BY <1>5, <1>6, <2>1
  <2> HIDE DEF row
  <2> QED BY <2>2 DEF uniform_pair, add_to_seq, q, A
<1> QED BY <1>5, <1>7, <1>8 DEF q, A

LEMMA TableIs ==
  ASSUME Plain, NEW sym \in [0..Size-1 -> Symbols], NEW i \in 0..Size-1
  PROVE  /\ ModelTable(sym, i) \in [0..AlphabetSize-1 -> Nat \ {0}]
         /\ SumBelow(ModelTable(sym, i), AlphabetSize) = Total
<1> DEFINE cs == Contexts(sym, i, Within(i))
           freq == [s \in Symbols |-> Count(sym, i, cs[1][1], s)]
<1>1. CASE cs = <<>>
  BY <1>1, UniformTable, PlainFacts DEF ModelTable
<1>2. CASE cs # <<>>
  <2>1. ModelTable(sym, i) = create_ftable_nf(freq, AlphabetSize, Total)
    BY <1>2 DEF ModelTable, Ftable
  <2>2. \A s \in 0..AlphabetSize-1 : freq[s] \in Nat
    BY CountIs, PlainFacts
  <2>3. AlphabetSize \in Nat \ {0} /\ Total \in Nat /\ Total >= AlphabetSize
    BY SharinganAssumption, HzRansAssumption, PlainFacts
  <2> HIDE DEF freq, cs
  <2> QED BY <2>1, <2>2, <2>3, FtableSums
<1> QED BY <1>1, <1>2

\* The table depends on what is before the sample.
LEMMA TableLocal ==
  ASSUME Plain, NEW sym \in [0..Size-1 -> Symbols], NEW other \in [0..Size-1 -> Symbols],
         NEW i \in 0..Size-1, \A j \in 0..i-1 : sym[j] = other[j]
  PROVE  ModelTable(sym, i) = ModelTable(other, i)
<1>1. Contexts(sym, i, Within(i)) = Contexts(other, i, Within(i))
  <2>1. i \in Nat /\ Fits(i)
    BY WithinFits, PlainFacts
  <2> QED BY <2>1, ContextsLocal DEF Fits
<1>2. \A c, s : Count(sym, i, c, s) = Count(other, i, c, s)
  BY CountLocal
<1>3. ASSUME NEW c PROVE [s \in Symbols |-> Count(sym, i, c, s)] = [s \in Symbols |-> Count(other, i, c, s)]
  BY <1>2
<1> QED BY <1>1, <1>3 DEF ModelTable

\* The pair of sample i that the decoder's model has.
TruePair(i) == add_to_seq(ModelTable(Filtered, i), Filtered[i])

-----------------------------------------------------------------------------
(* The order of the samples of a chunk *)
\* Sample k of a chunk.
SampleShape(chunk, k) ==
  LET X  == chunk % XChunks
      Y  == chunk \div XChunks
      w  == ChunkSide(X, params.chunk_width, img.width)
      at == Samples(chunk)[k]
  IN  /\ at = <<at[1], at[2]>>
      /\ at[1] = (k - 1) % w /\ at[2] = (k - 1) \div w /\ w \in Nat \ {0}
      /\ at[1] \in 0..w-1 /\ at[2] \in Nat /\ w <= img.width
      /\ at[1] \in 0..params.chunk_width-1 /\ at[2] \in 0..params.chunk_height-1
      /\ X \in Nat /\ X * params.chunk_width \in Nat /\ X * params.chunk_width + at[1] \in 0..img.width-1
      /\ Y \in Nat /\ Y * params.chunk_height \in Nat /\ Y * params.chunk_height + at[2] \in 0..img.height-1
      /\ Place(chunk, at) = (Y * params.chunk_height + at[2]) * img.width + (X * params.chunk_width + at[1])

LEMMA SamplesShaped ==
  ASSUME img \in Inputs, img # NotPng, params \in Parameters, NEW chunk \in 0..XChunks*YChunks-1,
         NEW k \in 1..Len(Samples(chunk))
  PROVE  SampleShape(chunk, k)
<1> DEFINE X == chunk % XChunks
           Y == chunk \div XChunks
           cwid == params.chunk_width
           chei == params.chunk_height
           wid == img.width
           hei == img.height
           w == ChunkSide(X, cwid, wid)
           h == ChunkSide(Y, chei, hei)
           n == w * h
           s == Samples(chunk)
           cw == X * cwid
           chh == Y * chei
           a == s[k][1]
           b == s[k][2]
<1>1. /\ X \in 0..XChunks-1 /\ Y \in 0..YChunks-1 /\ XChunks \in Nat /\ YChunks \in Nat
      /\ cwid \in Nat \ {0} /\ chei \in Nat \ {0} /\ wid \in Nat \ {0} /\ hei \in Nat \ {0}
  BY ChunkShape, ChunkFacts, ImageFacts
<1>2. /\ X \in Nat /\ X < Ceiling(wid, cwid) /\ Y \in Nat /\ Y < Ceiling(hei, chei)
  <2>1. XChunks = Ceiling(wid, cwid) /\ YChunks = Ceiling(hei, chei)
    BY DEF XChunks, YChunks
  <2>2. X \in 0..Ceiling(wid, cwid)-1 /\ Ceiling(wid, cwid) \in Nat
    BY <1>1, <2>1
  <2>3. Y \in 0..Ceiling(hei, chei)-1 /\ Ceiling(hei, chei) \in Nat
    BY <1>1, <2>1
  <2> HIDE DEF X, Y, wid, hei, cwid, chei
  <2> QED BY <2>2, <2>3
<1>3. w \in 1..cwid /\ cw \in Nat /\ cw + w <= wid
  <2> HIDE DEF X, wid, cwid
  <2> QED BY <1>1, <1>2, ChunkSideIs
<1>4. h \in 1..chei /\ chh \in Nat /\ chh + h <= hei
  <2> HIDE DEF Y, hei, chei
  <2> QED BY <1>1, <1>2, ChunkSideIs
<1>5. s = [j \in 1..n |-> <<(j - 1) % w, (j - 1) \div w>>]
  BY DEF Samples
<1>6. ChunkOffset(chunk) = chh * wid + cw
  BY DEF ChunkOffset
<1>7. Place(chunk, s[k]) = ChunkOffset(chunk) + b * wid + a
  BY DEF Place
<1>8. s \in Seq(Nat \X Nat)
  BY SamplesAre
<1> HIDE DEF X, Y, w, h, s, cw, chh, wid, hei, cwid, chei
<1>9. n \in Nat /\ n = h * w /\ w \in Nat \ {0} /\ h \in Nat \ {0}
  <2>1. w \in Nat \ {0} /\ h \in Nat \ {0}
    BY <1>1, <1>3, <1>4
  <2> QED BY <2>1, Distribute
<1> HIDE DEF n
<1>10. Len(s) = n /\ k \in 1..n
  <2>1. DOMAIN s = 1..n
    BY <1>5
  <2>2. DOMAIN s = 1..Len(s) /\ Len(s) \in Nat
    BY <1>8, LenProperties
  <2>3. k \in DOMAIN s
    BY <2>2 DEF s
  <2>4. 1..n = 1..Len(s)
    BY <2>1, <2>2
  <2>5. n = Len(s)
    <3> DEFINE m == Len(s)
    <3>1. m \in Nat /\ 1..n = 1..m
      BY <2>2, <2>4
    <3> HIDE DEF m
    <3>2. n < m => m \in 1..m /\ m \notin 1..n
      BY <1>9, <3>1
    <3>3. m < n => n \in 1..n /\ n \notin 1..m
      BY <1>9, <3>1
    <3>4. n = m
      BY <1>9, <3>1, <3>2, <3>3
    <3> QED BY <3>4 DEF m
  <2> QED BY <2>1, <2>3, <2>5
<1>11. a = (k - 1) % w /\ b = (k - 1) \div w /\ s[k] = <<a, b>>
  BY <1>5, <1>10
<1>12. a \in 0..w-1 /\ b \in 0..h-1
  <2>1. k - 1 \in Nat /\ k - 1 < h * w
    BY <1>9, <1>10
  <2>2. (k - 1) % w \in 0..w-1 /\ (k - 1) \div w \in 0..h-1
    BY <1>9, <2>1, DivBelow, Division
  <2> QED BY <1>11, <2>2
<1> HIDE DEF a, b
<1>13. /\ a \in Nat /\ b \in Nat /\ w <= wid /\ a \in 0..cwid-1 /\ b \in 0..chei-1
       /\ cw + a \in 0..wid-1 /\ chh + b \in 0..hei-1
  BY <1>1, <1>3, <1>4, <1>9, <1>12
<1>14. Place(chunk, s[k]) = (chh + b) * wid + (cw + a)
  <2>1. (chh + b) * wid = chh * wid + b * wid /\ chh * wid \in Nat /\ b * wid \in Nat
    BY <1>1, <1>4, <1>13, Distribute
  <2> DEFINE A == chh * wid
             B == b * wid
  <2>2. A \in Nat /\ B \in Nat /\ (chh + b) * wid = A + B /\ Place(chunk, s[k]) = A + cw + B + a
    BY <1>6, <1>7, <2>1
  <2> HIDE DEF A, B
  <2> QED BY <1>3, <1>13, <2>2
<1> QED BY <1>2, <1>3, <1>4, <1>9, <1>11, <1>12, <1>13, <1>14
        DEF SampleShape, a, b, s, w, cw, chh, X, Y, wid, hei, cwid, chei

ChunkId(chunk) == <<channel, chunk % XChunks, chunk \div XChunks>>

\* Where sample k is found, and that its chunk is this one.
Visits(chunk, k) ==
  LET at == Samples(chunk)[k]
      i  == Visited(chunk, at)
  IN  /\ i \in 0..Size-1 /\ i = channel * pixels + Place(chunk, at)
      /\ Within(i) = at /\ ChunkOf(i) = ChunkId(chunk)

LEMMA VisitedIs ==
  ASSUME Plain, NEW chunk, Coding(chunk), NEW k \in 1..Len(Samples(chunk))
  PROVE  Visits(chunk, k)
<1> DEFINE X == chunk % XChunks
           Y == chunk \div XChunks
           cwid == params.chunk_width
           chei == params.chunk_height
           wid == img.width
           at == Samples(chunk)[k]
           a == at[1]
           b == at[2]
           col == X * cwid + a
           y == Y * chei + b
           r == Place(chunk, at)
           i == Visited(chunk, at)
           cn == channel * pixels
<1>1. /\ at = <<a, b>> /\ a \in 0..cwid-1 /\ b \in 0..chei-1
      /\ X \in Nat /\ Y \in Nat /\ col \in 0..wid-1 /\ y \in Nat
      /\ r = y * wid + col
  <2>1. SampleShape(chunk, k)
    BY SamplesShaped DEF Coding
  <2>2. y \in 0..img.height-1
    BY <2>1 DEF SampleShape
  <2>3. y \in Nat
    <3> HIDE DEF y
    <3> QED BY <2>2, ImageFacts DEF Plain
  <2> QED BY <2>1, <2>3 DEF SampleShape
<1>2. /\ wid \in Nat \ {0} /\ cwid \in Nat \ {0} /\ chei \in Nat \ {0} /\ pixels \in Nat \ {0}
      /\ channel \in 0..Passes-1 /\ chunk \in 0..XChunks*YChunks-1
  BY ImageFacts, ChunkFacts DEF Plain, Coding
<1>3. r \in 0..pixels-1 /\ i = cn + r
  <2>1. /\ a \in Nat /\ b \in Nat /\ b * wid \in Nat /\ ChunkOffset(chunk) \in Nat
        /\ r \in 0..pixels-1
    BY SamplesAre DEF Coding
  <2>2. cn \in Nat
    BY <1>2, <2>1, PassFits DEF Plain
  <2> DEFINE o == ChunkOffset(chunk)
             bw == b * wid
  <2>3. o \in Nat /\ bw \in Nat /\ i = cn + o + bw + a /\ r = o + bw + a
    BY <2>1 DEF Visited, Place
  <2> HIDE DEF cn, o, bw, a, i, r
  <2>4. i = cn + r
    BY <2>1, <2>2, <2>3
  <2> QED BY <2>1, <2>4 DEF r
<1>4. i \in 0..Size-1 /\ i \div pixels = channel /\ i % pixels = r
  <2> HIDE DEF r, i
  <2>1. /\ cn + r \in 0..Passes*pixels-1 /\ (cn + r) \div pixels = channel /\ (cn + r) % pixels = r
    BY <1>2, <1>3, PassFits DEF Plain
  <2> QED BY <1>3, <2>1, PlainFacts
<1>5. r \div wid = y /\ i % wid = col
  <2> DEFINE ii == i
             z == r \div wid
  <2>1. ii \in 0..Size-1 /\ ii % pixels = r
    BY <1>4
  <2> HIDE DEF ii
  <2>2. ii % wid \in 0..wid-1 /\ ii % pixels = ((ii % pixels) \div wid) * wid + (ii % wid)
        /\ ((ii % pixels) \div wid) * wid \in Nat
    BY <2>1, SamplePlace DEF Plain
  <2> HIDE DEF r, y, col, wid
  <2>3. r \div wid = y
    BY <1>1, <1>2, DivModUnique
  <2>4. r = y * wid + (ii % wid) /\ y * wid \in Nat
    BY <2>1, <2>2, <2>3
  <2> DEFINE yw == y * wid
             v == ii % wid
  <2>5. col \in Nat /\ v \in Nat
    BY <1>1, <1>2, <2>2
  <2>6. r = yw + col
    BY <1>1
  <2>7. yw \in Nat /\ r = yw + v
    BY <2>4
  <2> HIDE DEF yw, v
  <2>8. v = col
    BY <2>5, <2>6, <2>7
  <2> QED BY <2>3, <2>8 DEF v, ii
<1>6. col \div cwid = X /\ col % cwid = a
  <2> HIDE DEF X, a, cwid
  <2> QED BY <1>1, <1>2, DivModUnique
<1>7. y \div chei = Y /\ y % chei = b
  <2> HIDE DEF Y, b, chei
  <2> QED BY <1>1, <1>2, DivModUnique
<1>8. Within(i) = <<a, b>>
  <2>1. Within(i) = <<(i % wid) % cwid, ((i % pixels) \div wid) % chei>>
    BY DEF Within
  <2> HIDE DEF i, wid, cwid, chei, a, b, r, y, col
  <2> QED BY <1>4, <1>5, <1>6, <1>7, <2>1
<1>9. ChunkOf(i) = <<channel, X, Y>>
  <2>1. ChunkOf(i) = <<i \div pixels, (i % wid) \div cwid, ((i % pixels) \div wid) \div chei>>
    BY DEF ChunkOf
  <2> HIDE DEF i, wid, cwid, chei, X, Y, r, y, col
  <2> QED BY <1>4, <1>5, <1>6, <1>7, <2>1
<1> HIDE DEF a, b, r
<1> QED BY <1>1, <1>3, <1>4, <1>8, <1>9 DEF Visits, ChunkId, r

\* The samples come in the order of the plane,
LEMMA VisitedAscends ==
  ASSUME Plain, NEW chunk, Coding(chunk),
         NEW k \in 1..Len(Samples(chunk)), NEW l \in 1..Len(Samples(chunk)), k < l
  PROVE  Visited(chunk, Samples(chunk)[k]) < Visited(chunk, Samples(chunk)[l])
<1> DEFINE X == chunk % XChunks
           Y == chunk \div XChunks
           cx == X * params.chunk_width
           cy == Y * params.chunk_height
           wid == img.width
           w == ChunkSide(X, params.chunk_width, img.width)
           s == Samples(chunk)
           a(j) == s[j][1]
           b(j) == s[j][2]
           cn == channel * pixels
<1>1. ASSUME NEW j \in 1..Len(s)
      PROVE  /\ a(j) = (j - 1) % w /\ b(j) = (j - 1) \div w /\ w \in Nat \ {0} /\ w <= wid
             /\ a(j) \in 0..w-1 /\ b(j) \in Nat /\ cx \in Nat /\ cy \in Nat
             /\ Visited(chunk, s[j]) = cn + ((cy + b(j)) * wid + (cx + a(j)))
             /\ Visited(chunk, s[j]) \in 0..Size-1
  <2>1. SampleShape(chunk, j)
    BY SamplesShaped DEF Coding
  <2>2. Visited(chunk, s[j]) = cn + Place(chunk, s[j]) /\ Visited(chunk, s[j]) \in 0..Size-1
    BY VisitedIs DEF Visits
  <2> QED BY <2>1, <2>2 DEF SampleShape
<1>2. wid \in Nat \ {0} /\ k \in Nat \ {0} /\ l \in Nat \ {0} /\ cn \in Nat
  <2>1. k \in Nat \ {0} /\ l \in Nat \ {0}
    OBVIOUS
  <2>2. 0 \in 0..pixels-1 /\ channel \in 0..Passes-1
    BY ImageFacts DEF Plain, Coding
  <2> QED BY <2>1, <2>2, PassFits, ImageFacts DEF Plain
<1> DEFINE ak == a(k)
           bk == b(k)
           al == a(l)
           bl == b(l)
<1>3. /\ w \in Nat \ {0} /\ w <= wid /\ cx \in Nat /\ cy \in Nat
      /\ ak \in 0..w-1 /\ al \in 0..w-1 /\ bk \in Nat /\ bl \in Nat
      /\ ak = (k - 1) % w /\ bk = (k - 1) \div w /\ al = (l - 1) % w /\ bl = (l - 1) \div w
      /\ Visited(chunk, s[k]) = cn + ((cy + bk) * wid + (cx + ak))
      /\ Visited(chunk, s[l]) = cn + ((cy + bl) * wid + (cx + al))
  BY <1>1
<1> HIDE DEF w, cx, cy, wid, a, b, ak, bk, al, bl, cn
<1>4. k - 1 = bk * w + ak /\ l - 1 = bl * w + al /\ bk * w \in Nat /\ bl * w \in Nat
  <2>1. k - 1 \in Nat /\ l - 1 \in Nat
    BY <1>2
  <2> QED BY <1>3, <2>1, Division
<1>5. bk < bl \/ (bk = bl /\ ak < al)
  <2>1. /\ w \in Nat /\ ak \in Nat /\ al \in Nat /\ bk \in Nat /\ bl \in Nat /\ ak < w /\ al < w
        /\ k \in Nat /\ l \in Nat /\ k < l
    BY <1>2, <1>3
  <2> DEFINE kw == bk * w
             lw == bl * w
  <2>2. kw \in Nat /\ lw \in Nat /\ k - 1 = kw + ak /\ l - 1 = lw + al
    BY <1>4
  <2>3. CASE bk > bl
    <3>1. (bl + 1) * w <= bk * w /\ (bl + 1) * w = bl * w + 1 * w /\ 1 * w = w
      BY <2>1, <2>3, Monotone, Distribute
    <3>2. lw + w <= kw
      BY <3>1
    <3> HIDE DEF kw, lw
    <3>3. FALSE
      BY ONLY <2>1, <2>2, <3>2
    <3> QED BY <3>3
  <2>4. CASE bk = bl
    <3>1. kw = lw
      BY <2>4
    <3> HIDE DEF kw, lw
    <3>2. ak < al
      BY ONLY <2>1, <2>2, <3>1
    <3> QED BY <2>4, <3>2
  <2> HIDE DEF kw, lw
  <2> QED BY <2>1, <2>3, <2>4
<1> DEFINE pk == (cy + bk) * wid
           pl == (cy + bl) * wid
<1>6. pk \in Nat /\ pl \in Nat
  BY <1>2, <1>3, Distribute
<1>7. pk + (cx + ak) < pl + (cx + al)
  <2>1. CASE bk < bl
    <3> DEFINE yk == cy + bk
               yl == cy + bl
    <3>1. yk \in Nat /\ yl \in Nat /\ yk + 1 <= yl
      BY <1>3, <2>1
    <3> HIDE DEF yk, yl
    <3>2. (yk + 1) * wid <= yl * wid /\ (yk + 1) * wid = yk * wid + 1 * wid /\ 1 * wid = wid
      BY <1>2, <3>1, Monotone, Distribute
    <3>3. pk + wid <= pl
      BY <3>2 DEF yk, yl
    <3> HIDE DEF pk, pl
    <3> QED BY <1>2, <1>3, <1>6, <3>3
  <2>2. CASE bk = bl /\ ak < al
    <3>1. pk = pl
      BY <2>2
    <3> HIDE DEF pk, pl
    <3> QED BY <1>3, <1>6, <2>2, <3>1
  <2> QED BY <1>5, <2>1, <2>2
<1> HIDE DEF pk, pl
<1>8. Visited(chunk, s[k]) = cn + (pk + (cx + ak)) /\ Visited(chunk, s[l]) = cn + (pl + (cx + al))
  BY <1>3 DEF pk, pl
<1>9. Visited(chunk, s[k]) < Visited(chunk, s[l])
  BY <1>2, <1>3, <1>6, <1>7, <1>8
<1> QED BY <1>9

\* and they are all there are of the chunk.
LEMMA VisitedAll ==
  ASSUME Plain, NEW chunk, Coding(chunk), NEW j \in 0..Size-1, ChunkOf(j) = ChunkId(chunk)
  PROVE  \E k \in 1..Len(Samples(chunk)) : Visited(chunk, Samples(chunk)[k]) = j
<1> DEFINE r == j % pixels
           X == chunk % XChunks
           Y == chunk \div XChunks
<1>1. /\ r \in 0..pixels-1 /\ j = (j \div pixels) * pixels + r
      /\ r % img.width = j % img.width
  <2>1. /\ j \in Nat /\ r \in 0..pixels-1 /\ j = (j \div pixels) * pixels + r
        /\ r = (r \div img.width) * img.width + (j % img.width)
        /\ r \div img.width \in 0..img.height-1 /\ j % img.width \in 0..img.width-1
    BY SamplePlace DEF Plain
  <2>2. img.width \in Nat \ {0} /\ img.height \in Nat
    BY ImageFacts DEF Plain
  <2> DEFINE v == j % img.width
             q == r \div img.width
             w == img.width
  <2>3. v \in 0..w-1 /\ q \in Nat /\ r = q * w + v /\ w \in Nat \ {0}
    BY <2>1, <2>2
  <2> HIDE DEF v, q, w
  <2>4. (q * w + v) % w = v
    BY <2>3, DivModUnique
  <2>5. r % w = v
    BY <2>3, <2>4
  <2> QED BY <2>1, <2>5 DEF v, w
<1>2. j \div pixels = channel /\ (j % img.width) \div params.chunk_width = X
      /\ (r \div img.width) \div params.chunk_height = Y
  BY DEF ChunkOf, ChunkId
<1>3. ChunkNumber(r) = Y * XChunks + X
  BY <1>1, <1>2 DEF ChunkNumber
<1>4. Y * XChunks + X = chunk
  <2>1. XChunks \in Nat \ {0} /\ XChunks * YChunks \in Nat
    BY ChunkFacts DEF Plain
  <2>2. chunk \in Nat
    BY <2>1 DEF Coding
  <2> QED BY <2>1, <2>2, Division
<1>5. PICK k \in 1..Len(Samples(chunk)) : Place(chunk, Samples(chunk)[k]) = r
  <2>1. ChunkNumber(r) = chunk
    BY <1>3, <1>4
  <2> QED BY <1>1, <2>1, ChunksTile DEF Plain
<1>6. Visited(chunk, Samples(chunk)[k]) = channel * pixels + Place(chunk, Samples(chunk)[k])
  BY VisitedIs DEF Visits
<1> QED BY <1>1, <1>2, <1>5, <1>6

LEMMA NoneBetween ==
  ASSUME Plain, NEW chunk, Coding(chunk), NEW k \in 0..Len(Samples(chunk))-1, NEW j \in 0..Size-1,
         k > 0 => Visited(chunk, Samples(chunk)[k]) < j,
         j < Visited(chunk, Samples(chunk)[k + 1])
  PROVE  ChunkOf(j) # ChunkId(chunk)
<1> DEFINE s == Samples(chunk)
           n == Len(s)
           P(l) == Visited(chunk, s[l])
<1>1. n \in Nat /\ k \in Nat /\ k + 1 \in 1..n
  <2>1. s \in Seq(Nat \X Nat)
    BY SamplesAre DEF Coding
  <2>2. n \in Nat
    BY <2>1, LenProperties
  <2> QED BY <2>2
<1> SUFFICES ASSUME NEW l \in 1..n, P(l) = j PROVE FALSE
  BY VisitedAll
<1>2. \A m \in 1..n : P(m) \in Int
  <2>1. \A m \in 1..n : P(m) \in 0..Size-1
    BY VisitedIs DEF Visits
  <2> QED BY <2>1
<1>3. \A p \in 1..n : \A q \in 1..n : p < q => P(p) < P(q)
  BY VisitedAscends
<1>4. k > 0 => P(k) < j
  OBVIOUS
<1>5. j < P(k + 1)
  OBVIOUS
<1> HIDE DEF n, P
<1>6. CASE l = k + 1
  BY <1>2, <1>5, <1>6
<1>7. CASE l > k + 1
  BY <1>1, <1>2, <1>3, <1>5, <1>7
<1>8. CASE l = k
  BY <1>2, <1>4, <1>8
<1>9. CASE l < k
  <2>1. k > 0 /\ k \in 1..n
    BY <1>1, <1>9
  <2> QED BY <1>2, <1>3, <1>4, <1>9, <2>1
<1> QED BY <1>1, <1>6, <1>7, <1>8, <1>9

\* The weights of the samples of a chunk, where they are.
Row(id, c, d) ==
  [j \in 0..Size-1 |-> IF ChunkOf(j) = id /\ Filtered[j] = d
                       THEN Weight(Contexts(Filtered, j, Within(j)), c) ELSE 0]

LEMMA RowTyped ==
  ASSUME Plain, NEW id, NEW c, NEW d
  PROVE  Row(id, c, d) \in [0..Size-1 -> Nat] /\ \A i \in 0..Size-1 : SumBelow(Row(id, c, d), i) \in Nat
<1> DEFINE row == Row(id, c, d)
<1>1. ASSUME NEW j \in 0..Size-1 PROVE Weight(Contexts(Filtered, j, Within(j)), c) \in Nat
  <2> DEFINE cs == Contexts(Filtered, j, Within(j))
  <2>1. cs \in Seq(Symbols \X Nat)
    BY PlainBuffers, ShareTyped
  <2> HIDE DEF cs
  <2>2. PICK w : Weighs(w, cs, c)
    BY <2>1, WeightIs
  <2>3. Len(cs) \in 0..Len(cs)
    BY <2>1, LenProperties
  <2>4. Weight(cs, c) \in Nat
    BY <2>2, <2>3 DEF Weighs
  <2> QED BY <2>4 DEF cs
<1>2. row \in [0..Size-1 -> Nat]
  BY <1>1 DEF Row
<1> HIDE DEF row
<1>3. Size \in Nat /\ \A i \in 0..Size-1 : i \in 0..Size
  BY PlainFacts
<1>4. \A i \in 0..Size : SumBelow(row, i) \in Nat
  BY <1>2, <1>3, SumBelowNat
<1> QED BY <1>2, <1>3, <1>4 DEF row

LEMMA RowCount ==
  ASSUME Plain, NEW i \in 0..Size-1
  PROVE  \A c, s : Count(Filtered, i, c, s) = SumBelow(Row(ChunkOf(i), c, s), i)
<1> SUFFICES ASSUME NEW c, NEW s PROVE Count(Filtered, i, c, s) = SumBelow(Row(ChunkOf(i), c, s), i)
  OBVIOUS
<1> DEFINE row == [j \in 0..i-1 |-> Share(Filtered, i, c, s, j)]
           other == Row(ChunkOf(i), c, s)
<1>1. i \in Nat /\ Size \in Nat
  BY PlainFacts
<1>2. Count(Filtered, i, c, s) = SumBelow(row, i)
  BY PlainBuffers, CountIs
<1>3. \A j \in 0..i-1 : row[j] = other[j]
  <2>1. \A j \in 0..i-1 : j \in 0..Size-1
    BY <1>1
  <2> QED BY <2>1 DEF Row, Share
<1> HIDE DEF row, other
<1>4. SumBelow(row, i) = SumBelow(other, i)
  BY <1>1, <1>3, SumBelowSame
<1> QED BY <1>2, <1>4 DEF other

\* From one sample of a chunk to the next, its weight is added.
LEMMA RowBegins ==
  ASSUME Plain, NEW chunk, Coding(chunk), 1 \in 1..Len(Samples(chunk)), NEW c, NEW d
  PROVE  SumBelow(Row(ChunkId(chunk), c, d), Visited(chunk, Samples(chunk)[1])) = 0
<1> DEFINE s == Samples(chunk)
           P(l) == Visited(chunk, s[l])
           row == Row(ChunkId(chunk), c, d)
           b == P(1)
<1>1. b \in 0..Size-1 /\ b \in Nat /\ Size \in Nat
  <2>1. P(1) \in 0..Size-1
    BY VisitedIs DEF Visits
  <2> QED BY <2>1, PlainFacts
<1>2. ASSUME NEW j \in 0..b-1 PROVE row[j] = 0
  <2>1. j \in 0..Size-1 /\ j < P(1)
    BY <1>1
  <2>2. 0 \in 0..Len(s)-1 /\ ~(0 > 0) /\ 0 + 1 = 1
    <3>1. s \in Seq(Nat \X Nat)
      BY SamplesAre DEF Coding
    <3>2. Len(s) \in Nat
      BY <3>1, LenProperties
    <3> QED BY <3>2
  <2>3. ChunkOf(j) # ChunkId(chunk)
    BY <2>1, <2>2, NoneBetween
  <2> QED BY <2>1, <2>3 DEF Row
<1> HIDE DEF b, row
<1>3. SumBelow(row, 0) = 0
  BY SumBelowIs
<1>4. SumBelow(row, b) = SumBelow(row, 0)
  BY <1>1, <1>2, <1>3, SumOverGap
<1> QED BY <1>3, <1>4 DEF b, row

LEMMA RowGrows ==
  ASSUME Plain, NEW chunk, Coding(chunk),
         NEW k \in 1..Len(Samples(chunk)), k + 1 \in 1..Len(Samples(chunk)), NEW c, NEW d
  PROVE  LET i   == Visited(chunk, Samples(chunk)[k])
             row == Row(ChunkId(chunk), c, d)
         IN  SumBelow(row, Visited(chunk, Samples(chunk)[k + 1])) =
               SumBelow(row, i) + (IF Filtered[i] = d
                                   THEN Weight(Contexts(Filtered, i, Samples(chunk)[k]), c) ELSE 0)
<1> DEFINE s == Samples(chunk)
           P(l) == Visited(chunk, s[l])
           row == Row(ChunkId(chunk), c, d)
           i == P(k)
           b == P(k + 1)
<1>1. /\ i \in 0..Size-1 /\ b \in 0..Size-1 /\ i < b /\ Size \in Nat /\ k \in Nat
      /\ Within(i) = s[k] /\ ChunkOf(i) = ChunkId(chunk)
  <2>1. Visits(chunk, k) /\ Visits(chunk, k + 1)
    BY VisitedIs
  <2>2. k < k + 1
    OBVIOUS
  <2>3. P(k) < P(k + 1)
    BY <2>2, VisitedAscends
  <2> QED BY <2>1, <2>3, PlainFacts DEF Visits
<1>2. ASSUME NEW j \in i+1..b-1 PROVE row[j] = 0
  <2>1. j \in 0..Size-1 /\ j < P(k + 1) /\ P(k) < j
    <3> HIDE DEF i, b
    <3>1. j \in 0..Size-1 /\ j < b /\ i < j
      BY <1>1
    <3> QED BY <3>1 DEF i, b
  <2>2. k \in 0..Len(s)-1
    <3>1. s \in Seq(Nat \X Nat)
      BY SamplesAre DEF Coding
    <3>2. Len(s) \in Nat
      BY <3>1, LenProperties
    <3> QED BY <3>2
  <2>3. ChunkOf(j) # ChunkId(chunk)
    BY <2>1, <2>2, NoneBetween
  <2> QED BY <2>1, <2>3 DEF Row
<1>3. row[i] = IF Filtered[i] = d THEN Weight(Contexts(Filtered, i, s[k]), c) ELSE 0
  BY <1>1 DEF Row
<1>4. row \in [0..Size-1 -> Nat] /\ SumBelow(row, i) \in Nat
  BY <1>1, RowTyped
<1> HIDE DEF i, b, row
<1>5. SumBelow(row, i + 1) = SumBelow(row, i) + row[i]
  <2>1. i \in Nat
    BY <1>1
  <2> QED BY <2>1, SumBelowIs
<1>6. SumBelow(row, i + 1) \in Nat /\ i + 1 \in Nat /\ b \in Nat /\ i + 1 <= b
  BY <1>1, <1>4, <1>5
<1>7. SumBelow(row, b) = SumBelow(row, i + 1)
  BY <1>2, <1>6, SumOverGap
<1>8. SumBelow(row, b) = SumBelow(row, i) + (IF Filtered[i] = d THEN Weight(Contexts(Filtered, i, s[k]), c) ELSE 0)
  BY <1>3, <1>5, <1>7
<1> QED BY <1>8 DEF i, b, row, s

-----------------------------------------------------------------------------
(* The pairs of a chunk are the decoder's *)
\* After k samples, when the next one is at i.
ModelAt(chunk, m, i) ==
  \A c \in Symbols : \A d \in Symbols : m[c][d] = SumBelow(Row(ChunkId(chunk), c, d), i)

LEMMA ModelFollows ==
  ASSUME Plain, NEW chunk, Coding(chunk), buf = Filtered, fresh = 0, NEW h, LeadingFold(chunk, h),
         NEW k \in 0..Len(Samples(chunk))-1
  PROVE  ModelAt(chunk, h[k].f_map, Visited(chunk, Samples(chunk)[k + 1]))
<1> DEFINE s == Samples(chunk)
           n == Len(s)
           P(l) == Visited(chunk, s[l])
           Is(j) == ModelAt(chunk, h[j].f_map, P(j + 1))
           S == {j \in Nat : j < n => Is(j)}
<1>1. n \in Nat
  <2>1. s \in Seq(Nat \X Nat)
    BY SamplesAre DEF Coding
  <2> QED BY <2>1, LenProperties
<1>2. /\ h \in [0..n -> LeadingStates]
      /\ h[0] = [f_map |-> [c \in Symbols |-> [d \in Symbols |-> fresh]], pairs |-> pairs]
      /\ \A j \in 0..n-1 : h[j + 1] = LeadingTurn(h[j], Filtered, P(j + 1), s[j + 1])
  BY PlainLeading DEF LeadingFold
<1>3. 0 \in S
  <2> SUFFICES ASSUME 0 < n PROVE Is(0)
    OBVIOUS
  <2>1. 0 + 1 = 1 /\ 1 \in 1..n
    BY <1>1
  <2>2. ASSUME NEW c \in Symbols, NEW d \in Symbols PROVE h[0].f_map[c][d] = SumBelow(Row(ChunkId(chunk), c, d), P(1))
    <3>1. h[0].f_map[c][d] = 0
      BY <1>2
    <3>2. SumBelow(Row(ChunkId(chunk), c, d), P(1)) = 0
      BY <2>1, RowBegins
    <3> QED BY <3>1, <3>2
  <2> QED BY <2>1, <2>2 DEF ModelAt
<1>4. ASSUME NEW j \in Nat, j \in S PROVE j + 1 \in S
  <2> SUFFICES ASSUME j + 1 < n PROVE Is(j + 1)
    OBVIOUS
  <2> DEFINE l == j + 1
             i == P(l)
             cs == Contexts(Filtered, i, s[l])
             v == Filtered[i]
  <2>1. /\ l \in 1..n /\ l + 1 \in 1..n /\ j \in 0..n-1 /\ j \in 0..n /\ Is(j)
    BY <1>1, <1>4
  <2>2. h[l] = LeadingTurn(h[j], Filtered, i, s[l])
    BY <1>2, <2>1
  <2>3. h[l].f_map = Learnt(h[j].f_map, cs, v)
    <3> HIDE DEF i, l
    <3> QED BY <2>2 DEF LeadingTurn
  <2>4. h[j].f_map \in FMaps
    <3> HIDE DEF n
    <3> QED BY <1>2, <2>1 DEF LeadingStates
  <2>5. i \in 0..Size-1 /\ Within(i) = s[l]
    BY <2>1, VisitedIs DEF Visits
  <2>6. cs \in Seq(Symbols \X Nat) /\ v \in Symbols
    <3> HIDE DEF i
    <3> QED BY <2>5, PlainBuffers, ShareTyped
  <2>7. Adds(h[l].f_map, h[j].f_map, cs, v)
    <3> HIDE DEF cs, v, i, l
    <3>1. Adds(Learnt(h[j].f_map, cs, v), h[j].f_map, cs, v)
      BY <2>4, <2>6, LearntIs
    <3> QED BY <2>3, <3>1
  <2>8. ASSUME NEW c \in Symbols, NEW d \in Symbols
        PROVE  h[l].f_map[c][d] = SumBelow(Row(ChunkId(chunk), c, d), P(l + 1))
    <3> DEFINE row == Row(ChunkId(chunk), c, d)
    <3>1. h[l].f_map[c][d] = h[j].f_map[c][d] + (IF d = v THEN Weight(cs, c) ELSE 0)
      BY <2>7 DEF Adds
    <3>2. h[j].f_map[c][d] = SumBelow(row, i)
      BY <2>1 DEF ModelAt
    <3>3. SumBelow(row, P(l + 1)) = SumBelow(row, i) + (IF v = d THEN Weight(cs, c) ELSE 0)
      BY <2>1, RowGrows
    <3> HIDE DEF row, cs, v, i, l, P
    <3> QED BY <3>1, <3>2, <3>3 DEF row
  <2> HIDE DEF i, P
  <2> QED BY <2>8 DEF ModelAt
<1>5. k \in S /\ k < n
  <2>1. Nat \subseteq S
    BY <1>3, <1>4, Induction
  <2> QED BY <1>1, <2>1
<1> QED BY <1>5

\* Sample k + 1 is coded as the decoder would.
LEMMA CodedTrue ==
  ASSUME Plain, NEW i \in 0..Size-1, NEW m \in FMaps,
         \A c \in Symbols : \A d \in Symbols : m[c][d] = SumBelow(Row(ChunkOf(i), c, d), i)
  PROVE  CodePair(m, Contexts(Filtered, i, Within(i)), Filtered[i]) = TruePair(i)
<1> DEFINE cs == Contexts(Filtered, i, Within(i))
           c == cs[1][1]
<1>1. cs \in Seq(Symbols \X Nat) /\ Filtered[i] \in Symbols
  BY PlainBuffers, ShareTyped
<1>2. CASE cs = <<>>
  <2>1. CodePair(m, cs, Filtered[i]) = uniform_pair(Filtered[i])
    BY <1>2 DEF CodePair
  <2>2. ModelTable(Filtered, i) = [s \in Symbols |-> Total \div AlphabetSize]
    BY <1>2 DEF ModelTable
  <2> DEFINE row == [s \in Symbols |-> Total \div AlphabetSize]
  <2>3. uniform_pair(Filtered[i]) = add_to_seq(row, Filtered[i])
    <3>1. \A s \in Symbols : uniform_pair(s) = add_to_seq(row, s)
      BY UniformTable
    <3> HIDE DEF row
    <3> QED BY <1>1, <3>1
  <2>4. TruePair(i) = add_to_seq(row, Filtered[i])
    BY <2>2 DEF TruePair
  <2> HIDE DEF row
  <2> QED BY <2>1, <2>3, <2>4
<1>3. CASE cs # <<>>
  <2>1. CodePair(m, cs, Filtered[i]) = add_to_seq(Ftable(m[c]), Filtered[i])
    BY <1>3 DEF CodePair
  <2>2. ModelTable(Filtered, i) = Ftable([s \in Symbols |-> Count(Filtered, i, c, s)])
    BY <1>3 DEF ModelTable
  <2>3. c \in Symbols
    <3> HIDE DEF cs
    <3>1. Len(cs) \in Nat /\ Len(cs) # 0 /\ cs \in [1..Len(cs) -> Symbols \X Nat]
      BY <1>1, <1>3, LenProperties
    <3>2. cs[1] \in Symbols \X Nat
      BY <3>1
    <3> QED BY <3>2
  <2> HIDE DEF cs, c
  <2>4. m[c] = [s \in Symbols |-> Count(Filtered, i, c, s)]
    <3>1. m[c] \in [Symbols -> Nat]
      BY <2>3 DEF FMaps
    <3>2. \A s \in Symbols : m[c][s] = Count(Filtered, i, c, s)
      BY <2>3, RowCount
    <3> QED BY <3>1, <3>2
  <2> QED BY <2>1, <2>2, <2>4 DEF TruePair, cs
<1> QED BY <1>2, <1>3

\* The pairs of this chunk are set to the true ones, and no others are.
TruePairsSet(new, old, chunk) ==
  \A j \in 0..Size-1 : new[j] = TruePair(j) \/ (new[j] = old[j] /\ ChunkOf(j) # ChunkId(chunk))

LEMMA LeadingPairsTrue ==
  ASSUME Plain, NEW chunk, Coding(chunk), buf = Filtered, fresh = 0
  PROVE  TruePairsSet(LeadingPairs(chunk), pairs, chunk)
<1> DEFINE s == Samples(chunk)
           n == Len(s)
           P(l) == Visited(chunk, s[l])
<1>1. PICK h : LeadingFold(chunk, h)
  BY LeadingFolds
<1>2. n \in Nat
  <2>1. s \in Seq(Nat \X Nat)
    BY SamplesAre DEF Coding
  <2> QED BY <2>1, LenProperties
<1>3. /\ h \in [0..n -> LeadingStates] /\ h[0].pairs = pairs /\ LeadingPairs(chunk) = h[n].pairs
      /\ \A j \in 0..n-1 : h[j + 1] = LeadingTurn(h[j], Filtered, P(j + 1), s[j + 1])
  BY <1>1, PlainLeading DEF LeadingFold
<1>4. ASSUME NEW k \in 0..n-1
      PROVE  P(k + 1) \in 0..Size-1 /\ h[k + 1].pairs = [h[k].pairs EXCEPT ![P(k + 1)] = TruePair(P(k + 1))]
  <2> DEFINE i == P(k + 1)
  <2>1. k + 1 \in 1..n /\ k \in 0..n
    BY <1>2
  <2>2. i \in 0..Size-1 /\ Within(i) = s[k + 1] /\ ChunkOf(i) = ChunkId(chunk)
    BY <2>1, VisitedIs DEF Visits
  <2>3. ModelAt(chunk, h[k].f_map, i)
    BY <1>1, ModelFollows
  <2>4. h[k].f_map \in FMaps
    <3> HIDE DEF n
    <3> QED BY <1>3, <2>1 DEF LeadingStates
  <2>5. h[k + 1] = LeadingTurn(h[k], Filtered, i, Within(i))
    BY <1>3, <2>2
  <2> HIDE DEF i
  <2>6. CodePair(h[k].f_map, Contexts(Filtered, i, Within(i)), Filtered[i]) = TruePair(i)
    BY <2>2, <2>3, <2>4, CodedTrue DEF ModelAt
  <2>7. h[k + 1].pairs = [h[k].pairs EXCEPT ![i] = TruePair(i)]
    BY <2>5, <2>6 DEF LeadingTurn
  <2> QED BY <2>2, <2>7 DEF i
<1>5. \A k \in 0..n : h[k].pairs \in PairMaps
  BY <1>3 DEF LeadingStates
<1>6. \A j \in 0..Size-1 : j \in 0..Passes*pixels-1
  BY PlainFacts
<1> HIDE DEF n, P
<1> SUFFICES ASSUME NEW j \in 0..Size-1
             PROVE  h[n].pairs[j] = TruePair(j) \/ (h[n].pairs[j] = pairs[j] /\ ChunkOf(j) # ChunkId(chunk))
  BY <1>3 DEF TruePairsSet
<1> DEFINE Is(k) == h[k].pairs[j] = TruePair(j)
                    \/ (h[k].pairs[j] = pairs[j] /\ \A l \in 1..k : P(l) # j)
           S == {k \in Nat : k <= n => Is(k)}
<1>7. 0 \in S
  BY <1>3
<1>8. ASSUME NEW k \in Nat, k \in S PROVE k + 1 \in S
  <2> SUFFICES ASSUME k + 1 <= n PROVE Is(k + 1)
    OBVIOUS
  <2>1. k \in 0..n-1 /\ k \in 0..n /\ Is(k)
    BY <1>2, <1>8
  <2>2. h[k + 1].pairs = [h[k].pairs EXCEPT ![P(k + 1)] = TruePair(P(k + 1))]
    BY <1>4, <2>1
  <2>3. h[k].pairs \in [0..Passes*pixels-1 -> LegalPairs \cup {NoPair}]
    BY <1>5, <2>1 DEF PairMaps
  <2>4. CASE P(k + 1) = j
    BY <1>6, <2>2, <2>3, <2>4
  <2>5. CASE P(k + 1) # j
    <3>1. h[k + 1].pairs[j] = h[k].pairs[j]
      BY <1>6, <2>2, <2>3, <2>5
    <3>2. (\A l \in 1..k : P(l) # j) => \A l \in 1..k+1 : P(l) # j
      <4>1. \A l \in 1..k+1 : l \in 1..k \/ l = k + 1
        OBVIOUS
      <4> QED BY <2>5, <4>1
    <3> QED BY <2>1, <3>1, <3>2
  <2> QED BY <2>4, <2>5
<1>9. Is(n)
  <2> HIDE DEF Is
  <2>1. n \in S
    BY <1>2, <1>7, <1>8, Induction
  <2> QED BY <1>2, <2>1
<1>10. (\A l \in 1..n : P(l) # j) => ChunkOf(j) # ChunkId(chunk)
  BY VisitedAll DEF P, n
<1> QED BY <1>9, <1>10

-----------------------------------------------------------------------------
(* The pairs are the decoder's *)
\* Every pair that is set is the one the decoder comes to.
ModelSoFar ==
  shift = 0 /\ ~dirty =>
    /\ stage = "chunks" => /\ fresh = 0
                           /\ \A i \in 0..Size-1 : ChunkDone(i) => pairs[i] = TruePair(i)
    /\ stage \in {"encode", "done"} => \A i \in 0..Size-1 : pairs[i] = TruePair(i)

\* The decoder's pairs depend on the image and the parameters only.
LEMMA SameTruePairs ==
  ASSUME img' = img, params' = params
  PROVE  (\A i : TruePair(i)' = TruePair(i)) /\ Size' = Size /\ pixels' = pixels /\ shift' = shift
<1>1. pixels' = pixels /\ Filtered' = Filtered /\ Size' = Size /\ shift' = shift
  BY SameImage
<1>2. ASSUME NEW i PROVE TruePair(i)' = TruePair(i)
  BY <1>1 DEF TruePair, ModelTable, Contexts, Within, Count, ChunkOf
<1> QED BY <1>1, <1>2

\* The transforms over, the buffer is the image filtered.
LEMMA BufferIs ==
  ASSUME Settled, FilterSoFar, shift = 0, stage \in {"precode", "chunks", "encode", "done"}
  PROVE  Plain /\ buf = Filtered
<1>1. Plain
  BY DEF Settled, Plain
<1>2. buf \in [0..Size-1 -> Symbols]
  BY <1>1, PlainFacts DEF Settled, Plain
<1>3. \A i \in 0..Size-1 : buf[i] = Filtered[i]
  BY DEF FilterSoFar
<1>4. Filtered \in [0..Size-1 -> Symbols]
  BY <1>1, PlainBuffers
<1>5. buf = Filtered
  <2> DEFINE S == 0..Size-1
  <2> HIDE DEF S
  <2>1. buf \in [S -> Symbols] /\ Filtered \in [S -> Symbols] /\ \A i \in S : buf[i] = Filtered[i]
    BY <1>2, <1>3, <1>4 DEF S
  <2> QED BY <2>1
<1> QED BY <1>1, <1>5

\* A sample and its chunk.
LEMMA ChunkNamed ==
  ASSUME Plain, NEW i \in 0..Size-1, i \div pixels = channel
  PROVE  ChunkOf(i) = ChunkId(ChunkNumber(i % pixels))
<1> DEFINE r == i % pixels
           w == img.width
           col == i % w
           X == col \div params.chunk_width
           Y == (r \div w) \div params.chunk_height
<1>1. /\ w \in Nat \ {0} /\ params.chunk_width \in Nat \ {0} /\ params.chunk_height \in Nat \ {0}
      /\ XChunks \in Nat \ {0}
  BY ImageFacts, ChunkFacts DEF Plain
<1>2. /\ col \in 0..w-1 /\ r \in Nat /\ r = (r \div w) * w + col /\ (r \div w) * w \in Nat
      /\ r \div w \in 0..img.height-1
  BY SamplePlace DEF Plain
<1>3. r % w = col
  <2>1. r % w \in 0..w-1 /\ r = (r \div w) * w + (r % w)
    BY <1>1, <1>2, Division
  <2> DEFINE m == r % w
             q == (r \div w) * w
  <2> HIDE DEF m, q, r, col, w
  <2>2. q \in Nat /\ m \in Nat /\ col \in Nat /\ q + m = q + col
    BY <1>1, <1>2, <2>1 DEF q, m
  <2>3. m = col
    BY <2>2
  <2> QED BY <2>3 DEF m
<1>4. X \in 0..XChunks-1
  <2>1. w <= XChunks * params.chunk_width /\ XChunks * params.chunk_width \in Nat
    BY <1>1, CeilingIs, Distribute DEF XChunks
  <2> DEFINE m == XChunks * params.chunk_width
  <2>2. col < m /\ col \in Nat
    <3> HIDE DEF m, col, w
    <3> QED BY <1>1, <1>2, <2>1 DEF m
  <2> QED BY <1>1, <2>2, DivBelow
<1>5. Y \in Nat
  <2>1. r \div w \in Nat
    BY <1>2
  <2> QED BY <1>1, <2>1, Division
<1>6. ChunkNumber(r) = Y * XChunks + X
  BY <1>3 DEF ChunkNumber
<1> HIDE DEF X, Y
<1>7. (Y * XChunks + X) % XChunks = X /\ (Y * XChunks + X) \div XChunks = Y
  BY <1>1, <1>4, <1>5, DivModUnique
<1>8. ChunkOf(i) = <<channel, X, Y>>
  BY DEF ChunkOf, X, Y
<1> QED BY <1>6, <1>7, <1>8 DEF ChunkId

LEMMA ModelPrecodeChunk ==
  ASSUME Inv, ModelSoFar, NEW it \in work, PrecodeChunk(it)
  PROVE  ModelSoFar'
<1>1. /\ stage = "chunks" /\ stage' = "chunks" /\ img' = img /\ params' = params
      /\ pairs' = IF Residues(channel) THEN ResiduePairs(Head(it)) ELSE LeadingPairs(Head(it))
      /\ work' = Advanced(it) /\ channel' = channel /\ fresh' = fresh /\ dirty' = dirty
  BY DEF PrecodeChunk
<1>2. shift' = shift /\ Size' = Size /\ pixels' = pixels /\ \A i : TruePair(i)' = TruePair(i)
  BY <1>1, SameTruePairs
<1> SUFFICES ASSUME shift = 0, ~dirty
             PROVE  fresh = 0 /\ \A i \in 0..Size-1 : ChunkDone(i)' => pairs'[i] = TruePair(i)
  BY <1>1, <1>2 DEF ModelSoFar
<1> DEFINE c == Head(it)
<1>3. fresh = 0 /\ \A i \in 0..Size-1 : ChunkDone(i) => pairs[i] = TruePair(i)
  BY <1>1 DEF ModelSoFar
<1>4. Plain /\ buf = Filtered
  BY <1>1, BufferIs DEF Inv
<1>5. Once(work) /\ buf \in [0..BufferLength-1 -> SampleValues]
  BY <1>1, <1>4 DEF Inv, Settled, Plain
<1>6. /\ pairs \in PairMaps /\ channel \in 0..Passes-1 /\ fresh \in Nat
      /\ ToDo(work) \subseteq 0..XChunks*YChunks-1
  BY <1>1 DEF Inv, PairsSoFar, PairMaps
<1>7. ToDo(work') = ToDo(work) \ {c} /\ c \in ToDo(work)
  BY <1>1, <1>5, Advances DEF Advanced
<1>8. Coding(c)
  BY <1>4, <1>5, <1>6, <1>7 DEF Coding, Plain
<1>9. pairs' = LeadingPairs(c)
  <2>1. Passes = nchannels /\ nchannels \in Nat
    BY <1>4, PlainFacts
  <2>2. ~(channel >= nchannels)
    BY <1>6, <2>1
  <2> QED BY <1>1, <2>2 DEF Residues
<1>10. TruePairsSet(pairs', pairs, c)
  BY <1>3, <1>4, <1>8, <1>9, LeadingPairsTrue
<1>11. \A r : ChunkNumber(r)' = ChunkNumber(r)
  BY <1>1, SameChunks
<1>12. ASSUME NEW i \in 0..Size-1, ChunkDone(i)' PROVE pairs'[i] = TruePair(i)
  <2>1. CASE pairs'[i] = TruePair(i)
    BY <2>1
  <2>2. CASE pairs'[i] = pairs[i] /\ ChunkOf(i) # ChunkId(c)
    <3>1. i \div pixels = channel => ChunkNumber(i % pixels) # c
      BY <1>4, <2>2, ChunkNamed
    <3>2. \/ i \div pixels < channel
          \/ i \div pixels = channel /\ ChunkNumber(i % pixels) \notin ToDo(work) \ {c}
      BY <1>1, <1>2, <1>7, <1>11, <1>12 DEF ChunkDone
    <3>3. ChunkDone(i)
      BY <3>1, <3>2 DEF ChunkDone
    <3> QED BY <1>3, <2>2, <3>3
  <2> QED BY <1>10, <2>1, <2>2 DEF TruePairsSet
<1> QED BY <1>3, <1>12

\* A pass is over when none of its chunks is left.
LEMMA TruePassOver ==
  ASSUME Plain, work = {}, channel \in 0..Passes-1, NEW i \in 0..Size-1, i \div pixels < channel + 1
  PROVE  ChunkDone(i)
<1>1. ToDo(work) = {}
  BY DEF ToDo
<1>2. channel \in Nat /\ i \div pixels \in Nat
  BY SamplePlace DEF Plain
<1> DEFINE q == i \div pixels
<1> HIDE DEF q
<1>3. q \in Nat /\ channel \in Nat /\ q < channel + 1
  BY <1>2 DEF q
<1>4. q < channel \/ q = channel
  BY <1>3
<1> QED BY <1>1, <1>4 DEF ChunkDone, q

LEMMA ModelStartPrecode ==
  ASSUME Inv, StartPrecode
  PROVE  ModelSoFar'
<1>1. /\ stage = "precode" /\ stage' = "chunks" /\ img' = img /\ params' = params
      /\ channel' = 0 /\ work' = Chunks(device') /\ dirty' = (fresh' # 0)
      /\ device' = (pixels > ClPixels)
  BY DEF StartPrecode
<1>2. shift' = shift /\ Size' = Size /\ pixels' = pixels
  BY <1>1, SameTruePairs
<1> SUFFICES ASSUME shift = 0, ~dirty' PROVE fresh' = 0 /\ \A i \in 0..Size-1 : ~ChunkDone(i)'
  BY <1>1, <1>2 DEF ModelSoFar
<1>3. Plain
  BY <1>1, BufferIs DEF Inv
<1>4. fresh' = 0
  BY <1>1
<1>5. ToDo(work') = 0..XChunks*YChunks-1
  <2>1. device' \in BOOLEAN
    BY <1>1
  <2> QED BY <1>1, <1>3, <2>1, ChunksToDo DEF Plain
<1>6. \A r : ChunkNumber(r)' = ChunkNumber(r)
  BY <1>1, SameChunks
<1>7. ASSUME NEW i \in 0..Size-1 PROVE ~ChunkDone(i)'
  <2>1. i \div pixels \in Nat /\ i % pixels \in 0..pixels-1
    BY <1>3, SamplePlace DEF Plain
  <2>2. ChunkNumber(i % pixels) \in ToDo(work')
    BY <1>3, <1>5, <2>1, ChunksTile DEF Plain
  <2>3. ~(i \div pixels < 0)
    BY <2>1
  <2> QED BY <1>1, <1>2, <1>6, <2>2, <2>3 DEF ChunkDone
<1> QED BY <1>4, <1>7

LEMMA ModelNextPass ==
  ASSUME Inv, ModelSoFar, NextPass
  PROVE  ModelSoFar'
<1>1. /\ stage = "chunks" /\ work = {} /\ stage' = "chunks" /\ img' = img /\ params' = params
      /\ channel' = channel + 1 /\ work' = Chunks(device) /\ pairs' = pairs
      /\ dirty' = (dirty \/ fresh' # 0)
  BY DEF NextPass
<1>2. shift' = shift /\ Size' = Size /\ pixels' = pixels /\ \A i : TruePair(i)' = TruePair(i)
  BY <1>1, SameTruePairs
<1> SUFFICES ASSUME shift = 0, ~dirty'
             PROVE  fresh' = 0 /\ \A i \in 0..Size-1 : ChunkDone(i)' => pairs[i] = TruePair(i)
  BY <1>1, <1>2 DEF ModelSoFar
<1>3. Plain
  BY <1>1, BufferIs DEF Inv
<1>4. fresh' = 0 /\ ~dirty
  BY <1>1
<1>5. ToDo(work') = 0..XChunks*YChunks-1 /\ channel \in 0..Passes-1
  <2>1. device \in BOOLEAN
    BY DEF Inv, Settled
  <2>2. channel \in 0..Passes-1
    BY <1>1 DEF Inv, PairsSoFar
  <2> QED BY <1>1, <1>3, <2>1, <2>2, ChunksToDo DEF Plain
<1>6. \A r : ChunkNumber(r)' = ChunkNumber(r)
  BY <1>1, SameChunks
<1>7. ASSUME NEW i \in 0..Size-1, ChunkDone(i)' PROVE pairs[i] = TruePair(i)
  <2>1. i % pixels \in 0..pixels-1
    BY <1>3, SamplePlace DEF Plain
  <2>2. ChunkNumber(i % pixels) \in ToDo(work')
    BY <1>3, <1>5, <2>1, ChunksTile DEF Plain
  <2>3. i \div pixels < channel + 1
    BY <1>1, <1>2, <1>6, <1>7, <2>2 DEF ChunkDone
  <2>4. ChunkDone(i)
    BY <1>1, <1>3, <1>5, <2>3, TruePassOver
  <2> QED BY <1>1, <1>4, <2>4 DEF ModelSoFar
<1> QED BY <1>4, <1>7

LEMMA ModelStartEncode ==
  ASSUME Inv, ModelSoFar, StartEncode
  PROVE  ModelSoFar'
<1>1. /\ stage = "chunks" /\ work = {} /\ channel + 1 = Passes /\ stage' = "encode" /\ img' = img
      /\ params' = params /\ pairs' = pairs /\ dirty' = dirty
  BY DEF StartEncode, loop
<1>2. shift' = shift /\ Size' = Size /\ \A i : TruePair(i)' = TruePair(i)
  BY <1>1, SameTruePairs
<1> SUFFICES ASSUME shift = 0, ~dirty, NEW i \in 0..Size-1 PROVE pairs[i] = TruePair(i)
  BY <1>1, <1>2 DEF ModelSoFar
<1>3. Plain
  BY <1>1, BufferIs DEF Inv
<1>4. channel \in 0..Passes-1
  BY <1>1 DEF Inv, PairsSoFar
<1>5. i \div pixels < channel + 1
  <2>1. i \div pixels \in 0..nchannels-1 /\ nchannels = Passes /\ nchannels \in Nat
    BY <1>3, SamplePlace, PlainFacts DEF Plain
  <2> DEFINE q == i \div pixels
  <2>2. q \in 0..nchannels-1 /\ nchannels = channel + 1 /\ channel \in Nat
    BY <1>1, <1>4, <2>1
  <2> HIDE DEF q
  <2>3. q < channel + 1
    BY <2>2
  <2> QED BY <2>3 DEF q
<1>6. ChunkDone(i)
  BY <1>1, <1>3, <1>4, <1>5, TruePassOver
<1> QED BY <1>1, <1>6 DEF ModelSoFar

LEMMA ModelKept ==
  ASSUME Inv, ModelSoFar, [Next]_vars
  PROVE  ModelSoFar'
<1>1. CASE StartPrecode
  BY <1>1, ModelStartPrecode
<1>2. CASE NextPass
  BY <1>2, ModelNextPass
<1>3. CASE StartEncode
  BY <1>3, ModelStartEncode
<1>4. ASSUME NEW it \in work, PrecodeChunk(it) PROVE ModelSoFar'
  BY <1>4, ModelPrecodeChunk
<1>5. CASE EncodePair \/ Flush
  <2>1. /\ stage = "encode" /\ stage' \in {"encode", "done"} /\ img' = img /\ params' = params
        /\ pairs' = pairs /\ dirty' = dirty
    BY <1>5 DEF EncodePair, Flush, loop
  <2>2. shift' = shift /\ Size' = Size /\ \A i : TruePair(i)' = TruePair(i)
    BY <2>1, SameTruePairs
  <2> QED BY <2>1, <2>2 DEF ModelSoFar
<1>6. CASE \/ read_bundle \/ ReadThrows \/ PreprocessSkips \/ ColourOnCpu \/ ColourOnDevice
           \/ ColourThrows \/ FilterSkips \/ StartFilter \/ PrecodeUndefined \/ ResiduesThrow
           \/ EncodeUnset
  <2>1. stage' \notin {"chunks", "encode", "done"}
    BY <1>6 DEF read_bundle, ReadThrows, PreprocessSkips, ColourOnCpu, ColourOnDevice, StartColour,
                ColourThrows, FilterSkips, StartFilter, PrecodeUndefined, ResiduesThrow, EncodeUnset
  <2> QED BY <2>1 DEF ModelSoFar
<1>7. ASSUME NEW it \in work, ColourPixel(it) \/ FilterSample(it) PROVE ModelSoFar'
  <2>1. stage' \notin {"chunks", "encode", "done"}
    BY <1>7 DEF ColourPixel, FilterSample
  <2> QED BY <2>1 DEF ModelSoFar
<1>8. CASE UNCHANGED vars
  <2>1. /\ stage' = stage /\ img' = img /\ params' = params /\ pairs' = pairs
        /\ channel' = channel /\ work' = work /\ fresh' = fresh /\ dirty' = dirty
    BY <1>8 DEF vars
  <2>2. shift' = shift /\ Size' = Size /\ pixels' = pixels /\ \A i : TruePair(i)' = TruePair(i)
    BY <2>1, SameTruePairs
  <2>3. \A r : ChunkNumber(r)' = ChunkNumber(r)
    BY <2>1, SameChunks
  <2>4. \A i : ChunkDone(i)' <=> ChunkDone(i)
    BY <2>1, <2>2, <2>3 DEF ChunkDone
  <2> QED BY <2>1, <2>2, <2>4 DEF ModelSoFar
<1> QED BY <1>1, <1>2, <1>3, <1>4, <1>5, <1>6, <1>7, <1>8 DEF Next

-----------------------------------------------------------------------------
(* The words are the coder's *)
\* The stack and, at the end, the blob hold what the coder has given off.
CoderSoFar ==
  /\ stage = "encode" => CodedDownTo(index, Passes * pixels, pairs, x, stack)
  /\ stage = "done" =>
       \E c : /\ IsTrace(c, 0, Passes * pixels, pairs) /\ c[0].x = x
              /\ blob.words = <<Word(x), Word(x \div Base)>> \o c[0].words

LEMMA CoderStartEncode ==
  ASSUME Inv, StartEncode
  PROVE  CoderSoFar'
<1> DEFINE N == Passes * pixels
<1>1. /\ stage = "chunks" /\ stage' = "encode" /\ img' = img
      /\ index' = N /\ x' = LowerBound /\ stack' = EmptyStack
  BY DEF StartEncode
<1>2. Passes' * pixels' = N
  BY <1>1, SameImage DEF Passes
<1>3. N \in Nat
  <2>1. img \in Inputs /\ img # NotPng
    BY <1>1 DEF Inv, Settled
  <2>2. nchannels \in Nat /\ pixels \in Nat
    BY <2>1, ImageFacts
  <2>3. Passes \in Nat
    BY <2>2 DEF Passes
  <2> QED BY <2>2, <2>3, Distribute
<1> HIDE DEF N
<1>4. CodedDownTo(N, N, pairs', LowerBound, EmptyStack)
  BY <1>3, TotalIs, CodedBegins
<1> QED BY <1>1, <1>2, <1>4 DEF CoderSoFar

LEMMA CoderEncodePair ==
  ASSUME Inv, CoderSoFar, EncodePair
  PROVE  CoderSoFar'
<1> DEFINE N == Passes * pixels
           k == index - 1
           p == pairs[k]
<1>1. /\ stage = "encode" /\ stage' = "encode" /\ img' = img /\ index > 0 /\ p # NoPair
      /\ index' = k /\ pairs' = pairs
      /\ x' = EncodeState(x, p.ls, p.bs) /\ stack' = EncodeWords(stack, x, p.ls)
  BY DEF EncodePair
<1>2. Passes' * pixels' = N
  BY <1>1, SameImage DEF Passes
<1>3. pairs \in [0..N-1 -> LegalPairs \cup {NoPair}] /\ index \in 0..N
  BY <1>1 DEF Inv, PairsSoFar
<1>4. N \in Nat
  <2>1. img \in Inputs /\ img # NotPng
    BY <1>1 DEF Inv, Settled
  <2>2. nchannels \in Nat /\ pixels \in Nat
    BY <2>1, ImageFacts
  <2>3. Passes \in Nat
    BY <2>2 DEF Passes
  <2> QED BY <2>2, <2>3, Distribute
<1>5. CodedDownTo(index, N, pairs, x, stack)
  BY <1>1 DEF CoderSoFar
<1> HIDE DEF N
<1>6. k \in 0..N-1 /\ k \in Nat /\ k < N /\ k + 1 = index
  BY <1>1, <1>3, <1>4
<1> HIDE DEF k
<1>7. pairs[k] \in LegalPairs
  BY <1>1, <1>3, <1>6
<1>8. CodedDownTo(k + 1, N, pairs, x, stack)
  BY <1>5, <1>6
<1>9. CodedDownTo(k, N, pairs, EncodeState(x, pairs[k].ls, pairs[k].bs), EncodeWords(stack, x, pairs[k].ls))
  BY <1>4, <1>6, <1>7, <1>8, CodedStep
<1>10. CodedDownTo(index', N, pairs', x', stack')
  BY <1>1, <1>9
<1> QED BY <1>1, <1>2, <1>10 DEF CoderSoFar

LEMMA CoderFlush ==
  ASSUME Inv, CoderSoFar, Flush
  PROVE  CoderSoFar'
<1> DEFINE N == Passes * pixels
<1>1. /\ stage = "encode" /\ index = 0 /\ stage' = "done" /\ img' = img /\ pairs' = pairs /\ x' = x
      /\ stack' = push(push(stack, Word(x \div Base)), Word(x)) /\ blob'.words = Popped(stack')
  BY DEF Flush
<1>2. Passes' * pixels' = N
  BY <1>1, SameImage DEF Passes
<1>3. x \in Nat /\ InRange(x)
  BY <1>1 DEF Inv, PairsSoFar
<1>4. CodedDownTo(0, N, pairs, x, stack)
  BY <1>1 DEF CoderSoFar
<1>5. PICK c : IsTrace(c, 0, N, pairs) /\ c[0] = [x |-> x, words |-> Popped(stack)]
  BY <1>4 DEF CodedDownTo
<1>6. StackHolds(stack) /\ (stack.bufs # <<>> \/ stack.index = 0)
  BY <1>4 DEF CodedDownTo
<1> HIDE DEF N
<1>7. Popped(stack') = <<Word(x), Word(x \div Base)>> \o Popped(stack)
  BY <1>1, <1>3, <1>6, Flushed
<1>8. \E d : /\ IsTrace(d, 0, N, pairs') /\ d[0].x = x'
             /\ blob'.words = <<Word(x'), Word(x' \div Base)>> \o d[0].words
  <2>1. c[0].x = x /\ c[0].words = Popped(stack)
    BY <1>5
  <2>2. blob'.words = <<Word(x'), Word(x' \div Base)>> \o c[0].words
    BY <1>1, <1>7, <2>1
  <2>3. IsTrace(c, 0, N, pairs') /\ c[0].x = x'
    BY <1>1, <1>5, <2>1
  <2> QED BY <2>2, <2>3, Zenon
<1> QED BY <1>1, <1>2, <1>8 DEF CoderSoFar

LEMMA CoderKept ==
  ASSUME Inv, CoderSoFar, [Next]_vars
  PROVE  CoderSoFar'
<1>1. CASE StartEncode
  BY <1>1, CoderStartEncode
<1>2. CASE EncodePair
  BY <1>2, CoderEncodePair
<1>3. CASE Flush
  BY <1>3, CoderFlush
<1>4. CASE \/ read_bundle \/ ReadThrows \/ PreprocessSkips \/ ColourOnCpu \/ ColourOnDevice
           \/ ColourThrows \/ FilterSkips \/ StartFilter \/ PrecodeUndefined \/ ResiduesThrow
           \/ EncodeUnset \/ StartPrecode \/ NextPass
  <2>1. stage' \notin {"encode", "done"}
    BY <1>4 DEF read_bundle, ReadThrows, PreprocessSkips, ColourOnCpu, ColourOnDevice, StartColour,
                ColourThrows, FilterSkips, StartFilter, PrecodeUndefined, ResiduesThrow, EncodeUnset,
                StartPrecode, NextPass
  <2> QED BY <2>1 DEF CoderSoFar
<1>5. ASSUME NEW it \in work, ColourPixel(it) \/ FilterSample(it) \/ PrecodeChunk(it) PROVE CoderSoFar'
  <2>1. stage' \notin {"encode", "done"}
    BY <1>5 DEF ColourPixel, FilterSample, PrecodeChunk
  <2> QED BY <2>1 DEF CoderSoFar
<1>6. CASE UNCHANGED vars
  <2>1. /\ stage' = stage /\ img' = img /\ pairs' = pairs /\ index' = index /\ x' = x
        /\ stack' = stack /\ blob' = blob
    BY <1>6 DEF vars
  <2>2. Passes' * pixels' = Passes * pixels
    BY <2>1, SameImage DEF Passes
  <2>3. stage = "encode" => CoderSoFar'
    BY <2>1, <2>2 DEF CoderSoFar
  <2>4. stage = "done" => CoderSoFar'
    BY <2>1, <2>2 DEF CoderSoFar
  <2>5. stage \notin {"encode", "done"} => CoderSoFar'
    BY <2>1 DEF CoderSoFar
  <2> QED BY <2>3, <2>4, <2>5
<1> QED BY <1>1, <1>2, <1>3, <1>4, <1>5, <1>6 DEF Next

-----------------------------------------------------------------------------
(* The decoder walks the coder's steps back *)
\* The values a fold over a sequence of n members goes through.
FoldsTo(fold, n, D, base, step) ==
  /\ fold[{}] = base
  /\ \A t \in SUBSET (1..n) : t # {} /\ fold[t \ {Max(t)}] \in D =>
       fold[t] = step[Max(t)][fold[t \ {Max(t)}]]

Ascends(h, fold, n, base, step) ==
  /\ h[0] = base /\ h[n] = fold[1..n]
  /\ \A k \in 0..n-1 : h[k + 1] = step[k + 1][h[k]]

LEMMA FoldAscends ==
  ASSUME NEW n \in Nat, NEW D, NEW base \in D, NEW step \in [1..n -> [D -> D]], NEW fold,
         FoldsTo(fold, n, D, base, step)
  PROVE  \E h \in [0..n -> D] : Ascends(h, fold, n, base, step)
<1> DEFINE S == {k \in Nat : k <= n => fold[1..k] \in D}
           h == [k \in 0..n |-> fold[1..k]]
<1>1. fold[1..0] = base
  <2>1. 1..0 = {}
    OBVIOUS
  <2> QED BY <2>1 DEF FoldsTo
<1>2. ASSUME NEW k \in 0..n-1, fold[1..k] \in D
      PROVE  fold[1..k+1] = step[k + 1][fold[1..k]] /\ fold[1..k+1] \in D
  <2>1. 1..k+1 \in SUBSET (1..n) /\ 1..k+1 # {} /\ Max(1..k+1) = k + 1 /\ (1..k+1) \ {k + 1} = 1..k
    BY LastOfInterval
  <2>2. fold[1..k+1] = step[k + 1][fold[1..k]]
    BY <1>2, <2>1 DEF FoldsTo
  <2>3. k + 1 \in 1..n
    OBVIOUS
  <2> QED BY <1>2, <2>2, <2>3
<1>3. 0 \in S
  BY <1>1
<1>4. ASSUME NEW k \in Nat, k \in S PROVE k + 1 \in S
  <2> SUFFICES ASSUME k + 1 <= n PROVE fold[1..k+1] \in D
    OBVIOUS
  <2>1. k \in 0..n-1 /\ fold[1..k] \in D
    BY <1>4
  <2> QED BY <1>2, <2>1
<1>5. \A k \in 0..n : fold[1..k] \in D
  <2>1. Nat \subseteq S
    BY <1>3, <1>4, Induction
  <2>2. \A k \in 0..n : k \in Nat /\ k <= n
    OBVIOUS
  <2> QED BY <2>1, <2>2
<1>6. h \in [0..n -> D]
  BY <1>5
<1>7. h[0] = base /\ h[n] = fold[1..n]
  BY <1>1
<1>8. ASSUME NEW k \in 0..n-1 PROVE h[k + 1] = step[k + 1][h[k]]
  <2>1. k \in 0..n /\ k + 1 \in 0..n
    OBVIOUS
  <2>2. fold[1..k] \in D
    BY <1>5, <2>1
  <2>3. fold[1..k+1] = step[k + 1][fold[1..k]]
    BY <1>2, <2>2
  <2>4. h[k + 1] = fold[1..k+1] /\ h[k] = fold[1..k]
    BY <2>1
  <2> HIDE DEF h
  <2> QED BY <2>3, <2>4
<1> HIDE DEF h
<1> QED BY <1>6, <1>7, <1>8 DEF Ascends

DecodeStates == [sym : [0..Size-1 -> Symbols], pos : Nat, x : Int]

\* A step of the decoder, with the model as far as it has decoded.
DecodeWith(acc, i, T, s) ==
  LET p == add_to_seq(T, s)
      y == Unshuffled(acc.x, p.ls, p.bs)
  IN  [sym |-> [acc.sym EXCEPT ![i] = s],
       pos |-> IF Underflows(y) THEN acc.pos + 1 ELSE acc.pos,
       x   |-> IF Underflows(y)
               THEN Refilled(y, IF acc.pos < Len(blob.words) THEN blob.words[acc.pos + 1] ELSE 0) ELSE y]

LEMMA DecodeIs ==
  ASSUME NEW acc, NEW i
  PROVE  DecodeStep(acc, i) =
           DecodeWith(acc, i, ModelTable(acc.sym, i),
                      inv_bs(ModelTable(acc.sym, i), AlphabetSize, Slot(acc.x)))
BY DEF DecodeStep, DecodeWith, ModelTable

LEMMA DecodeTyped ==
  ASSUME Plain, blob.words \in Seq(WordValues), NEW acc \in DecodeStates, NEW i \in 0..Size-1
  PROVE  DecodeStep(acc, i) \in DecodeStates
<1> DEFINE T == ModelTable(acc.sym, i)
           A == AlphabetSize
           v == Slot(acc.x)
           s == inv_bs(T, A, v)
           w == IF acc.pos < Len(blob.words) THEN blob.words[acc.pos + 1] ELSE 0
<1>1. acc.sym \in [0..Size-1 -> Symbols] /\ acc.pos \in Nat /\ acc.x \in Int
  BY DEF DecodeStates
<1>2. T \in [0..A-1 -> Nat \ {0}] /\ SumBelow(T, A) = Total
  BY <1>1, TableIs
<1>3. /\ A \in Nat \ {0} /\ Symbols = 0..A-1 /\ Total \in Nat \ {0} /\ Base \in Nat
  BY PlainFacts, HzRansAssumption
<1>4. v \in Nat /\ v < Total
  BY <1>1, <1>3 DEF Slot
<1>5. T \in [0..A-1 -> Nat]
  BY <1>2
<1> HIDE DEF T, v
<1>6. s \in 0..A-1
  <2> HIDE DEF A
  <2> QED BY <1>2, <1>3, <1>4, <1>5, SlotOwner
<1>7. SumBelow(T, s) \in Nat /\ T[s] \in Nat
  <2> HIDE DEF A, s
  <2>1. \A k \in 0..A-1 : T[k] \in Nat
    BY <1>5
  <2> QED BY <1>3, <1>6, <2>1, SlotInRow
<1>8. w \in Nat
  <2>1. CASE acc.pos < Len(blob.words)
    <3>1. Len(blob.words) \in Nat
      BY LenProperties
    <3>2. acc.pos + 1 \in 1..Len(blob.words)
      BY <1>1, <2>1, <3>1
    <3>3. blob.words[acc.pos + 1] \in WordValues
      BY <3>2, LenProperties
    <3> QED BY <1>3, <2>1, <3>3 DEF WordValues
  <2>2. CASE ~(acc.pos < Len(blob.words))
    BY <2>2
  <2> QED BY <2>1, <2>2
<1> HIDE DEF s, w, A
<1> DEFINE p == add_to_seq(T, s)
           y == Unshuffled(acc.x, p.ls, p.bs)
<1>9. y \in Int
  <2>1. p.ls \in Nat /\ p.bs \in Nat
    BY <1>7 DEF add_to_seq, Pair
  <2>2. acc.x \div Total \in Int /\ acc.x % Total \in Int
    BY <1>1, <1>3
  <2> DEFINE a == p.ls
             b == p.bs
             q == acc.x \div Total
             m == acc.x % Total
  <2> HIDE DEF a, b, q, m
  <2>3. a * q \in Int
    BY <2>1, <2>2 DEF a, b, q, m
  <2>4. a * q + m - b \in Int
    BY <2>1, <2>2, <2>3 DEF a, b, m
  <2> QED BY <2>4 DEF Unshuffled, a, b, q, m
<1> HIDE DEF p, y
<1>10. Refilled(y, w) \in Int
  <2>1. y * Base \in Int
    BY <1>3, <1>9
  <2> QED BY <1>8, <1>9, <2>1 DEF Refilled
<1>11. DecodeStep(acc, i) =
         [sym |-> [acc.sym EXCEPT ![i] = s],
          pos |-> IF Underflows(y) THEN acc.pos + 1 ELSE acc.pos,
          x   |-> IF Underflows(y) THEN Refilled(y, w) ELSE y]
  BY DecodeIs DEF DecodeWith, p, y, w, s, T, A, v
<1>12. [acc.sym EXCEPT ![i] = s] \in [0..Size-1 -> Symbols]
  BY <1>1, <1>3, <1>6
<1>13. acc.pos + 1 \in Nat
  BY <1>1
<1> QED BY <1>1, <1>9, <1>10, <1>11, <1>12, <1>13 DEF DecodeStates

\* After m samples the decoder is where the encoder was with m to go.
DecoderAt(acc, c, m) ==
  /\ acc.sym = [j \in 0..Size-1 |-> IF j < m THEN Filtered[j] ELSE 0]
  /\ acc.x = c[m].x /\ Rest(blob.words, acc.pos, c[m].words)

LEMMA DecodeOne ==
  ASSUME Plain, blob.words \in Seq(WordValues), NEW c, IsTrace(c, 0, Size, pairs),
         NEW m \in 0..Size-1, pairs[m] = TruePair(m), NEW acc, DecoderAt(acc, c, m)
  PROVE  DecoderAt(DecodeStep(acc, m), c, m + 1)
<1> DEFINE T == ModelTable(Filtered, m)
           A == AlphabetSize
           f == Filtered[m]
           p == TruePair(m)
           e == c[m + 1]
           y == Unshuffled(acc.x, p.ls, p.bs)
           r == IF acc.pos < Len(blob.words) THEN blob.words[acc.pos + 1] ELSE 0
<1>1. /\ Size \in Nat /\ A \in Nat \ {0} /\ Symbols = 0..A-1 /\ 0 \in Symbols
  BY PlainFacts
<1>2. Filtered \in [0..Size-1 -> Symbols] /\ f \in 0..A-1
  BY <1>1, PlainBuffers
<1>3. /\ m \in 0..Size /\ m + 1 \in 0..Size /\ m \in 0..Size-1
  BY <1>1
<1>4. /\ c[m] = Encoded(e, p) /\ p \in LegalPairs
      /\ c[m] \in CoderStates /\ e \in CoderStates /\ InRange(e.x)
  BY <1>3 DEF IsTrace
<1>5. IsSlot(p.ls, p.bs)
  BY <1>4 DEF LegalPairs
<1>6. acc.sym \in [0..Size-1 -> Symbols] /\ \A j \in 0..m-1 : acc.sym[j] = Filtered[j]
  <2>1. acc.sym = [j \in 0..Size-1 |-> IF j < m THEN Filtered[j] ELSE 0]
    BY DEF DecoderAt
  <2>2. \A j \in 0..m-1 : j \in 0..Size-1 /\ j < m
    BY <1>1
  <2> QED BY <1>1, <1>2, <2>1, <2>2
<1>7. ModelTable(acc.sym, m) = T
  BY <1>2, <1>6, TableLocal
<1>8. p.ls = T[f] /\ p.bs = SumBelow(T, f)
  BY DEF TruePair, add_to_seq, Pair
<1>9. DecodedBack(blob.words, acc.pos, c[m], e, p)
  <2> HIDE DEF e, p
  <2>1. Rest(blob.words, acc.pos, c[m].words)
    BY DEF DecoderAt
  <2> QED BY <1>4, <2>1, DecodesBack
<1>10. inv_bs(T, A, Slot(acc.x)) = f
  <2>1. Slot(acc.x) \in p.bs..(p.bs + p.ls - 1)
    <3>1. acc.x = c[m].x
      BY DEF DecoderAt
    <3> HIDE DEF p
    <3> QED BY <1>9, <3>1 DEF DecodedBack
  <2>2. T \in [0..A-1 -> Nat]
    BY <1>2, TableIs
  <2> DEFINE v == Slot(acc.x)
             b == SumBelow(T, f)
             l == T[f]
  <2>3. b \in Nat /\ l \in Nat
    BY <1>5, <1>8 DEF IsSlot
  <2>4. v \in b..(b + l - 1)
    BY <1>8, <2>1
  <2> HIDE DEF v, b, l, T, A
  <2>5. v \in Nat /\ b <= v /\ v < b + l
    BY <2>3, <2>4
  <2> HIDE DEF f
  <2>6. inv_bs(T, A, v) = f
    <3>1. SumBelow(T, f) <= v /\ v < SumBelow(T, f) + T[f]
      BY <2>5 DEF b, l
    <3> QED BY <1>1, <1>2, <2>2, <2>5, <3>1, SlotOwner
  <2> QED BY <2>6 DEF v
<1>11. add_to_seq(T, f) = p
  BY DEF TruePair
<1>12. DecodeStep(acc, m) =
         [sym |-> [acc.sym EXCEPT ![m] = f],
          pos |-> IF Underflows(y) THEN acc.pos + 1 ELSE acc.pos,
          x   |-> IF Underflows(y) THEN Refilled(y, r) ELSE y]
  <2>1. DecodeStep(acc, m) = DecodeWith(acc, m, T, f)
    BY <1>7, <1>10, DecodeIs
  <2> HIDE DEF T, f, p
  <2> QED BY <1>11, <2>1 DEF DecodeWith
<1> HIDE DEF T, A, p
<1>13. y = Unshuffled(c[m].x, p.ls, p.bs)
  BY DEF DecoderAt
<1> HIDE DEF e, y, r, f
<1> DEFINE X == IF Underflows(y) THEN Refilled(y, r) ELSE y
           P == IF Underflows(y) THEN acc.pos + 1 ELSE acc.pos
<1>14. X = e.x /\ Rest(blob.words, P, e.words)
  <2>1. Rest(blob.words, P, e.words)
    BY <1>9, <1>13 DEF DecodedBack
  <2>2. \A w \in IF acc.pos < Len(blob.words) THEN {blob.words[acc.pos + 1]} ELSE WordValues : Refilled(y, w) = e.x
    BY <1>9, <1>13 DEF DecodedBack
  <2>3. r \in IF acc.pos < Len(blob.words) THEN {blob.words[acc.pos + 1]} ELSE WordValues
    BY HzRansAssumption DEF r, WordValues
  <2>4. Refilled(y, r) = e.x
    BY <2>2, <2>3
  <2>5. X = Refilled(y, r)
    BY DEF Refilled
  <2> QED BY <2>1, <2>4, <2>5
<1>15. [acc.sym EXCEPT ![m] = f] = [j \in 0..Size-1 |-> IF j < m + 1 THEN Filtered[j] ELSE 0]
  <2>1. acc.sym = [j \in 0..Size-1 |-> IF j < m THEN Filtered[j] ELSE 0]
    BY DEF DecoderAt
  <2>2. ASSUME NEW j \in 0..Size-1
        PROVE  (IF j = m THEN f ELSE (IF j < m THEN Filtered[j] ELSE 0)) = IF j < m + 1 THEN Filtered[j] ELSE 0
    <3>1. CASE j = m
      <4>1. j < m + 1
        BY <1>3, <3>1
      <4> QED BY <3>1, <4>1 DEF f
    <3>2. CASE j # m
      <4>1. j < m <=> j < m + 1
        BY <1>1, <1>3, <3>2
      <4> QED BY <3>2, <4>1
    <3> QED BY <3>1, <3>2
  <2>3. [acc.sym EXCEPT ![m] = f] =
          [j \in 0..Size-1 |-> IF j = m THEN f ELSE (IF j < m THEN Filtered[j] ELSE 0)]
    BY <2>1
  <2> QED BY <2>2, <2>3
<1>16. /\ DecodeStep(acc, m).sym = [acc.sym EXCEPT ![m] = f]
       /\ DecodeStep(acc, m).x = X /\ DecodeStep(acc, m).pos = P
  <2> HIDE DEF X, P
  <2>1. DecodeStep(acc, m) = [sym |-> [acc.sym EXCEPT ![m] = f], pos |-> P, x |-> X]
    BY <1>12 DEF X, P
  <2> QED BY <2>1
<1> HIDE DEF X, P
<1> QED BY <1>14, <1>15, <1>16 DEF DecoderAt, e

DecoderBegins ==
  [sym |-> [i \in 0..nchannels * pixels - 1 |-> 0], pos |-> 2,
   x |-> blob.words[1] + blob.words[2] * Base]

LEMMA DecodeFolds ==
  ASSUME Plain, blob.words \in Seq(WordValues), DecoderBegins \in DecodeStates
  PROVE  \E h \in [0..Size -> DecodeStates] :
           /\ h[0] = DecoderBegins /\ h[Size] = DecodedSamples
           /\ \A k \in 0..Size-1 : h[k + 1] = DecodeStep(h[k], k)
<1> DEFINE n == Size
           D == DecodeStates
           base == DecoderBegins
           s == Ascending(n)
           step == [k \in 1..n |-> [acc \in D |-> DecodeStep(acc, s[k])]]
           IsFold(it) ==
             it = [t \in SUBSET (1..n) |->
                    IF t = {} THEN base ELSE DecodeStep(it[t \ {Max(t)}], s[Max(t)])]
           fold == CHOOSE it : IsFold(it)
<1>1. n \in Nat /\ DOMAIN s = 1..n /\ \A k \in 1..n : s[k] = k - 1 /\ s[k] \in 0..n-1
  BY PlainFacts DEF Ascending
<1>2. base \in D
  OBVIOUS
<1> HIDE DEF D, n, base, s
<1>3. \A acc \in D : \A k \in 1..n : DecodeStep(acc, s[k]) \in D
  BY <1>1, DecodeTyped DEF D, n
<1>4. step \in [1..n -> [D -> D]]
  BY <1>3
<1>5. PICK g \in [SUBSET (1..n) -> D] : Iterates(g, n, base, step)
  <2> HIDE DEF step
  <2> QED BY <1>1, <1>2, <1>4, IteratesExists
<1>6. IsFold(g)
  <2> SUFFICES ASSUME NEW t \in SUBSET (1..n), t # {}
               PROVE  step[Max(t)][g[t \ {Max(t)}]] = DecodeStep(g[t \ {Max(t)}], s[Max(t)])
    <3> HIDE DEF step
    <3> QED BY <1>5 DEF Iterates
  <2>1. Max(t) \in 1..n
    BY <1>1, MaxIs
  <2>2. g[t \ {Max(t)}] \in D
    BY <1>5
  <2> QED BY <2>1, <2>2
<1>7. IsFold(fold)
  <2> HIDE DEF IsFold
  <2> QED BY <1>6
<1>8. DecodedSamples = fold[1..n]
  BY <1>1 DEF DecodedSamples, FoldLeft, MapThenFoldSet, s, n, base, DecoderBegins, Size
<1>9. \A t \in SUBSET (1..n) : fold[t] = IF t = {} THEN base ELSE DecodeStep(fold[t \ {Max(t)}], s[Max(t)])
  <2> HIDE DEF fold
  <2> QED BY <1>7
<1> HIDE DEF fold
<1>10. fold[{}] = base
  <2>1. {} \in SUBSET (1..n)
    OBVIOUS
  <2> QED BY <1>9, <2>1
<1>11. ASSUME NEW t \in SUBSET (1..n), t # {}, fold[t \ {Max(t)}] \in D
       PROVE  fold[t] = step[Max(t)][fold[t \ {Max(t)}]]
  <2>1. Max(t) \in 1..n
    BY <1>1, <1>11, MaxIs
  <2>2. fold[t] = DecodeStep(fold[t \ {Max(t)}], s[Max(t)])
    BY <1>9, <1>11
  <2> QED BY <1>11, <2>1, <2>2
<1> HIDE DEF step
<1>12. FoldsTo(fold, n, D, base, step)
  BY <1>10, <1>11 DEF FoldsTo
<1>13. PICK h \in [0..n -> D] : Ascends(h, fold, n, base, step)
  BY <1>1, <1>2, <1>4, <1>12, FoldAscends
<1>14. ASSUME NEW k \in 0..n-1 PROVE h[k + 1] = DecodeStep(h[k], k)
  <2>1. k + 1 \in 1..n /\ s[k + 1] = k /\ h[k] \in D
    <3>1. k + 1 \in 1..n /\ k \in 0..n /\ (k + 1) - 1 = k
      BY <1>1
    <3> QED BY <1>1, <1>13, <3>1
  <2>2. h[k + 1] = step[k + 1][h[k]]
    BY <1>13 DEF Ascends
  <2> QED BY <2>1, <2>2 DEF step
<1>15. h[0] = base /\ h[n] = DecodedSamples
  BY <1>8, <1>13 DEF Ascends
<1> QED BY <1>13, <1>14, <1>15 DEF D, n, base

\* The decoder begins with the words of the flush.
LEMMA DecoderStarts ==
  ASSUME Plain, NEW c, IsTrace(c, 0, Size, pairs), c[0].x = x, x \in Nat, InRange(x),
         blob.words = <<Word(x), Word(x \div Base)>> \o c[0].words
  PROVE  /\ blob.words \in Seq(WordValues) /\ DecoderBegins \in DecodeStates
         /\ DecoderAt(DecoderBegins, c, 0)
<1> DEFINE r == c[0].words
           words == blob.words
<1>1. /\ Size \in Nat /\ 0 \in 0..Size /\ AlphabetSize \in Nat /\ Symbols = 0..AlphabetSize-1
      /\ 0 \in Symbols /\ nchannels * pixels = Size
  BY PlainFacts DEF Size
<1>2. r \in Seq(WordValues)
  <2>1. c[0] \in CoderStates
    BY <1>1 DEF IsTrace
  <2> QED BY <2>1 DEF CoderStates
<1>3. words = <<Word(x), Word(x \div Base)>> \o r
  OBVIOUS
<1> HIDE DEF r, words
<1>4. words \in Seq(WordValues)
  BY <1>2, <1>3, FlushRead
<1>5. Rest(words, 2, r)
  BY <1>2, <1>3, FlushRead
<1>6. words[1] + words[2] * Base = x
  BY <1>2, <1>3, FlushRead
<1>7. DecoderBegins = [sym |-> [i \in 0..Size-1 |-> 0], pos |-> 2, x |-> x]
  BY <1>1, <1>6 DEF DecoderBegins, words
<1>8. [i \in 0..Size-1 |-> 0] = [j \in 0..Size-1 |-> IF j < 0 THEN Filtered[j] ELSE 0]
  <2>1. \A j \in 0..Size-1 : ~(j < 0)
    BY <1>1
  <2> QED BY <2>1
<1>9. [i \in 0..Size-1 |-> 0] \in [0..Size-1 -> Symbols]
  BY <1>1
<1>10. DecoderBegins \in DecodeStates
  BY <1>7, <1>9 DEF DecodeStates
<1>11. DecoderAt(DecoderBegins, c, 0)
  <2>1. DecoderBegins.sym = [j \in 0..Size-1 |-> IF j < 0 THEN Filtered[j] ELSE 0]
    BY <1>7, <1>8
  <2>2. DecoderBegins.x = c[0].x /\ DecoderBegins.pos = 2
    BY <1>7
  <2> QED BY <1>5, <2>1, <2>2 DEF DecoderAt, words, r
<1> QED BY <1>4, <1>10, <1>11 DEF words

\* The decoder gets the filtered samples back, and ends where the encoder began.
LEMMA Decoded ==
  ASSUME Inv, ModelSoFar, CoderSoFar, stage = "done", shift = 0, ~dirty
  PROVE  /\ Plain /\ DecodedSamples.sym = Filtered
         /\ DecodedSamples.x = LowerBound /\ DecodedSamples.pos = Len(blob.words)
<1>1. Plain
  BY BufferIs DEF Inv
<1>2. Passes * pixels = Size /\ Size \in Nat
  BY <1>1, PlainFacts
<1>3. PICK c : /\ IsTrace(c, 0, Size, pairs) /\ c[0].x = x
               /\ blob.words = <<Word(x), Word(x \div Base)>> \o c[0].words
  BY <1>2 DEF CoderSoFar
<1>4. \A i \in 0..Size-1 : pairs[i] = TruePair(i)
  BY DEF ModelSoFar
<1>5. x \in Nat /\ InRange(x)
  BY DEF Inv, PairsSoFar
<1>6. /\ blob.words \in Seq(WordValues) /\ DecoderBegins \in DecodeStates
      /\ DecoderAt(DecoderBegins, c, 0)
  BY <1>1, <1>3, <1>5, DecoderStarts
<1>7. PICK h \in [0..Size -> DecodeStates] :
        /\ h[0] = DecoderBegins /\ h[Size] = DecodedSamples
        /\ \A k \in 0..Size-1 : h[k + 1] = DecodeStep(h[k], k)
  BY <1>1, <1>6, DecodeFolds
<1> DEFINE n == Size
           S == {k \in Nat : k <= n => DecoderAt(h[k], c, k)}
<1>8. 0 \in S
  BY <1>6, <1>7
<1>9. ASSUME NEW k \in Nat, k \in S PROVE k + 1 \in S
  <2> SUFFICES ASSUME k + 1 <= n PROVE DecoderAt(h[k + 1], c, k + 1)
    OBVIOUS
  <2>1. k \in 0..Size-1 /\ DecoderAt(h[k], c, k)
    <3> HIDE DEF n
    <3>1. k \in 0..n-1 /\ DecoderAt(h[k], c, k)
      BY <1>2, <1>9 DEF n
    <3> QED BY <3>1 DEF n
  <2>2. DecoderAt(DecodeStep(h[k], k), c, k + 1)
    BY <1>1, <1>3, <1>4, <1>6, <2>1, DecodeOne
  <2> QED BY <1>7, <2>1, <2>2
<1>10. DecoderAt(DecodedSamples, c, n)
  <2>1. Nat \subseteq S
    BY <1>8, <1>9, Induction
  <2>2. n \in Nat
    BY <1>2
  <2>3. n \in S
    BY <2>1, <2>2
  <2> HIDE DEF n
  <2>4. DecoderAt(h[n], c, n)
    BY <2>2, <2>3
  <2> QED BY <1>7, <2>4 DEF n
<1>11. c[n] = [x |-> LowerBound, words |-> <<>>]
  BY <1>3 DEF IsTrace
<1>12. Filtered = [j \in 0..n-1 |-> IF j < n THEN Filtered[j] ELSE 0]
  <2>1. Filtered \in [0..n-1 -> Symbols]
    BY <1>1, PlainBuffers
  <2>2. \A j \in 0..n-1 : j < n
    BY <1>2
  <2> HIDE DEF n
  <2> QED BY <2>1, <2>2
<1>13. DecodedSamples.sym = Filtered /\ DecodedSamples.x = LowerBound
  BY <1>10, <1>11, <1>12 DEF DecoderAt
<1>14. DecodedSamples.pos = Len(blob.words)
  <2>1. Rest(blob.words, DecodedSamples.pos, <<>>)
    BY <1>10, <1>11 DEF DecoderAt
  <2>2. DecodedSamples.pos \in Nat /\ Len(blob.words) = DecodedSamples.pos + Len(<<>>) /\ Len(<<>>) = 0
    BY <2>1 DEF Rest
  <2> QED BY <2>2
<1> QED BY <1>1, <1>13, <1>14

-----------------------------------------------------------------------------
(* The filter undone *)
UnfilterTurn(a, i) ==
  [a EXCEPT ![i] = Masked(@ + Prediction(a, i, img.width, img.height), img.depth)]

LEMMA UnfilterTyped ==
  ASSUME Plain, NEW a \in [0..Size-1 -> Symbols], NEW i \in 0..Size-1
  PROVE  UnfilterTurn(a, i) \in [0..Size-1 -> Symbols]
<1> DEFINE v == Prediction(a, i, img.width, img.height)
<1>1. /\ img.width \in Nat \ {0} /\ img.height \in Nat \ {0} /\ pixels \in Nat
      /\ pixels = img.width * img.height /\ i \in Nat
  BY ImageFacts DEF Plain, pixels
<1>2. /\ Symbols = SampleValues /\ Symbols \subseteq Int /\ 0 \in Symbols /\ Power2[img.depth] \in Nat \ {0}
  BY PlainFacts, ValueFacts DEF Plain, Symbols
<1>3. \A j \in 0..i-1 : j \in 0..Size-1
  BY PlainFacts
<1>4. \A j \in 0..i-1 : j \div pixels = i \div pixels => a[j] = a[j] /\ a[j] \in Symbols
  BY <1>3
<1>5. Predicts(a, a, i, img.width, img.height, Symbols)
  BY <1>1, <1>2, <1>4, PredictionLocal
<1>6. v \in Int /\ a[i] \in Int
  BY <1>2, <1>5 DEF Predicts
<1> HIDE DEF v
<1>7. a[i] + v \in Int
  BY <1>6
<1>8. Masked(a[i] + v, img.depth) \in Symbols
  BY <1>2, <1>7, MaskedTyped DEF SampleValues
<1> QED BY <1>8 DEF UnfilterTurn, v

\* With the first m samples undone.
UnfilteredUpTo(m) == [j \in 0..Size-1 |-> IF j < m THEN Coloured[j] ELSE Filtered[j]]

LEMMA UnfilterOne ==
  ASSUME Plain, img.colour # "PALETTE", NEW m \in 0..Size-1
  PROVE  UnfilterTurn(UnfilteredUpTo(m), m) = UnfilteredUpTo(m + 1)
<1> DEFINE a == UnfilteredUpTo(m)
           w == img.width
           h == img.height
           v == Prediction(Coloured, m, w, h)
<1>1. /\ w \in Nat \ {0} /\ h \in Nat \ {0} /\ pixels \in Nat
      /\ pixels = w * h /\ m \in Nat /\ Size \in Nat
  BY ImageFacts DEF Plain, pixels
<1>2. /\ Symbols = SampleValues /\ 0 \in Symbols /\ Power2[img.depth] \in Nat \ {0}
      /\ Coloured \in [0..Size-1 -> Symbols] /\ Filtered \in [0..Size-1 -> Symbols]
  BY PlainFacts, PlainBuffers, ValueFacts DEF Plain, Symbols
<1>3. \A j \in 0..m-1 : j \in 0..Size-1 /\ j < m
  BY <1>1
<1>4. \A j \in 0..m-1 : a[j] = Coloured[j] /\ Coloured[j] \in Symbols
  BY <1>2, <1>3 DEF UnfilteredUpTo
<1>5. a[m] = Filtered[m]
  <2>1. ~(m < m)
    BY <1>1
  <2> QED BY <2>1 DEF UnfilteredUpTo
<1> HIDE DEF w, h
<1>6. Predicts(a, Coloured, m, w, h, Symbols)
  <2> HIDE DEF a
  <2> QED BY <1>1, <1>2, <1>4, PredictionLocal
<1>7. Prediction(a, m, w, h) = v /\ v \in 0..Power2[img.depth]-1
  BY <1>2, <1>6 DEF Predicts, SampleValues
<1>8. Filtered[m] = Difference(Coloured[m], v, img.depth)
  BY FilteredIs DEF Plain, w, h
<1>9. Coloured[m] \in 0..Power2[img.depth]-1
  BY <1>2 DEF SampleValues
<1> HIDE DEF v
<1>10. Masked(a[m] + Prediction(a, m, w, h), img.depth) = Coloured[m]
  BY <1>2, <1>5, <1>7, <1>8, <1>9, DifferenceUndone
<1>11. UnfilterTurn(a, m) = [a EXCEPT ![m] = Coloured[m]]
  BY <1>10 DEF UnfilterTurn, w, h
<1>12. ASSUME NEW j \in 0..Size-1
       PROVE  (IF j = m THEN Coloured[m] ELSE (IF j < m THEN Coloured[j] ELSE Filtered[j])) =
                IF j < m + 1 THEN Coloured[j] ELSE Filtered[j]
  <2>1. CASE j = m
    <3>1. j < m + 1
      BY <1>1, <2>1
    <3> QED BY <2>1, <3>1
  <2>2. CASE j # m
    <3>1. j < m <=> j < m + 1
      BY <1>1, <2>2
    <3> QED BY <2>2, <3>1
  <2> QED BY <2>1, <2>2
<1>13. [a EXCEPT ![m] = Coloured[m]] =
         [j \in 0..Size-1 |-> IF j = m THEN Coloured[m] ELSE (IF j < m THEN Coloured[j] ELSE Filtered[j])]
  BY DEF UnfilteredUpTo
<1> QED BY <1>11, <1>12, <1>13 DEF UnfilteredUpTo

LEMMA UnfilterFolds ==
  ASSUME Plain, img.colour # "PALETTE"
  PROVE  \E h \in [0..Size -> [0..Size-1 -> Symbols]] :
           /\ h[0] = Filtered /\ h[Size] = Unfiltered(Filtered)
           /\ \A k \in 0..Size-1 : h[k + 1] = UnfilterTurn(h[k], k)
<1> DEFINE n == Size
           D == [0..Size-1 -> Symbols]
           base == Filtered
           s == Ascending(n)
           step == [k \in 1..n |-> [a \in D |-> UnfilterTurn(a, s[k])]]
           IsFold(it) ==
             it = [t \in SUBSET (1..n) |->
                    IF t = {} THEN base ELSE UnfilterTurn(it[t \ {Max(t)}], s[Max(t)])]
           fold == CHOOSE it : IsFold(it)
<1>1. n \in Nat /\ DOMAIN s = 1..n /\ \A k \in 1..n : s[k] = k - 1 /\ s[k] \in 0..n-1
  BY PlainFacts DEF Ascending
<1>2. base \in D
  BY PlainBuffers
<1> HIDE DEF D, n, base, s
<1>3. \A a \in D : \A k \in 1..n : UnfilterTurn(a, s[k]) \in D
  BY <1>1, UnfilterTyped DEF D, n
<1>4. step \in [1..n -> [D -> D]]
  BY <1>3
<1>5. PICK g \in [SUBSET (1..n) -> D] : Iterates(g, n, base, step)
  <2> HIDE DEF step
  <2> QED BY <1>1, <1>2, <1>4, IteratesExists
<1>6. IsFold(g)
  <2> SUFFICES ASSUME NEW t \in SUBSET (1..n), t # {}
               PROVE  step[Max(t)][g[t \ {Max(t)}]] = UnfilterTurn(g[t \ {Max(t)}], s[Max(t)])
    <3> HIDE DEF step
    <3> QED BY <1>5 DEF Iterates
  <2>1. Max(t) \in 1..n
    BY <1>1, MaxIs
  <2>2. g[t \ {Max(t)}] \in D
    BY <1>5
  <2> QED BY <2>1, <2>2
<1>7. IsFold(fold)
  <2> HIDE DEF IsFold
  <2> QED BY <1>6
<1>8. Unfiltered(Filtered) = fold[1..n]
  BY <1>1 DEF Unfiltered, UnfilterTurn, FoldLeft, MapThenFoldSet, s, n, base, Size
<1>9. \A t \in SUBSET (1..n) : fold[t] = IF t = {} THEN base ELSE UnfilterTurn(fold[t \ {Max(t)}], s[Max(t)])
  <2> HIDE DEF fold
  <2> QED BY <1>7
<1> HIDE DEF fold
<1>10. fold[{}] = base
  <2>1. {} \in SUBSET (1..n)
    OBVIOUS
  <2> QED BY <1>9, <2>1
<1>11. ASSUME NEW t \in SUBSET (1..n), t # {}, fold[t \ {Max(t)}] \in D
       PROVE  fold[t] = step[Max(t)][fold[t \ {Max(t)}]]
  <2>1. Max(t) \in 1..n
    BY <1>1, <1>11, MaxIs
  <2>2. fold[t] = UnfilterTurn(fold[t \ {Max(t)}], s[Max(t)])
    BY <1>9, <1>11
  <2> QED BY <1>11, <2>1, <2>2
<1> HIDE DEF step
<1>12. FoldsTo(fold, n, D, base, step)
  BY <1>10, <1>11 DEF FoldsTo
<1>13. PICK h \in [0..n -> D] : Ascends(h, fold, n, base, step)
  BY <1>1, <1>2, <1>4, <1>12, FoldAscends
<1>14. ASSUME NEW k \in 0..n-1 PROVE h[k + 1] = UnfilterTurn(h[k], k)
  <2>1. k + 1 \in 1..n /\ s[k + 1] = k /\ h[k] \in D
    <3>1. k + 1 \in 1..n /\ k \in 0..n /\ (k + 1) - 1 = k
      BY <1>1
    <3> QED BY <1>1, <1>13, <3>1
  <2>2. h[k + 1] = step[k + 1][h[k]]
    BY <1>13 DEF Ascends
  <2> QED BY <2>1, <2>2 DEF step
<1>15. h[0] = base /\ h[n] = Unfiltered(Filtered)
  BY <1>8, <1>13 DEF Ascends
<1> QED BY <1>13, <1>14, <1>15 DEF D, n, base

LEMMA FilterUndone ==
  ASSUME Plain
  PROVE  Unfiltered(Filtered) = Coloured
<1>1. CASE img.colour = "PALETTE"
  BY <1>1, FilteredIs DEF Unfiltered, Plain
<1>2. CASE img.colour # "PALETTE"
  <2>1. PICK h \in [0..Size -> [0..Size-1 -> Symbols]] :
          /\ h[0] = Filtered /\ h[Size] = Unfiltered(Filtered)
          /\ \A k \in 0..Size-1 : h[k + 1] = UnfilterTurn(h[k], k)
    BY <1>2, UnfilterFolds
  <2> DEFINE n == Size
             S == {k \in Nat : k <= n => h[k] = UnfilteredUpTo(k)}
  <2>2. n \in Nat /\ Coloured \in [0..n-1 -> Symbols] /\ Filtered \in [0..n-1 -> Symbols]
    BY PlainFacts, PlainBuffers
  <2>3. 0 \in S
    <3>1. \A j \in 0..n-1 : ~(j < 0)
      BY <2>2
    <3>2. UnfilteredUpTo(0) = Filtered
      BY <2>2, <3>1 DEF UnfilteredUpTo
    <3> QED BY <2>1, <3>2
  <2>4. ASSUME NEW k \in Nat, k \in S PROVE k + 1 \in S
    <3> SUFFICES ASSUME k + 1 <= n PROVE h[k + 1] = UnfilteredUpTo(k + 1)
      OBVIOUS
    <3>1. k \in 0..n-1 /\ h[k] = UnfilteredUpTo(k)
      <4> HIDE DEF n
      <4> QED BY <2>2, <2>4
    <3>2. UnfilterTurn(UnfilteredUpTo(k), k) = UnfilteredUpTo(k + 1)
      BY <1>2, <3>1, UnfilterOne
    <3> QED BY <2>1, <3>1, <3>2
  <2>5. h[n] = UnfilteredUpTo(n)
    <3>1. Nat \subseteq S
      BY <2>3, <2>4, Induction
    <3>2. n \in S
      BY <2>2, <3>1
    <3> HIDE DEF n
    <3> QED BY <2>2, <3>2
  <2>6. UnfilteredUpTo(n) = Coloured
    <3>1. \A j \in 0..n-1 : j < n
      BY <2>2
    <3> QED BY <2>2, <3>1 DEF UnfilteredUpTo
  <2> QED BY <2>1, <2>5, <2>6
<1> QED BY <1>1, <1>2

-----------------------------------------------------------------------------
(* The colour transform undone *)
LEMMA UnliftTyped ==
  ASSUME NEW depth, Power2[depth] \in Nat \ {0}, NEW a \in Int, NEW b \in Int
  PROVE  /\ reverse_lift(<<a, b>>, depth)[1] \in 0..Power2[depth]-1
         /\ reverse_lift(<<a, b>>, depth)[2] \in 0..Power2[depth]-1
<1> DEFINE diff == Masked(b, depth)
           m    == Masked(a, depth)
           v    == Masked(m - diff \div 2, depth)
           M    == Power2[depth]
<1>1. M \in Nat \ {0} /\ \A u \in Int : Masked(u, depth) \in 0..M-1
  BY MaskedTyped
<1>2. reverse_lift(<<a, b>>, depth) = <<v, Masked(v + diff, depth)>>
  BY DEF reverse_lift
<1> HIDE DEF M
<1>3. m \in Int /\ diff \in Int
  BY <1>1
<1> HIDE DEF m, diff
<1>4. m - diff \div 2 \in Int
  BY <1>3
<1>5. v \in 0..M-1
  BY <1>1, <1>4
<1> HIDE DEF v
<1>6. v + diff \in Int
  BY <1>1, <1>3, <1>5
<1>7. Masked(v + diff, depth) \in 0..M-1
  BY <1>1, <1>6
<1> QED BY <1>2, <1>5, <1>7 DEF M

\* A turn back changes the three samples of its pixel, and if they are what the
\* transform made of raw, they become raw's again.
TurnsBack(b, raw, p, n, L, depth) ==
  \A i \in 0..L-1 : ycocg_to_rgb(b, p, n, depth)[i] = IF i \in {p, p + n, p + 2 * n} THEN raw[i] ELSE b[i]

LEMMA UncolourTyped ==
  ASSUME NEW n \in Nat \ {0}, NEW L \in Nat, 3 * n <= L, NEW p \in 0..n-1,
         NEW depth, Power2[depth] \in Nat \ {0}, NEW b \in [0..L-1 -> 0..Power2[depth]-1]
  PROVE  ycocg_to_rgb(b, p, n, depth) \in [0..L-1 -> 0..Power2[depth]-1]
<1> DEFINE Green(k)   == reverse_lift(<<b[p], b[p + 2 * n]>>, depth)[k]
           RedBlue(k) == reverse_lift(<<Green(2), b[p + n]>>, depth)[k]
<1>1. {p, p + n, p + 2 * n} \subseteq 0..L-1
  OBVIOUS
<1>2. ycocg_to_rgb(b, p, n, depth) =
        [b EXCEPT ![p] = RedBlue(1), ![p + n] = Green(1), ![p + 2 * n] = RedBlue(2)]
  BY DEF ycocg_to_rgb
<1>3. b[p] \in Int /\ b[p + n] \in Int /\ b[p + 2 * n] \in Int
  <2>1. Power2[depth] \in Nat
    OBVIOUS
  <2> QED BY <1>1, <2>1
<1>4. Green(1) \in 0..Power2[depth]-1 /\ Green(2) \in 0..Power2[depth]-1
  BY <1>3, UnliftTyped
<1>5. Green(2) \in Int
  <2> HIDE DEF Green
  <2> QED BY <1>4
<1>6. RedBlue(1) \in 0..Power2[depth]-1 /\ RedBlue(2) \in 0..Power2[depth]-1
  <2> HIDE DEF Green
  <2> QED BY <1>3, <1>5, UnliftTyped
<1> HIDE DEF Green, RedBlue
<1> QED BY <1>1, <1>2, <1>4, <1>6

LEMMA UncolourStep ==
  ASSUME NEW n \in Nat \ {0}, NEW L \in Nat, 3 * n <= L, NEW p \in 0..n-1,
         NEW depth, Power2[depth] \in Nat \ {0},
         NEW raw \in [0..L-1 -> 0..Power2[depth]-1], NEW b \in [0..L-1 -> 0..Power2[depth]-1],
         \A i \in {p, p + n, p + 2 * n} : b[i] = rgb_to_ycocg(raw, p, n, depth)[i]
  PROVE  TurnsBack(b, raw, p, n, L, depth)
<1> DEFINE Co == forward_lift(<<raw[p], raw[p + 2 * n]>>, depth)
           Cg == forward_lift(<<raw[p + n], Co[1]>>, depth)
           green == reverse_lift(<<b[p], b[p + 2 * n]>>, depth)
           redBlue == reverse_lift(<<green[2], b[p + n]>>, depth)
           V == 0..Power2[depth]-1
<1>1. {p, p + n, p + 2 * n} \subseteq 0..L-1 /\ p # p + n /\ p # p + 2 * n /\ p + n # p + 2 * n
  OBVIOUS
<1>2. raw[p] \in V /\ raw[p + n] \in V /\ raw[p + 2 * n] \in V
  BY <1>1
<1>3. V \subseteq Int
  <2>1. Power2[depth] \in Nat
    OBVIOUS
  <2> QED BY <2>1
<1>4. Co[1] \in V /\ Co[2] \in V /\ Co = <<Co[1], Co[2]>>
  <2> HIDE DEF V
  <2>1. raw[p] \in Int /\ raw[p + 2 * n] \in Int
    BY <1>2, <1>3
  <2>2. Co[1] \in V /\ Co[2] \in V
    BY <2>1, LiftTyped DEF V
  <2>3. Co = <<Co[1], Co[2]>>
    BY DEF forward_lift
  <2> QED BY <2>2, <2>3
<1>5. Cg = <<Cg[1], Cg[2]>>
  BY DEF forward_lift
<1>6. reverse_lift(Co, depth) = <<raw[p], raw[p + 2 * n]>>
  BY <1>2, LiftUndone
<1>7. reverse_lift(Cg, depth) = <<raw[p + n], Co[1]>>
  <2> HIDE DEF Co
  <2> QED BY <1>2, <1>4, LiftUndone
<1>8. rgb_to_ycocg(raw, p, n, depth) = [raw EXCEPT ![p] = Cg[1], ![p + n] = Co[2], ![p + 2 * n] = Cg[2]]
  BY DEF rgb_to_ycocg
<1> HIDE DEF Co, Cg, V
<1>9. b[p] = Cg[1] /\ b[p + n] = Co[2] /\ b[p + 2 * n] = Cg[2]
  BY <1>1, <1>8
<1>10. green = <<raw[p + n], Co[1]>>
  BY <1>5, <1>7, <1>9
<1> HIDE DEF green
<1>11. redBlue = <<raw[p], raw[p + 2 * n]>>
  BY <1>4, <1>6, <1>9, <1>10
<1> HIDE DEF redBlue
<1>12. ycocg_to_rgb(b, p, n, depth) =
         [b EXCEPT ![p] = redBlue[1], ![p + n] = green[1], ![p + 2 * n] = redBlue[2]]
  BY DEF ycocg_to_rgb, green, redBlue
<1>13. ycocg_to_rgb(b, p, n, depth) =
         [b EXCEPT ![p] = raw[p], ![p + n] = raw[p + n], ![p + 2 * n] = raw[p + 2 * n]]
  BY <1>10, <1>11, <1>12
<1> QED BY <1>1, <1>13 DEF TurnsBack

\* The three samples of pixel p, and the ones of a channel more.
LEMMA PixelSamples ==
  ASSUME Plain, Transformable, NEW p \in 0..pixels-1
  PROVE  /\ {p, p + pixels, p + 2 * pixels} \subseteq 0..Size-1 /\ 3 * pixels <= Size
         /\ \A i \in {p, p + pixels, p + 2 * pixels} : i % pixels = p
         /\ \A i \in 0..Size-1 : i % pixels = p =>
              Coloured[i] = rgb_to_ycocg(Raw, p, pixels, img.depth)[i]
         /\ \A i \in 0..Size-1 : i % pixels = p /\ i \notin {p, p + pixels, p + 2 * pixels} =>
              Coloured[i] = Raw[i]
<1> DEFINE n == pixels
<1>1. n \in Nat \ {0} /\ nchannels \in {3, 4} /\ Size = nchannels * n /\ Size \in Nat /\ BufferLength = Size
  BY PlainFacts, ImageFacts DEF Plain, Size
<1> HIDE DEF n
<1>2. 3 * n <= Size
  BY <1>1
<1>3. {p, p + n, p + 2 * n} \subseteq 0..Size-1
  BY <1>1, <1>2 DEF n
<1>4. \A i \in {p, p + n, p + 2 * n} : i % n = p
  <2>1. p \in 0..n-1 /\ 0 * n + p = p /\ 1 * n + p = p + n /\ 2 * n + p = p + 2 * n
    BY <1>1 DEF n
  <2>2. (0 * n + p) % n = p /\ (1 * n + p) % n = p /\ (2 * n + p) % n = p
    BY <1>1, <2>1, DivModUnique
  <2> QED BY <2>1, <2>2
<1>5. \A i \in 0..Size-1 : i % n = p => Coloured[i] = rgb_to_ycocg(Raw, p, n, img.depth)[i]
  BY <1>1, ColouredTyped DEF Plain, n
<1>6. Raw \in [0..Size-1 -> Symbols]
  BY PlainBuffers
<1>7. \A i \in 0..Size-1 : i \notin {p, p + n, p + 2 * n} => rgb_to_ycocg(Raw, p, n, img.depth)[i] = Raw[i]
  BY <1>6 DEF rgb_to_ycocg
<1> QED BY <1>2, <1>3, <1>4, <1>5, <1>7 DEF n

\* With the first m pixels undone.
UncolouredUpTo(m) == [j \in 0..Size-1 |-> IF j % pixels < m THEN Raw[j] ELSE Coloured[j]]

LEMMA UncolourOne ==
  ASSUME Plain, Transformable, NEW m \in 0..pixels-1
  PROVE  ycocg_to_rgb(UncolouredUpTo(m), m, pixels, img.depth) = UncolouredUpTo(m + 1)
<1> DEFINE a == UncolouredUpTo(m)
           n == pixels
           L == Size
           V == 0..Power2[img.depth]-1
           mine == {m, m + n, m + 2 * n}
<1>1. /\ n \in Nat \ {0} /\ L \in Nat /\ m \in Nat /\ V = Symbols /\ Power2[img.depth] \in Nat \ {0}
      /\ Raw \in [0..L-1 -> V] /\ Coloured \in [0..L-1 -> V]
  <2>1. n \in Nat \ {0} /\ L \in Nat /\ SampleValues = Symbols
    BY PlainFacts
  <2>2. V = Symbols
    BY <2>1 DEF SampleValues
  <2>3. m \in Nat
    BY <2>1
  <2>4. Power2[img.depth] \in Nat \ {0}
    BY ValueFacts DEF Plain
  <2>5. Raw \in [0..L-1 -> Symbols] /\ Coloured \in [0..L-1 -> Symbols]
    BY PlainBuffers
  <2> HIDE DEF n, L, V
  <2> QED BY <2>1, <2>2, <2>3, <2>4, <2>5
<1>2. /\ mine \subseteq 0..L-1 /\ 3 * n <= L /\ \A i \in mine : i % n = m
      /\ \A i \in 0..L-1 : i % n = m => Coloured[i] = rgb_to_ycocg(Raw, m, n, img.depth)[i]
      /\ \A i \in 0..L-1 : i % n = m /\ i \notin mine => Coloured[i] = Raw[i]
  BY PixelSamples
<1> HIDE DEF mine
<1>3. a \in [0..L-1 -> V]
  <2> HIDE DEF V
  <2> QED BY <1>1 DEF UncolouredUpTo
<1>4. \A i \in mine : a[i] = rgb_to_ycocg(Raw, m, n, img.depth)[i]
  <2> SUFFICES ASSUME NEW i \in mine PROVE a[i] = rgb_to_ycocg(Raw, m, n, img.depth)[i]
    OBVIOUS
  <2>1. i \in 0..L-1 /\ i % n = m
    BY <1>2
  <2>2. ~(i % n < m)
    BY <1>1, <2>1
  <2>3. a[i] = Coloured[i]
    BY <2>1, <2>2 DEF UncolouredUpTo
  <2> QED BY <1>2, <2>1, <2>3
<1>5. TurnsBack(a, Raw, m, n, L, img.depth)
  <2> HIDE DEF a, n, L
  <2> QED BY <1>1, <1>2, <1>3, <1>4, UncolourStep DEF mine, n
<1>6. ycocg_to_rgb(a, m, n, img.depth) \in [0..L-1 -> V]
  <2> HIDE DEF a, n, L
  <2> QED BY <1>1, <1>2, <1>3, UncolourTyped DEF n
<1>7. ASSUME NEW j \in 0..L-1
      PROVE  ycocg_to_rgb(a, m, n, img.depth)[j] = UncolouredUpTo(m + 1)[j]
  <2>1. ycocg_to_rgb(a, m, n, img.depth)[j] = IF j \in mine THEN Raw[j] ELSE a[j]
    BY <1>5 DEF TurnsBack, mine
  <2>2. a[j] = IF j % n < m THEN Raw[j] ELSE Coloured[j]
    BY DEF UncolouredUpTo
  <2>3. UncolouredUpTo(m + 1)[j] = IF j % n < m + 1 THEN Raw[j] ELSE Coloured[j]
    BY DEF UncolouredUpTo
  <2>4. j % n \in Nat
    BY <1>1
  <2> DEFINE q == j % n
  <2> HIDE DEF a, q
  <2>5. q < m + 1 <=> q < m \/ q = m
    BY <1>1, <2>4 DEF q
  <2>6. j \in mine => q = m
    BY <1>2 DEF q
  <2>7. q = m /\ j \notin mine => Coloured[j] = Raw[j]
    BY <1>2 DEF q
  <2> QED BY <2>1, <2>2, <2>3, <2>5, <2>6, <2>7 DEF q
<1>8. UncolouredUpTo(m + 1) \in [0..L-1 -> V]
  <2> HIDE DEF V
  <2> QED BY <1>1 DEF UncolouredUpTo
<1> HIDE DEF V, L, a, n
<1> DEFINE b == ycocg_to_rgb(a, m, n, img.depth)
           c == UncolouredUpTo(m + 1)
           I == 0..L-1
<1> HIDE DEF b, c, I
<1>9. b \in [I -> V] /\ c \in [I -> V] /\ \A j \in I : b[j] = c[j]
  BY <1>6, <1>7, <1>8 DEF b, c, I
<1>10. b = c
  BY <1>9
<1> QED BY <1>10 DEF a, n, b, c

LEMMA UncolourFolds ==
  ASSUME Plain, Transformable
  PROVE  \E h \in [0..pixels -> [0..Size-1 -> Symbols]] :
           /\ h[0] = Coloured /\ h[pixels] = Uncoloured(Coloured)
           /\ \A k \in 0..pixels-1 : h[k + 1] = ycocg_to_rgb(h[k], k, pixels, img.depth)
<1> DEFINE n == pixels
           D == [0..Size-1 -> Symbols]
           base == Coloured
           s == Ascending(n)
           Turn(a, i) == ycocg_to_rgb(a, i, n, img.depth)
           step == [k \in 1..n |-> [a \in D |-> Turn(a, s[k])]]
           IsFold(it) ==
             it = [t \in SUBSET (1..n) |->
                    IF t = {} THEN base ELSE Turn(it[t \ {Max(t)}], s[Max(t)])]
           fold == CHOOSE it : IsFold(it)
<1>1. n \in Nat \ {0} /\ DOMAIN s = 1..n /\ \A k \in 1..n : s[k] = k - 1 /\ s[k] \in 0..n-1
  BY PlainFacts DEF Ascending
<1>2. base \in D
  BY PlainBuffers
<1>3. \A a \in D : \A k \in 1..n : Turn(a, s[k]) \in D
  <2>1. /\ Symbols = 0..Power2[img.depth]-1 /\ Power2[img.depth] \in Nat \ {0} /\ Size \in Nat
    BY PlainFacts, ValueFacts DEF Plain, SampleValues
  <2>2. 3 * n <= Size
    <3>1. 0 \in 0..pixels-1
      BY <1>1
    <3> QED BY <3>1, PixelSamples
  <2> SUFFICES ASSUME NEW a \in D, NEW k \in 1..n PROVE Turn(a, s[k]) \in D
    OBVIOUS
  <2>3. s[k] \in 0..n-1
    BY <1>1
  <2>4. a \in [0..Size-1 -> 0..Power2[img.depth]-1]
    BY <2>1
  <2>5. ycocg_to_rgb(a, s[k], n, img.depth) \in [0..Size-1 -> 0..Power2[img.depth]-1]
    <3> HIDE DEF n, s
    <3> QED BY <1>1, <2>1, <2>2, <2>3, <2>4, UncolourTyped
  <2> QED BY <2>1, <2>5
<1> HIDE DEF D, n, base, s, Turn
<1>4. step \in [1..n -> [D -> D]]
  BY <1>3
<1>5. PICK g \in [SUBSET (1..n) -> D] : Iterates(g, n, base, step)
  <2> HIDE DEF step
  <2> QED BY <1>1, <1>2, <1>4, IteratesExists
<1>6. IsFold(g)
  <2> SUFFICES ASSUME NEW t \in SUBSET (1..n), t # {}
               PROVE  step[Max(t)][g[t \ {Max(t)}]] = Turn(g[t \ {Max(t)}], s[Max(t)])
    <3> HIDE DEF step
    <3> QED BY <1>5 DEF Iterates
  <2>1. Max(t) \in 1..n
    BY <1>1, MaxIs
  <2>2. g[t \ {Max(t)}] \in D
    BY <1>5
  <2> QED BY <2>1, <2>2
<1>7. IsFold(fold)
  <2> HIDE DEF IsFold
  <2> QED BY <1>6
<1>8. Uncoloured(Coloured) = fold[1..n]
  BY <1>1 DEF Uncoloured, Turn, FoldLeft, MapThenFoldSet, s, n, base
<1>9. \A t \in SUBSET (1..n) : fold[t] = IF t = {} THEN base ELSE Turn(fold[t \ {Max(t)}], s[Max(t)])
  <2> HIDE DEF fold
  <2> QED BY <1>7
<1> HIDE DEF fold
<1>10. fold[{}] = base
  <2>1. {} \in SUBSET (1..n)
    OBVIOUS
  <2> QED BY <1>9, <2>1
<1>11. ASSUME NEW t \in SUBSET (1..n), t # {}, fold[t \ {Max(t)}] \in D
       PROVE  fold[t] = step[Max(t)][fold[t \ {Max(t)}]]
  <2>1. Max(t) \in 1..n
    BY <1>1, <1>11, MaxIs
  <2>2. fold[t] = Turn(fold[t \ {Max(t)}], s[Max(t)])
    BY <1>9, <1>11
  <2> QED BY <1>11, <2>1, <2>2
<1> HIDE DEF step
<1>12. FoldsTo(fold, n, D, base, step)
  BY <1>10, <1>11 DEF FoldsTo
<1>13. PICK h \in [0..n -> D] : Ascends(h, fold, n, base, step)
  BY <1>1, <1>2, <1>4, <1>12, FoldAscends
<1>14. ASSUME NEW k \in 0..n-1 PROVE h[k + 1] = Turn(h[k], k)
  <2>1. k + 1 \in 1..n /\ s[k + 1] = k /\ h[k] \in D
    <3>1. k + 1 \in 1..n /\ k \in 0..n /\ (k + 1) - 1 = k
      BY <1>1
    <3> QED BY <1>1, <1>13, <3>1
  <2>2. h[k + 1] = step[k + 1][h[k]]
    BY <1>13 DEF Ascends
  <2> QED BY <2>1, <2>2 DEF step
<1>15. h[0] = base /\ h[n] = Uncoloured(Coloured)
  BY <1>8, <1>13 DEF Ascends
<1> QED BY <1>13, <1>14, <1>15 DEF D, n, base, Turn

LEMMA ColourUndone ==
  ASSUME Plain
  PROVE  Uncoloured(Coloured) = Raw
<1>1. CASE ~Transformable
  BY <1>1, ColouredTyped DEF Uncoloured, Plain
<1>2. CASE Transformable
  <2>1. PICK h \in [0..pixels -> [0..Size-1 -> Symbols]] :
          /\ h[0] = Coloured /\ h[pixels] = Uncoloured(Coloured)
          /\ \A k \in 0..pixels-1 : h[k + 1] = ycocg_to_rgb(h[k], k, pixels, img.depth)
    BY <1>2, UncolourFolds
  <2> DEFINE n == pixels
             S == {k \in Nat : k <= n => h[k] = UncolouredUpTo(k)}
  <2>2. n \in Nat \ {0} /\ Coloured \in [0..Size-1 -> Symbols] /\ Raw \in [0..Size-1 -> Symbols]
    BY PlainFacts, PlainBuffers
  <2>3. \A j \in 0..Size-1 : j % n \in 0..n-1
    BY SamplePlace DEF Plain
  <2>4. 0 \in S
    <3>1. \A j \in 0..Size-1 : ~(j % n < 0)
      <4> HIDE DEF n
      <4> QED BY <2>2, <2>3
    <3>2. UncolouredUpTo(0) = Coloured
      BY <2>2, <3>1 DEF UncolouredUpTo
    <3> QED BY <2>1, <3>2
  <2>5. ASSUME NEW k \in Nat, k \in S PROVE k + 1 \in S
    <3> SUFFICES ASSUME k + 1 <= n PROVE h[k + 1] = UncolouredUpTo(k + 1)
      OBVIOUS
    <3>1. k \in 0..n-1 /\ h[k] = UncolouredUpTo(k)
      <4> HIDE DEF n
      <4> QED BY <2>2, <2>5
    <3>2. ycocg_to_rgb(UncolouredUpTo(k), k, n, img.depth) = UncolouredUpTo(k + 1)
      BY <1>2, <3>1, UncolourOne
    <3> QED BY <2>1, <3>1, <3>2
  <2>6. h[n] = UncolouredUpTo(n)
    <3>1. Nat \subseteq S
      BY <2>4, <2>5, Induction
    <3>2. n \in S
      BY <2>2, <3>1
    <3> HIDE DEF n
    <3> QED BY <2>2, <3>2
  <2>7. UncolouredUpTo(n) = Raw
    <3>1. \A j \in 0..Size-1 : j % n < n
      <4> HIDE DEF n
      <4> QED BY <2>2, <2>3
    <3> QED BY <2>2, <3>1 DEF UncolouredUpTo
  <2> QED BY <2>1, <2>6, <2>7
<1> QED BY <1>1, <1>2

-----------------------------------------------------------------------------
\* "Sharingan is a lossless PNG remuxer" (sharingan.h:2): the samples of every
\* image of one byte a sample can be got back from the words of its blob, unless
\* the kernel's frequency maps were not clear.
THEOREM Remuxed == Spec => []Lossless
<1> DEFINE IInv == Inv /\ ModelSoFar /\ CoderSoFar
<1>1. Init => ModelSoFar /\ CoderSoFar
  BY DEF Init, ModelSoFar, CoderSoFar
<1>2. IInv /\ [Next]_vars => (ModelSoFar /\ CoderSoFar)'
  BY ModelKept, CoderKept
<1>3. IInv => Lossless
  <2> SUFFICES ASSUME Inv, ModelSoFar, CoderSoFar, stage = "done", shift = 0, ~dirty
               PROVE  /\ Uncoloured(Unfiltered(DecodedSamples.sym)) = Planes(0)
                      /\ DecodedSamples.x = LowerBound /\ DecodedSamples.pos = Len(blob.words)
    BY DEF Lossless
  <2>1. /\ Plain /\ DecodedSamples.sym = Filtered
        /\ DecodedSamples.x = LowerBound /\ DecodedSamples.pos = Len(blob.words)
    BY Decoded
  <2>2. Unfiltered(Filtered) = Coloured /\ Uncoloured(Coloured) = Planes(0)
    BY <2>1, FilterUndone, ColourUndone DEF Raw
  <2> QED BY <2>1, <2>2
<1>4. Spec => []Inv
  BY Invariant
<1> QED BY <1>1, <1>2, <1>3, <1>4, PTL DEF Spec

==================================================================================
