-------------------------------- MODULE Victini --------------------------------
(***************************************************************************)
(* The Victini codec (hzip_codec/victini/victini.cpp): Burrows-Wheeler and *)
(* move-to-front transforms, a first-order context model kept in the       *)
(* mstate, and the rANS coder of HzRans driven by that model.  A behaviour *)
(* trains an mstate on some texts, compresses a text with it (or with an   *)
(* empty one) and decompresses the result with the mstate.                 *)
(*                                                                         *)
(* A symbol is a byte of the code; AlphabetSize and the widths of HzRans   *)
(* are the parameters.  A word is four digits to the base ByteBase, as a   *)
(* uint32_t is four bytes.                                                 *)
(***************************************************************************)
EXTENDS HzRans, SuffixArray, SequencesExt

CONSTANTS
  AlphabetSize,   \* 0x100 in the code
  ByteBase,       \* 0x100 in the code
  Increment,      \* 32 in the code: the weight of one occurrence
  Inputs,         \* texts to compress
  TrainingInputs, \* texts to train with
  MaxTrain        \* bound: training calls

ASSUME VictiniAssumption ==
  /\ AlphabetSize \in Nat \ {0} /\ AlphabetSize < Total
  /\ Total % AlphabetSize = 0
  /\ ByteBase \in Nat \ {0} /\ Increment \in Nat
  /\ Base = ByteBase * ByteBase * ByteBase * ByteBase
  /\ Inputs \cup TrainingInputs \subseteq Seq(0..AlphabetSize-1) \ {<<>>}
  /\ MaxTrain \in Nat

Symbols == 0..AlphabetSize-1

VARIABLES
  stage,    \* what the codec is doing
  mstate,   \* the context counts, or NoModel
  trained,  \* training calls so far
  text,     \* blob->data, the text to compress
  bwt_index,\* the blob's header
  seq,      \* the transformed text
  index,    \* symbols to encode, or decoded
  x,        \* hzrans64_t::x
  stack,    \* HZ_Stack of the encoder
  blob,     \* the compressed bytes
  pos,      \* hzrans64_t::count of the decoder: words read
  out       \* symbols decoded, finally the text

vars == <<stage, mstate, trained, text, bwt_index, seq, index, x, stack, blob, pos, out>>

NoModel == <<>>

-----------------------------------------------------------------------------
(* preprocessor/burrows_wheeler.h *)
\* A zero in front of the symbols, which move up by one.
Marked(d) == [i \in 0..Len(d) |-> IF i = 0 THEN 0 ELSE d[i] + 1]

SuffixesOf(d) == suffix_array[Len(d) + 1][Padded(Marked(d), Len(d) + 1)]

\* The symbol before each suffix, in the order of the suffixes.
LastColumn(d) ==
  LET n  == Len(d) + 1
      SA == SuffixesOf(d)
  IN  Stored([k \in 1..n |-> Marked(d)[(SA[k - 1] + n - 1) % n]])

\* The zero goes and the symbols move down again.
Unmarked(column) ==
  LET kept == {i \in DOMAIN column : column[i] # 0}
      at   == Ascending(kept)
  IN  Stored([k \in 1..Cardinality(kept) |-> column[at[k - 1]] - 1])

BwtIndex(d) ==
  LET column == LastColumn(d)
  IN  (CHOOSE k \in DOMAIN column : column[k] = 0) - 1

BwtTransform(d) == Unmarked(LastColumn(d))

BwtInvert(d, at) ==
  LET n       == Len(d)
      column  == InsertAt([i \in DOMAIN d |-> d[i] + 1], at + 1, 0)
      jumpers == radix_pass([i \in 0..n |-> i], [i \in 0..n |-> column[i + 1]], 0, n + 1)
      walk[c \in 0..n+1] == IF c = 0 THEN at ELSE jumpers[walk[c - 1]]
  IN  Unmarked([c \in 1..n+1 |-> column[walk[c] + 1]])

-----------------------------------------------------------------------------
(* preprocessor/move_to_front.h *)
InitialCache == [i \in 1..AlphabetSize |-> i - 1]

\* erase at j and insert in front.
ToFront(cache, j) == <<cache[j]>> \o RemoveAt(cache, j)

\* Where s is in the cache.
Position(cache, s) == CHOOSE j \in DOMAIN cache : cache[j] = s

MtfTransform(d) ==
  LET cache[i \in 0..Len(d)] ==
        IF i = 0 THEN InitialCache
        ELSE LET c == cache[i - 1] IN ToFront(c, Position(c, d[i]))
  IN  Stored([i \in DOMAIN d |-> Position(cache[i - 1], d[i]) - 1])

MtfInvert(d) ==
  LET cache[i \in 0..Len(d)] ==
        IF i = 0 THEN InitialCache ELSE LET c == cache[i - 1] IN ToFront(c, d[i] + 1)
  IN  Stored([i \in DOMAIN d |-> cache[i - 1][d[i] + 1]])

Transformed(d) == MtfTransform(BwtTransform(d))

-----------------------------------------------------------------------------
(* The model *)
\* FirstOrderContextModel: counts start at 1 and every pair of neighbours
\* adds the increment.
ContextCounts(d) ==
  [a \in Symbols |-> [b \in Symbols |->
    1 + Increment * Cardinality({i \in 1..Len(d)-1 : d[i] = a /\ d[i + 1] = b})]]

\* _model_transform without training: an empty mstate is filled.
ModelFor(ms, d) == IF ms = NoModel THEN ContextCounts(d) ELSE ms

\* _model_transform in training mode: counts are added to an mstate.
Trained(ms, d) ==
  IF ms = NoModel THEN ContextCounts(d)
  ELSE [a \in Symbols |-> [b \in Symbols |-> ms[a][b] + ContextCounts(d)[a][b]]]

Scaled(row) ==
  LET s   == SumBelow(row, AlphabetSize)
      sum == IF s = 0 THEN 1 ELSE s
  IN  Stored([k \in Symbols |-> 1 + (row[k] * (Total - AlphabetSize)) \div sum])

\* Mutant: what the rounding lost is not given back.
NotDispersed(row) == Scaled(row)

\* _normalize on a row: what rounding lost goes round to the symbols in turn.
Normalised(row) ==
  LET scaled == Scaled(row)
      dsum   == Total - SumBelow(scaled, AlphabetSize)
  IN  Stored([k \in Symbols |-> scaled[k] + dsum \div AlphabetSize
                                + (IF k < dsum % AlphabetSize THEN 1 ELSE 0)])

\* ls and bs of symbol s after prev; the first symbol has no context.
FirstWidth == Total \div AlphabetSize

\* The symbol at i, if there is one.
Context(s, i) == IF i = 0 THEN <<>> ELSE <<s[i]>>

Width(ms, prev, s) == IF prev = <<>> THEN FirstWidth ELSE Normalised(ms[prev[1]])[s]

Start(ms, prev, s) == IF prev = <<>> THEN s * FirstWidth ELSE SumBelow(Normalised(ms[prev[1]]), s)

\* The cross decoder: the symbol before the first one that starts beyond the
\* slot, and the last symbol if there is none.
FindSymbol(ms, prev, slot) ==
  LET beyond == {s \in Symbols : Start(ms, prev, s) > slot}
  IN  IF beyond = {} THEN AlphabetSize - 1 ELSE (CHOOSE s \in beyond : \A u \in beyond : s <= u) - 1

-----------------------------------------------------------------------------
(* hz_u32_to_u8ptr and hz_u8_to_u32ptr: the most significant digit first *)
ToBytes(w) ==
  LET B == ByteBase
  IN  <<(w \div (B * B * B)) % B, (w \div (B * B)) % B, (w \div B) % B, w % B>>

FromBytes(bytes) ==
  [j \in 1..Len(bytes) \div 4 |->
    ((bytes[4 * j - 3] * ByteBase + bytes[4 * j - 2]) * ByteBase + bytes[4 * j - 1]) * ByteBase + bytes[4 * j]]

Words == FromBytes(blob)

-----------------------------------------------------------------------------
Init ==
  /\ stage = "idle" /\ mstate = NoModel /\ trained = 0
  /\ text = <<>> /\ bwt_index = 0 /\ seq = <<>> /\ index = 0
  /\ x = LowerBound /\ stack = EmptyStack /\ blob = <<>> /\ pos = 0 /\ out = <<>>

\* Victini::train
train(d) ==
  /\ stage = "idle" /\ trained < MaxTrain
  /\ mstate' = Trained(mstate, Transformed(d))
  /\ trained' = trained + 1
  /\ UNCHANGED <<stage, text, bwt_index, seq, index, x, stack, blob, pos, out>>

\* Victini::compress up to the coder: transforms, header and model.
compress(d) ==
  /\ stage = "idle"
  /\ stage' = "encode"
  /\ text' = d
  /\ bwt_index' = BwtIndex(d)
  /\ seq' = Transformed(d)
  /\ mstate' = ModelFor(mstate, seq')
  /\ index' = Len(d)
  /\ x' = LowerBound
  /\ stack' = EmptyStack
  /\ UNCHANGED <<trained, blob, pos, out>>

\* One turn of hzrans64_encoder::encode, from the last symbol to the first.
EncodeSymbol ==
  /\ stage = "encode" /\ index > 0
  /\ LET prev == Context(seq, index - 1)
         ls   == Width(mstate, prev, seq[index])
         bs   == Start(mstate, prev, seq[index])
     IN  /\ x' = EncodeState(x, ls, bs)
         /\ stack' = EncodeWords(stack, x, ls)
  /\ index' = index - 1
  /\ UNCHANGED <<stage, mstate, trained, text, bwt_index, seq, blob, pos, out>>

\* hzrans64_enc_flush
Flush ==
  /\ stage = "encode" /\ index = 0
  /\ stack' = push(push(stack, Word(x \div Base)), Word(x))
  /\ stage' = "drain"
  /\ UNCHANGED <<mstate, trained, text, bwt_index, seq, index, x, blob, pos, out>>

\* The words leave the stack, the last one first, as bytes.
Drain ==
  /\ stage = "drain" /\ stack.bufs # <<>>
  /\ blob' = blob \o ToBytes(top(stack))
  /\ stack' = pop(stack)
  /\ UNCHANGED <<stage, mstate, trained, text, bwt_index, seq, index, x, pos, out>>

\* Victini::decompress up to hzrans64_dec_load_state.
decompress ==
  /\ stage = "drain" /\ stack.bufs = <<>>
  /\ stage' = "decode"
  /\ x' = Words[1] + Words[2] * Base
  /\ pos' = 2
  /\ index' = 0
  /\ seq' = <<>>
  /\ UNCHANGED <<mstate, trained, text, bwt_index, stack, blob, out>>

\* One turn of hzrans64_decoder::decode.  A word read beyond the blob would
\* be anything.
DecodeSymbol ==
  /\ stage = "decode" /\ index < Len(text)
  /\ LET prev == Context(out, index)
         s    == FindSymbol(mstate, prev, Slot(x))
         y    == Unshuffled(x, Width(mstate, prev, s), Start(mstate, prev, s))
     IN  /\ out' = Append(out, s)
         /\ \E w \in IF pos < Len(Words) THEN {Words[pos + 1]} ELSE 0..Base-1 : x' = Refilled(y, w)
         /\ pos' = IF Underflows(y) THEN pos + 1 ELSE pos
  /\ index' = index + 1
  /\ UNCHANGED <<stage, mstate, trained, text, bwt_index, seq, stack, blob>>

\* The inverse transforms.
Finish ==
  /\ stage = "decode" /\ index = Len(text)
  /\ seq' = BwtInvert(MtfInvert(out), bwt_index)
  /\ stage' = "done"
  /\ UNCHANGED <<mstate, trained, text, bwt_index, index, x, stack, blob, pos, out>>

Next ==
  \/ \E d \in TrainingInputs : train(d)
  \/ \E d \in Inputs : compress(d)
  \/ EncodeSymbol \/ Flush \/ Drain \/ decompress \/ DecodeSymbol \/ Finish

Spec == Init /\ [][Next]_vars

-----------------------------------------------------------------------------
\* The type invariant.  A word fits 32 bits, a symbol a byte, and the index of
\* HZ_Stack stays within its buffers.  One word given off or taken in is always
\* enough: between two symbols the coder's state is in its interval, so it never
\* outgrows 64 bits.
TypeOK ==
  /\ stage \in {"idle", "encode", "drain", "decode", "done"}
  /\ mstate = NoModel \/ mstate \in [Symbols -> [Symbols -> Nat]]
  /\ InRange(x) /\ index \in 0..Len(text) /\ trained \in 0..MaxTrain
  /\ stack.index \in 0..BufSize
  /\ \A b \in DOMAIN stack.bufs : \A i \in DOMAIN stack.bufs[b] : stack.bufs[b][i] \in 0..Base-1
  /\ \A i \in DOMAIN blob : blob[i] \in 0..ByteBase-1
  /\ \A i \in DOMAIN out : out[i] \in Symbols

\* _normalize makes a distribution of every row, whatever the counts: no symbol
\* without a slot (it could not be coded), no slot without a symbol.
RowsNormalised ==
  mstate # NoModel =>
    \A a \in Symbols : /\ SumBelow(Normalised(mstate[a]), AlphabetSize) = Total
                       /\ \A s \in Symbols : Normalised(mstate[a])[s] >= 1

\* Suffix i of the marked text comes before suffix j.
Before(i, j) ==
  LET n == Len(text) + 1
      T == Padded(Marked(text), n)
  IN  \E l \in 0..n-1 : /\ \A h \in 0..l-1 : i + h < n /\ j + h < n /\ T[i + h] = T[j + h]
                        /\ j + l < n
                        /\ i + l = n \/ T[i + l] < T[j + l]

\* The linear-time sort by triples is a sort of the suffixes: every suffix is
\* there and each comes before the next.
SuffixesSorted ==
  stage = "encode" /\ index = Len(text) =>
    LET SA == SuffixesOf(text)
    IN  /\ {SA[k] : k \in DOMAIN SA} = 0..Len(text)
        /\ \A k \in 1..Len(text) : Before(SA[k - 1], SA[k])

\* What compress wrote, decompress gives back, with the mstate the blob was
\* compressed with: its own or one trained on other texts.  The decoder retraces
\* the encoder: it has read every word of the blob, never one beyond it, and is
\* back at the encoder's initial state.
RoundTrip == stage = "done" => seq = text /\ pos = Len(Words) /\ x = LowerBound
=============================================================================
