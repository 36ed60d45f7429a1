------------------------------- MODULE Sharingan -------------------------------
(***************************************************************************)
(* The Sharingan image codec (hzip_codec/sharingan): one call of compress, *)
(* from the PNG's rows to the words of the coder.  The samples go through  *)
(* a colour transform and the Paeth differential, both in place; then      *)
(* every chunk of every channel becomes (ls, bs) pairs under a first-order *)
(* context model of its own, and HzRans encodes the pairs, last one first. *)
(*                                                                         *)
(* Each of the three stages runs either as a loop on the CPU or as a       *)
(* kernel whose work items run in any order (OpenCL).  A loop is a single  *)
(* work item.                                                              *)
(*                                                                         *)
(* A byte has ByteBits bits (8 in the code); an image has a bit depth of   *)
(* one or two bytes.                                                       *)
(***************************************************************************)
EXTENDS HzRans, ImageTransforms, SequencesExt

CONSTANTS
  ByteBits,   \* 8 in the code
  Inputs,     \* what clients submit: images, or NotPng
  Parameters, \* codec_params: [chunk_width, chunk_height, order, rate]
  ClPixels,   \* 1000000 in the code: more pixels than that go to OpenCL
  ClSamples,  \* 49152 in the code: for the filter
  ClKernels,  \* Config::opencl_kernels: work items
  LocalSize,  \* preferred size of a work group
  Leftovers,  \* what fresh memory may hold
  NotPng, NoPair

AlphabetSize == Power2[ByteBits]
Symbols == 0..AlphabetSize-1

Colours == {"GRAY", "RGB", "RGBA", "PALETTE"}

\* png_get_channels
Channels(colour) == CASE colour = "RGB" -> 3 [] colour = "RGBA" -> 4 [] OTHER -> 1

\* png_get_rowbytes
RowBytes(img) == Channels(img.colour) * img.width * (img.depth \div ByteBits)

IsImage(img) ==
  /\ img.colour \in Colours
  /\ img.width \in Nat \ {0} /\ img.height \in Nat \ {0}
  /\ img.depth \in {ByteBits, 2 * ByteBits}
  /\ img.rows \in [0..img.height-1 -> [0..RowBytes(img)-1 -> Symbols]]

ASSUME SharinganAssumption ==
  /\ ByteBits \in Nat \ {0} /\ Total % AlphabetSize = 0 /\ Total > AlphabetSize
  /\ \A img \in Inputs \ {NotPng} : IsImage(img)
  /\ \A p \in Parameters : /\ p.chunk_width \in Nat \ {0} /\ p.chunk_height \in Nat \ {0}
                           /\ p.order \in Nat /\ p.rate \in Nat
  /\ ClPixels \in Nat /\ ClSamples \in Nat /\ ClKernels \in Nat \ {0} /\ LocalSize \in Nat \ {0}
  /\ Leftovers \subseteq Symbols
  /\ NoPair \notin [ls : Nat, bs : Nat]

VARIABLES
  stage,   \* what compress is doing
  img,     \* blob->data
  opencl,  \* Config::opencl_support_enabled
  params,  \* blob->codec_params
  buf,     \* bundle.buf
  device,  \* the running loop is a kernel
  input,   \* the kernel's copy of buf
  channel, \* the channel the loop or kernel is at
  work,    \* what its work items still have to do: sequences
  fresh,   \* what the kernel's frequency maps held before it
  dirty,   \* that was ever anything but 0
  pairs,   \* the virtual_array of SSTPairs
  index, x, stack, \* the encoder
  blob     \* the result: header and words

bundle == <<stage, img, opencl, params>>
loop   == <<device, input, channel, work, fresh, dirty>>
coder  == <<index, x, stack, blob>>
vars   == <<stage, img, opencl, params, buf, device, input, channel, work, fresh, dirty,
            pairs, index, x, stack, blob>>

NoBlob == <<>>
NoData == <<>>

nchannels == Channels(img.colour)
pixels    == img.width * img.height
shift     == IF img.depth > ByteBits THEN img.depth - ByteBits ELSE 0

-----------------------------------------------------------------------------
(* Work items *)
Ascending(n) == [k \in 1..n |-> k - 1]

Ceiling(a, b) == a \div b + (IF a % b # 0 THEN 1 ELSE 0)

\* A work item of tid handles stride_size indices from tid * stride_size on;
\* the global size is rounded up to whole groups, and items beyond n return.
Strides(n) ==
  LET stride == Ceiling(n, ClKernels)
      global == Ceiling(Ceiling(n, stride), LocalSize) * LocalSize
      End(tid) == IF (tid + 1) * stride > n THEN n ELSE (tid + 1) * stride
      Item(tid) == [k \in 1..End(tid) - tid * stride |-> tid * stride + k - 1]
  IN  {Item(tid) : tid \in {t \in 0..global-1 : t * stride < n}}

\* Work item it has done its next step.
Advanced(it) == (work \ {it}) \cup ({Tail(it)} \ {<<>>})

-----------------------------------------------------------------------------
(* PNGBundleBuilder::read_bundle *)
\* One byte per sample, whatever the depth; the buffer is as large as the rows,
\* and holds what it held where nothing is stored.
Planes(fill) ==
  LET z(k) == k \div pixels
      y(k) == (k % pixels) \div img.width
      X(k) == k % img.width
  IN  [k \in 0..RowBytes(img) * img.height - 1 |->
        IF k < nchannels * pixels THEN img.rows[y(k)][nchannels * X(k) + z(k)] ELSE fill]

read_bundle ==
  /\ stage = "read" /\ img # NotPng
  /\ \E fill \in Leftovers : buf' = Planes(fill)
  /\ stage' = "preprocess"
  /\ UNCHANGED <<img, opencl, params, loop, pairs, coder>>

\* The signature check, or libpng, throws.
ReadThrows ==
  /\ stage = "read" /\ img = NotPng
  /\ stage' = "failed"
  /\ UNCHANGED <<img, opencl, params, buf, loop, pairs, coder>>

-----------------------------------------------------------------------------
(* preprocess_data *)
Transformable == img.colour \in {"RGB", "RGBA"}

PreprocessSkips ==
  /\ stage = "preprocess" /\ ~Transformable
  /\ stage' = "apply_filter"
  /\ UNCHANGED <<img, opencl, params, buf, loop, pairs, coder>>

StartColour(onDevice) ==
  /\ stage' = "colour"
  /\ device' = onDevice
  /\ work' = IF onDevice THEN Strides(pixels) ELSE {Ascending(pixels)}
  /\ UNCHANGED <<img, opencl, params, buf, input, channel, fresh, dirty, pairs, coder>>

\* The constructor leaves _executor uninitialised when there is no OpenCL.
ColourOnCpu ==
  /\ stage = "preprocess" /\ Transformable
  /\ opencl => pixels <= ClPixels
  /\ StartColour(FALSE)

ColourOnDevice ==
  /\ stage = "preprocess" /\ Transformable
  /\ opencl /\ pixels > ClPixels
  /\ StartColour(TRUE)

\* register_program: "No devices were loaded".
ColourThrows ==
  /\ stage = "preprocess" /\ Transformable
  /\ ~opencl
  /\ stage' = "failed"
  /\ UNCHANGED <<img, opencl, params, buf, loop, pairs, coder>>

\* A turn of the loop of cpu_rgb_to_ycocg or of the kernel, in place.
ColourPixel(it) ==
  /\ stage = "colour" /\ it \in work
  /\ buf' = rgb_to_ycocg(buf, Head(it), pixels, img.depth)
  /\ work' = Advanced(it)
  /\ stage' = IF work' = {} THEN "apply_filter" ELSE stage
  /\ UNCHANGED <<img, opencl, params, device, input, channel, fresh, dirty, pairs, coder>>

-----------------------------------------------------------------------------
(* apply_filter *)
FilterSkips ==
  /\ stage = "apply_filter" /\ img.colour = "PALETTE"
  /\ stage' = "precode"
  /\ UNCHANGED <<img, opencl, params, buf, loop, pairs, coder>>

OnDevice == opencl /\ Cardinality(DOMAIN buf) > ClSamples

\* Mutant: the loop of cpu_filter runs forwards.
FilterForwards == Ascending(nchannels * pixels)

\* cpu_filter: channel by channel, and backwards, since it is in place.
FilterOrder ==
  [k \in 1..nchannels * pixels |->
    LET c == (k - 1) \div pixels
    IN  c * pixels + pixels - 1 - ((k - 1) % pixels)]

StartFilter ==
  /\ stage = "apply_filter" /\ img.colour # "PALETTE"
  /\ stage' = "filter"
  /\ device' = OnDevice
  /\ channel' = 0
  /\ input' = IF OnDevice THEN buf ELSE NoData
  /\ work' = IF OnDevice THEN Strides(pixels) ELSE {FilterOrder}
  /\ UNCHANGED <<img, opencl, params, buf, fresh, dirty, pairs, coder>>

\* The kernel reads a copy of the channel and the loop what is left of buf.
\* When a kernel has finished, the next channel is copied and gets another.
FilterSample(it) ==
  /\ stage = "filter" /\ it \in work
  /\ LET from == IF device THEN input ELSE buf
         i    == (IF device THEN channel * pixels ELSE 0) + Head(it)
     IN  buf' = [buf EXCEPT ![i] =
                   Difference(from[i], Prediction(from, i, img.width, img.height), img.depth)]
  /\ LET again == device /\ Advanced(it) = {} /\ channel + 1 < nchannels
     IN  /\ work' = IF again THEN Strides(pixels) ELSE Advanced(it)
         /\ channel' = IF again THEN channel + 1 ELSE channel
         /\ input' = IF again THEN buf' ELSE IF Advanced(it) = {} THEN NoData ELSE input
         /\ stage' = IF work' = {} THEN "precode" ELSE stage
  /\ UNCHANGED <<img, opencl, params, device, fresh, dirty, pairs, coder>>

-----------------------------------------------------------------------------
(* SharinganStateTransition *)
XChunks == Ceiling(img.width, params.chunk_width)
YChunks == Ceiling(img.height, params.chunk_height)

\* The size of chunk number k in a direction.
ChunkSide(k, chunk, side) == IF k * chunk + chunk > side THEN side % chunk ELSE chunk

\* The samples of a chunk as (x, y), line by line.
Samples(chunk) ==
  LET w == ChunkSide(chunk % XChunks, params.chunk_width, img.width)
      h == ChunkSide(chunk \div XChunks, params.chunk_height, img.height)
  IN  [k \in 1..w * h |-> <<(k - 1) % w, (k - 1) \div w>>]

\* Where a chunk begins in its channel.
ChunkOffset(chunk) ==
  (chunk \div XChunks) * params.chunk_height * img.width + (chunk % XChunks) * params.chunk_width

\* As the loop over the residues has it: without the factor _width.
ResidueOffset(chunk) ==
  (chunk \div XChunks) * params.chunk_height + (chunk % XChunks) * params.chunk_width

\* Passes over the channels: the leading bytes, then the residues.
Passes == IF shift = 0 THEN nchannels ELSE 2 * nchannels

Residues(pass) == pass >= nchannels

Leading(i) == (buf[i] \div Power2[shift]) % AlphabetSize

uniform_pair(s) == Pair(Total \div AlphabetSize, s * (Total \div AlphabetSize))

Ftable(freq) == create_ftable_nf(freq, AlphabetSize, Total)

\* The symbols sample i follows in its chunk, with the weight each is given: to
\* the left, and on the lines below the first above and on the diagonal, as far
\* as locality_context_order goes.  The first one is what i is coded with.
Contexts(sym, i, at) ==
  LET left == IF at[1] > 0 THEN <<<<sym[i - 1], params.rate>>>> ELSE <<>>
      up   == IF at[2] > 0 /\ params.order > 1 THEN <<<<sym[i - img.width], params.rate>>>> ELSE <<>>
      diag == IF at[1] > 0 /\ at[2] > 0 /\ params.order > 2
              THEN <<<<sym[i - img.width - 1], params.rate \div 2>>>> ELSE <<>>
  IN  left \o up \o diag

Learnt(f_map, contexts, s) ==
  FoldLeft(LAMBDA m, c : [m EXCEPT ![c[1]][s] = @ + c[2]], f_map, contexts)

CodePair(f_map, contexts, s) ==
  IF contexts = <<>> THEN uniform_pair(s) ELSE add_to_seq(Ftable(f_map[contexts[1][1]]), s)

\* Mutant: the model learns a symbol before it codes it.
LeadingPairsLate(chunk) ==
  LET sym == [i \in DOMAIN buf |-> Leading(i)]
      Step(acc, at) ==
        LET i  == channel * pixels + ChunkOffset(chunk) + at[2] * img.width + at[1]
            cs == Contexts(sym, i, at)
            m  == Learnt(acc.f_map, cs, sym[i])
        IN  [f_map |-> m, pairs |-> [acc.pairs EXCEPT ![i] = CodePair(m, cs, sym[i])]]
  IN  FoldLeft(Step, [f_map |-> [c \in Symbols |-> [s \in Symbols |-> fresh]], pairs |-> pairs],
               Samples(chunk)).pairs

\* The pairs of the leading bytes of a chunk of this channel.
LeadingPairs(chunk) ==
  LET sym == [i \in DOMAIN buf |-> Leading(i)]
      Step(acc, at) ==
        LET i  == channel * pixels + ChunkOffset(chunk) + at[2] * img.width + at[1]
            cs == Contexts(sym, i, at)
        IN  [f_map |-> Learnt(acc.f_map, cs, sym[i]),
             pairs |-> [acc.pairs EXCEPT ![i] = CodePair(acc.f_map, cs, sym[i])]]
  IN  FoldLeft(Step, [f_map |-> [c \in Symbols |-> [s \in Symbols |-> fresh]], pairs |-> pairs],
               Samples(chunk)).pairs

\* The pairs of the residues of a chunk: one distribution, and the symbols are
\* read from the part of the buffer behind the samples.
ResiduePairs(chunk) ==
  LET Step(acc, at) ==
        LET i == channel * pixels + ResidueOffset(chunk) + at[2] * img.width + at[1]
            s == buf[i] % AlphabetSize
        IN  [f_dist |-> [acc.f_dist EXCEPT ![s] = @ + 2 * params.rate],
             pairs  |-> [acc.pairs EXCEPT ![i] = IF at = <<0, 0>> THEN uniform_pair(s)
                                                 ELSE add_to_seq(Ftable(acc.f_dist), s)]]
  IN  FoldLeft(Step, [f_dist |-> [s \in Symbols |-> IF s = 0 THEN 1 ELSE 0], pairs |-> pairs],
               Samples(chunk)).pairs

\* The work of a pass: chunks one after the other, or a work item each.
Chunks(onDevice) ==
  LET n == XChunks * YChunks
  IN  IF onDevice THEN {<<c>> : c \in 0..n-1} ELSE {Ascending(n)}

\* dynamic_precode
StartPrecode ==
  /\ stage = "precode" /\ opencl
  /\ stage' = "chunks"
  /\ device' = (pixels > ClPixels)
  /\ channel' = 0
  /\ work' = Chunks(device')
  /\ fresh' \in (IF device' THEN Leftovers ELSE {0})
  /\ dirty' = (fresh' # 0)
  /\ pairs' = [i \in 0..Passes * pixels - 1 |-> NoPair]
  /\ UNCHANGED <<img, opencl, params, buf, input, coder>>

\* Without OpenCL dynamic_precode ends without a return.
PrecodeUndefined ==
  /\ stage = "precode" /\ ~opencl
  /\ stage' = "crashed"
  /\ UNCHANGED <<img, opencl, params, buf, loop, pairs, coder>>

\* A turn of the loops of cpu_dynamic_precode, or a work item of the kernel.
PrecodeChunk(it) ==
  /\ stage = "chunks" /\ it \in work
  /\ pairs' = IF Residues(channel) THEN ResiduePairs(Head(it)) ELSE LeadingPairs(Head(it))
  /\ work' = Advanced(it)
  /\ UNCHANGED <<stage, img, opencl, params, buf, device, input, channel, fresh, dirty, coder>>

NextPass ==
  /\ stage = "chunks" /\ work = {} /\ channel + 1 < Passes
  /\ ~(device /\ Residues(channel + 1))
  /\ channel' = channel + 1
  /\ work' = Chunks(device)
  /\ fresh' \in (IF device THEN Leftovers ELSE {0})
  /\ dirty' = (dirty \/ fresh' # 0)
  /\ UNCHANGED <<stage, img, opencl, params, buf, device, input, pairs, coder>>

\* The kernel for residues is given an int where it has a u8: setArg throws.
ResiduesThrow ==
  /\ stage = "chunks" /\ work = {} /\ channel + 1 < Passes
  /\ device /\ Residues(channel + 1)
  /\ stage' = "failed"
  /\ UNCHANGED <<img, opencl, params, buf, loop, pairs, coder>>

-----------------------------------------------------------------------------
(* compress, from the pairs on *)
StartEncode ==
  /\ stage = "chunks" /\ work = {} /\ channel + 1 = Passes
  /\ stage' = "encode"
  /\ index' = Passes * pixels
  /\ x' = LowerBound /\ stack' = EmptyStack
  /\ UNCHANGED <<img, opencl, params, buf, loop, pairs, blob>>

\* The cross encoder takes the pairs from the last to the first.
EncodePair ==
  /\ stage = "encode" /\ index > 0
  /\ pairs[index - 1] # NoPair
  /\ LET p == pairs[index - 1]
     IN  /\ x' = EncodeState(x, p.ls, p.bs)
         /\ stack' = EncodeWords(stack, x, p.ls)
  /\ index' = index - 1
  /\ UNCHANGED <<stage, img, opencl, params, buf, loop, pairs, blob>>

\* A pair nobody set has no width: a division by zero.
EncodeUnset ==
  /\ stage = "encode" /\ index > 0
  /\ pairs[index - 1] = NoPair
  /\ stage' = "crashed"
  /\ UNCHANGED <<img, opencl, params, buf, loop, pairs, coder>>

generate_blob_header ==
  [nchannels |-> nchannels, width |-> img.width, height |-> img.height, bit_depth |-> img.depth,
   colour |-> img.colour]

\* hzrans64_enc_flush, and the blob.
Flush ==
  /\ stage = "encode" /\ index = 0
  /\ stage' = "done"
  /\ stack' = push(push(stack, Word(x \div Base)), Word(x))
  /\ blob' = [header |-> generate_blob_header, words |-> Popped(stack')]
  /\ UNCHANGED <<img, opencl, params, buf, loop, pairs, index, x>>

-----------------------------------------------------------------------------
Init ==
  /\ stage = "read"
  /\ img \in Inputs /\ opencl \in BOOLEAN /\ params \in Parameters
  /\ buf = NoData /\ device = FALSE /\ input = NoData /\ channel = 0 /\ work = {}
  /\ fresh = 0 /\ dirty = FALSE
  /\ pairs = NoData /\ index = 0 /\ x = LowerBound /\ stack = EmptyStack /\ blob = NoBlob

Next ==
  \/ read_bundle \/ ReadThrows
  \/ PreprocessSkips \/ ColourOnCpu \/ ColourOnDevice \/ ColourThrows
  \/ FilterSkips \/ StartFilter
  \/ StartPrecode \/ PrecodeUndefined \/ NextPass \/ ResiduesThrow
  \/ \E it \in work : ColourPixel(it) \/ FilterSample(it) \/ PrecodeChunk(it)
  \/ StartEncode \/ EncodePair \/ EncodeUnset \/ Flush

Spec == Init /\ [][Next]_vars

-----------------------------------------------------------------------------
\* The type invariant.  A sample never outgrows its bit depth, so that a symbol
\* indexes its table, and the coder's state stays in its interval.
TypeOK ==
  /\ stage \in {"read", "preprocess", "colour", "apply_filter", "filter", "precode", "chunks",
                "encode", "done", "failed", "crashed"}
  /\ \A i \in DOMAIN buf : buf[i] \in 0..Power2[img.depth]-1
  /\ \A it \in work : it # <<>> /\ \A k \in DOMAIN it : it[k] \in 0..nchannels * pixels - 1
  /\ device => opencl
  /\ index \in 0..Cardinality(DOMAIN pairs)
  /\ InRange(x)

\* What the two transforms make of a buffer, sample by sample.
ColourOf(b) ==
  IF Transformable
  THEN [i \in DOMAIN b |-> rgb_to_ycocg(b, i % pixels, pixels, img.depth)[i]]
  ELSE b

FilterOf(b) ==
  IF img.colour = "PALETTE" THEN b
  ELSE [i \in DOMAIN b |-> Difference(b[i], Prediction(b, i, img.width, img.height), img.depth)]

\* The transforms work in place, on the CPU in one order, on a device in any and
\* with strides that do not divide the image: every sample is transformed once,
\* from its neighbours as they were before the transform (color.cpp:44,
\* paeth.cpp:46, the kernels).
TransformsInPlace ==
  stage = "precode" =>
    LET made == FilterOf(ColourOf(Planes(0)))
    IN  \A i \in 0..nchannels * pixels - 1 : buf[i] = made[i]

\* Residues of several rows of chunks overwrite each other and leave pairs unset
\* (ResidueOffset): a failure of the code, and the only one.
ResidueMisplaced(i) ==
  shift > 0 /\ i >= nchannels * pixels /\ YChunks > 1 /\ img.width > 1

\* When the encoder starts, the chunks have tiled the image: every pair is set,
\* and it is a legal slot, that is not empty and within the scale.
SlotsLegal ==
  stage = "encode" =>
    \A i \in DOMAIN pairs :
      IF pairs[i] = NoPair THEN ResidueMisplaced(i) ELSE IsSlot(pairs[i].ls, pairs[i].bs)

-----------------------------------------------------------------------------
(* The decoder Sharingan lacks (decompress is a stub): what it could do. *)
Within(i) ==
  <<(i % img.width) % params.chunk_width, ((i % pixels) \div img.width) % params.chunk_height>>

ChunkOf(i) ==
  <<i \div pixels, (i % img.width) \div params.chunk_width,
    ((i % pixels) \div img.width) \div params.chunk_height>>

\* The weight that some contexts give to c.
Weight(contexts, c) ==
  SumBelow([k \in 0..Len(contexts)-1 |-> IF contexts[k + 1][1] = c THEN contexts[k + 1][2] ELSE 0],
           Len(contexts))

\* How often s came after context c before i in its chunk, weighted.
Count(sym, i, c, s) ==
  SumBelow([j \in 0..i-1 |-> IF ChunkOf(j) = ChunkOf(i) /\ sym[j] = s
                             THEN Weight(Contexts(sym, j, Within(j)), c) ELSE 0], i)

DecodeStep(acc, i) ==
  LET cs     == Contexts(acc.sym, i, Within(i))
      ftable == IF cs = <<>> THEN [s \in Symbols |-> Total \div AlphabetSize]
                ELSE Ftable([s \in Symbols |-> Count(acc.sym, i, cs[1][1], s)])
      s      == inv_bs(ftable, AlphabetSize, Slot(acc.x))
      p      == add_to_seq(ftable, s)
      y      == Unshuffled(acc.x, p.ls, p.bs)
  IN  [sym |-> [acc.sym EXCEPT ![i] = s],
       pos |-> IF Underflows(y) THEN acc.pos + 1 ELSE acc.pos,
       x   |-> IF Underflows(y)
               THEN Refilled(y, IF acc.pos < Len(blob.words) THEN blob.words[acc.pos + 1] ELSE 0) ELSE y]

DecodedSamples ==
  FoldLeft(DecodeStep, [sym |-> [i \in 0..nchannels * pixels - 1 |-> 0], pos |-> 2,
                        x |-> blob.words[1] + blob.words[2] * Base],
           Ascending(nchannels * pixels))

\* The filter undone from the first sample to the last.
Unfiltered(b) ==
  IF img.colour = "PALETTE" THEN b
  ELSE FoldLeft(LAMBDA a, i : [a EXCEPT ![i] =
                  Masked(@ + Prediction(a, i, img.width, img.height), img.depth)],
                b, Ascending(nchannels * pixels))

Uncoloured(b) ==
  IF Transformable
  THEN FoldLeft(LAMBDA a, i : ycocg_to_rgb(a, i, pixels, img.depth), b, Ascending(pixels))
  ELSE b

\* "Sharingan is a lossless PNG remuxer" (sharingan.h:2): a decoder that reads the
\* words in order, with a model for each chunk as far as it has been decoded, and
\* undoes the transforms, gets the samples back, and ends where the encoder
\* began.  Not so for samples of two bytes, or if the device's memory was not
\* clear.
Lossless ==
  stage = "done" /\ shift = 0 /\ ~dirty =>
    LET decoded == DecodedSamples
    IN  /\ Uncoloured(Unfiltered(decoded.sym)) = Planes(0)
        /\ decoded.x = LowerBound /\ decoded.pos = Len(blob.words)
=============================================================================
