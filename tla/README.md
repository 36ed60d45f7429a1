# A TLA+ development of hybridzip

hybridzip is a C++ compression server: clients send commands over TCP, a
streamer cuts the data into chunks, a processor compresses each chunk on a
thread of its own, and the results are kept as blobs in an archive file that
also holds the models ("mstates") the blobs were compressed with.

This directory holds TLA+ modules for the parts of the program that carry its
logic, TLC configurations that model-check them on small instances, and proofs
of the theorems that hold for every instance. `PROJECT.json` lists the
components, the runs, the source lines of every definition, and the hazards the
properties are aimed at.

    tlc -workers 2 -config archive_reload.cfg MCArchive     # one run
    tlapm ArchiveProofs.tla                                 # one proof module

## The system

Paths below are relative to `src/src/`.

| Component | State | Operations | Where |
|---|---|---|---|
| Archive storage, `HZ_Archive` | the file: a row of segments, an END marker; in memory `file_map`, `mstate_aux_map`, `mstate_inv_aux_map`, `blob_map`, `mstate_map`, `dep_counter`, `fragments`, `eof`; a mutex | create, write, read and remove files, blobs and mstates; install, inject and uninstall by tag; scan on opening; close | `hzip_storage/archive/archive.cpp` |
| Path trie, `HZ_ArchiveTrie` | nodes with `is_leaf`, a value and a table of children | `set`, `get`, `erase`, `contains`, `children` | `hzip_storage/archive/archive_trie.h` |
| API server | a counting semaphore of session slots, the accept loop, one thread per session | accept, handshake, commands, queries, end of session | `hzip_network/api/api.cpp`, `handlers/` |
| Streamer | its mutex, the blob ids so far | encode, decode and train streams, write an mstate | `hzip_network/api/handlers/streamer.cpp` |
| Job processor | a semaphore of threads | `run`, `cycle`; encode, decode and train jobs with callbacks | `hzip_codec/processor/processor.cpp` |
| Blobs and mstates | payload, header, mstate, the id of the mstate | `evaluate`, serialisation | `hzip_core/blob/blob.cpp` |
| Victini codec | the context counts of the mstate | `train`, `compress`, `decompress`; Burrows-Wheeler and move-to-front | `hzip_codec/victini/`, `hzip_core/preprocessor/` |
| rANS coder | the 64-bit state, the stack of 32-bit words | encode, flush, load, decode a symbol, frequency tables | `hzip_core/kernel/hzrans/`, `hzip_core/utils/stack.h` |
| Archive provider and opening | the map from paths to archives and its mutex, the named semaphore of the file | `provide`, the constructor, `close` | `hzip_network/api/providers/`, `archive.cpp`, `utils/fsutils.h` |
| Process | the signal handlers | start, shutdown by signal | `main.cpp` |
| Sharingan codec | the planes of an image, a context model per chunk, the array of slots | read a PNG, `preprocess_data`, `apply_filter`, `dynamic_precode`, encode | `hzip_codec/sharingan/`, `preprocessor/png_bundle.cpp` |
| Image transforms, OpenCL | a buffer changed in place by a loop or by work items | colour lift, Paeth differential | `preprocessor/color.cpp`, `models/paeth.cpp`, `opencl/` |
| Configuration and cache, unused transforms, bundled libraries | | | not modelled, see below |

How they interact. A session thread runs the streamer; the streamer takes a slot
of the processor (`cycle`), reads a chunk from the socket and starts a job
thread; the job calls the codec and then the archive, and reports through
callbacks that capture the streamer and its list of blob ids by reference. The
streamer waits on its own mutex, which the job's `on_completed` unlocks. When
all chunks are through, the streamer gives the ids to the archive as one file.
Sessions share archives: every public operation of an archive runs under the
archive's mutex, so the archive's operations are atomic against each other while
the sequences of them that a request makes are not.

What is hard here:

* sequences of removals and writes that split and reuse free blocks, in a file
  whose structure is only found again by hopping from length to length;
* tables kept by hand that must agree with the file, and counters that decide
  when data may be deleted and are not on disk;
* requests made of several archive calls, interleaved with those of other
  sessions (training takes a tag out and puts it back);
* callbacks into stack variables of another thread, three layers of waiting, and
  slots that must be returned on every path out of a session;
* failures of one chunk, of a connection, and exceptions thrown under a mutex;
* opening an archive in steps that other processes come between, with a semaphore
  that outlives whoever took it, and a signal handler that closes archives in use;
* transforms in place, in loops or by work items in any order;
* arithmetic at the boundaries of the entropy coder.

What makes each component correct:

* archive: the file is a gapless row of segments; the tables say what a scan
  would find; data in use is never overwritten; every blob has one owner; an
  mstate lives as long as a blob or a tag needs it; operations end;
* trie: it is a map from paths to values, with no leaf above another node;
* server: slots are conserved, jobs never outlive what they captured, streams
  and closed sessions end;
* pipeline: what was reported stored can be decoded to what was sent;
* access: a file has one archive over it at a time, and what it held when it was
  closed is still there when it is opened again; whoever waits, waits for a holder;
* codecs: decompression inverts compression, and the coder stays in its interval;
  of Sharingan, whose decoder does not exist, that one could.

## Modules

| Module | What it is |
|---|---|
| `PathMap` | maps with paths as keys, and what the trie answers about them (`Contains`, `IsDir`, `Blocked`) |
| `PathStore` | the map the trie promises |
| `ArchiveTrie` | `HZ_ArchiveTrie`; refines `PathStore` |
| `Archive` | `HZ_Archive`, with the trie as the map it implements |
| `ArchiveStore` | what an archive promises: files own blobs, blobs name mstates, tags name mstates |
| `ArchiveRefinement` | the mapping from `Archive` to `ArchiveStore` |
| `ApiServer` | accept loop, sessions, streamers, jobs and the two semaphores |
| `Pipeline` | the requests as sequences of archive calls, over the store |
| `ArchiveAccess` | processes, provider, constructor and named semaphore, signal handler, kills and restarts |
| `HzRans` | the rANS coder and its frequency tables as operators, and `HZ_Stack` |
| `SuffixArray` | the linear-time suffix sort, a recursive function on the length of the text |
| `Victini` | the codec: train, compress, the coder symbol by symbol, decompress |
| `ImageTransforms` | colour lifts and Paeth differential as operators |
| `Sharingan` | one call of the image codec's `compress`, on the CPU or a device, with `HzRans` and `ImageTransforms` |
| `ArchiveProofs` | `Archive` in three parts: types, the file and its tables, counters and tags with the refinement of `ArchiveStore` |
| `ArchiveTrieProofs` | the tree of paths, and that it is the map of `PathStore` |
| `PipelineProofs` | types of `Pipeline`, and that what was stored can be decoded |
| `ArchiveAccessProofs`, `ApiServerProofs` | the theorems about their modules |
| `CodecProofs` | the operators of the codecs: coder steps and whole codings, stack, frequency tables, lifts |
| `SharinganProofs` | types of `Sharingan`, its transforms in place, its slots, and that the decoder one could write gets the image back |
| `VictiniProofs` | types of `Victini`, its suffix sort, its model, and that decompression gives the text back |
| `MCArchive`, `MCArchiveAccess`, `MCArchiveTrie`, `MCPipeline`, `MCVictini`, `MCSharingan` | values of the constants for TLC |

The pieces are joined by what one promises the next: `ArchiveTrie` is shown to be
a map, `Archive` uses maps; `Archive` is shown to implement `ArchiveStore`,
`Pipeline` makes its requests on files, tags, mstates and blobs with the same
rules; `ApiServer` shows that a session has at most one job at a time, which is
how `Pipeline` treats a request; `Archive` starts from a file that ends with an END
marker and has no other user, and `ArchiveAccess` shows when that is so; `Victini`
and `Sharingan` both encode with `HzRans`.

### Archive

`disk` maps bit offsets to segments. A segment is its header (kind and block
length) and the part of the payload the archive itself reads: path, blob ids, ids
of blob and mstate, version. Lengths are the code's, in bits, so that block reuse
and splitting happen at the real boundaries; the contents of blobs and mstates
are lengths only. `endAt` is where the END marker stands, if it still stands.
`op` is the operation that holds the mutex: most operations are one action,
since nothing else runs meanwhile; `create_file`, `remove_file` and
`install_mstate`, which go on after a step that can throw, are several, and
`op.kind = "dead"` is the state after an exception that left the mutex locked.
The scan is one action per segment. `pending` is a session's list of blob ids
between `write_blob` and `create_file_entry`.

A new id is any unused one, as the code draws them at random until it finds an
unused one.

`ServerSpec` has the operations the server calls. `Spec` adds the public
operations it does not call (`create_file`, `uninstall_mstate` by id).

### ArchiveTrie

A node is the path that leads to it; the tables of children are the nodes one
token longer. `erase` climbs to the last node with several children and removes
the branch below it, as the code does with parent pointers.

### ApiServer

Per client: the state of the connection (`up`, `shut` by the peer, `broken`: an
error or timeout), of the session, of the streamer and of its job. `slots` and
`procSlots` are the two semaphores. A `recv` on a shut connection returns 0 and
throws; on a broken one it returns -1, which the length test of
`socket_class.cpp:31` takes for a large number, so the session goes on with
whatever is in its buffer.

### Pipeline

A session's request is a record: its kind, the call it makes next, the chunks to
do, the ids so far. Each archive call is one action. A mstate is an algorithm
and a set of chunks it has learnt; a payload is raw or packed with a model, and
unpacks to the chunk with the same model only. `Incompressible` chunks are those
a codec does not shrink. `sent` and `chunk` are history: what the client sent.

### ArchiveAccess

Per process: whether it runs, who holds the provider's mutex, which names are in
its map, which archives its handler has closed, who holds the mutex of each
archive, where the handler is and on whose thread it runs (`victim`). Per session:
how far it is in `provide()`; each system call of the constructor is an action,
since other processes run in between: the test for the file, its creation, the
wait for the semaphore, `hza_init`, the scan. Of the content of a file only the
number of writes counts, and whether it is absent, empty, ends with an END marker,
has been written since, or is of another version. The semaphore belongs to the
absolute path and outlives processes; a restart of the machine makes it new and
leaves of a file that was open its last flush or a part of what came after.

A scan of a file without an END marker reads on past its end; `LoadLost` takes the
session out of the model, with the mutex it holds (`spin`).

`promised`, `excuse` and `lost` are history: what a file held when it was closed,
why it may have lost something since, and whether its semaphore was taken by
someone who is gone. `excuse` keeps the first of four reasons, which are what the
code cannot prevent: two processes that create a file at once, a process that dies
while it creates one, a machine that stops with the file open, a session that
writes after the signal handler closed the archive under it.

### ImageTransforms, Sharingan

`compress` from the rows libpng delivers to the blob: planes, colour transform,
filter, one pass per channel over the chunks, another for the low bytes of deep
images, then the coder from the last slot to the first. A loop on the CPU is one
work item with all indices in the code's order; a kernel is a set of work items,
of which any may take the next step (`work`); so one action (`ColourPixel`,
`FilterSample`, `PrecodeChunk`) is both. The filter's kernel reads a copy of the
channel (`input`), its loop the buffer it writes. `fresh` is what the device's
frequency maps hold before a kernel starts; the code does not clear them.

The properties need a decoder, which Sharingan does not have: `DecodedSamples` and
the inverse transforms after it are the decoder one could write, with
`hzrans64_inv_bs`, `reverse_lift` and `ycocg_to_rgb` from the code.

### Victini, SuffixArray, HzRans

The codec as it runs, with symbols for bytes and digits for the bytes of a word.
`compress` is the transforms and the model; then one action per symbol, the
flush, one action per word drained from the stack; then the decoder, one action
per symbol, and the inverse transforms. `HzRans` has the arithmetic with the
widths as parameters: `Total` (2^24 in the code), `Prefix` (2^7), `Base` (2^32)
and the stack's buffer size.

`SuffixArray` keeps the steps of the sort as definitions of their own: triples,
names, the text of the names, the recursive call, the suffixes at multiples of
three, the merge. The counting sort is its result, the stable order (`Rank`); the
merge is the loop's two indices turn by turn (`Merged`). `sorted` is the body with
the recursive call as a parameter, and `suffix_array` the function it defines on the
length.

## Runs

Every run is exhaustive within its bounds and takes a few minutes at most.

| Run | Asks | Bounds |
|---|---|---|
| `archive_reload` | Do all public operations keep the file and the tables right, across closing and loading again? `Tiling`, `IndexMatchesFile`, `BlobsOwnedOnce`, `LiveDataStable`, `BlobsOutliveFiles` | 1 session, files `a` and `a/b`, 1 tag, 2 blob ids, 1 mstate id, 1500 bits, 2 loads, 2 versions |
| `archive_store` | Is it the store it promises to be, on its first load? `ImplementsStore`, `DependenciesCounted`, `TagsKept` | 2 sessions, tags `t` and `t/u`, 2 blob ids, 2 mstate ids, 1500 bits |
| `archive_progress` | Do scans and removals end, and is it still the store after a reload, up to the mstates' lifetime? `LoadEnds`, `RemoveEnds`, `ImplementsStoreAcrossLoads` | 1 session, 2 tags side by side, 1 mstate id, 1320 bits, 2 loads |
| `archive_access` | Who gets at a file, what is left in it, and do waiting and shutting down end? `SemaphoreConserved`, `ClosedArchivesKept`, `ShutdownEnds`, `WaitsForHolder` | 1 file under 2 names, 2 processes with 2 and 1 sessions, 1 write, 1 start each, 1 signal each, 1 restart |
| `trie_map` | Is the trie a map, and does it drop emptied directories? `ImplementsMap`, `ErasesTargetOnly`, `FilesTidyUp` | eight paths up to three tokens, two values |
| `api_threads` | Are slots and captured variables safe, and do streams and sessions end? `JobsHaveTheirStreamer`, `SlotsAccounted`, `ProcessorAccounted`, `StreamEnds`, `ClosedSessionEnds` | 2 clients, 2 slots, 1 processor thread, 2 commands each, 2 chunks |
| `pipeline` | Is what was stored complete and decodable, with and without tags, under training and uninstalling, and does a tag come back after training? `StoredBlobsDecode`, `FilesComplete`, `DecodeReturnsFile`, `TagReturns` | 2 sessions, 2 requests each, streams of 1 and 2 chunks, one of them incompressible, 1 file, 1 tag |
| `victini` | Is the codec lossless and the coder in range? `RowsNormalised`, `SuffixesSorted`, `RoundTrip` | all texts over 4 symbols up to 3, over 2 up to 8, uniform ones up to 20; 0 to 2 training texts |
| `sharingan` | Do the transforms work in place, are the slots legal, can the image be had back? `TransformsInPlace`, `SlotsLegal`, `Lossless` | bytes of 2 bits, images up to 3 x 2 of all colour types, some of 2 bytes a sample, chunks of 2 x 2 and 2 x 1, orders 1 to 3, 2 kernels |
| `archive_blobs_after_reload` | violated: `BlobsResolve` | 1 session, 2 loads |
| `api_lost_session` | violated: `LostSessionEnds` | 1 client |
| `pipeline_tagged_raw` | violated: `EveryBlobDecodes` with incompressible chunks under a tag | 2 sessions |

`TypeOK` is checked once per component. Deadlock is not checked anywhere: a
server without clients, an archive nobody uses, a processed text and a bound that
is reached are all legitimate ends.

Why the bounds are enough. 1500 bits hold the version segment, an mstate, two
blobs and the entry of a file with both (1498 bits), so every kind of segment
can be removed and its block reused by every other kind: fits that are exact,
that leave a remainder with a header, and that leave too little for one all
occur, and a further segment must reuse a block. Files `a` and `a/b` exclude each
other, so the trie's exceptions occur. Two loads are one reload. In `ApiServer`
two clients fill the slots, so the accept loop has to wait, and two streams
contend for one thread; the theorems below hold for any numbers. In `Pipeline`
every race the code allows is between two requests, and two requests per session
allow for setting up a tag and a file. For the coder, `Total` 8 and `Base` 16
have every boundary of the real widths: a state that must give off a word and
one that just need not, single-word buffers, rows that lose slots by rounding;
the arithmetic itself is proved for all widths. In `ArchiveAccess` a file is
contended for by another process and by another name in the same process; the
semaphore counts one, so a third contender waits like the second. Restarts after
which a file is opened again need a second start only for more of the same; the
restart of the machine comes between two processes. In `Sharingan` the images of
3 x 2 meet every case of the prediction, have a chunk at the right edge that is
narrower, and the larger ones exceed `ClPixels` (or `ClSamples` only), so that the
stages run on the CPU and on the device in every combination the code has; with 2
kernels 3 samples do not divide evenly.

`BlobSymmetry` and `IdSymmetry` are used in runs of safety properties only: ids
occur in no constant expression but their sets.

Fairness. `Archive`: the thread that holds the mutex goes on (`WF(Progress)`);
nobody has to call anything. `ApiServer`: threads run, so every step of a
streamer, a job or the accept loop that stays enabled is taken; weak fairness
only, because `condition_variable` promises no order; nothing is assumed of
clients except that a `recv` on a broken connection returns. `Pipeline`: a
session with a request under way goes on. `ArchiveAccess`: a session inside
`provide()` or an operation, and the signal handler, go on (weak fairness: nothing
says that a mutex is given to whoever has waited longest); nobody has to ask,
start, kill or signal. `ShutdownEnds` therefore allows for sessions that use an
archive again and again.

## What the code does not keep

Found while modelling. Three have a run of their own, marked violated above: the
reload, the failed `recv` and the incompressible chunk.

* **Reload forgets who uses an mstate** (`archive.cpp:157`). `dep_counter` is not
  rebuilt by the scan, so after a reload a mstate can be uninstalled although
  stored blobs need it, which `hza_rm_mstate` and the test at
  `tests/hzip_storage/archive.cpp:140` exclude. `mstate_inv_aux_map` is not
  rebuilt either (`archive.cpp:139`): a tagged mstate is then deleted with its
  last blob and the tag dangles. This is why the archive is shown to implement
  the full store on its first load only, and the weaker
  `ArchiveStore!UncountedSpec` across loads. How much weaker came out of the
  proof: a dangling tag keeps the id of an mstate that is gone, a new mstate may
  draw that id, and then two tags name one mstate, or the old tag names one it was
  never given to. `TagUncounted` allows that; with two tags that do not exclude
  each other TLC shows it in 19 states, and `archive_progress` has two such tags.
* **Exceptions leave the mutex locked** (`archive.cpp:675` and others): an
  exception of the trie inside `remove_file`, `hza_create_metadata_file_entry`,
  `install_mstate` or `list_*`. `Archive` has the state (`op.kind = "dead"`), its
  properties hold up to it, and in `ArchiveAccess` it is one of the reasons why a
  shutdown does not end.
* **A failed `recv` passes for success** (`socket_class.cpp:31`): the session of a
  lost connection keeps its slot.
* **Incompressible data under a tag** (`processor.cpp:68`) is stored raw under the
  mstate of the tag and decoded as if packed.
* A failed chunk does not stop an encode stream (`streamer.cpp:134`): under a tag
  that another session uninstalls, the file is stored without the chunk and
  success is reported. So `FilesComplete` claims all chunks for streams without a
  tag, and for those with one only that no chunk is foreign or out of order.
* Erasing a directory with several children can leave its parent empty
  (`archive_trie.h:150`). The archive erases files only, so `FilesTidyUp` is
  claimed for those.

* Opening an archive (`archive.cpp:13`, `fsutils.h:10`, `archive_provider.cpp:9`).
  Two processes that create a file at once can truncate what the first has
  written and closed. A process that dies leaves the semaphore taken until the
  machine restarts. The provider's mutex is held while it waits for the semaphore,
  so one archive that is in use elsewhere, or is named in two ways, keeps every
  session of the process from every archive; an exception there (another version)
  leaves the mutex and the semaphore taken. `Excuses` and `Hung` name these cases,
  and the properties say that there are no others.
* The signal handler (`main.cpp:23`) takes mutexes that the interrupted thread may
  hold, and sessions may write over the END marker after it.
* Images of two bytes a sample: half of each row is read (`png_bundle.cpp:107`), the
  rows of chunks of low bytes overlap (`state_transition.cpp:297`), so that slots are
  left unset and the encoder divides by zero (`EncodeUnset`), and on a device the
  kernel's argument has the wrong size (`state_transition.cpp:442`). `SlotsLegal`
  names the slots, and `Lossless` is claimed for one byte a sample.
* Without OpenCL `dynamic_precode` ends without a return value
  (`state_transition.cpp:472`), whereas `sharingan.h:7` says "An error is thrown if no
  GPU and mstate is found"; only images with a colour transform fail with an
  exception. With a device, its frequency maps are not cleared
  (`state_transition.cpp:387`), and an image so encoded cannot be decoded.

## Proofs

All theorems are for every value of the constants.

* `ApiServerProofs` (for any clients, slots, threads, chunks): `TypeCorrect`,
  `JobsNeverOutliveStreamers`, `NoSlotLeaks`, `NoThreadLeaks`. The inductive
  invariant `Safe` adds to `TypeOK` and `JobsHaveTheirStreamer` what the types do
  not say: a streamer that prepares a blob holds its mutex and has a blob left
  (`StreamersPrepared`), and the connection in the accept loop's hand is accepted
  and has no session yet (`AcceptedInHand`), so that starting its session restarts
  no session that streams. The two accounts are
  then invariant on top of `Safe`, by how each step changes the cardinality of
  the set of live sessions and of running jobs. From: finitely many clients.
* `ArchiveProofs`, types (for any sessions, paths, ids, sizes and bounds):
  `TypeCorrect` and `OffsetsAreSegments`. `TypeOK` alone is not inductive: freeing
  a segment reads its length from the file, so the offsets in the four tables
  must be offsets of segments (`OffsetsOnDisk`), and an operation that resumes
  writes under its own path (`OperationHasPath`). The proof regroups the invariant
  by what operations change together (`Sorted`), has a lemma per helper
  (allocation, freeing, counters) and a lemma per operation.
* `ArchiveProofs`, the file (same generality): `SegmentsTile` (`Tiling`), `IndexIsFile`
  (`IndexMatchesFile`), `BlobsHaveOneOwner` (`BlobsOwnedOnce`), `DataIsStable`
  (`LiveDataStable`), `BlobsStay` (`BlobsOutliveFiles`). They need each other: an
  allocation is right only if the free list is, the free list only if the tables
  are, and `remove_file` frees what the entry lists, which must not be anybody
  else's. So there is one inductive invariant, `Consistent`:
  `Sorted`; a running operation fits its place (`ControlFits`); segments have the
  payload of their kind (`LiveTyped`); ids and paths are on disk once
  (`UniqueOnDisk`); lists of blobs are disjoint and of stored blobs (`Owned`); the
  segments tile the file up to the END marker or `metadata.eof`, and the scan is
  on a boundary (`FileEnds`); and the tables are those of the part of the file
  that has been scanned (`TablesKnown`), which for an open archive is all of it.
  The proof does not go action by action: every step is shown to have one of a few
  effects on the file (nothing; a segment written in free space; segments freed)
  and on the tables (`StepEffect`), and the parts of the invariant are preserved
  by effects. The two action properties follow from the effects too.
* `ArchiveProofs`, the store: `DependenciesAreCounted` (`Spec`, so with the operations
  the server does not call), `TagsAreKept` (`ServerSpec`, as uninstalling by id
  leaves the tag), and the refinement, `StoreAcrossLoads` (any number of loads)
  and `FreshStore` (the full store, as long as there was one load: the hypothesis
  `[]FirstLoad` is what `ImplementsStore` needs after the finding above, and the
  run `archive_store` has it by its bound). `Counted` adds to `Consistent` that an
  archive not yet scanned is empty (`Fresh`), so that on the first load the counters
  start right; `Serving` adds what the server keeps to: an mstate that is being
  installed is there (`InstallThere`), the tag table, the set of tagged mstates and
  the tags on disk agree (`TagsHeld`). For the refinement the four maps of the
  mapping are written as maps over the segments of a kind (`KeyMap`), which change
  by one entry when one segment is written or freed; then each step of the server
  is a step of the store or leaves it alone (`ServerSteps`).
* `ArchiveAccessProofs` (for any processes, sessions, names, paths and bounds):
  `TypeCorrect`, `AccessExclusive`, `SemaphoreNeverLost`, `ClosedStaysClosed`.
  `SemaphoreConserved`
  counts and is not inductive. The invariant `Safe` says instead who
  excludes whom: a semaphore at 0 was taken by somebody (`SemaphoreTaken`), nobody
  has one that is free or lost (`HoldersTook`), and two that have one of the same
  path are one (`HoldersExclude`). An archive that enters the map must be new to it,
  which holds because whoever is inside `provide()` has the provider's mutex
  (`ProvidersExclude`), and the handler that closes archives has it too
  (`HandlersExclude`). The proof sorts the actions by what they do to access
  (`Outside`, `Inside`, `Opens`, `Gains`, `Enters`, `Drops` for a session; `Handles`
  and `Closes` for the handler), and counts the grants at the end. From: no session is
  called like a state of the mutex, and there is a name.
  `ClosedStaysClosed` (`ClosedArchivesKept`) is on top of it. A file without an
  excuse holds what it promised, and while it is being created its creator is alone
  with it, which only exclusive access gives; `Keeping` adds to `Safe` which states a
  file can be in at each stage of opening it (`StagesKnown`), that whoever is past
  the creation has a file (`FilesThere`), and the two facts per file (`Kept`,
  `CreatesAlone`). That the four excuses suffice, for any number of processes, is
  what the theorem says.
* `ArchiveTrieProofs` (for any paths of strings and any values): `TreeTyped`
  (`TypeOK`), `ErasesOnlyTarget` (`ErasesTargetOnly`), `ErasedFilesTidy`
  (`FilesTidyUp`), `TrieIsMap` (`ImplementsMap`). The invariant `Tree`: the nodes are
  a finite tree of paths that contains the root, the root is no leaf, and a leaf has
  no child. The climb of `erase` stops at a node whose parent has another child; so
  a node below the stop that is not at the target or below it would leave the
  target's path at a node with two children, above which the climb cannot have gone
  (`StopIs`, `OnlyBelowTarget`). From: no path is
  the root's.
* `PipelineProofs` (for any sessions, files, tags, chunks and streams):
  `PipelineTyped` (`TypeOK`), `EveryStoredBlobDecodes` (`StoredBlobsDecode`),
  `EncodedFilesComplete` (`FilesComplete`), `DecodedFileReturned`
  (`DecodeReturnsFile`). A stored blob decodes as long as its mstate is there, so the
  invariant has to say why nobody takes it out: tags name different mstates
  (`Tables`); an mstate that a session has written for a blob of its own is nobody
  else's until the blob is written (`Encoded`); under a tag the mstate is the one
  that was injected or is gone, and then the write fails (`EncodeInjected`,
  `EncodePacked`). Ids are never used twice, so a decode stream that finds a blob
  finds the one its file had. `Stored` adds that
  files hold the chunks that were sent (`FilesHold`), that a blob is of one file or
  of one session (`BlobsApart`), and what each request has done so far (`Serving`).
  The order of the chunks under a tag is an increasing choice among those sent,
  extended by one with each blob written. Steps are sorted by what they do to the
  store: read only, add an mstate, write a blob, write an entry, take out. Removing
  a file between two reads of a decode stream is among them.
* `CodecProofs` (for any widths with `Total * Prefix <= Base`): `EncodeKeepsRange`
  (one word given off is enough), `SlotFound` (the decoder meets the symbol's own
  slots), `DecodeInvertsEncode` (a step of the decoder restores the state and
  reads a word exactly when the encoder wrote one). The argument: a renormalised
  state lies in `[ls * Prefix, ls * Prefix * Base)` (`RenormalisedFits`), on which
  `x -> (x div ls) * Total + bs + x mod ls` is monotone and inverted by division
  with remainder. `FtableSums`: a row of the model becomes a table of slots that add
  up to `Total`, with a slot for every symbol, whatever the counts; what rounding
  loses is at most the number of symbols (`SharesFit`) and goes round once
  (`RestGoesRound`). Also here: sums, folds and powers as recursive functions, by
  induction on their argument (`Induction`, from the least counterexample, with sets
  in the place of predicates); `HZ_Stack` gives back what was pushed, across its
  buffers (`PoppedIs`, `PushedOnTop`), so that a decoder at any point of a chain of
  encoder steps goes back by one (`DecodesBack`); a lift and a difference are undone modulo
  the width (`LiftUndone`, `DifferenceUndone`).
* `SharinganProofs` (for any images, parameters and order of the work items):
  `Typed` (`TypeOK`), `InPlace` (`TransformsInPlace`), `Legal` (`SlotsLegal`). The
  invariant `Inv` says how far each pass over the image is: where the stages stand
  (`Settled`), which pixels are lifted and that the others are as read
  (`ColourSoFar`), which samples are filtered, and that the neighbours a prediction
  still needs are not (`FilterSoFar`, where the loop's descending order or the
  kernel's copy comes in), which slots are written and that they are legal
  (`PairsSoFar`). `Legal` is restricted by `SlotsLegal` itself to what the
  finding above leaves.
* `SharinganProofs`, losslessness (same generality): `Remuxed` (`Lossless`). `Inv`
  says that a slot is legal, not that it is the one a decoder would compute. `ModelSoFar` does: each
  pair written is that of the model of the samples before it in its chunk, although
  the encoder learns chunk by chunk and the items interleave; and `CoderSoFar`: the
  state and the stack come from a chain of encoder steps over the pairs done. From
  these the decoder's fold is followed sample by sample (`DecodeOne`, `Decoded`),
  which needs only that the model's table depends on samples already decoded
  (`TableLocal`); then the filter (`FilterUndone`) and the colour transform
  (`ColourUndone`) are taken back. As in `Lossless`, for samples of one byte and, on
  a device, maps that were clear.

* `VictiniProofs` (for any alphabet, widths, texts and training): `Typed` (`TypeOK`),
  `Distributions` (`RowsNormalised`), `SuffixesAreSorted` (`SuffixesSorted`),
  `Restored` (`RoundTrip`). They rest on three theorems about the transforms.
  * `SuffixArrayIs`: the sort sorts. The names of sorted triples compare as the triples
    do (`NamesAre`), so the suffixes of the text of the names are ordered as the
    suffixes it stands for (`NamesOfTriples` and after), which gives the induction on
    the length its step; the suffixes at multiples of three are then ordered by one
    value and the rank of the next suffix (`ZerosSorted`); and the comparison of the
    merge agrees with the order of suffixes although it looks at two or three values
    only, because the ranks decide the rest (`RanksAre`, `Merging`). The merge itself
    is shown for any two sorted lists (`MergeSorts`).
  * `BwtInverse`: the position of a suffix in the last column and the suffix that
    follows it are linked by the stable order of the column (`JumpsOrder`), so the walk
    of the inverse goes through the text in order (`WalkIs`).
  * `MtfInverse`: both caches are the same permutation at each symbol.

  The recursive definitions (the merge, the sort, the walk, the caches) are first
  shown to have a solution, hence to satisfy their equations. `_normalize` ends with
  the sum it needs since what rounding takes away or adds goes round to the symbols
  (`NormalisedIs`). The inductive invariant `Inv` follows the stages: the encoder is
  down to a symbol by a chain of coder steps over the pairs of the transformed text
  (`WhileEncoding`); the bytes drained and the words still on the stack are together
  the words of the whole chain (`WhileDraining`); the decoder has the first symbols,
  and its state and the words left are those of the chain at that symbol
  (`WhileDecoding`); at the end nothing is left (`WhenDone`). That a pair is legal in
  every context, needed for each coder step, is where `NormalisedIs` comes in
  (`SlotIs`). From `VictiniAssumption`: a word is four bytes, the alphabet is
  smaller than `Total` and divides it (as 2^8 does 2^24), texts are not empty.

Only model-checked: liveness (`LoadEnds`, `RemoveEnds`, `ShutdownEnds`,
`WaitsForHolder`, `StreamEnds`, `ClosedSessionEnds`, `TagReturns`), which this prover
does not reach. Every invariant and every action property that a passing run checks
is proved, and so are the refinements `ImplementsMap`, `ImplementsStore` and
`ImplementsStoreAcrossLoads`.

## Not modelled

* A path in a directory that does not exist, and a second signal during the first
  one's handling.
* `decompress` and `train` of Sharingan, which are stubs, and `static_precode` with
  `inject_model`, `preprocess_maps` and `preprocess_dists`, which nothing calls.
  Images of less than a byte a sample, whose reading is undefined. That jobs share
  the rainman caches their slots are kept in.
* The zigzag, delta and JPEG transforms, `PaethModel` and `RGBColorTransformer`: no
  codec uses them.
* The blob stream of the decoder (`streamer.cpp:461`), which runs a job without a
  codec, and `read_mstate`, which reads only.
* Serialisation of headers, protobuf messages, error texts, logging, argument
  parsing, configuration, device set-up, the bundled libraries.

## Plan

The components are modelled as far as they run, and their safety is proved. Open are
the parts under "Not modelled" that could run one day: a decoder for Sharingan, for
which `DecodedSamples` is the reference, and the decoder's blob stream.
