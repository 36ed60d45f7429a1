---------------------------- MODULE ArchiveProofs ----------------------------
(***************************************************************************)
(* The archive, for every set of paths, ids and sizes.  In three parts:    *)
(* types; the file and its tables; and what callers rely on, with the      *)
(* refinement of ArchiveStore.                                             *)
(***************************************************************************)
EXTENDS Archive, ArchiveRefinement, SequenceTheorems, FiniteSetTheorems, TLAPS

-----------------------------------------------------------------------------
(* Types.  TypeOK is not inductive: freeing a segment reads its length     *)
(* back from the file, so every offset in the tables must be the offset of *)
(* a segment; and an operation that resumes writes its own path.           *)

\* The offsets in the tables are offsets of segments.
OffsetsOnDisk ==
  /\ \A p \in DOMAIN file_map : file_map[p].sof \in DOMAIN disk
  /\ \A p \in DOMAIN mstate_aux_map : mstate_aux_map[p].sof \in DOMAIN disk
  /\ \A b \in DOMAIN blob_map : blob_map[b] \in DOMAIN disk
  /\ \A m \in DOMAIN mstate_map : mstate_map[m] \in DOMAIN disk

\* An operation that writes under a path has one.
OperationHasPath == op.kind \in {"create", "install"} => op.path \in FilePaths \cup TagPaths

\* The inductive invariant.
Typed == TypeOK /\ OffsetsOnDisk /\ OperationHasPath

(* The same, sorted by what the operations change together. *)
Paths == FilePaths \cup TagPaths \cup {NoPath}

DiskOK(d) == DOMAIN d \subseteq Nat /\ \A s \in DOMAIN d : d[s] \in Segments

FileTyped ==
  /\ DiskOK(disk)
  /\ endAt \in Nat \cup {NoEnd} /\ eof \in Nat
  /\ fragments \in Seq(Fragments)

FilesTyped ==
  /\ DOMAIN file_map \subseteq Paths
  /\ \A p \in DOMAIN file_map :
       file_map[p] \in [blobs: Seq(BlobIds), sof: Nat] /\ file_map[p].sof \in DOMAIN disk

TagsTyped ==
  /\ DOMAIN mstate_aux_map \subseteq Paths
  /\ \A p \in DOMAIN mstate_aux_map :
       /\ mstate_aux_map[p] \in [mstate: MstateIds \cup {NoId}, sof: Nat]
       /\ mstate_aux_map[p].sof \in DOMAIN disk
  /\ mstate_inv_aux_map \subseteq MstateIds \cup {NoId}

BlobsTyped ==
  /\ DOMAIN blob_map \subseteq BlobIds \cup {NoId}
  /\ \A b \in DOMAIN blob_map : blob_map[b] \in Nat /\ blob_map[b] \in DOMAIN disk

MstatesTyped ==
  /\ DOMAIN mstate_map \subseteq MstateIds \cup {NoId}
  /\ \A m \in DOMAIN mstate_map : mstate_map[m] \in Nat /\ mstate_map[m] \in DOMAIN disk

CountersTyped ==
  /\ DOMAIN dep_counter \subseteq MstateIds \cup {NoId}
  /\ \A m \in DOMAIN dep_counter : dep_counter[m] \in Nat

ControlTyped ==
  /\ phase \in {"closed", "scanning", "open"}
  /\ op \in Operations /\ OperationHasPath
  /\ pending \in [Clients -> Seq(BlobIds)]
  /\ loads \in Nat

Sorted ==
  FileTyped /\ FilesTyped /\ TagsTyped /\ BlobsTyped /\ MstatesTyped /\ CountersTyped /\ ControlTyped

LEMMA TypedIsSorted == Typed <=> Sorted
BY DEF Typed, TypeOK, OffsetsOnDisk, OperationHasPath, Paths, DiskOK, FileTyped, FilesTyped, TagsTyped,
       BlobsTyped, MstatesTyped, CountersTyped, ControlTyped, Sorted
-----------------------------------------------------------------------------
(* The file *)
LEMMA PutDisk ==
  ASSUME NEW d, DiskOK(d), NEW s \in Nat, NEW seg \in Segments
  PROVE  DiskOK(Put(d, s, seg)) /\ DOMAIN Put(d, s, seg) = DOMAIN d \cup {s}
BY DEF DiskOK, Put

LEMMA MarkDisk ==
  ASSUME NEW d, DiskOK(d), NEW s \in DOMAIN d
  PROVE  DiskOK(MarkEmpty(d, s)) /\ DOMAIN MarkEmpty(d, s) = DOMAIN d
<1>1. DOMAIN MarkEmpty(d, s) = DOMAIN d
  BY DEF MarkEmpty
<1>2. \A t \in DOMAIN d : MarkEmpty(d, s)[t] = IF t = s THEN [d[s] EXCEPT !.kind = "EMPTY"] ELSE d[t]
  BY DEF MarkEmpty
<1>3. [d[s] EXCEPT !.kind = "EMPTY"] \in Segments
  BY DEF DiskOK, Segments, Kinds
<1> QED BY <1>1, <1>2, <1>3 DEF DiskOK

LEMMA RemoveIndexType ==
  ASSUME NEW s \in Seq(Fragments), NEW i \in DOMAIN s
  PROVE  RemoveIndex(s, i) \in Seq(Fragments)
<1>1. Len(s) \in Nat /\ DOMAIN s = 1..Len(s) /\ Len(s) - 1 \in Nat
  OBVIOUS
<1>2. \A j \in 1..(Len(s) - 1) : (IF j < i THEN s[j] ELSE s[j + 1]) \in Fragments
  BY <1>1
<1> QED BY <1>1, <1>2 DEF RemoveIndex

LEMMA ReplaceType ==
  ASSUME NEW s \in Seq(Fragments), NEW i \in DOMAIN s, NEW x \in Fragments
  PROVE  [s EXCEPT ![i] = x] \in Seq(Fragments)
OBVIOUS

\* What hza_alloc_fragment returns is well typed.
LEMMA AllocType ==
  ASSUME TypeOK, NEW len \in Nat
  PROVE  /\ hza_alloc_fragment(len).sof \in Nat
         /\ hza_alloc_fragment(len).eof \in Nat
         /\ hza_alloc_fragment(len).fragments \in Seq(Fragments)
         /\ DiskOK(hza_alloc_fragment(len).disk)
         /\ DOMAIN disk \subseteq DOMAIN hza_alloc_fragment(len).disk
<1>1. eof \in Nat /\ DiskOK(disk) /\ fragments \in Seq(Fragments) /\ HDR \in Nat
  BY DEF TypeOK, DiskOK, HDR
<1>2. CASE BestFit(len) = {}
  BY <1>1, <1>2 DEF hza_alloc_fragment
<1>3. CASE BestFit(len) # {}
  <2> DEFINE i    == CHOOSE i \in BestFit(len) : TRUE
             sof  == fragments[i].sof
             diff == fragments[i].length - len
             next == sof + HDR + len
             rest == Segment("EMPTY", diff - HDR, HZ_ARCHIVE_VERSION, NoPath, <<>>, NoId, NoId)
  <2>1. i \in DOMAIN fragments /\ Usable(i, len)
    BY <1>3 DEF BestFit
  <2>2. fragments[i] \in Fragments
    BY <1>1, <2>1
  <2>3. sof \in Nat /\ next \in Nat
    BY <1>1, <2>2 DEF Fragments
  <2>4. hza_alloc_fragment(len) =
          [sof |-> sof, eof |-> eof,
           fragments |-> IF diff = 0 THEN RemoveIndex(fragments, i)
                         ELSE [fragments EXCEPT ![i] = [sof |-> next, length |-> diff - HDR]],
           disk |-> IF diff = 0 THEN disk ELSE Put(disk, next, rest)]
    BY <1>3 DEF hza_alloc_fragment
  <2> HIDE DEF i
  <2>5. CASE diff = 0
    BY <1>1, <2>1, <2>3, <2>4, <2>5, RemoveIndexType
  <2>6. CASE diff # 0
    <3>1. diff - HDR \in Nat
      BY <2>1, <2>2, <2>6 DEF Usable, Fragments, HDR
    <3>2. [fragments EXCEPT ![i] = [sof |-> next, length |-> diff - HDR]] \in Seq(Fragments)
      <4>1. [sof |-> next, length |-> diff - HDR] \in Fragments
        BY <2>3, <3>1 DEF Fragments
      <4> QED BY <1>1, <2>1, <4>1, ReplaceType
    <3>3. rest \in Segments
      BY <3>1, ConstantsAssumption DEF Segment, Segments, Kinds
    <3>4. DiskOK(Put(disk, next, rest)) /\ DOMAIN Put(disk, next, rest) = DOMAIN disk \cup {next}
      BY <1>1, <2>3, <3>3, PutDisk
    <3> HIDE DEF rest, next, diff, sof
    <3> QED BY <1>1, <2>3, <2>4, <2>6, <3>2, <3>4
  <2> QED BY <2>5, <2>6
<1> QED BY <1>2, <1>3

LEMMA AllocatedType ==
  ASSUME TypeOK, NEW len \in Nat, Allocated(hza_alloc_fragment(len))
  PROVE  fragments' \in Seq(Fragments) /\ eof' \in Nat /\ endAt' \in Nat \cup {NoEnd}
BY AllocType DEF Allocated, TypeOK

LEMMA WriteType ==
  ASSUME TypeOK, NEW seg \in Segments, WriteSegment(seg)
  PROVE  /\ FileTyped'
         /\ DOMAIN disk \subseteq DOMAIN disk'
         /\ hza_alloc_fragment(seg.len).sof \in DOMAIN disk' \cap Nat
<1>1. seg.len \in Nat
  BY DEF Segments
<1>2. Allocated(hza_alloc_fragment(seg.len))
      /\ disk' = Put(hza_alloc_fragment(seg.len).disk, hza_alloc_fragment(seg.len).sof, seg)
  BY DEF WriteSegment
<1>3. fragments' \in Seq(Fragments) /\ eof' \in Nat /\ endAt' \in Nat \cup {NoEnd}
  BY <1>1, <1>2, AllocatedType
<1>4. /\ DiskOK(disk')
      /\ DOMAIN disk' = DOMAIN hza_alloc_fragment(seg.len).disk \cup {hza_alloc_fragment(seg.len).sof}
  BY <1>1, <1>2, AllocType, PutDisk
<1> QED BY <1>1, <1>3, <1>4, AllocType DEF FileTyped, DiskOK

-----------------------------------------------------------------------------
(* The tables *)

\* A table that does not change keeps its type when the file only gains
\* segments.
LEMMA TablesKept ==
  ASSUME Sorted, DOMAIN disk \subseteq DOMAIN disk'
  PROVE  /\ UNCHANGED file_map => FilesTyped'
         /\ UNCHANGED <<mstate_aux_map, mstate_inv_aux_map>> => TagsTyped'
         /\ UNCHANGED blob_map => BlobsTyped'
         /\ UNCHANGED mstate_map => MstatesTyped'
         /\ UNCHANGED dep_counter => CountersTyped'
BY DEF Sorted, FilesTyped, TagsTyped, BlobsTyped, MstatesTyped, CountersTyped

LEMMA IdleType ==
  /\ Idle \in Operations /\ Dead \in Operations
  /\ Idle.kind = "none" /\ Dead.kind = "dead"
<1>1. <<>> \in Seq(BlobIds)
  OBVIOUS
<1> QED BY <1>1 DEF Idle, Dead, Operation, Operations

\* Control that does not change.
LEMMA ControlKept ==
  ASSUME Sorted, UNCHANGED <<phase, loads, pending>>, op' \in {op, Idle, Dead}
  PROVE  ControlTyped'
BY IdleType DEF Sorted, ControlTyped, OperationHasPath

LEMMA IncrementType ==
  ASSUME Sorted, NEW m \in MstateIds \cup {NoId}, dep_counter' = hza_increment_dep(m)
  PROVE  CountersTyped'
BY DEF Sorted, CountersTyped, hza_increment_dep, Put

LEMMA DecrementType ==
  ASSUME Sorted, NEW m, dep_counter' = hza_decrement_dep(m)
  PROVE  CountersTyped'
<1>1. CASE m \notin DOMAIN dep_counter
  BY <1>1 DEF Sorted, CountersTyped, hza_decrement_dep
<1>2. CASE m \in DOMAIN dep_counter /\ dep_counter[m] > 1
  BY <1>2 DEF Sorted, CountersTyped, hza_decrement_dep
<1>3. CASE m \in DOMAIN dep_counter /\ ~(dep_counter[m] > 1)
  BY <1>3 DEF Sorted, CountersTyped, hza_decrement_dep, Drop
<1> QED BY <1>1, <1>2, <1>3

\* hza_write_mstate
LEMMA WriteMstateType ==
  ASSUME Sorted, NEW m \in MstateIds, NEW size \in MstateSizes, hza_write_mstate(m, size)
  PROVE  FileTyped' /\ MstatesTyped' /\ DOMAIN disk \subseteq DOMAIN disk'
<1>1. size \in Nat /\ MstateSegment(m, size) \in Segments
  BY ConstantsAssumption DEF MstateSegment, Segment, Segments, Kinds
<1>2. MstateSegment(m, size).len = 192 + 8 * size
  BY DEF MstateSegment, Segment
<1>3. WriteSegment(MstateSegment(m, size))
  BY DEF hza_write_mstate
<1>4. TypeOK
  BY TypedIsSorted DEF Typed
<1>5. /\ FileTyped' /\ DOMAIN disk \subseteq DOMAIN disk'
      /\ hza_alloc_fragment(192 + 8 * size).sof \in DOMAIN disk' \cap Nat
  BY <1>1, <1>2, <1>3, <1>4, WriteType
<1>6. mstate_map' = Put(mstate_map, m, hza_alloc_fragment(192 + 8 * size).sof)
  BY DEF hza_write_mstate
<1>7. MstatesTyped'
  BY <1>5, <1>6 DEF Sorted, MstatesTyped, Put
<1> QED BY <1>5, <1>7

\* hza_write_blob
LEMMA WriteBlobType ==
  ASSUME Sorted, NEW b \in BlobIds, NEW m \in MstateIds, NEW size \in BlobSizes, hza_write_blob(b, m, size)
  PROVE  FileTyped' /\ BlobsTyped' /\ MstatesTyped' /\ CountersTyped' /\ DOMAIN disk \subseteq DOMAIN disk'
<1>1. size \in Nat /\ BlobSegment(b, m, size) \in Segments
  BY ConstantsAssumption DEF BlobSegment, Segment, Segments, Kinds
<1>2. BlobSegment(b, m, size).len = 320 + 8 * size
  BY DEF BlobSegment, Segment
<1>3. WriteSegment(BlobSegment(b, m, size)) /\ UNCHANGED mstate_map /\ dep_counter' = hza_increment_dep(m)
  BY DEF hza_write_blob
<1>4. TypeOK
  BY TypedIsSorted DEF Typed
<1>5. /\ FileTyped' /\ DOMAIN disk \subseteq DOMAIN disk'
      /\ hza_alloc_fragment(320 + 8 * size).sof \in DOMAIN disk' \cap Nat
  BY <1>1, <1>2, <1>3, <1>4, WriteType
<1>6. blob_map' = Put(blob_map, b, hza_alloc_fragment(320 + 8 * size).sof)
  BY DEF hza_write_blob
<1>7. BlobsTyped'
  BY <1>5, <1>6 DEF Sorted, BlobsTyped, Put
<1> QED BY <1>3, <1>5, <1>7, IncrementType, TablesKept

\* Freeing a segment: the file keeps its offsets and the free list grows.
LEMMA FreeType ==
  ASSUME NEW d, DiskOK(d), DOMAIN d = DOMAIN disk, DiskOK(disk), NEW s \in DOMAIN disk,
         NEW fs \in Seq(Fragments)
  PROVE  /\ DiskOK(MarkEmpty(d, s)) /\ DOMAIN MarkEmpty(d, s) = DOMAIN disk
         /\ Append(fs, FragmentAt(s)) \in Seq(Fragments)
<1>1. FragmentAt(s) \in Fragments
  BY DEF FragmentAt, Fragments, DiskOK, Segments
<1> QED BY <1>1, MarkDisk

LEMMA RmMstateType ==
  ASSUME Sorted, NEW m, NEW d, DiskOK(d), DOMAIN d = DOMAIN disk, NEW fs \in Seq(Fragments)
  PROVE  /\ DiskOK(RmMstateDisk(d, m)) /\ DOMAIN RmMstateDisk(d, m) = DOMAIN disk
         /\ RmMstateFragments(fs, m) \in Seq(Fragments)
BY FreeType DEF RmMstateDisk, RmMstateFragments, Sorted, FileTyped, MstatesTyped

\* hza_rm_blob
LEMMA RmBlobType ==
  ASSUME Sorted, NEW b \in DOMAIN blob_map, hza_rm_blob(b), UNCHANGED <<endAt, eof>>
  PROVE  FileTyped' /\ BlobsTyped' /\ MstatesTyped' /\ CountersTyped' /\ DOMAIN disk' = DOMAIN disk
<1> DEFINE sof == blob_map[b]
           m   == disk[sof].mstate
           d   == MarkEmpty(disk, sof)
           fs  == Append(fragments, FragmentAt(sof))
<1>1. sof \in DOMAIN disk /\ DiskOK(disk) /\ fragments \in Seq(Fragments)
  BY DEF Sorted, BlobsTyped, FileTyped
<1>2. DiskOK(d) /\ DOMAIN d = DOMAIN disk /\ fs \in Seq(Fragments)
  BY <1>1, FreeType
<1>3. /\ disk' = IF DropsMstate(m) THEN RmMstateDisk(d, m) ELSE d
      /\ fragments' = IF DropsMstate(m) THEN RmMstateFragments(fs, m) ELSE fs
      /\ mstate_map' = IF DropsMstate(m) THEN Drop(mstate_map, m) ELSE mstate_map
      /\ dep_counter' = hza_decrement_dep(m)
      /\ blob_map' = Drop(blob_map, b)
  BY DEF hza_rm_blob
<1> HIDE DEF sof, m, d, fs
<1>4. DiskOK(disk') /\ DOMAIN disk' = DOMAIN disk /\ fragments' \in Seq(Fragments)
  BY <1>2, <1>3, RmMstateType
<1>5. FileTyped'
  BY <1>4 DEF FileTyped, Sorted
<1>6. BlobsTyped' /\ MstatesTyped'
  BY <1>3, <1>4 DEF BlobsTyped, MstatesTyped, Sorted, Drop
<1>7. CountersTyped'
  BY <1>3, DecrementType
<1> QED BY <1>4, <1>5, <1>6, <1>7

\* hza_create_metadata_file_entry
LEMMA CreateEntryType ==
  ASSUME Sorted, NEW p \in FilePaths \cup TagPaths, NEW bs \in Seq(BlobIds), NEW done,
         hza_create_metadata_file_entry(p, bs, done)
  PROVE  FileTyped' /\ FilesTyped' /\ DOMAIN disk \subseteq DOMAIN disk' /\ op' \in {done, Dead}
<1> DEFINE seg == FileSegment(p, bs)
           a   == hza_alloc_fragment(seg.len)
<1>1. seg \in Segments /\ seg.len \in Nat
  <2>1. Len(bs) \in Nat /\ PathLength[p] \in Nat /\ HZ_ARCHIVE_VERSION \in Versions
    BY ConstantsAssumption
  <2> QED BY <2>1 DEF FileSegment, Segment, Segments, Kinds
<1>2. TypeOK
  BY TypedIsSorted DEF Typed
<1>3. CASE WriteSegment(seg) /\ file_map' = Put(file_map, p, [blobs |-> bs, sof |-> a.sof]) /\ op' = done
  <2>1. FileTyped' /\ DOMAIN disk \subseteq DOMAIN disk' /\ a.sof \in DOMAIN disk' \cap Nat
    BY <1>1, <1>2, <1>3, WriteType
  <2> HIDE DEF seg, a
  <2>2. FilesTyped'
    BY <1>3, <2>1 DEF Sorted, FilesTyped, Put, Paths
  <2> QED BY <1>3, <2>1, <2>2
<1>4. CASE Allocated(a) /\ disk' = a.disk /\ op' = Dead /\ UNCHANGED file_map
  <2>1. fragments' \in Seq(Fragments) /\ eof' \in Nat /\ endAt' \in Nat \cup {NoEnd}
    BY <1>1, <1>2, <1>4, AllocatedType
  <2>2. DiskOK(disk') /\ DOMAIN disk \subseteq DOMAIN disk'
    BY <1>1, <1>2, <1>4, AllocType
  <2> QED BY <1>4, <2>1, <2>2, TablesKept DEF FileTyped
<1> QED BY <1>3, <1>4 DEF hza_create_metadata_file_entry

-----------------------------------------------------------------------------
(* The operations, one lemma each *)
LEMMA WriteBlobTyped ==
  ASSUME Sorted, NEW c \in Clients, NEW b \in BlobIds, NEW m \in MstateIds, NEW size \in BlobSizes,
         WriteBlob(c, b, m, size)
  PROVE  Sorted'
<1>1. FileTyped' /\ BlobsTyped' /\ MstatesTyped' /\ CountersTyped' /\ DOMAIN disk \subseteq DOMAIN disk'
  BY WriteBlobType DEF WriteBlob
<1>2. FilesTyped' /\ TagsTyped'
  BY <1>1, TablesKept DEF WriteBlob, maps
<1>3. pending' \in [Clients -> Seq(BlobIds)]
  BY DEF WriteBlob, Sorted, ControlTyped
<1>4. ControlTyped'
  BY <1>3 DEF WriteBlob, Sorted, ControlTyped, OperationHasPath
<1> QED BY <1>1, <1>2, <1>4 DEF Sorted

LEMMA CreateFileEntryTyped ==
  ASSUME Sorted, NEW c \in Clients, NEW p \in FilePaths, CreateFileEntry(c, p)
  PROVE  Sorted'
<1>1. pending[c] \in Seq(BlobIds)
  BY DEF Sorted, ControlTyped
<1>2. FileTyped' /\ FilesTyped' /\ DOMAIN disk \subseteq DOMAIN disk' /\ op' \in {Idle, Dead}
  BY <1>1, CreateEntryType DEF CreateFileEntry
<1>3. TagsTyped' /\ BlobsTyped' /\ MstatesTyped' /\ CountersTyped'
  BY <1>2, TablesKept DEF CreateFileEntry, ids
<1>4. pending' \in [Clients -> Seq(BlobIds)]
  <2>1. <<>> \in Seq(BlobIds)
    OBVIOUS
  <2> QED BY <2>1 DEF CreateFileEntry, Sorted, ControlTyped
<1>5. ControlTyped'
  BY <1>2, <1>4, IdleType DEF CreateFileEntry, Sorted, ControlTyped, OperationHasPath
<1> QED BY <1>2, <1>3, <1>5 DEF Sorted

LEMMA AbandonTyped ==
  ASSUME Sorted, NEW c \in Clients, Abandon(c)
  PROVE  Sorted'
<1>1. pending' \in [Clients -> Seq(BlobIds)]
  <2>1. <<>> \in Seq(BlobIds)
    OBVIOUS
  <2> QED BY <2>1 DEF Abandon, Sorted, ControlTyped
<1>2. ControlTyped' /\ FileTyped'
  BY <1>1 DEF Abandon, Sorted, ControlTyped, OperationHasPath, FileTyped, file
<1> QED BY <1>2, TablesKept DEF Abandon, file, maps, ids, Sorted

LEMMA CreateFileTyped ==
  ASSUME Sorted, NEW p \in FilePaths, NEW n \in 0..MaxBlobs, CreateFile(p, n)
  PROVE  Sorted'
<1>1. n \in Nat /\ <<>> \in Seq(BlobIds)
  BY ConstantsAssumption
<1>2. ControlTyped'
  BY <1>1 DEF CreateFile, Sorted, ControlTyped, OperationHasPath, Operation, Operations
<1>3. FileTyped'
  BY DEF CreateFile, Sorted, FileTyped, file
<1> QED BY <1>2, <1>3, TablesKept DEF CreateFile, file, maps, ids, Sorted

LEMMA CreateFileBlobTyped ==
  ASSUME Sorted, NEW b \in BlobIds, NEW m \in MstateIds, NEW size \in BlobSizes, CreateFileBlob(b, m, size)
  PROVE  Sorted'
<1>1. CASE hza_write_blob(b, m, size) /\ op' = [op EXCEPT !.left = @ - 1, !.blobs = Append(@, b)]
  <2>1. FileTyped' /\ BlobsTyped' /\ MstatesTyped' /\ CountersTyped' /\ DOMAIN disk \subseteq DOMAIN disk'
    BY <1>1, WriteBlobType
  <2>2. FilesTyped' /\ TagsTyped'
    BY <2>1, TablesKept DEF CreateFileBlob, maps
  <2>3. Append(op.blobs, b) \in Seq(BlobIds) /\ op.left - 1 \in Nat
    BY DEF CreateFileBlob, Sorted, ControlTyped, Operations
  <2>4. op' \in Operations /\ op'.kind = op.kind /\ op'.path = op.path
    BY <1>1, <2>3 DEF Sorted, ControlTyped, Operations
  <2>5. ControlTyped'
    BY <2>4 DEF CreateFileBlob, Sorted, ControlTyped, OperationHasPath
  <2> QED BY <2>1, <2>2, <2>5 DEF Sorted
<1>2. CASE op' = Idle /\ UNCHANGED <<file, eof, ids, fragments>>
  <2>1. ControlTyped'
    BY <1>2, ControlKept DEF CreateFileBlob
  <2>2. FileTyped'
    BY <1>2 DEF Sorted, FileTyped, file
  <2> QED BY <1>2, <2>1, <2>2, TablesKept DEF CreateFileBlob, file, maps, ids, Sorted
<1> QED BY <1>1, <1>2 DEF CreateFileBlob

LEMMA CreateFileFinishTyped ==
  ASSUME Sorted, CreateFileFinish
  PROVE  Sorted'
<1>1. op.blobs \in Seq(BlobIds) /\ op.path \in FilePaths \cup TagPaths
  BY DEF CreateFileFinish, Sorted, ControlTyped, OperationHasPath, Operations
<1>2. FileTyped' /\ FilesTyped' /\ DOMAIN disk \subseteq DOMAIN disk' /\ op' \in {Idle, Dead}
  BY <1>1, CreateEntryType DEF CreateFileFinish
<1>3. TagsTyped' /\ BlobsTyped' /\ MstatesTyped' /\ CountersTyped'
  BY <1>2, TablesKept DEF CreateFileFinish, ids
<1>4. ControlTyped'
  BY <1>2, ControlKept DEF CreateFileFinish
<1> QED BY <1>2, <1>3, <1>4 DEF Sorted

LEMMA RemoveFileTyped ==
  ASSUME Sorted, NEW p \in FilePaths, RemoveFile(p)
  PROVE  Sorted'
<1>1. file_map[p].sof \in DOMAIN disk /\ file_map[p].blobs \in Seq(BlobIds) /\ DiskOK(disk)
      /\ fragments \in Seq(Fragments)
  BY DEF RemoveFile, Sorted, FilesTyped, FileTyped
<1>2. DiskOK(disk') /\ DOMAIN disk' = DOMAIN disk /\ fragments' \in Seq(Fragments)
  BY <1>1, FreeType DEF RemoveFile
<1>3. FileTyped'
  BY <1>2 DEF RemoveFile, Sorted, FileTyped
<1>4. ControlTyped'
  BY <1>1 DEF RemoveFile, Sorted, ControlTyped, OperationHasPath, Operation, Operations
<1> QED BY <1>2, <1>3, <1>4, TablesKept DEF RemoveFile, maps, ids, Sorted

LEMMA RemoveFileBlobTyped ==
  ASSUME Sorted, RemoveFileBlob
  PROVE  Sorted'
<1>1. UNCHANGED <<phase, endAt, eof, file_map, mstate_aux_map, mstate_inv_aux_map, pending, loads>>
  BY DEF RemoveFileBlob, maps
<1>2. CASE /\ Head(op.blobs) \in DOMAIN blob_map /\ hza_rm_blob(Head(op.blobs))
           /\ op' = [op EXCEPT !.blobs = Tail(@)]
  <2>1. FileTyped' /\ BlobsTyped' /\ MstatesTyped' /\ CountersTyped' /\ DOMAIN disk' = DOMAIN disk
    BY <1>1, <1>2, RmBlobType
  <2>2. Tail(op.blobs) \in Seq(BlobIds)
    BY DEF RemoveFileBlob, Sorted, ControlTyped, Operations
  <2>3. op' \in Operations /\ op'.kind = op.kind /\ op'.path = op.path
    BY <1>2, <2>2 DEF Sorted, ControlTyped, Operations
  <2>4. ControlTyped'
    BY <1>1, <2>3 DEF Sorted, ControlTyped, OperationHasPath
  <2> QED BY <1>1, <2>1, <2>4, TablesKept DEF Sorted
<1>3. CASE op' = Idle /\ UNCHANGED <<disk, ids, fragments>>
  <2>1. ControlTyped'
    BY <1>1, <1>3, ControlKept
  <2>2. FileTyped'
    BY <1>1, <1>3 DEF Sorted, FileTyped
  <2> QED BY <1>1, <1>3, <2>1, <2>2, TablesKept DEF ids, Sorted
<1> QED BY <1>2, <1>3 DEF RemoveFileBlob

LEMMA RemoveFileFinishTyped ==
  ASSUME Sorted, RemoveFileFinish
  PROVE  Sorted'
<1>1. ControlTyped'
  BY ControlKept DEF RemoveFileFinish
<1>2. FileTyped' /\ FilesTyped'
  BY DEF RemoveFileFinish, Sorted, FileTyped, FilesTyped, Drop, file
<1> QED BY <1>1, <1>2, TablesKept DEF RemoveFileFinish, file, ids, Sorted

LEMMA InstallMstateTyped ==
  ASSUME Sorted, NEW p \in TagPaths, NEW m \in MstateIds, NEW size \in MstateSizes, InstallMstate(p, m, size)
  PROVE  Sorted'
<1>1. FileTyped' /\ MstatesTyped' /\ DOMAIN disk \subseteq DOMAIN disk'
  BY WriteMstateType DEF InstallMstate
<1>2. ControlTyped'
  <2>1. <<>> \in Seq(BlobIds)
    OBVIOUS
  <2> QED BY <2>1 DEF InstallMstate, Sorted, ControlTyped, OperationHasPath, Operation, Operations
<1> QED BY <1>1, <1>2, TablesKept DEF InstallMstate, maps, Sorted

LEMMA InstallMstateTagTyped ==
  ASSUME Sorted, InstallMstateTag
  PROVE  Sorted'
<1> DEFINE seg == AuxSegment(op.path, op.mstate)
           a   == hza_alloc_fragment(seg.len)
<1>1. op.path \in FilePaths \cup TagPaths /\ op.mstate \in MstateIds \cup {NoId}
  BY DEF InstallMstateTag, Sorted, ControlTyped, OperationHasPath, Operations
<1>2. seg \in Segments /\ seg.len \in Nat
  <2>1. PathLength[op.path] \in Nat /\ HZ_ARCHIVE_VERSION \in Versions /\ <<>> \in Seq(BlobIds)
    BY <1>1, ConstantsAssumption
  <2> QED BY <1>1, <2>1 DEF AuxSegment, Segment, Segments, Kinds
<1>3. TypeOK
  BY TypedIsSorted DEF Typed
<1>4. UNCHANGED <<phase, file_map, blob_map, mstate_map, dep_counter, pending, loads>>
  BY DEF InstallMstateTag, ids
<1>5. CASE /\ WriteSegment(seg)
           /\ mstate_aux_map' = Put(mstate_aux_map, op.path, [mstate |-> op.mstate, sof |-> a.sof])
           /\ mstate_inv_aux_map' = mstate_inv_aux_map \cup {op.mstate}
           /\ op' = Idle
  <2>1. FileTyped' /\ DOMAIN disk \subseteq DOMAIN disk' /\ a.sof \in DOMAIN disk' \cap Nat
    BY <1>2, <1>3, <1>5, WriteType
  <2> HIDE DEF seg, a
  <2>2. TagsTyped'
    BY <1>1, <1>5, <2>1 DEF Sorted, TagsTyped, Put, Paths
  <2>3. ControlTyped'
    BY <1>4, <1>5, ControlKept
  <2> QED BY <1>4, <2>1, <2>2, <2>3, TablesKept DEF Sorted
<1>6. CASE Allocated(a) /\ disk' = a.disk /\ op' = Dead /\ UNCHANGED <<mstate_aux_map, mstate_inv_aux_map>>
  <2>1. fragments' \in Seq(Fragments) /\ eof' \in Nat /\ endAt' \in Nat \cup {NoEnd}
    BY <1>2, <1>3, <1>6, AllocatedType
  <2>2. DiskOK(disk') /\ DOMAIN disk \subseteq DOMAIN disk'
    BY <1>2, <1>3, <1>6, AllocType
  <2>3. ControlTyped'
    BY <1>4, <1>6, ControlKept
  <2>4. FileTyped'
    BY <2>1, <2>2 DEF FileTyped
  <2> QED BY <1>4, <1>6, <2>2, <2>3, <2>4, TablesKept DEF Sorted
<1> QED BY <1>5, <1>6 DEF InstallMstateTag

LEMMA InstallUntaggedTyped ==
  ASSUME Sorted, NEW m \in MstateIds, NEW size \in MstateSizes, InstallUntagged(m, size)
  PROVE  Sorted'
<1>1. FileTyped' /\ MstatesTyped' /\ DOMAIN disk \subseteq DOMAIN disk'
  BY WriteMstateType DEF InstallUntagged
<1>2. ControlTyped'
  BY ControlKept DEF InstallUntagged
<1> QED BY <1>1, <1>2, TablesKept DEF InstallUntagged, maps, Sorted

LEMMA UninstallTagTyped ==
  ASSUME Sorted, NEW p \in TagPaths, UninstallTag(p)
  PROVE  Sorted'
<1> DEFINE m   == mstate_aux_map[p].mstate
           sof == mstate_aux_map[p].sof
<1>1. sof \in DOMAIN disk /\ DiskOK(disk) /\ fragments \in Seq(Fragments)
  BY DEF UninstallTag, Sorted, TagsTyped, FileTyped
<1>2. /\ disk' = MarkEmpty(RmMstateDisk(disk, m), sof)
      /\ fragments' = Append(RmMstateFragments(fragments, m), FragmentAt(sof))
      /\ mstate_map' = Drop(mstate_map, m)
      /\ mstate_inv_aux_map' = mstate_inv_aux_map \ {m}
      /\ mstate_aux_map' = Drop(mstate_aux_map, p)
      /\ UNCHANGED <<phase, op, endAt, eof, file_map, blob_map, dep_counter, pending, loads>>
  BY DEF UninstallTag
<1> HIDE DEF m, sof
<1>3. /\ DiskOK(RmMstateDisk(disk, m)) /\ DOMAIN RmMstateDisk(disk, m) = DOMAIN disk
      /\ RmMstateFragments(fragments, m) \in Seq(Fragments)
  BY <1>1, RmMstateType
<1>4. DiskOK(disk') /\ DOMAIN disk' = DOMAIN disk /\ fragments' \in Seq(Fragments)
  BY <1>1, <1>2, <1>3, FreeType
<1>5. FileTyped'
  BY <1>2, <1>4 DEF Sorted, FileTyped
<1>6. TagsTyped' /\ MstatesTyped'
  BY <1>2, <1>4 DEF Sorted, TagsTyped, MstatesTyped, Drop
<1>7. ControlTyped'
  BY <1>2, ControlKept
<1> QED BY <1>2, <1>4, <1>5, <1>6, <1>7, TablesKept DEF Sorted

LEMMA UninstallIdTyped ==
  ASSUME Sorted, NEW m \in MstateIds, UninstallId(m)
  PROVE  Sorted'
<1>1. DiskOK(disk) /\ fragments \in Seq(Fragments)
  BY DEF Sorted, FileTyped
<1>2. DiskOK(disk') /\ DOMAIN disk' = DOMAIN disk /\ fragments' \in Seq(Fragments)
  BY <1>1, RmMstateType DEF UninstallId
<1>3. FileTyped' /\ MstatesTyped'
  BY <1>2 DEF UninstallId, Sorted, FileTyped, MstatesTyped, Drop
<1>4. ControlTyped'
  BY ControlKept DEF UninstallId
<1> QED BY <1>2, <1>3, <1>4, TablesKept DEF UninstallId, maps, Sorted

\* An exception with the mutex held, and close().
LEMMA ThrowOrCloseTyped ==
  ASSUME Sorted, (\E f, p : LookupThrows(f, p)) \/ Close
  PROVE  Sorted'
<1>1. UNCHANGED <<disk, eof, fragments, file_map, mstate_aux_map, mstate_inv_aux_map, blob_map, mstate_map,
                  dep_counter, pending, loads>>
  BY DEF LookupThrows, Close, file, maps, ids
<1>2. FileTyped'
  BY <1>1 DEF LookupThrows, Close, file, Sorted, FileTyped
<1>3. ControlTyped'
  BY IdleType DEF LookupThrows, Close, Sorted, ControlTyped, OperationHasPath
<1> QED BY <1>1, <1>2, <1>3, TablesKept DEF Sorted

LEMMA LoadTyped ==
  ASSUME Sorted, Load
  PROVE  Sorted'
<1>1. DOMAIN EmptyMap = {} /\ <<>> \in Seq(Fragments) /\ <<>> \in Seq(BlobIds)
  BY DEF EmptyMap
<1>2. FileTyped' /\ FilesTyped' /\ TagsTyped' /\ BlobsTyped' /\ MstatesTyped' /\ CountersTyped'
  BY <1>1 DEF Load, Sorted, file, FileTyped, FilesTyped, TagsTyped, BlobsTyped, MstatesTyped, CountersTyped
<1>3. ControlTyped'
  BY <1>1 DEF Load, Sorted, ControlTyped, OperationHasPath
<1> QED BY <1>2, <1>3 DEF Sorted

\* Every case of hza_scan.
LEMMA ScanTyped ==
  ASSUME Sorted, Scan
  PROVE  Sorted'
<1>1. CASE ScanEnd
  BY <1>1, TablesKept DEF ScanEnd, Sorted, FileTyped, ControlTyped, OperationHasPath, file, maps, ids
<1>2. CASE Scan /\ ~ScanEnd
  <2>1. /\ eof \in DOMAIN disk /\ disk[eof] \in Segments /\ eof \in Nat
        /\ Advance
    BY <1>2 DEF Scan, ScanVersion, ScanFile, ScanTag, ScanBlob, ScanMstate, ScanFragment, Scanning,
                Sorted, FileTyped, DiskOK
  <2>2. disk[eof].len \in Nat /\ EndOf(eof) \in Nat /\ FragmentAt(eof) \in Fragments
    BY <2>1 DEF Segments, EndOf, HDR, FragmentAt, Fragments
  <2>3. /\ eof' = EndOf(eof)
        /\ UNCHANGED <<phase, disk, endAt, mstate_inv_aux_map, dep_counter, pending, loads>>
    BY <2>1 DEF Advance, file
  <2>4. op' \in {op, Dead}
    BY <1>2 DEF Scan, ScanVersion, ScanFile, ScanTag, ScanBlob, ScanMstate, ScanFragment
  <2>5. ControlTyped' /\ CountersTyped'
    BY <2>3, <2>4, ControlKept, TablesKept
  <2>6. fragments' \in {fragments, Append(fragments, FragmentAt(eof))}
    BY <1>2 DEF Scan, ScanVersion, ScanFile, ScanTag, ScanBlob, ScanMstate, ScanFragment
  <2>7. fragments' \in Seq(Fragments)
    BY <2>2, <2>6 DEF Sorted, FileTyped
  <2>8. FileTyped'
    BY <2>2, <2>3, <2>7 DEF Sorted, FileTyped
  <2>9. /\ file_map' \in {file_map, Put(file_map, disk[eof].path, [blobs |-> disk[eof].blobs, sof |-> eof])}
        /\ mstate_aux_map' \in {mstate_aux_map,
                                 Put(mstate_aux_map, disk[eof].path, [mstate |-> disk[eof].mstate, sof |-> eof])}
        /\ blob_map' \in {blob_map, Put(blob_map, disk[eof].blob, eof)}
        /\ mstate_map' \in {mstate_map, Put(mstate_map, disk[eof].mstate, eof)}
    BY <1>2 DEF Scan, ScanVersion, ScanFile, ScanTag, ScanBlob, ScanMstate, ScanFragment
  <2>10. FilesTyped'
    BY <2>1, <2>3, <2>9 DEF Sorted, FilesTyped, Put, Paths, Segments
  <2>11. TagsTyped'
    BY <2>1, <2>3, <2>9 DEF Sorted, TagsTyped, Put, Paths, Segments
  <2>12. BlobsTyped' /\ MstatesTyped'
    BY <2>1, <2>3, <2>9 DEF Sorted, BlobsTyped, MstatesTyped, Put, Segments
  <2> QED BY <2>5, <2>8, <2>10, <2>11, <2>12 DEF Sorted
<1> QED BY <1>1, <1>2
-----------------------------------------------------------------------------
LEMMA InitTyped == Init => Sorted
<1> SUFFICES ASSUME Init PROVE Sorted
  OBVIOUS
<1>1. DOMAIN EmptyMap = {} /\ <<>> \in Seq(Fragments) /\ <<>> \in Seq(BlobIds) /\ 0 \in Nat /\ HDR + 32 \in Nat
  BY DEF EmptyMap, HDR
<1>2. PICK v \in Versions : disk = Put(EmptyMap, 0, VersionSegment(v))
  BY DEF Init
<1>3. VersionSegment(v) \in Segments
  BY <1>1 DEF VersionSegment, Segment, Segments, Kinds
<1>4. DiskOK(disk)
  BY <1>1, <1>2, <1>3 DEF DiskOK, Put
<1>5. FileTyped /\ FilesTyped /\ TagsTyped /\ BlobsTyped /\ MstatesTyped /\ CountersTyped
  BY <1>1, <1>4 DEF Init, FileTyped, FilesTyped, TagsTyped, BlobsTyped, MstatesTyped, CountersTyped
<1>6. ControlTyped
  BY <1>1, IdleType DEF Init, ControlTyped, OperationHasPath
<1> QED BY <1>5, <1>6 DEF Sorted

LEMMA NextTyped == Sorted /\ [Next]_vars => Sorted'
<1> SUFFICES ASSUME Sorted, [Next]_vars PROVE Sorted'
  OBVIOUS
<1>1. CASE UNCHANGED vars
  <2>1. FileTyped' /\ ControlTyped'
    BY <1>1 DEF vars, Sorted, FileTyped, ControlTyped, OperationHasPath
  <2> QED BY <1>1, <2>1, TablesKept DEF vars, Sorted
<1>2. CASE Progress
  BY <1>2, CreateFileBlobTyped, CreateFileFinishTyped, RemoveFileBlobTyped, RemoveFileFinishTyped,
     InstallMstateTagTyped, ScanTyped DEF Progress
<1>3. CASE ServerRequest
  BY <1>3, WriteBlobTyped, CreateFileEntryTyped, AbandonTyped, RemoveFileTyped, InstallMstateTyped,
     InstallUntaggedTyped, UninstallTagTyped, ThrowOrCloseTyped, LoadTyped DEF ServerRequest
<1>4. CASE LibraryRequest
  BY <1>4, CreateFileTyped, UninstallIdTyped DEF LibraryRequest
<1> QED BY <1>1, <1>2, <1>3, <1>4 DEF Next

\* Whatever the paths, ids and sizes, and across any number of loads, the file
\* holds well-formed segments and the tables of HZ_ArchiveMetadata hold offsets,
\* ids and lengths of the right kind; in particular no block length that the
\* splitting of a fragment computes is negative.
THEOREM TypeCorrect == Spec => []TypeOK
<1>1. Sorted => TypeOK
  BY TypedIsSorted DEF Typed
<1> QED BY <1>1, InitTyped, NextTyped, PTL DEF Spec

\* An offset that HZ_Archive keeps for a file, a tag, a blob or an mstate is
\* always the offset of a segment of the file, so freeing it reads a length.
THEOREM OffsetsAreSegments == Spec => []OffsetsOnDisk
<1>1. Sorted => OffsetsOnDisk
  BY TypedIsSorted DEF Typed
<1> QED BY <1>1, InitTyped, NextTyped, PTL DEF Spec

-----------------------------------------------------------------------------
(* The file and its tables: the segments of an archive tile its file, the  *)
(* tables in memory and the free list describe exactly those segments, a   *)
(* blob has one owner, and no step overwrites data in use.  None of this   *)
(* is inductive alone: a write goes where the free list says, the free     *)
(* list grows by what the tables say, and a removal stays in step with the *)
(* tables only because its blobs are still there.                          *)

(* What the invariants say of a file d that ends at end, and a free list.  *)
Live(d) == {s \in DOMAIN d : d[s].kind # "EMPTY"}

After(d, s) == s + HDR + d[s].len

Tiled(d, end) ==
  /\ 0 \in DOMAIN d
  /\ \A s \in DOMAIN d : After(d, s) \in DOMAIN d \cup {end} /\ After(d, s) <= end
  /\ \A s, t \in DOMAIN d : s < t => After(d, s) <= t

FreeList(d, fs) ==
  /\ \A i \in DOMAIN fs :
       /\ fs[i].sof \in DOMAIN d /\ d[fs[i].sof].kind = "EMPTY"
       /\ fs[i].length = d[fs[i].sof].len
  /\ \A i, j \in DOMAIN fs : fs[i].sof = fs[j].sof => i = j
  /\ \A s \in DOMAIN d : d[s].kind = "EMPTY" => \E i \in DOMAIN fs : fs[i].sof = s

(* What a step does to the segments in use. *)
SameLive(d, e) == Live(e) = Live(d) /\ \A t \in Live(d) : e[t] = d[t]

\* seg is written at s, where nothing was in use.
Written(d, e, s, seg) ==
  /\ Live(e) = Live(d) \cup {s} /\ s \notin Live(d)
  /\ e[s] = seg
  /\ \A t \in Live(d) : e[t] = d[t]

\* The segments at S are freed.
Freed(d, e, S) ==
  /\ DOMAIN e = DOMAIN d /\ S \subseteq Live(d)
  /\ \A t \in S : e[t] = [d[t] EXCEPT !.kind = "EMPTY"]
  /\ \A t \in DOMAIN d \ S : e[t] = d[t]
-----------------------------------------------------------------------------
(* Tilings *)
LEMMA TiledBelowEnd ==
  ASSUME NEW d, NEW end \in Nat, DiskOK(d), Tiled(d, end), NEW s \in DOMAIN d
  PROVE  s \in Nat /\ d[s].len \in Nat /\ s < After(d, s) /\ s < end
BY DEF DiskOK, Segments, Tiled, After, HDR

\* Only lengths matter.
LEMMA TiledSameLengths ==
  ASSUME NEW d, NEW e, NEW end, Tiled(d, end), DOMAIN e = DOMAIN d,
         \A s \in DOMAIN d : e[s].len = d[s].len
  PROVE  Tiled(e, end)
BY DEF Tiled, After

LEMMA TiledAppend ==
  ASSUME NEW d, NEW end \in Nat, DiskOK(d), Tiled(d, end), NEW seg \in Segments
  PROVE  end \notin DOMAIN d /\ Tiled(Put(d, end, seg), end + HDR + seg.len)
<1> DEFINE e == Put(d, end, seg)
           new == end + HDR + seg.len
<1>1. \A s \in DOMAIN d : s \in Nat /\ s < end /\ After(d, s) \in Nat
  BY TiledBelowEnd DEF Tiled, After, HDR
<1>2. end \notin DOMAIN d
  BY <1>1
<1>3. new \in Nat /\ end < new
  BY DEF Segments, HDR
<1>4. /\ DOMAIN e = DOMAIN d \cup {end}
      /\ \A s \in DOMAIN d : After(e, s) = After(d, s)
      /\ After(e, end) = new
  BY <1>2 DEF Put, After
<1> HIDE DEF e, new
<1>5. \A s \in DOMAIN e : After(e, s) \in DOMAIN e \cup {new} /\ After(e, s) <= new
  BY <1>1, <1>3, <1>4 DEF Tiled
<1>6. \A s, t \in DOMAIN e : s < t => After(e, s) <= t
  BY <1>1, <1>3, <1>4 DEF Tiled
<1>7. 0 \in DOMAIN e
  BY <1>4 DEF Tiled
<1>8. Tiled(e, new)
  BY <1>5, <1>6, <1>7 DEF Tiled
<1> QED BY <1>2, <1>8 DEF e, new

\* A block is split in two.
LEMMA TiledSplit ==
  ASSUME NEW d, NEW end \in Nat, DiskOK(d), Tiled(d, end), NEW s \in DOMAIN d,
         NEW seg \in Segments, NEW rest \in Segments, seg.len + HDR + rest.len = d[s].len,
         NEW next, next = s + HDR + seg.len
  PROVE  next \notin DOMAIN d /\ next \in Nat /\ Tiled(Put(Put(d, next, rest), s, seg), end)
<1> DEFINE e == Put(Put(d, next, rest), s, seg)
<1>1. /\ s \in Nat /\ seg.len \in Nat /\ rest.len \in Nat
      /\ next \in Nat /\ s < next /\ next < After(d, s)
      /\ After(d, s) \in Nat /\ After(d, s) = next + HDR + rest.len
  <2>1. s \in Nat /\ seg.len \in Nat /\ rest.len \in Nat
    BY DEF Segments, DiskOK
  <2>2. After(d, s) = s + HDR + (seg.len + HDR + rest.len)
    BY DEF After
  <2> QED BY <2>1, <2>2 DEF HDR
<1>2. next \notin DOMAIN d
  BY <1>1 DEF Tiled
<1>3. /\ DOMAIN e = DOMAIN d \cup {next}
      /\ \A t \in DOMAIN d \ {s} : After(e, t) = After(d, t)
      /\ After(e, s) = next
      /\ After(e, next) = After(d, s)
  BY <1>1, <1>2 DEF Put, After
<1>4. \A t \in DOMAIN d : t \in Nat /\ After(d, t) \in Nat /\ t < After(d, t)
  <2> SUFFICES ASSUME NEW t \in DOMAIN d PROVE t \in Nat /\ After(d, t) \in Nat /\ t < After(d, t)
    OBVIOUS
  <2> QED BY TiledBelowEnd DEF After, HDR
<1> HIDE DEF e
<1>5. \A t \in DOMAIN e : After(e, t) \in DOMAIN e \cup {end} /\ After(e, t) <= end
  BY <1>1, <1>3, <1>4 DEF Tiled
<1>6. \A t, u \in DOMAIN e : t < u => After(e, t) <= u
  <2> SUFFICES ASSUME NEW t \in DOMAIN e, NEW u \in DOMAIN e, t < u PROVE After(e, t) <= u
    OBVIOUS
  <2>1. CASE t \in DOMAIN d \ {s} /\ u \in DOMAIN d
    BY <1>3, <2>1 DEF Tiled
  <2>2. CASE t \in DOMAIN d \ {s} /\ u = next
    <3>1. t < s \/ s < t
      BY <1>1, <1>4, <2>2
    <3>2. CASE t < s
      BY <1>1, <1>3, <1>4, <2>2, <3>2 DEF Tiled
    <3>3. CASE s < t
      BY <1>1, <1>4, <2>2, <3>3 DEF Tiled
    <3> QED BY <3>1, <3>2, <3>3
  <2>3. CASE t = s
    BY <1>1, <1>3, <1>4, <2>3 DEF Tiled
  <2>4. CASE t = next /\ u \in DOMAIN d
    BY <1>1, <1>3, <1>4, <2>4 DEF Tiled
  <2> QED BY <1>1, <1>3, <2>1, <2>2, <2>3, <2>4
<1>7. 0 \in DOMAIN e
  BY <1>3 DEF Tiled
<1>8. Tiled(e, end)
  BY <1>5, <1>6, <1>7 DEF Tiled
<1> QED BY <1>1, <1>2, <1>8 DEF e
-----------------------------------------------------------------------------
(* Free lists *)

\* A free block is used up.
LEMMA FreeUsed ==
  ASSUME NEW d, NEW e, NEW fs \in Seq(Fragments), FreeList(d, fs), NEW i \in DOMAIN fs,
         DOMAIN e = DOMAIN d, e[fs[i].sof].kind # "EMPTY", \A t \in DOMAIN d \ {fs[i].sof} : e[t] = d[t]
  PROVE  FreeList(e, RemoveIndex(fs, i))
<1> DEFINE gs == RemoveIndex(fs, i)
<1>1. Len(fs) \in Nat /\ DOMAIN fs = 1..Len(fs) /\ i \in Nat /\ i >= 1 /\ i <= Len(fs)
  OBVIOUS
<1>2. DOMAIN gs = 1..(Len(fs) - 1) /\ \A j \in DOMAIN gs : gs[j] = IF j < i THEN fs[j] ELSE fs[j + 1]
  BY DEF RemoveIndex
<1> HIDE DEF gs
<1>3. \A j \in DOMAIN gs : \E k \in DOMAIN fs : k # i /\ gs[j] = fs[k] /\ k = IF j < i THEN j ELSE j + 1
  BY <1>1, <1>2
<1>4. \A k \in DOMAIN fs \ {i} : \E j \in DOMAIN gs : gs[j] = fs[k]
  <2> SUFFICES ASSUME NEW k \in DOMAIN fs \ {i} PROVE \E j \in DOMAIN gs : gs[j] = fs[k]
    OBVIOUS
  <2>1. CASE k < i
    BY <1>1, <1>2, <2>1
  <2>2. CASE k > i
    <3>1. k - 1 \in DOMAIN gs /\ gs[k - 1] = fs[k]
      BY <1>1, <1>2, <2>2
    <3> QED BY <3>1
  <2> QED BY <1>1, <2>1, <2>2
<1>5. \A j \in DOMAIN gs :
        gs[j].sof \in DOMAIN e /\ e[gs[j].sof].kind = "EMPTY" /\ gs[j].length = e[gs[j].sof].len
  BY <1>3 DEF FreeList
<1>6. \A j, k \in DOMAIN gs : gs[j].sof = gs[k].sof => j = k
  <2> SUFFICES ASSUME NEW j \in DOMAIN gs, NEW k \in DOMAIN gs, gs[j].sof = gs[k].sof PROVE j = k
    OBVIOUS
  <2>1. PICK u \in DOMAIN fs : gs[j] = fs[u] /\ u = IF j < i THEN j ELSE j + 1
    BY <1>3
  <2>2. PICK v \in DOMAIN fs : gs[k] = fs[v] /\ v = IF k < i THEN k ELSE k + 1
    BY <1>3
  <2>3. u = v
    BY <2>1, <2>2 DEF FreeList
  <2> QED BY <1>1, <1>2, <2>1, <2>2, <2>3
<1>7. \A s \in DOMAIN e : e[s].kind = "EMPTY" => \E j \in DOMAIN gs : gs[j].sof = s
  <2> SUFFICES ASSUME NEW s \in DOMAIN e, e[s].kind = "EMPTY" PROVE \E j \in DOMAIN gs : gs[j].sof = s
    OBVIOUS
  <2>1. PICK k \in DOMAIN fs : fs[k].sof = s /\ k # i
    BY DEF FreeList
  <2> QED BY <1>4, <2>1
<1>8. FreeList(e, gs)
  BY <1>5, <1>6, <1>7 DEF FreeList
<1> QED BY <1>8 DEF gs

\* The rest of a free block takes its place in the list.
LEMMA FreeSplit ==
  ASSUME NEW d, NEW e, NEW fs \in Seq(Fragments), FreeList(d, fs), NEW i \in DOMAIN fs,
         NEW next, next \notin DOMAIN d, DOMAIN e = DOMAIN d \cup {next},
         e[fs[i].sof].kind # "EMPTY", \A t \in DOMAIN d \ {fs[i].sof} : e[t] = d[t],
         e[next].kind = "EMPTY"
  PROVE  FreeList(e, [fs EXCEPT ![i] = [sof |-> next, length |-> e[next].len]])
<1> DEFINE rest == [sof |-> next, length |-> e[next].len]
           gs   == [fs EXCEPT ![i] = rest]
<1>1. rest.sof = next /\ rest.length = e[next].len
  OBVIOUS
<1>2. DOMAIN gs = DOMAIN fs /\ gs[i] = rest /\ \A j \in DOMAIN fs \ {i} : gs[j] = fs[j]
  OBVIOUS
<1> HIDE DEF rest, gs
<1>3. \A j \in DOMAIN gs :
        gs[j].sof \in DOMAIN e /\ e[gs[j].sof].kind = "EMPTY" /\ gs[j].length = e[gs[j].sof].len
  BY <1>1, <1>2 DEF FreeList
<1>4. \A j, k \in DOMAIN gs : gs[j].sof = gs[k].sof => j = k
  BY <1>1, <1>2 DEF FreeList
<1>5. \A s \in DOMAIN e : e[s].kind = "EMPTY" => \E j \in DOMAIN gs : gs[j].sof = s
  BY <1>1, <1>2 DEF FreeList
<1>6. FreeList(e, gs)
  BY <1>3, <1>4, <1>5 DEF FreeList
<1> QED BY <1>6 DEF gs, rest

\* Marking a segment EMPTY changes its marker only.
LEMMA MarkedSegment ==
  ASSUME NEW d, DiskOK(d), NEW s \in DOMAIN d
  PROVE  /\ DOMAIN MarkEmpty(d, s) = DOMAIN d
         /\ \A t \in DOMAIN d \ {s} : MarkEmpty(d, s)[t] = d[t]
         /\ MarkEmpty(d, s)[s].kind = "EMPTY" /\ MarkEmpty(d, s)[s].len = d[s].len
<1>1. d[s] \in Segments
  BY DEF DiskOK
<1>2. [d[s] EXCEPT !.kind = "EMPTY"].kind = "EMPTY" /\ [d[s] EXCEPT !.kind = "EMPTY"].len = d[s].len
  BY <1>1 DEF Segments
<1> QED BY <1>2 DEF MarkEmpty

\* A segment in use is freed.
LEMMA FreeMarked ==
  ASSUME NEW d, DiskOK(d), NEW fs \in Seq(Fragments), FreeList(d, fs), NEW s \in Live(d),
         NEW f, f.sof = s, f.length = d[s].len
  PROVE  FreeList(MarkEmpty(d, s), Append(fs, f))
<1> DEFINE e  == MarkEmpty(d, s)
           gs == Append(fs, f)
<1>1. s \in DOMAIN d /\ d[s].kind # "EMPTY"
  BY DEF Live
<1>2. /\ DOMAIN e = DOMAIN d /\ \A t \in DOMAIN d \ {s} : e[t] = d[t]
      /\ e[s].kind = "EMPTY" /\ e[s].len = d[s].len
  BY <1>1, MarkedSegment
<1>3. /\ Len(fs) \in Nat /\ DOMAIN fs = 1..Len(fs) /\ DOMAIN gs = 1..(Len(fs) + 1)
      /\ gs[Len(fs) + 1] = f /\ \A j \in DOMAIN fs : gs[j] = fs[j]
  OBVIOUS
<1>4. DOMAIN gs = DOMAIN fs \cup {Len(fs) + 1} /\ Len(fs) + 1 \notin DOMAIN fs
  BY <1>3
<1> HIDE DEF e, gs
<1>5. \A j \in DOMAIN gs :
        gs[j].sof \in DOMAIN e /\ e[gs[j].sof].kind = "EMPTY" /\ gs[j].length = e[gs[j].sof].len
  BY <1>1, <1>2, <1>3, <1>4 DEF FreeList
<1>6. \A j, k \in DOMAIN gs : gs[j].sof = gs[k].sof => j = k
  BY <1>1, <1>3, <1>4 DEF FreeList
<1>7. \A t \in DOMAIN e : e[t].kind = "EMPTY" => \E j \in DOMAIN gs : gs[j].sof = t
  BY <1>1, <1>2, <1>3, <1>4 DEF FreeList
<1>8. FreeList(e, gs)
  BY <1>5, <1>6, <1>7 DEF FreeList
<1> QED BY <1>8 DEF e, gs

-----------------------------------------------------------------------------
(* Writing: what hza_alloc_fragment and the write after it do to the file. *)

\* What the operations that write start from.
Writable ==
  /\ FileTyped
  /\ Tiled(disk, eof) /\ FreeList(disk, fragments) /\ endAt \in {eof, NoEnd}

\* The file and the free list after a segment is written where the allocator says.
LEMMA WrittenWhereAllocated ==
  ASSUME Writable, NEW seg \in Segments, seg.kind # "EMPTY",
         NEW a, a = hza_alloc_fragment(seg.len), NEW e, e = Put(a.disk, a.sof, seg)
  PROVE  /\ Tiled(e, a.eof) /\ FreeList(e, a.fragments)
         /\ Written(disk, e, a.sof, seg) /\ SameLive(disk, a.disk)
<1>1. /\ DiskOK(disk) /\ eof \in Nat /\ fragments \in Seq(Fragments) /\ seg.len \in Nat
      /\ Tiled(disk, eof) /\ FreeList(disk, fragments)
  BY DEF Writable, FileTyped, Segments
<1>2. CASE BestFit(seg.len) = {}
  <2>1. a = [sof |-> eof, eof |-> eof + HDR + seg.len, fragments |-> fragments, disk |-> disk]
    BY <1>2 DEF hza_alloc_fragment
  <2>2. a.sof = eof /\ a.eof = eof + HDR + seg.len /\ a.fragments = fragments /\ a.disk = disk
    BY <2>1
  <2>3. e = Put(disk, eof, seg)
    BY <2>2
  <2>4. eof \notin DOMAIN disk /\ Tiled(e, a.eof)
    BY <1>1, <2>2, <2>3, TiledAppend
  <2>5. DOMAIN e = DOMAIN disk \cup {eof} /\ e[eof] = seg /\ \A t \in DOMAIN disk : e[t] = disk[t]
    BY <2>3, <2>4 DEF Put
  <2> QED BY <1>1, <2>2, <2>4, <2>5 DEF Written, SameLive, Live, FreeList
<1>3. CASE BestFit(seg.len) # {}
  <2> DEFINE i    == CHOOSE i \in BestFit(seg.len) : TRUE
             sof  == fragments[i].sof
             diff == fragments[i].length - seg.len
             next == sof + HDR + seg.len
             rest == Segment("EMPTY", diff - HDR, HZ_ARCHIVE_VERSION, NoPath, <<>>, NoId, NoId)
  <2>1. i \in DOMAIN fragments /\ Usable(i, seg.len)
    BY <1>3 DEF BestFit
  <2>2. a = [sof |-> sof, eof |-> eof,
             fragments |-> IF diff = 0 THEN RemoveIndex(fragments, i)
                           ELSE [fragments EXCEPT ![i] = [sof |-> next, length |-> diff - HDR]],
             disk |-> IF diff = 0 THEN disk ELSE Put(disk, next, rest)]
    BY <1>3 DEF hza_alloc_fragment
  <2> HIDE DEF i
  <2>3. /\ fragments[i].length \in Nat /\ sof \in Nat
        /\ sof \in DOMAIN disk /\ disk[sof].kind = "EMPTY" /\ disk[sof].len = fragments[i].length
    <3>1. fragments[i] \in Fragments
      BY <1>1, <2>1
    <3> QED BY <1>1, <2>1, <3>1 DEF FreeList, Fragments
  <2>4. a.sof = sof /\ a.eof = eof
    BY <2>2
  <2>5. CASE diff = 0
    <3>1. a.fragments = RemoveIndex(fragments, i) /\ a.disk = disk /\ e = Put(disk, sof, seg)
      BY <2>2, <2>4, <2>5
    <3>2. DOMAIN e = DOMAIN disk /\ e[sof] = seg /\ \A t \in DOMAIN disk \ {sof} : e[t] = disk[t]
      BY <2>3, <3>1 DEF Put
    <3>3. seg.len = disk[sof].len
      BY <1>1, <2>3, <2>5
    <3> HIDE DEF sof, diff, next, rest
    <3>4. Tiled(e, eof)
      BY <1>1, <3>2, <3>3, TiledSameLengths
    <3>5. FreeList(e, RemoveIndex(fragments, i))
      BY <1>1, <2>1, <3>2, FreeUsed DEF sof
    <3>6. Written(disk, e, sof, seg) /\ SameLive(disk, disk)
      BY <2>3, <3>2 DEF Written, SameLive, Live
    <3> QED BY <2>4, <3>1, <3>4, <3>5, <3>6
  <2>6. CASE diff # 0
    <3>1. diff - HDR \in Nat /\ seg.len + HDR + (diff - HDR) = disk[sof].len
      BY <1>1, <2>1, <2>3, <2>6 DEF Usable, HDR
    <3>2. rest \in Segments /\ rest.len = diff - HDR /\ rest.kind = "EMPTY"
      BY <3>1, ConstantsAssumption DEF Segment, Segments, Kinds
    <3>3. next \notin DOMAIN disk /\ next \in Nat /\ Tiled(Put(Put(disk, next, rest), sof, seg), eof)
      BY <1>1, <2>3, <3>1, <3>2, TiledSplit
    <3> HIDE DEF diff, rest, next, sof
    <3>4. /\ a.fragments = [fragments EXCEPT ![i] = [sof |-> next, length |-> rest.len]]
          /\ a.disk = Put(disk, next, rest)
          /\ e = Put(Put(disk, next, rest), sof, seg)
      <4>1. a.fragments = [fragments EXCEPT ![i] = [sof |-> next, length |-> diff - HDR]]
        BY <2>2, <2>6
      <4>2. a.disk = Put(disk, next, rest)
        BY <2>2, <2>6
      <4> QED BY <2>4, <3>2, <4>1, <4>2
    <3>5. /\ DOMAIN a.disk = DOMAIN disk \cup {next} /\ a.disk[next] = rest
          /\ \A t \in DOMAIN disk : a.disk[t] = disk[t]
      BY <3>3, <3>4 DEF Put
    <3>6. /\ DOMAIN e = DOMAIN disk \cup {next} /\ e[sof] = seg /\ e[next] = rest
          /\ \A t \in DOMAIN disk \ {sof} : e[t] = disk[t]
      BY <2>3, <3>3, <3>4, <3>5 DEF Put
    <3>7. FreeList(e, a.fragments)
      <4>1. FreeList(e, [fragments EXCEPT ![i] = [sof |-> next, length |-> e[next].len]])
        BY <1>1, <2>1, <3>2, <3>3, <3>6, FreeSplit DEF sof
      <4> QED BY <3>4, <3>6, <4>1
    <3>8. Written(disk, e, sof, seg) /\ SameLive(disk, a.disk)
      BY <2>3, <3>2, <3>3, <3>5, <3>6 DEF Written, SameLive, Live
    <3> QED BY <2>4, <3>3, <3>4, <3>7, <3>8
  <2> QED BY <2>5, <2>6
<1> QED BY <1>2, <1>3

LEMMA WriteEffect ==
  ASSUME Writable, NEW seg \in Segments, seg.kind # "EMPTY", WriteSegment(seg)
  PROVE  /\ Tiled(disk', eof') /\ FreeList(disk', fragments') /\ endAt' \in {eof', NoEnd}
         /\ Written(disk, disk', hza_alloc_fragment(seg.len).sof, seg)
<1>1. /\ Allocated(hza_alloc_fragment(seg.len))
      /\ disk' = Put(hza_alloc_fragment(seg.len).disk, hza_alloc_fragment(seg.len).sof, seg)
  BY DEF WriteSegment
<1>2. /\ fragments' = hza_alloc_fragment(seg.len).fragments /\ eof' = hza_alloc_fragment(seg.len).eof
      /\ endAt' \in {eof', NoEnd}
  BY <1>1 DEF Allocated, Writable
<1> QED BY <1>1, <1>2, WrittenWhereAllocated

LEMMA AllocationKeepsData ==
  ASSUME Writable, NEW seg \in Segments, seg.kind # "EMPTY", disk' = hza_alloc_fragment(seg.len).disk
  PROVE  SameLive(disk, disk')
BY WrittenWhereAllocated

-----------------------------------------------------------------------------
(* Freeing, one segment after the other. *)

\* The file e and the free list gs once the segments at S of the file are freed.
FreedTo(S, e, gs) ==
  /\ Freed(disk, e, S) /\ DiskOK(e)
  /\ Tiled(e, eof) /\ FreeList(e, gs) /\ gs \in Seq(Fragments)

LEMMA FreeNone ==
  ASSUME Writable
  PROVE  FreedTo({}, disk, fragments)
BY DEF Writable, FileTyped, FreedTo, Freed

LEMMA FreeOne ==
  ASSUME Writable, NEW S, NEW e, NEW gs, FreedTo(S, e, gs), NEW s \in Live(disk) \ S
  PROVE  FreedTo(S \cup {s}, MarkEmpty(e, s), Append(gs, FragmentAt(s)))
<1>1. /\ DOMAIN e = DOMAIN disk /\ s \in DOMAIN e /\ e[s] = disk[s] /\ DiskOK(e) /\ DiskOK(disk)
      /\ Tiled(e, eof) /\ FreeList(e, gs) /\ gs \in Seq(Fragments) /\ S \subseteq Live(disk)
  BY DEF FreedTo, Freed, Live, Writable, FileTyped
<1>2. /\ DOMAIN MarkEmpty(e, s) = DOMAIN e
      /\ \A t \in DOMAIN e \ {s} : MarkEmpty(e, s)[t] = e[t]
      /\ MarkEmpty(e, s)[s].kind = "EMPTY" /\ MarkEmpty(e, s)[s].len = e[s].len
  BY <1>1, MarkedSegment
<1>3. MarkEmpty(e, s)[s] = [disk[s] EXCEPT !.kind = "EMPTY"]
  BY <1>1 DEF MarkEmpty
<1>4. FragmentAt(s) \in Fragments /\ FragmentAt(s).sof = s /\ FragmentAt(s).length = e[s].len
  BY <1>1 DEF FragmentAt, Fragments, DiskOK, Segments
<1>5. s \in Live(e)
  BY <1>1 DEF Live
<1>6. FreeList(MarkEmpty(e, s), Append(gs, FragmentAt(s)))
  BY <1>1, <1>4, <1>5, FreeMarked
<1>7. Tiled(MarkEmpty(e, s), eof)
  BY <1>1, <1>2, TiledSameLengths
<1>8. DiskOK(MarkEmpty(e, s))
  BY <1>1, MarkDisk
<1>9. Freed(disk, MarkEmpty(e, s), S \cup {s})
  <2> DEFINE f == MarkEmpty(e, s)
             marked(t) == [disk[t] EXCEPT !.kind = "EMPTY"]
  <2>1. (\A t \in S : e[t] = marked(t)) /\ (\A t \in DOMAIN disk \ S : e[t] = disk[t])
    BY DEF FreedTo, Freed
  <2>2. f[s] = marked(s) /\ \A t \in DOMAIN e \ {s} : f[t] = e[t]
    BY <1>2, <1>3
  <2>3. DOMAIN f = DOMAIN disk /\ S \cup {s} \subseteq Live(disk)
    BY <1>1, <1>2
  <2> HIDE DEF f, marked
  <2>4. S \subseteq DOMAIN e
    BY <1>1 DEF Live
  <2>5. \A t \in S \cup {s} : f[t] = marked(t)
    BY <2>1, <2>2, <2>4
  <2>6. \A t \in DOMAIN disk \ (S \cup {s}) : f[t] = disk[t]
    BY <1>1, <2>1, <2>2
  <2> QED BY <2>3, <2>5, <2>6 DEF Freed, f, marked
<1>10. Append(gs, FragmentAt(s)) \in Seq(Fragments)
  BY <1>1, <1>4
<1> QED BY <1>6, <1>7, <1>8, <1>9, <1>10 DEF FreedTo

\* Segments that a step frees are EMPTY afterwards and the others as before.
LEMMA FreedLive ==
  ASSUME NEW d, NEW e, NEW S, DiskOK(d), Freed(d, e, S)
  PROVE  Live(e) = Live(d) \ S /\ \A t \in Live(e) : e[t] = d[t]
<1>1. \A t \in S : e[t].kind = "EMPTY"
  BY DEF Freed, Live, DiskOK, Segments
<1> QED BY <1>1 DEF Freed, Live
-----------------------------------------------------------------------------
(* The tables.  T maps the keys of the segments of one kind, which are in    *)
(* one of their fields, to their offsets.                                    *)
IndexOf(T, d, kind, field) ==
  /\ \A k \in DOMAIN T : T[k] \in DOMAIN d /\ d[T[k]].kind = kind /\ d[T[k]][field] = k
  /\ \A s \in DOMAIN d : d[s].kind = kind => d[s][field] \in DOMAIN T /\ T[d[s][field]] = s

\* file_map without the file whose entry remove_file has freed already.
FileTable == [p \in {q \in DOMAIN file_map : ~Removing(q)} |-> file_map[p].sof]

TagTable == [p \in DOMAIN mstate_aux_map |-> mstate_aux_map[p].sof]

FilesMatch(d) ==
  /\ IndexOf(FileTable, d, "FILEINFO", "path")
  /\ \A p \in DOMAIN FileTable : d[FileTable[p]].blobs = file_map[p].blobs

TagsMatch(d) ==
  /\ IndexOf(TagTable, d, "MSTATE_AUX", "path")
  /\ \A p \in DOMAIN TagTable : d[TagTable[p]].mstate = mstate_aux_map[p].mstate

BlobsMatch(d) == IndexOf(blob_map, d, "BLOB", "blob")

MstatesMatch(d) == IndexOf(mstate_map, d, "MSTATE", "mstate")

TablesMatch(d) ==
  FilesMatch(d) /\ TagsMatch(d) /\ BlobsMatch(d) /\ MstatesMatch(d) /\ FreeList(d, fragments)

\* The part of the file the tables speak of.
View == [s \in {t \in DOMAIN disk : Indexed(t)} |-> disk[s]]

\* What holds the mutex fits the phase and the tables: its path is still free,
\* or still there.
ControlFits ==
  /\ phase = "closed" => op.kind = "none"
  /\ phase = "scanning" => op.kind \in {"none", "dead"}
  /\ op.kind = "create" => op.path \in FilePaths /\ ~Contains(file_map, op.path)
  /\ op.kind = "install" =>
       op.path \in TagPaths /\ op.mstate \in MstateIds /\ ~Contains(mstate_aux_map, op.path)
  /\ op.kind = "remove" => op.path \in DOMAIN file_map

\* Segments in use carry the paths and ids of callers.
Fits(seg) ==
  /\ seg.kind = "FILEINFO" => seg.path \in FilePaths
  /\ seg.kind = "MSTATE_AUX" => seg.path \in TagPaths /\ seg.mstate \in MstateIds
  /\ seg.kind = "BLOB" => seg.blob \in BlobIds /\ seg.mstate \in MstateIds
  /\ seg.kind = "MSTATE" => seg.mstate \in MstateIds

LiveTyped == \A s \in DOMAIN disk : Fits(disk[s])

\* The file ends where metadata.eof or the END marker says, and the scan is at
\* one of its segments or there.
FileEnds ==
  HandleUsable =>
    /\ ArchiveEnd \in Nat /\ Tiled(disk, ArchiveEnd)
    /\ phase = "scanning" => eof \in DOMAIN disk \cup {endAt}
    /\ phase = "open" => endAt \in {eof, NoEnd}

TablesKnown == HandleUsable /\ phase # "closed" => TablesMatch(View)
-----------------------------------------------------------------------------
(* Indexes *)
SegmentsOf(d, kind) == {s \in DOMAIN d : d[s].kind = kind}

\* A step leaves the segments of a kind alone.
KindKept(d, e, kind) ==
  SegmentsOf(e, kind) = SegmentsOf(d, kind) /\ \A s \in SegmentsOf(d, kind) : e[s] = d[s]

LEMMA SameLiveKeeps ==
  ASSUME NEW d, NEW e, SameLive(d, e), NEW kind, kind # "EMPTY"
  PROVE  KindKept(d, e, kind)
BY DEF SameLive, Live, KindKept, SegmentsOf

LEMMA WrittenKeeps ==
  ASSUME NEW d, NEW e, NEW s, NEW seg, Written(d, e, s, seg), NEW kind, kind \notin {"EMPTY", seg.kind}
  PROVE  KindKept(d, e, kind)
BY DEF Written, Live, KindKept, SegmentsOf

LEMMA FreedKeeps ==
  ASSUME NEW d, NEW e, NEW S, DiskOK(d), Freed(d, e, S), NEW kind, kind # "EMPTY",
         \A s \in S : d[s].kind # kind
  PROVE  KindKept(d, e, kind)
BY FreedLive DEF Live, KindKept, SegmentsOf

LEMMA IndexKept ==
  ASSUME NEW T, NEW d, NEW e, NEW kind, NEW field,
         IndexOf(T, d, kind, field), KindKept(d, e, kind)
  PROVE  IndexOf(T, e, kind, field)
BY DEF IndexOf, KindKept, SegmentsOf

LEMMA IndexAdded ==
  ASSUME NEW T, NEW d, NEW e, NEW kind, NEW field, NEW s, NEW seg, kind # "EMPTY",
         IndexOf(T, d, kind, field), Written(d, e, s, seg),
         seg.kind = kind, seg[field] \notin DOMAIN T
  PROVE  IndexOf(Put(T, seg[field], s), e, kind, field)
<1>1. /\ s \in DOMAIN e /\ e[s] = seg
      /\ \A t \in DOMAIN d : d[t].kind = kind => t \in DOMAIN e /\ e[t] = d[t] /\ t # s
      /\ \A t \in DOMAIN e : e[t].kind = kind => t = s \/ (t \in DOMAIN d /\ e[t] = d[t])
  BY DEF Written, Live
<1>2. DOMAIN Put(T, seg[field], s) = DOMAIN T \cup {seg[field]}
      /\ Put(T, seg[field], s)[seg[field]] = s
      /\ \A k \in DOMAIN T : Put(T, seg[field], s)[k] = T[k]
  BY DEF Put
<1>3. \A k \in DOMAIN T : T[k] \in DOMAIN d /\ d[T[k]].kind = kind /\ d[T[k]][field] = k
  BY DEF IndexOf
<1>4. \A t \in DOMAIN d : d[t].kind = kind => d[t][field] \in DOMAIN T /\ T[d[t][field]] = t
  BY DEF IndexOf
<1> QED BY <1>1, <1>2, <1>3, <1>4 DEF IndexOf

LEMMA IndexRemoved ==
  ASSUME NEW T, NEW d, NEW e, NEW kind, NEW field, NEW S, NEW k \in DOMAIN T, DiskOK(d), kind # "EMPTY",
         IndexOf(T, d, kind, field), Freed(d, e, S),
         T[k] \in S, \A s \in S : d[s].kind = kind => s = T[k]
  PROVE  IndexOf(Drop(T, k), e, kind, field)
<1>1. /\ \A t \in DOMAIN d \ S : t \in DOMAIN e /\ e[t] = d[t]
      /\ \A t \in DOMAIN e : e[t].kind = kind => t \in DOMAIN d \ S /\ e[t] = d[t]
  <2>1. \A t \in DOMAIN d \ S : t \in DOMAIN e /\ e[t] = d[t]
    BY DEF Freed
  <2>2. Live(e) = Live(d) \ S /\ \A t \in Live(e) : e[t] = d[t]
    BY FreedLive
  <2> QED BY <2>1, <2>2 DEF Live
<1>2. DOMAIN Drop(T, k) = DOMAIN T \ {k} /\ \A j \in DOMAIN T \ {k} : Drop(T, k)[j] = T[j]
  BY DEF Drop
<1> QED BY <1>1, <1>2 DEF IndexOf

\* A path can be added to a table of paths when set() does not refuse it.
LEMMA FreshPath ==
  ASSUME NEW T, NEW P, P \subseteq Seq(STRING), DOMAIN T \subseteq P, NEW p \in P,
         ~Contains(T, p), ~Blocked(T, p)
  PROVE  p \notin DOMAIN T /\ \A q \in DOMAIN T : ~Prefix(p, q) /\ ~Prefix(q, p)
<1>1. \A q \in P : Len(q) \in Nat
  OBVIOUS
<1>2. \A q \in DOMAIN T : ~Prefix(p, q)
  BY DEF Contains
<1>3. \A q \in DOMAIN T : ~(Len(q) < Len(p) /\ Prefix(q, p))
  BY DEF Blocked, ProperPrefix
<1>4. \A q \in DOMAIN T : Len(q) = Len(p) /\ Prefix(q, p) => Prefix(p, q)
  BY <1>1 DEF Prefix
<1>5. \A q \in DOMAIN T : Prefix(q, p) => Len(q) <= Len(p)
  BY DEF Prefix
<1>6. Prefix(p, p)
  BY <1>1 DEF Prefix
<1> QED BY <1>1, <1>2, <1>3, <1>4, <1>5, <1>6
-----------------------------------------------------------------------------
(* Ownership of blobs.  L maps every list to its blob ids, B is the set of   *)
(* blobs of the file.                                                        *)
OwnedOnce(L, B) ==
  /\ \A l \in DOMAIN L : \A i \in DOMAIN L[l] : L[l][i] \in B
  /\ \A k, l \in DOMAIN L : \A i \in DOMAIN L[k], j \in DOMAIN L[l] : L[k][i] = L[l][j] => k = l /\ i = j

\* Lists stay or are emptied.
LEMMA OwnedCleared ==
  ASSUME NEW L, NEW M, NEW B, NEW C, OwnedOnce(L, B), B \subseteq C,
         \A l \in DOMAIN M : DOMAIN M[l] = {} \/ (l \in DOMAIN L /\ M[l] = L[l])
  PROVE  OwnedOnce(M, C)
BY DEF OwnedOnce

\* The list of k is moved to l.
LEMMA OwnedMoved ==
  ASSUME NEW L, NEW M, NEW B, OwnedOnce(L, B), NEW k \in DOMAIN L, NEW l \in DOMAIN M, M[l] = L[k],
         \A x \in DOMAIN M \ {l} : DOMAIN M[x] = {} \/ (x \in DOMAIN L \ {k} /\ M[x] = L[x])
  PROVE  OwnedOnce(M, B)
<1>1. \A x \in DOMAIN M : \A i \in DOMAIN M[x] : M[x][i] \in B
  BY DEF OwnedOnce
<1>2. ASSUME NEW x \in DOMAIN M, NEW y \in DOMAIN M, NEW i \in DOMAIN M[x], NEW j \in DOMAIN M[y],
             M[x][i] = M[y][j]
      PROVE  x = y /\ i = j
  <2>1. CASE x = l /\ y = l
    BY <1>2, <2>1 DEF OwnedOnce
  <2>2. CASE x = l /\ y # l
    BY <1>2, <2>2 DEF OwnedOnce
  <2>3. CASE x # l /\ y = l
    BY <1>2, <2>3 DEF OwnedOnce
  <2>4. CASE x # l /\ y # l
    BY <1>2, <2>4 DEF OwnedOnce
  <2> QED BY <2>1, <2>2, <2>3, <2>4
<1> QED BY <1>1, <1>2 DEF OwnedOnce

\* A new blob is appended to the list of l.
LEMMA OwnedAppended ==
  ASSUME NEW L, NEW M, NEW B, NEW b, b \notin B, OwnedOnce(L, B), NEW l \in DOMAIN L,
         NEW Ids, L[l] \in Seq(Ids), b \in Ids,
         M[l] = Append(L[l], b), DOMAIN M = DOMAIN L, \A x \in DOMAIN L \ {l} : M[x] = L[x]
  PROVE  OwnedOnce(M, B \cup {b})
<1>1. /\ DOMAIN M[l] = DOMAIN L[l] \cup {Len(L[l]) + 1} /\ M[l][Len(L[l]) + 1] = b
      /\ \A i \in DOMAIN L[l] : M[l][i] = L[l][i]
  OBVIOUS
<1> DEFINE n == Len(L[l]) + 1
<1> HIDE DEF n
<1>2. \A x \in DOMAIN M : \A i \in DOMAIN M[x] :
        (x = l /\ i = n /\ M[x][i] = b) \/ (i \in DOMAIN L[x] /\ M[x][i] = L[x][i] /\ M[x][i] \in B)
  BY <1>1 DEF OwnedOnce, n
<1>3. \A x \in DOMAIN M : \A i \in DOMAIN M[x] : M[x][i] \in B \cup {b}
  BY <1>2
<1>4. ASSUME NEW x \in DOMAIN M, NEW y \in DOMAIN M, NEW i \in DOMAIN M[x], NEW j \in DOMAIN M[y],
             M[x][i] = M[y][j]
      PROVE  x = y /\ i = j
  BY <1>2, <1>4 DEF OwnedOnce
<1> QED BY <1>3, <1>4 DEF OwnedOnce

\* The first blob of the list of l is freed.
LEMMA OwnedTail ==
  ASSUME NEW L, NEW M, NEW B, NEW C, OwnedOnce(L, B), NEW l \in DOMAIN L,
         NEW Ids, L[l] \in Seq(Ids), L[l] # <<>>, B \ {Head(L[l])} \subseteq C,
         M[l] = Tail(L[l]), DOMAIN M = DOMAIN L, \A x \in DOMAIN L \ {l} : M[x] = L[x]
  PROVE  OwnedOnce(M, C)
<1>1. /\ \A i \in DOMAIN M[l] : i \in Nat /\ i + 1 \in DOMAIN L[l] /\ M[l][i] = L[l][i + 1] /\ i + 1 # 1
      /\ 1 \in DOMAIN L[l] /\ L[l][1] = Head(L[l])
  OBVIOUS
<1>2. \A x \in DOMAIN M : \A i \in DOMAIN M[x] :
        LET a == IF x = l THEN i + 1 ELSE i
        IN  a \in DOMAIN L[x] /\ M[x][i] = L[x][a] /\ (x = l => a # 1)
  BY <1>1
<1>3. \A x \in DOMAIN M : \A i \in DOMAIN M[x] : M[x][i] \in C
  BY <1>1, <1>2 DEF OwnedOnce
<1>4. ASSUME NEW x \in DOMAIN M, NEW y \in DOMAIN M, NEW i \in DOMAIN M[x], NEW j \in DOMAIN M[y],
             M[x][i] = M[y][j]
      PROVE  x = y /\ i = j
  BY <1>1, <1>2, <1>4 DEF OwnedOnce
<1> QED BY <1>3, <1>4 DEF OwnedOnce
-----------------------------------------------------------------------------
(* Reading the invariant. *)
Lists == [l \in BlobLists |-> BlobsIn(l)]

StoredBlobs == {disk[t].blob : t \in SegmentsOf(disk, "BLOB")}

Owned == OwnedOnce(Lists, StoredBlobs)

\* The inductive invariant.
Consistent ==
  /\ Sorted /\ ControlFits
  /\ LiveTyped /\ UniqueOnDisk /\ Owned
  /\ FileEnds /\ TablesKnown

\* The lists of blob ids are those of entries, sessions and the operation.
ListsShape ==
  /\ DOMAIN Lists = {<<"entry", s>> : s \in SegmentsOf(disk, "FILEINFO")}
                    \cup {<<"session", c>> : c \in Clients} \cup {<<"op", 0>>}
  /\ \A s \in SegmentsOf(disk, "FILEINFO") : Lists[<<"entry", s>>] = disk[s].blobs
  /\ \A c \in Clients : Lists[<<"session", c>>] = pending[c]
  /\ Lists[<<"op", 0>>] = op.blobs

LEMMA ListsAre == ListsShape
<1>1. DOMAIN Lists = BlobLists
  BY DEF Lists
<1>2. BlobLists = {<<"entry", s>> : s \in SegmentsOf(disk, "FILEINFO")}
                  \cup {<<"session", c>> : c \in Clients} \cup {<<"op", 0>>}
  BY DEF BlobLists, SegmentsOf, OfKind
<1>3. ASSUME NEW s \in SegmentsOf(disk, "FILEINFO") PROVE Lists[<<"entry", s>>] = disk[s].blobs
  <2>1. <<"entry", s>> \in BlobLists /\ <<"entry", s>>[1] = "entry" /\ <<"entry", s>>[2] = s
    BY <1>2
  <2> QED BY <2>1 DEF Lists, BlobsIn
<1>4. ASSUME NEW c \in Clients PROVE Lists[<<"session", c>>] = pending[c]
  <2>1. <<"session", c>> \in BlobLists /\ <<"session", c>>[1] = "session" /\ <<"session", c>>[2] = c
    BY <1>2
  <2> QED BY <2>1 DEF Lists, BlobsIn
<1>5. Lists[<<"op", 0>>] = op.blobs
  <2>1. <<"op", 0>> \in BlobLists /\ <<"op", 0>>[1] = "op"
    BY <1>2
  <2> QED BY <2>1 DEF Lists, BlobsIn
<1> QED BY <1>1, <1>2, <1>3, <1>4, <1>5 DEF ListsShape

LEMMA NextListsAre == ListsShape'
BY ListsAre, PTL

LEMMA ListsOwned == Owned => BlobsOwnedOnce
<1>1. SegmentsOf(disk, "BLOB") = OfKind("BLOB")
  BY DEF SegmentsOf, OfKind
<1>2. DOMAIN Lists = BlobLists /\ \A l \in BlobLists : Lists[l] = BlobsIn(l)
  BY DEF Lists
<1> QED BY <1>1, <1>2 DEF Owned, OwnedOnce, BlobsOwnedOnce, StoredBlobs
-----------------------------------------------------------------------------
(* An open archive. *)
LEMMA ViewWhenOpen == phase = "open" => (TablesMatch(View) <=> TablesMatch(disk))
<1> SUFFICES ASSUME phase = "open" PROVE TablesMatch(View) <=> TablesMatch(disk)
  OBVIOUS
<1>1. DOMAIN View = DOMAIN disk /\ \A s \in DOMAIN disk : View[s] = disk[s]
  BY DEF View, Indexed
<1>2. \A T, kind, field : IndexOf(T, View, kind, field) <=> IndexOf(T, disk, kind, field)
  BY <1>1 DEF IndexOf
<1>3. FilesMatch(View) <=> FilesMatch(disk)
  BY <1>1, <1>2 DEF FilesMatch, IndexOf
<1>4. TagsMatch(View) <=> TagsMatch(disk)
  BY <1>1, <1>2 DEF TagsMatch, IndexOf
<1>5. FreeList(View, fragments) <=> FreeList(disk, fragments)
  BY <1>1 DEF FreeList
<1> QED BY <1>2, <1>3, <1>4, <1>5 DEF TablesMatch, BlobsMatch, MstatesMatch

LEMMA NextViewWhenOpen == (phase = "open" => (TablesMatch(View) <=> TablesMatch(disk)))'
BY ViewWhenOpen, PTL

\* What the operations on an open archive start from.
Opened == Consistent /\ phase = "open" /\ HandleUsable

LEMMA OpenedState ==
  ASSUME Opened
  PROVE  Writable /\ TablesMatch(disk)
BY ViewWhenOpen DEF Opened, Consistent, FileEnds, ArchiveEnd, TablesKnown, Writable, Sorted, TablesMatch

\* What they leave behind.
LEMMA StaysOpen ==
  ASSUME phase' = "open", Sorted', Tiled(disk', eof'), endAt' \in {eof', NoEnd}, TablesMatch(disk)'
  PROVE  FileEnds' /\ TablesKnown'
BY NextViewWhenOpen DEF FileEnds, ArchiveEnd, TablesKnown, Sorted, FileTyped

\* An archive nobody can use any more.
LEMMA DeadFits ==
  ASSUME op'.kind = "dead", phase' # "closed"
  PROVE  ControlFits' /\ FileEnds' /\ TablesKnown'
BY DEF ControlFits, FileEnds, TablesKnown, HandleUsable
-----------------------------------------------------------------------------
(* What the effects on the file mean for the segments in use. *)
LEMMA ShrunkSafe ==
  ASSUME LiveTyped, UniqueOnDisk,
         Live(disk') \subseteq Live(disk), \A t \in Live(disk') : disk'[t] = disk[t]
  PROVE  LiveTyped' /\ UniqueOnDisk'
<1>1. \A t \in DOMAIN disk' : disk'[t].kind # "EMPTY" => t \in DOMAIN disk /\ disk'[t] = disk[t]
  BY DEF Live
<1>2. LiveTyped'
  BY <1>1 DEF LiveTyped, Fits
<1>3. UniqueOnDisk'
  BY <1>1 DEF UniqueOnDisk
<1> QED BY <1>2, <1>3

LEMMA SameLiveSafe ==
  ASSUME LiveTyped, UniqueOnDisk, SameLive(disk, disk')
  PROVE  LiveTyped' /\ UniqueOnDisk'
BY ShrunkSafe DEF SameLive

LEMMA FreedSafe ==
  ASSUME LiveTyped, UniqueOnDisk, DiskOK(disk), NEW S, Freed(disk, disk', S)
  PROVE  LiveTyped' /\ UniqueOnDisk'
BY FreedLive, ShrunkSafe

\* Two segments of a kind do not share an id and their paths are not nested.
Distinct(a, b) ==
  /\ a.kind = "BLOB" => a.blob # b.blob
  /\ a.kind = "MSTATE" => a.mstate # b.mstate
  /\ a.kind \in {"FILEINFO", "MSTATE_AUX"} => ~Prefix(a.path, b.path) /\ ~Prefix(b.path, a.path)

LEMMA GrownSafe ==
  ASSUME LiveTyped, UniqueOnDisk, NEW s, NEW seg, Written(disk, disk', s, seg), Fits(seg),
         \A t \in DOMAIN disk : disk[t].kind = seg.kind => Distinct(seg, disk[t])
  PROVE  LiveTyped' /\ UniqueOnDisk'
<1>1. /\ disk'[s] = seg /\ s \in DOMAIN disk'
      /\ \A t \in DOMAIN disk' : disk'[t].kind # "EMPTY" => t = s \/ (t \in DOMAIN disk /\ disk'[t] = disk[t])
  BY DEF Live, Written
<1>2. LiveTyped'
  BY <1>1 DEF LiveTyped, Fits
<1>3. UniqueOnDisk'
  <2> SUFFICES ASSUME NEW t \in DOMAIN disk', NEW u \in DOMAIN disk', t # u, disk'[t].kind = disk'[u].kind
               PROVE  /\ disk'[t].kind = "BLOB" => disk'[t].blob # disk'[u].blob
                      /\ disk'[t].kind = "MSTATE" => disk'[t].mstate # disk'[u].mstate
                      /\ disk'[t].kind \in {"FILEINFO", "MSTATE_AUX"} => ~Prefix(disk'[t].path, disk'[u].path)
    BY DEF UniqueOnDisk
  <2>1. CASE disk'[t].kind = "EMPTY"
    BY <2>1
  <2>2. CASE disk'[t].kind # "EMPTY" /\ t = s
    BY <1>1, <2>2 DEF Distinct
  <2>3. CASE disk'[t].kind # "EMPTY" /\ u = s
    BY <1>1, <2>3 DEF Distinct
  <2>4. CASE disk'[t].kind # "EMPTY" /\ t # s /\ u # s
    BY <1>1, <2>4 DEF UniqueOnDisk
  <2> QED BY <2>1, <2>2, <2>3, <2>4
<1> QED BY <1>2, <1>3

\* Tables whose segments are left alone.
LEMMA FilesKept ==
  ASSUME FilesMatch(disk), KindKept(disk, disk', "FILEINFO"), UNCHANGED <<file_map, FileTable>>
  PROVE  FilesMatch(disk)'
<1>1. IndexOf(FileTable, disk', "FILEINFO", "path")
  BY IndexKept DEF FilesMatch
<1>2. \A p \in DOMAIN FileTable : disk'[FileTable[p]].blobs = file_map[p].blobs
  BY DEF FilesMatch, IndexOf, KindKept, SegmentsOf
<1> QED BY <1>1, <1>2 DEF FilesMatch

LEMMA TagsMatchKept ==
  ASSUME TagsMatch(disk), KindKept(disk, disk', "MSTATE_AUX"), UNCHANGED mstate_aux_map
  PROVE  TagsMatch(disk)'
<1>1. TagTable' = TagTable
  BY DEF TagTable
<1>2. IndexOf(TagTable, disk', "MSTATE_AUX", "path")
  BY IndexKept DEF TagsMatch
<1>3. \A p \in DOMAIN TagTable : disk'[TagTable[p]].mstate = mstate_aux_map[p].mstate
  BY DEF TagsMatch, IndexOf, KindKept, SegmentsOf
<1> QED BY <1>1, <1>2, <1>3 DEF TagsMatch

LEMMA BlobsMatchKept ==
  ASSUME BlobsMatch(disk), KindKept(disk, disk', "BLOB"), UNCHANGED blob_map
  PROVE  BlobsMatch(disk)'
BY IndexKept DEF BlobsMatch

LEMMA MstatesMatchKept ==
  ASSUME MstatesMatch(disk), KindKept(disk, disk', "MSTATE"), UNCHANGED mstate_map
  PROVE  MstatesMatch(disk)'
BY IndexKept DEF MstatesMatch

LEMMA FileTableKept ==
  ASSUME UNCHANGED file_map, \A p : Removing(p)' <=> Removing(p)
  PROVE  FileTable' = FileTable
BY DEF FileTable

LEMMA StoredBlobsKept ==
  ASSUME KindKept(disk, disk', "BLOB")
  PROVE  StoredBlobs' = StoredBlobs
BY DEF KindKept, StoredBlobs
-----------------------------------------------------------------------------
(* Writing a blob, an mstate, an entry, a tag. *)

\* The file tiles again and the free list is right.
FileGood == Tiled(disk', eof') /\ endAt' \in {eof', NoEnd} /\ FreeList(disk, fragments)'

LEMMA SegmentTypes ==
  /\ \A b \in BlobIds, m \in MstateIds, size \in BlobSizes :
       /\ BlobSegment(b, m, size) \in Segments
       /\ BlobSegment(b, m, size).kind = "BLOB" /\ BlobSegment(b, m, size).len = 320 + 8 * size
       /\ BlobSegment(b, m, size).blob = b /\ BlobSegment(b, m, size).mstate = m
  /\ \A m \in MstateIds, size \in MstateSizes :
       /\ MstateSegment(m, size) \in Segments
       /\ MstateSegment(m, size).kind = "MSTATE" /\ MstateSegment(m, size).len = 192 + 8 * size
       /\ MstateSegment(m, size).mstate = m
  /\ \A p \in FilePaths, bs \in Seq(BlobIds) :
       /\ FileSegment(p, bs) \in Segments
       /\ FileSegment(p, bs).kind = "FILEINFO"
       /\ FileSegment(p, bs).path = p /\ FileSegment(p, bs).blobs = bs
  /\ \A p \in TagPaths, m \in MstateIds :
       /\ AuxSegment(p, m) \in Segments
       /\ AuxSegment(p, m).kind = "MSTATE_AUX"
       /\ AuxSegment(p, m).path = p /\ AuxSegment(p, m).mstate = m
<1>1. <<>> \in Seq(BlobIds) /\ HZ_ARCHIVE_VERSION \in Versions
  BY ConstantsAssumption
<1>2. /\ \A size \in BlobSizes : 320 + 8 * size \in Nat
      /\ \A size \in MstateSizes : 192 + 8 * size \in Nat
      /\ \A p \in FilePaths, bs \in Seq(BlobIds) : 130 + 8 * PathLength[p] + 64 * Len(bs) \in Nat
      /\ \A p \in TagPaths : 136 + 8 * PathLength[p] \in Nat
  <2>1. \A p \in FilePaths \cup TagPaths : PathLength[p] \in Nat
    BY ConstantsAssumption
  <2>2. \A bs \in Seq(BlobIds) : Len(bs) \in Nat
    OBVIOUS
  <2> QED BY <2>1, <2>2, ConstantsAssumption
<1> QED BY <1>1, <1>2 DEF BlobSegment, MstateSegment, FileSegment, AuxSegment, Segment, Segments, Kinds

LEMMA BlobWritten ==
  ASSUME Opened, NEW b \in BlobIds, NEW m \in MstateIds, NEW size \in BlobSizes,
         hza_write_blob(b, m, size), UNCHANGED maps, \A p : Removing(p)' <=> Removing(p)
  PROVE  /\ FileGood /\ TablesMatch(disk)' /\ LiveTyped' /\ UniqueOnDisk'
         /\ StoredBlobs' = StoredBlobs \cup {b} /\ b \notin StoredBlobs
         /\ KindKept(disk, disk', "FILEINFO")
         /\ \E s : Written(disk, disk', s, BlobSegment(b, m, size))
<1> DEFINE seg == BlobSegment(b, m, size)
           s   == hza_alloc_fragment(seg.len).sof
<1>1. Writable /\ TablesMatch(disk)
  BY OpenedState
<1>2. /\ seg \in Segments /\ seg.kind = "BLOB" /\ seg.len = 320 + 8 * size /\ seg.blob = b /\ seg.mstate = m
  BY SegmentTypes
<1>3. /\ b \notin DOMAIN blob_map /\ WriteSegment(seg) /\ UNCHANGED mstate_map
      /\ blob_map' = Put(blob_map, b, s)
  BY <1>2 DEF hza_write_blob
<1> HIDE DEF seg
<1>4. FileGood /\ Written(disk, disk', s, seg)
  BY <1>1, <1>2, <1>3, WriteEffect DEF FileGood
<1> HIDE DEF s
<1>5. KindKept(disk, disk', "FILEINFO") /\ KindKept(disk, disk', "MSTATE_AUX") /\ KindKept(disk, disk', "MSTATE")
  BY <1>2, <1>4, WrittenKeeps
<1>6. FilesMatch(disk)' /\ TagsMatch(disk)' /\ MstatesMatch(disk)'
  BY <1>1, <1>3, <1>5, FileTableKept, FilesKept, TagsMatchKept, MstatesMatchKept DEF TablesMatch, maps
<1>7. BlobsMatch(disk)'
  <2>1. seg["blob"] = b
    BY <1>2
  <2> QED BY <1>1, <1>2, <1>3, <1>4, <2>1, IndexAdded DEF TablesMatch, BlobsMatch
<1>8. \A t \in SegmentsOf(disk, "BLOB") : disk[t].blob # b
  BY <1>1, <1>3 DEF TablesMatch, BlobsMatch, IndexOf, SegmentsOf
<1>9. LiveTyped' /\ UniqueOnDisk'
  BY <1>2, <1>4, <1>8, GrownSafe DEF Opened, Consistent, Fits, Distinct, SegmentsOf
<1>10. StoredBlobs' = StoredBlobs \cup {b} /\ b \notin StoredBlobs
  <2>1. /\ SegmentsOf(disk', "BLOB") = SegmentsOf(disk, "BLOB") \cup {s} /\ disk'[s] = seg
        /\ \A t \in SegmentsOf(disk, "BLOB") : disk'[t] = disk[t]
    BY <1>2, <1>4 DEF Written, Live, SegmentsOf
  <2> QED BY <1>2, <1>8, <2>1 DEF StoredBlobs
<1>11. TablesMatch(disk)'
  BY <1>4, <1>6, <1>7 DEF TablesMatch, FileGood
<1> QED BY <1>4, <1>5, <1>9, <1>10, <1>11 DEF seg

LEMMA MstateWritten ==
  ASSUME Opened, NEW m \in MstateIds, NEW size \in MstateSizes,
         hza_write_mstate(m, size), UNCHANGED <<maps, blob_map>>, \A p : Removing(p)' <=> Removing(p)
  PROVE  /\ FileGood /\ TablesMatch(disk)' /\ LiveTyped' /\ UniqueOnDisk'
         /\ StoredBlobs' = StoredBlobs /\ KindKept(disk, disk', "FILEINFO")
         /\ \E s : Written(disk, disk', s, MstateSegment(m, size))
<1> DEFINE seg == MstateSegment(m, size)
           s   == hza_alloc_fragment(seg.len).sof
<1>1. Writable /\ TablesMatch(disk)
  BY OpenedState
<1>2. /\ seg \in Segments /\ seg.kind = "MSTATE" /\ seg.len = 192 + 8 * size /\ seg.mstate = m
  BY SegmentTypes
<1>3. m \notin DOMAIN mstate_map /\ WriteSegment(seg) /\ mstate_map' = Put(mstate_map, m, s)
  BY <1>2 DEF hza_write_mstate
<1> HIDE DEF seg
<1>4. FileGood /\ Written(disk, disk', s, seg)
  BY <1>1, <1>2, <1>3, WriteEffect DEF FileGood
<1> HIDE DEF s
<1>5. KindKept(disk, disk', "FILEINFO") /\ KindKept(disk, disk', "MSTATE_AUX") /\ KindKept(disk, disk', "BLOB")
  BY <1>2, <1>4, WrittenKeeps
<1>6. FilesMatch(disk)' /\ TagsMatch(disk)' /\ BlobsMatch(disk)'
  BY <1>1, <1>3, <1>5, FileTableKept, FilesKept, TagsMatchKept, BlobsMatchKept DEF TablesMatch, maps
<1>7. MstatesMatch(disk)'
  <2>1. seg["mstate"] = m
    BY <1>2
  <2> QED BY <1>1, <1>2, <1>3, <1>4, <2>1, IndexAdded DEF TablesMatch, MstatesMatch
<1>8. \A t \in SegmentsOf(disk, "MSTATE") : disk[t].mstate # m
  BY <1>1, <1>3 DEF TablesMatch, MstatesMatch, IndexOf, SegmentsOf
<1>9. LiveTyped' /\ UniqueOnDisk'
  BY <1>2, <1>4, <1>8, GrownSafe DEF Opened, Consistent, Fits, Distinct, SegmentsOf
<1>10. TablesMatch(disk)'
  BY <1>4, <1>6, <1>7 DEF TablesMatch, FileGood
<1> QED BY <1>4, <1>5, <1>9, <1>10, StoredBlobsKept DEF seg

\* The paths of a table of paths are those of its segments.
LEMMA EntryWritten ==
  ASSUME Opened, NEW p \in FilePaths, NEW bs \in Seq(BlobIds), ~Contains(file_map, p),
         op.kind # "remove", op'.kind # "remove",
         UNCHANGED <<mstate_aux_map, blob_map, mstate_map>>,
         ~Blocked(file_map, p), WriteSegment(FileSegment(p, bs)),
         file_map' = Put(file_map, p, [blobs |-> bs, sof |-> hza_alloc_fragment(FileSegment(p, bs).len).sof])
  PROVE  /\ FileGood /\ TablesMatch(disk)' /\ LiveTyped' /\ UniqueOnDisk'
         /\ StoredBlobs' = StoredBlobs
         /\ \E s : /\ Written(disk, disk', s, FileSegment(p, bs))
                   /\ SegmentsOf(disk', "FILEINFO") = SegmentsOf(disk, "FILEINFO") \cup {s}
                   /\ s \notin SegmentsOf(disk, "FILEINFO") /\ disk'[s] = FileSegment(p, bs)
                   /\ \A t \in SegmentsOf(disk, "FILEINFO") : disk'[t] = disk[t]
<1> DEFINE seg == FileSegment(p, bs)
           s   == hza_alloc_fragment(seg.len).sof
<1>1. Writable /\ TablesMatch(disk)
  BY OpenedState
<1>2. seg \in Segments /\ seg.kind = "FILEINFO" /\ seg.path = p /\ seg.blobs = bs
  BY SegmentTypes
<1> HIDE DEF seg
<1>3. WriteSegment(seg) /\ file_map' = Put(file_map, p, [blobs |-> bs, sof |-> s])
  BY DEF seg
<1>4. FileGood /\ Written(disk, disk', s, seg)
  BY <1>1, <1>2, <1>3, WriteEffect DEF FileGood
<1> HIDE DEF s
<1>5. KindKept(disk, disk', "BLOB") /\ KindKept(disk, disk', "MSTATE_AUX") /\ KindKept(disk, disk', "MSTATE")
  BY <1>2, <1>4, WrittenKeeps
<1>6. TagsMatch(disk)' /\ BlobsMatch(disk)' /\ MstatesMatch(disk)'
  BY <1>1, <1>5, TagsMatchKept, BlobsMatchKept, MstatesMatchKept DEF TablesMatch
<1>7. /\ DOMAIN FileTable = DOMAIN file_map /\ FileTable' = Put(FileTable, p, s)
      /\ \A q \in DOMAIN FileTable : FileTable[q] = file_map[q].sof
  <2>1. (\A q : ~Removing(q)) /\ (\A q : ~Removing(q)')
    BY DEF Removing
  <2>2. FileTable = [q \in DOMAIN file_map |-> file_map[q].sof]
    BY <2>1 DEF FileTable
  <2>3. FileTable' = [q \in DOMAIN file_map' |-> file_map'[q].sof]
    BY <2>1 DEF FileTable
  <2>4. /\ DOMAIN file_map' = DOMAIN file_map \cup {p} /\ file_map'[p].sof = s
        /\ \A q \in DOMAIN file_map \ {p} : file_map'[q] = file_map[q]
    BY <1>3 DEF Put
  <2> QED BY <2>2, <2>3, <2>4 DEF Put
<1>8. p \notin DOMAIN file_map /\ \A q \in DOMAIN file_map : ~Prefix(p, q) /\ ~Prefix(q, p)
  <2>1. \A q \in DOMAIN file_map : q \in FilePaths
    BY <1>1, <1>7 DEF TablesMatch, FilesMatch, IndexOf, Opened, Consistent, LiveTyped, Fits
  <2>2. FilePaths \subseteq Seq(STRING)
    BY ConstantsAssumption
  <2> QED BY <2>1, <2>2, FreshPath
<1>9. IndexOf(FileTable, disk, "FILEINFO", "path")
  BY <1>1 DEF TablesMatch, FilesMatch
<1>10. FilesMatch(disk)'
  <2>1. seg["path"] = p /\ p \notin DOMAIN FileTable
    BY <1>2, <1>7, <1>8
  <2>2. IndexOf(FileTable', disk', "FILEINFO", "path")
    BY <1>2, <1>4, <1>7, <1>9, <2>1, IndexAdded
  <2>3. \A q \in DOMAIN FileTable : disk'[FileTable[q]] = disk[FileTable[q]]
    BY <1>4, <1>9 DEF IndexOf, Written, Live
  <2>4. /\ DOMAIN FileTable' = DOMAIN FileTable \cup {p} /\ FileTable'[p] = s
        /\ \A q \in DOMAIN FileTable : q # p /\ FileTable'[q] = FileTable[q] /\ file_map'[q] = file_map[q]
        /\ file_map'[p].blobs = bs
    BY <1>3, <1>7, <2>1 DEF Put
  <2>5. \A q \in DOMAIN FileTable' : disk'[FileTable'[q]].blobs = file_map'[q].blobs
    BY <1>1, <1>2, <1>4, <2>3, <2>4 DEF TablesMatch, FilesMatch, Written
  <2> QED BY <2>2, <2>5 DEF FilesMatch
<1>11. \A t \in SegmentsOf(disk, "FILEINFO") : ~Prefix(p, disk[t].path) /\ ~Prefix(disk[t].path, p)
  BY <1>7, <1>8, <1>9 DEF IndexOf, SegmentsOf
<1>12. LiveTyped' /\ UniqueOnDisk'
  BY <1>2, <1>4, <1>11, GrownSafe DEF Opened, Consistent, Fits, Distinct, SegmentsOf
<1>13. /\ SegmentsOf(disk', "FILEINFO") = SegmentsOf(disk, "FILEINFO") \cup {s}
       /\ s \notin SegmentsOf(disk, "FILEINFO") /\ disk'[s] = seg
       /\ \A t \in SegmentsOf(disk, "FILEINFO") : disk'[t] = disk[t]
  BY <1>2, <1>4 DEF Written, Live, SegmentsOf
<1>14. TablesMatch(disk)'
  BY <1>4, <1>6, <1>10 DEF TablesMatch, FileGood
<1> QED BY <1>4, <1>5, <1>12, <1>13, <1>14, StoredBlobsKept DEF seg

LEMMA TagWritten ==
  ASSUME Opened, NEW p \in TagPaths, NEW m \in MstateIds, ~Contains(mstate_aux_map, p),
         UNCHANGED <<file_map, blob_map, mstate_map>>, \A q : Removing(q)' <=> Removing(q),
         ~Blocked(mstate_aux_map, p), WriteSegment(AuxSegment(p, m)),
         mstate_aux_map' = Put(mstate_aux_map, p,
                               [mstate |-> m, sof |-> hza_alloc_fragment(AuxSegment(p, m).len).sof])
  PROVE  /\ FileGood /\ TablesMatch(disk)' /\ LiveTyped' /\ UniqueOnDisk'
         /\ StoredBlobs' = StoredBlobs /\ KindKept(disk, disk', "FILEINFO")
         /\ \E s : Written(disk, disk', s, AuxSegment(p, m))
<1> DEFINE seg == AuxSegment(p, m)
           s   == hza_alloc_fragment(seg.len).sof
<1>1. Writable /\ TablesMatch(disk)
  BY OpenedState
<1>2. seg \in Segments /\ seg.kind = "MSTATE_AUX" /\ seg.path = p /\ seg.mstate = m
  BY SegmentTypes
<1> HIDE DEF seg
<1>3. WriteSegment(seg) /\ mstate_aux_map' = Put(mstate_aux_map, p, [mstate |-> m, sof |-> s])
  BY DEF seg
<1>4. FileGood /\ Written(disk, disk', s, seg)
  BY <1>1, <1>2, <1>3, WriteEffect DEF FileGood
<1> HIDE DEF s
<1>5. KindKept(disk, disk', "BLOB") /\ KindKept(disk, disk', "FILEINFO") /\ KindKept(disk, disk', "MSTATE")
  BY <1>2, <1>4, WrittenKeeps
<1>6. FilesMatch(disk)' /\ BlobsMatch(disk)' /\ MstatesMatch(disk)'
  BY <1>1, <1>5, FileTableKept, FilesKept, BlobsMatchKept, MstatesMatchKept DEF TablesMatch
<1>7. /\ DOMAIN TagTable = DOMAIN mstate_aux_map /\ TagTable' = Put(TagTable, p, s)
      /\ \A q \in DOMAIN TagTable : TagTable[q] = mstate_aux_map[q].sof
  BY <1>3 DEF TagTable, Put
<1>8. p \notin DOMAIN mstate_aux_map /\ \A q \in DOMAIN mstate_aux_map : ~Prefix(p, q) /\ ~Prefix(q, p)
  <2>1. \A q \in DOMAIN mstate_aux_map : q \in TagPaths
    BY <1>1, <1>7 DEF TablesMatch, TagsMatch, IndexOf, Opened, Consistent, LiveTyped, Fits
  <2>2. TagPaths \subseteq Seq(STRING)
    BY ConstantsAssumption
  <2> QED BY <2>1, <2>2, FreshPath
<1>9. IndexOf(TagTable, disk, "MSTATE_AUX", "path")
  BY <1>1 DEF TablesMatch, TagsMatch
<1>10. TagsMatch(disk)'
  <2>1. seg["path"] = p /\ p \notin DOMAIN TagTable
    BY <1>2, <1>7, <1>8
  <2>2. IndexOf(TagTable', disk', "MSTATE_AUX", "path")
    BY <1>2, <1>4, <1>7, <1>9, <2>1, IndexAdded
  <2>3. \A q \in DOMAIN TagTable : disk'[TagTable[q]] = disk[TagTable[q]]
    BY <1>4, <1>9 DEF IndexOf, Written, Live
  <2>4. /\ DOMAIN TagTable' = DOMAIN TagTable \cup {p} /\ TagTable'[p] = s
        /\ \A q \in DOMAIN TagTable : /\ q # p /\ TagTable'[q] = TagTable[q]
                                      /\ mstate_aux_map'[q] = mstate_aux_map[q]
        /\ mstate_aux_map'[p].mstate = m
    BY <1>3, <1>7, <2>1 DEF Put
  <2>5. \A q \in DOMAIN TagTable' : disk'[TagTable'[q]].mstate = mstate_aux_map'[q].mstate
    BY <1>1, <1>2, <1>4, <2>3, <2>4 DEF TablesMatch, TagsMatch, Written
  <2> QED BY <2>2, <2>5 DEF TagsMatch
<1>11. \A t \in SegmentsOf(disk, "MSTATE_AUX") : ~Prefix(p, disk[t].path) /\ ~Prefix(disk[t].path, p)
  BY <1>7, <1>8, <1>9 DEF IndexOf, SegmentsOf
<1>12. LiveTyped' /\ UniqueOnDisk'
  BY <1>2, <1>4, <1>11, GrownSafe DEF Opened, Consistent, Fits, Distinct, SegmentsOf
<1>13. TablesMatch(disk)'
  BY <1>4, <1>6, <1>10 DEF TablesMatch, FileGood
<1> QED BY <1>4, <1>5, <1>12, <1>13, StoredBlobsKept DEF seg

\* Space was taken and set() threw before the segment was written.
LEMMA AllocatedOnly ==
  ASSUME Opened, NEW seg \in Segments, seg.kind # "EMPTY", disk' = hza_alloc_fragment(seg.len).disk
  PROVE  /\ SameLive(disk, disk') /\ LiveTyped' /\ UniqueOnDisk'
         /\ StoredBlobs' = StoredBlobs /\ KindKept(disk, disk', "FILEINFO")
<1>1. SameLive(disk, disk')
  BY OpenedState, AllocationKeepsData
<1>2. KindKept(disk, disk', "BLOB") /\ KindKept(disk, disk', "FILEINFO")
  BY <1>1, SameLiveKeeps
<1> QED BY <1>1, <1>2, SameLiveSafe, StoredBlobsKept DEF Opened, Consistent
-----------------------------------------------------------------------------
(* Freeing an entry, a blob, an mstate, a tag. *)

\* The segment hza_rm_mstate frees.
MstateAt(m) == IF m \in DOMAIN mstate_map THEN {mstate_map[m]} ELSE {}

LEMMA MstateFreed ==
  ASSUME Opened, NEW S, NEW e, NEW gs, FreedTo(S, e, gs), NEW m, \A s \in S : disk[s].kind # "MSTATE"
  PROVE  /\ FreedTo(S \cup MstateAt(m), RmMstateDisk(e, m), RmMstateFragments(gs, m))
         /\ \A s \in MstateAt(m) : s \in Live(disk) /\ disk[s].kind = "MSTATE"
<1>1. Writable /\ MstatesMatch(disk)
  BY OpenedState DEF TablesMatch
<1>2. CASE m \in DOMAIN mstate_map
  <2>1. disk[mstate_map[m]].kind = "MSTATE" /\ mstate_map[m] \in Live(disk) \ S
    BY <1>1, <1>2 DEF MstatesMatch, IndexOf, Live
  <2> QED BY <1>1, <1>2, <2>1, FreeOne DEF MstateAt, RmMstateDisk, RmMstateFragments
<1>3. CASE m \notin DOMAIN mstate_map
  BY <1>3 DEF MstateAt, RmMstateDisk, RmMstateFragments
<1> QED BY <1>2, <1>3

LEMMA MstatesDropped ==
  ASSUME Opened, NEW S, Freed(disk, disk', S), NEW m, MstateAt(m) \subseteq S,
         \A s \in S : disk[s].kind = "MSTATE" => s \in MstateAt(m),
         mstate_map' = Drop(mstate_map, m)
  PROVE  MstatesMatch(disk)'
<1>1. IndexOf(mstate_map, disk, "MSTATE", "mstate") /\ DiskOK(disk)
  BY OpenedState DEF TablesMatch, MstatesMatch, Writable, FileTyped
<1>2. CASE m \in DOMAIN mstate_map
  <2>1. MstateAt(m) = {mstate_map[m]}
    BY <1>2 DEF MstateAt
  <2> QED BY <1>1, <1>2, <2>1, IndexRemoved DEF MstatesMatch
<1>3. CASE m \notin DOMAIN mstate_map
  <2>1. KindKept(disk, disk', "MSTATE")
    BY <1>1, <1>3, FreedKeeps DEF MstateAt
  <2>2. IndexOf(mstate_map, disk', "MSTATE", "mstate")
    BY <1>1, <2>1, IndexKept
  <2>3. DOMAIN mstate_map' = DOMAIN mstate_map /\ \A k \in DOMAIN mstate_map : mstate_map'[k] = mstate_map[k]
    BY <1>3 DEF Drop
  <2> QED BY <2>2, <2>3 DEF MstatesMatch, IndexOf
<1> QED BY <1>2, <1>3

LEMMA FreedGood ==
  ASSUME Opened, NEW S, FreedTo(S, disk', fragments'), UNCHANGED <<eof, endAt>>
  PROVE  FileGood /\ Freed(disk, disk', S) /\ LiveTyped' /\ UniqueOnDisk'
<1>1. Writable
  BY OpenedState
<1>2. FileGood /\ Freed(disk, disk', S)
  BY <1>1 DEF FileGood, FreedTo, Writable
<1>3. LiveTyped' /\ UniqueOnDisk'
  BY <1>1, <1>2, FreedSafe DEF Opened, Consistent, Writable, FileTyped
<1> QED BY <1>2, <1>3

\* remove_file's first step.
LEMMA EntryFreed ==
  ASSUME Opened, NEW p \in DOMAIN FileTable, FreedTo({FileTable[p]}, disk', fragments'),
         UNCHANGED <<eof, endAt, mstate_aux_map, blob_map, mstate_map, file_map>>,
         FileTable' = Drop(FileTable, p)
  PROVE  /\ FileGood /\ TablesMatch(disk)' /\ LiveTyped' /\ UniqueOnDisk'
         /\ StoredBlobs' = StoredBlobs /\ Freed(disk, disk', {FileTable[p]}) /\ disk[FileTable[p]].kind = "FILEINFO"
         /\ SegmentsOf(disk', "FILEINFO") = SegmentsOf(disk, "FILEINFO") \ {FileTable[p]}
         /\ \A t \in SegmentsOf(disk', "FILEINFO") : disk'[t] = disk[t]
<1> DEFINE s == FileTable[p]
<1>1. Writable /\ TablesMatch(disk) /\ DiskOK(disk)
  BY OpenedState DEF Writable, FileTyped
<1>2. FileGood /\ Freed(disk, disk', {s}) /\ LiveTyped' /\ UniqueOnDisk'
  BY FreedGood
<1>3. IndexOf(FileTable, disk, "FILEINFO", "path")
  BY <1>1 DEF TablesMatch, FilesMatch
<1>4. s \in DOMAIN disk /\ disk[s].kind = "FILEINFO"
  BY <1>3 DEF IndexOf
<1> HIDE DEF s
<1>5. KindKept(disk, disk', "BLOB") /\ KindKept(disk, disk', "MSTATE_AUX") /\ KindKept(disk, disk', "MSTATE")
  BY <1>1, <1>2, <1>4, FreedKeeps
<1>6. TagsMatch(disk)' /\ BlobsMatch(disk)' /\ MstatesMatch(disk)'
  BY <1>1, <1>5, TagsMatchKept, BlobsMatchKept, MstatesMatchKept DEF TablesMatch
<1>7. FilesMatch(disk)'
  <2>1. IndexOf(FileTable', disk', "FILEINFO", "path")
    BY <1>1, <1>2, <1>3, IndexRemoved DEF s
  <2>2. DOMAIN FileTable' = DOMAIN FileTable \ {p} /\ \A q \in DOMAIN FileTable' : FileTable'[q] = FileTable[q]
    BY DEF Drop
  <2>3. \A q \in DOMAIN FileTable' : FileTable[q] # s /\ FileTable[q] \in DOMAIN disk
    BY <1>3, <2>2 DEF IndexOf, s
  <2>4. \A q \in DOMAIN FileTable' : disk'[FileTable'[q]] = disk[FileTable[q]]
    BY <1>2, <2>2, <2>3 DEF Freed
  <2>5. \A q \in DOMAIN FileTable' : disk'[FileTable'[q]].blobs = file_map'[q].blobs
    BY <1>1, <2>2, <2>4 DEF TablesMatch, FilesMatch
  <2> QED BY <2>1, <2>5 DEF FilesMatch
<1>8. TablesMatch(disk)'
  BY <1>2, <1>6, <1>7 DEF TablesMatch, FileGood
<1>9. /\ SegmentsOf(disk', "FILEINFO") = SegmentsOf(disk, "FILEINFO") \ {s}
      /\ \A t \in SegmentsOf(disk', "FILEINFO") : disk'[t] = disk[t]
  <2>1. Live(disk') = Live(disk) \ {s} /\ \A t \in Live(disk') : disk'[t] = disk[t]
    BY <1>1, <1>2, FreedLive
  <2> QED BY <2>1 DEF SegmentsOf, Live
<1> QED BY <1>2, <1>4, <1>5, <1>8, <1>9, StoredBlobsKept DEF s

\* What hza_rm_blob frees: the blob, and its mstate when nothing else needs it.
FreedWith(b) ==
  {blob_map[b]} \cup IF DropsMstate(disk[blob_map[b]].mstate) THEN MstateAt(disk[blob_map[b]].mstate) ELSE {}

\* hza_rm_blob
LEMMA BlobFreed ==
  ASSUME Opened, NEW b \in DOMAIN blob_map, hza_rm_blob(b), UNCHANGED <<eof, endAt, maps>>,
         \A p : Removing(p)' <=> Removing(p)
  PROVE  /\ FileGood /\ TablesMatch(disk)' /\ LiveTyped' /\ UniqueOnDisk'
         /\ StoredBlobs \ {b} \subseteq StoredBlobs' /\ KindKept(disk, disk', "FILEINFO")
         /\ FreedWith(b) \subseteq Live(disk) /\ Freed(disk, disk', FreedWith(b))
         /\ \A t \in FreedWith(b) : (disk[t].kind = "BLOB" /\ disk[t].blob = b) \/ disk[t].kind = "MSTATE"
<1> DEFINE sof == blob_map[b]
           m   == disk[sof].mstate
           d   == MarkEmpty(disk, sof)
           fs  == Append(fragments, FragmentAt(sof))
           S   == FreedWith(b)
<1>1. Writable /\ TablesMatch(disk) /\ DiskOK(disk)
  BY OpenedState DEF Writable, FileTyped
<1>2. IndexOf(blob_map, disk, "BLOB", "blob")
  BY <1>1 DEF TablesMatch, BlobsMatch
<1>3. sof \in DOMAIN disk /\ disk[sof].kind = "BLOB" /\ disk[sof].blob = b /\ sof \in Live(disk)
  BY <1>2 DEF IndexOf, Live
<1>4. /\ disk' = IF DropsMstate(m) THEN RmMstateDisk(d, m) ELSE d
      /\ fragments' = IF DropsMstate(m) THEN RmMstateFragments(fs, m) ELSE fs
      /\ mstate_map' = IF DropsMstate(m) THEN Drop(mstate_map, m) ELSE mstate_map
      /\ blob_map' = Drop(blob_map, b)
  BY DEF hza_rm_blob
<1> HIDE DEF sof, m
<1>5. FreedTo({sof}, d, fs)
  <2>1. FreedTo({}, disk, fragments)
    BY <1>1, FreeNone
  <2>2. FreedTo({} \cup {sof}, d, fs)
    BY <1>1, <1>3, <2>1, FreeOne
  <2>3. {} \cup {sof} = {sof}
    OBVIOUS
  <2> QED BY <2>2, <2>3
<1> HIDE DEF d, fs
<1>6. /\ FreedTo({sof} \cup MstateAt(m), RmMstateDisk(d, m), RmMstateFragments(fs, m))
      /\ \A s \in MstateAt(m) : disk[s].kind = "MSTATE"
  BY <1>3, <1>5, MstateFreed
<1>7. FreedTo(S, disk', fragments')
  BY <1>4, <1>5, <1>6 DEF FreedWith, sof, m
<1>8. sof \in S /\ \A s \in S : s = sof \/ (DropsMstate(m) /\ s \in MstateAt(m) /\ disk[s].kind = "MSTATE")
  BY <1>6 DEF FreedWith, sof, m
<1>9. DropsMstate(m) => MstateAt(m) \subseteq S
  BY DEF FreedWith, sof, m
<1> HIDE DEF S
<1>10. FileGood /\ Freed(disk, disk', S) /\ LiveTyped' /\ UniqueOnDisk'
  BY <1>7, FreedGood
<1>11. KindKept(disk, disk', "FILEINFO") /\ KindKept(disk, disk', "MSTATE_AUX")
  BY <1>1, <1>3, <1>8, <1>10, FreedKeeps
<1>12. FilesMatch(disk)' /\ TagsMatch(disk)'
  BY <1>1, <1>11, FileTableKept, FilesKept, TagsMatchKept DEF TablesMatch, maps
<1>13. BlobsMatch(disk)'
  <2>1. \A s \in S : disk[s].kind = "BLOB" => s = blob_map[b]
    BY <1>8 DEF sof
  <2>2. blob_map[b] \in S
    BY <1>8 DEF sof
  <2>3. IndexOf(Drop(blob_map, b), disk', "BLOB", "blob")
    BY <1>1, <1>2, <1>10, <2>1, <2>2, IndexRemoved
  <2> QED BY <1>4, <2>3 DEF BlobsMatch
<1>14. MstatesMatch(disk)'
  <2>1. CASE DropsMstate(m)
    BY <1>3, <1>4, <1>8, <1>9, <1>10, <2>1, MstatesDropped
  <2>2. CASE ~DropsMstate(m)
    <3>1. KindKept(disk, disk', "MSTATE")
      BY <1>1, <1>3, <1>8, <1>10, <2>2, FreedKeeps
    <3> QED BY <1>1, <1>4, <2>2, <3>1, MstatesMatchKept DEF TablesMatch
  <2> QED BY <2>1, <2>2
<1>15. TablesMatch(disk)'
  BY <1>10, <1>12, <1>13, <1>14 DEF TablesMatch, FileGood
<1>16. \A t \in S : (disk[t].kind = "BLOB" /\ disk[t].blob = b) \/ disk[t].kind = "MSTATE"
  BY <1>3, <1>8
<1>17. StoredBlobs \ {b} \subseteq StoredBlobs'
  <2>1. \A t \in SegmentsOf(disk, "BLOB") : disk[t].blob # b => t \in SegmentsOf(disk', "BLOB") /\ disk'[t] = disk[t]
    BY <1>10, <1>16 DEF Freed, SegmentsOf
  <2> QED BY <2>1 DEF StoredBlobs
<1>18. S \subseteq Live(disk)
  BY <1>10 DEF Freed
<1> QED BY <1>10, <1>11, <1>15, <1>16, <1>17, <1>18 DEF S

\* uninstall_mstate, by tag and by id.
LEMMA TagFreed ==
  ASSUME Opened, NEW p, UninstallTag(p)
  PROVE  /\ FileGood /\ TablesMatch(disk)' /\ LiveTyped' /\ UniqueOnDisk'
         /\ StoredBlobs' = StoredBlobs /\ KindKept(disk, disk', "FILEINFO")
         /\ Freed(disk, disk', MstateAt(mstate_aux_map[p].mstate) \cup {TagTable[p]})
         /\ disk[TagTable[p]].kind = "MSTATE_AUX" /\ \A s \in MstateAt(mstate_aux_map[p].mstate) : disk[s].kind = "MSTATE"
<1> DEFINE m   == mstate_aux_map[p].mstate
           sof == mstate_aux_map[p].sof
           d   == RmMstateDisk(disk, m)
           fs  == RmMstateFragments(fragments, m)
           S   == MstateAt(m) \cup {sof}
<1>1. Writable /\ TablesMatch(disk) /\ DiskOK(disk)
  BY OpenedState DEF Writable, FileTyped
<1>2. /\ p \in DOMAIN mstate_aux_map
      /\ disk' = MarkEmpty(d, sof) /\ fragments' = Append(fs, FragmentAt(sof))
      /\ mstate_map' = Drop(mstate_map, m) /\ mstate_aux_map' = Drop(mstate_aux_map, p)
      /\ UNCHANGED <<op, eof, endAt, file_map, blob_map>>
  BY DEF UninstallTag
<1>3. IndexOf(TagTable, disk, "MSTATE_AUX", "path") /\ DOMAIN TagTable = DOMAIN mstate_aux_map
      /\ \A q \in DOMAIN TagTable : TagTable[q] = mstate_aux_map[q].sof
  BY <1>1 DEF TablesMatch, TagsMatch, TagTable
<1>4. sof = TagTable[p] /\ sof \in DOMAIN disk /\ disk[sof].kind = "MSTATE_AUX" /\ sof \in Live(disk)
  BY <1>2, <1>3 DEF IndexOf, Live
<1> HIDE DEF m, sof
<1>5. FreedTo(MstateAt(m), d, fs) /\ \A s \in MstateAt(m) : disk[s].kind = "MSTATE"
  <2>1. FreedTo({}, disk, fragments)
    BY <1>1, FreeNone
  <2>2. /\ FreedTo({} \cup MstateAt(m), d, fs)
        /\ \A s \in MstateAt(m) : disk[s].kind = "MSTATE"
    BY <2>1, MstateFreed
  <2>3. {} \cup MstateAt(m) = MstateAt(m)
    OBVIOUS
  <2> QED BY <2>2, <2>3
<1> HIDE DEF d, fs
<1>6. FreedTo(S, disk', fragments')
  <2>1. sof \in Live(disk) \ MstateAt(m)
    BY <1>4, <1>5
  <2> QED BY <1>1, <1>2, <1>5, <2>1, FreeOne
<1>7. sof \in S /\ MstateAt(m) \subseteq S /\ \A s \in S : s = sof \/ (s \in MstateAt(m) /\ disk[s].kind = "MSTATE")
  BY <1>5
<1> HIDE DEF S
<1>8. FileGood /\ Freed(disk, disk', S) /\ LiveTyped' /\ UniqueOnDisk'
  BY <1>2, <1>6, FreedGood
<1>9. KindKept(disk, disk', "FILEINFO") /\ KindKept(disk, disk', "BLOB")
  BY <1>1, <1>4, <1>7, <1>8, FreedKeeps
<1>10. FilesMatch(disk)' /\ BlobsMatch(disk)'
  <2>1. FileTable' = FileTable
    BY <1>2, FileTableKept DEF Removing
  <2> QED BY <1>1, <1>2, <1>9, <2>1, FilesKept, BlobsMatchKept DEF TablesMatch
<1>11. MstatesMatch(disk)'
  BY <1>2, <1>4, <1>7, <1>8, MstatesDropped
<1>12. TagsMatch(disk)'
  <2>1. TagTable' = Drop(TagTable, p)
    BY <1>2, <1>3 DEF TagTable, Drop
  <2>2. IndexOf(TagTable', disk', "MSTATE_AUX", "path")
    BY <1>1, <1>2, <1>3, <1>4, <1>7, <1>8, <2>1, IndexRemoved
  <2>3. /\ DOMAIN TagTable' = DOMAIN TagTable \ {p}
        /\ \A q \in DOMAIN TagTable' : TagTable'[q] = TagTable[q] /\ mstate_aux_map'[q] = mstate_aux_map[q]
    BY <1>2, <1>3, <2>1 DEF Drop
  <2>4. \A q \in DOMAIN TagTable' : TagTable[q] \in DOMAIN disk \ S
    <3>1. \A q \in DOMAIN TagTable : /\ TagTable[q] \in DOMAIN disk /\ disk[TagTable[q]].kind = "MSTATE_AUX"
                                     /\ disk[TagTable[q]].path = q
      BY <1>3 DEF IndexOf
    <3>2. \A q \in DOMAIN TagTable \ {p} : TagTable[q] # sof
      BY <1>2, <1>3, <1>4, <3>1
    <3> QED BY <1>7, <2>3, <3>1, <3>2
  <2>5. \A q \in DOMAIN TagTable' : disk'[TagTable'[q]] = disk[TagTable[q]]
    BY <1>8, <2>3, <2>4 DEF Freed
  <2>6. \A q \in DOMAIN TagTable' : disk'[TagTable'[q]].mstate = mstate_aux_map'[q].mstate
    BY <1>1, <2>3, <2>5 DEF TablesMatch, TagsMatch
  <2> QED BY <2>2, <2>6 DEF TagsMatch
<1>13. TablesMatch(disk)'
  BY <1>8, <1>10, <1>11, <1>12 DEF TablesMatch, FileGood
<1> QED BY <1>4, <1>5, <1>8, <1>9, <1>13, StoredBlobsKept DEF S, m

LEMMA IdFreed ==
  ASSUME Opened, NEW m, UninstallId(m)
  PROVE  /\ FileGood /\ TablesMatch(disk)' /\ LiveTyped' /\ UniqueOnDisk'
         /\ StoredBlobs' = StoredBlobs /\ KindKept(disk, disk', "FILEINFO")
         /\ Freed(disk, disk', MstateAt(m)) /\ \A s \in MstateAt(m) : disk[s].kind = "MSTATE"
<1>1. Writable /\ TablesMatch(disk) /\ DiskOK(disk)
  BY OpenedState DEF Writable, FileTyped
<1>2. /\ disk' = RmMstateDisk(disk, m) /\ fragments' = RmMstateFragments(fragments, m)
      /\ mstate_map' = Drop(mstate_map, m)
      /\ UNCHANGED <<op, eof, endAt, file_map, mstate_aux_map, blob_map>>
  BY DEF UninstallId, maps
<1>3. FreedTo(MstateAt(m), disk', fragments') /\ \A s \in MstateAt(m) : disk[s].kind = "MSTATE"
  <2>1. FreedTo({}, disk, fragments)
    BY <1>1, FreeNone
  <2>2. /\ FreedTo({} \cup MstateAt(m), RmMstateDisk(disk, m), RmMstateFragments(fragments, m))
        /\ \A s \in MstateAt(m) : disk[s].kind = "MSTATE"
    BY <2>1, MstateFreed
  <2>3. {} \cup MstateAt(m) = MstateAt(m)
    OBVIOUS
  <2> QED BY <1>2, <2>2, <2>3
<1>4. FileGood /\ Freed(disk, disk', MstateAt(m)) /\ LiveTyped' /\ UniqueOnDisk'
  BY <1>2, <1>3, FreedGood
<1>5. KindKept(disk, disk', "FILEINFO") /\ KindKept(disk, disk', "BLOB") /\ KindKept(disk, disk', "MSTATE_AUX")
  BY <1>1, <1>3, <1>4, FreedKeeps
<1>6. FilesMatch(disk)' /\ BlobsMatch(disk)' /\ TagsMatch(disk)'
  <2>1. FileTable' = FileTable
    BY <1>2, FileTableKept DEF Removing
  <2> QED BY <1>1, <1>2, <1>5, <2>1, FilesKept, BlobsMatchKept, TagsMatchKept DEF TablesMatch
<1>7. MstatesMatch(disk)'
  BY <1>2, <1>3, <1>4, MstatesDropped
<1>8. TablesMatch(disk)'
  BY <1>4, <1>6, <1>7 DEF TablesMatch, FileGood
<1> QED BY <1>3, <1>4, <1>5, <1>8, StoredBlobsKept
-----------------------------------------------------------------------------
(* Who owns which blob after a step. *)
LEMMA EntriesKept ==
  ASSUME KindKept(disk, disk', "FILEINFO")
  PROVE  /\ DOMAIN Lists' = DOMAIN Lists
         /\ \A s \in SegmentsOf(disk, "FILEINFO") : Lists'[<<"entry", s>>] = Lists[<<"entry", s>>]
BY ListsAre, NextListsAre DEF ListsShape, KindKept

LEMMA ListCases ==
  ASSUME NEW l \in DOMAIN Lists
  PROVE  \/ \E s \in SegmentsOf(disk, "FILEINFO") : l = <<"entry", s>>
         \/ \E c \in Clients : l = <<"session", c>>
         \/ l = <<"op", 0>>
BY ListsAre DEF ListsShape

LEMMA NextListCases == (\A l \in DOMAIN Lists : \/ \E s \in SegmentsOf(disk, "FILEINFO") : l = <<"entry", s>>
                                                \/ \E c \in Clients : l = <<"session", c>>
                                                \/ l = <<"op", 0>>)'
BY NextListsAre DEF ListsShape

\* Sessions and the operation keep their lists or drop them.
LEMMA OwnedKept ==
  ASSUME Owned, KindKept(disk, disk', "FILEINFO"), StoredBlobs \subseteq StoredBlobs',
         \A c \in Clients : pending'[c] \in {pending[c], <<>>}, op'.blobs \in {op.blobs, <<>>}
  PROVE  Owned'
<1>1. DOMAIN <<>> = {}
  OBVIOUS
<1>2. DOMAIN Lists' = DOMAIN Lists
  BY EntriesKept
<1>3. \A l \in DOMAIN Lists : DOMAIN Lists'[l] = {} \/ Lists'[l] = Lists[l]
  <2> SUFFICES ASSUME NEW l \in DOMAIN Lists PROVE DOMAIN Lists'[l] = {} \/ Lists'[l] = Lists[l]
    OBVIOUS
  <2>1. CASE \E s \in SegmentsOf(disk, "FILEINFO") : l = <<"entry", s>>
    BY <2>1, EntriesKept
  <2>2. CASE \E c \in Clients : l = <<"session", c>>
    BY <1>1, <2>2, ListsAre, NextListsAre DEF ListsShape
  <2>3. CASE l = <<"op", 0>>
    BY <1>1, <2>3, ListsAre, NextListsAre DEF ListsShape
  <2> QED BY <2>1, <2>2, <2>3, ListCases
<1> QED BY <1>2, <1>3, OwnedCleared DEF Owned

\* A list gets the blob that was written.
LEMMA OwnedGrows ==
  ASSUME Owned, KindKept(disk, disk', "FILEINFO"),
         NEW b \in BlobIds, b \notin StoredBlobs, StoredBlobs' = StoredBlobs \cup {b},
         NEW l \in DOMAIN Lists, Lists[l] \in Seq(BlobIds), Lists'[l] = Append(Lists[l], b),
         \A k \in DOMAIN Lists \ {l} : Lists'[k] = Lists[k]
  PROVE  Owned'
BY EntriesKept, OwnedAppended DEF Owned

\* A new entry at s takes the list of k, a session's or the operation's.
LEMMA OwnedFiled ==
  ASSUME Owned, StoredBlobs' = StoredBlobs,
         NEW s, SegmentsOf(disk', "FILEINFO") = SegmentsOf(disk, "FILEINFO") \cup {s},
         s \notin SegmentsOf(disk, "FILEINFO"),
         \A t \in SegmentsOf(disk, "FILEINFO") : disk'[t] = disk[t],
         NEW k \in DOMAIN Lists, disk'[s].blobs = Lists[k],
         \A l \in {<<"session", c>> : c \in Clients} \cup {<<"op", 0>>} :
           DOMAIN Lists'[l] = {} \/ (l # k /\ Lists'[l] = Lists[l]),
         \A t \in SegmentsOf(disk, "FILEINFO") : k # <<"entry", t>>
  PROVE  Owned'
<1> DEFINE l == <<"entry", s>>
<1>1. l \in DOMAIN Lists' /\ Lists'[l] = Lists[k]
  BY NextListsAre DEF ListsShape
<1>2. \A x \in DOMAIN Lists' \ {l} : DOMAIN Lists'[x] = {} \/ (x \in DOMAIN Lists \ {k} /\ Lists'[x] = Lists[x])
  <2> SUFFICES ASSUME NEW x \in DOMAIN Lists' \ {l}
               PROVE  DOMAIN Lists'[x] = {} \/ (x \in DOMAIN Lists \ {k} /\ Lists'[x] = Lists[x])
    OBVIOUS
  <2>1. CASE \E t \in SegmentsOf(disk', "FILEINFO") : x = <<"entry", t>>
    BY <2>1, ListsAre, NextListsAre DEF ListsShape
  <2>2. CASE x \in {<<"session", c>> : c \in Clients} \cup {<<"op", 0>>}
    BY <2>2, ListsAre DEF ListsShape
  <2> QED BY <2>1, <2>2, NextListCases
<1> HIDE DEF l
<1> QED BY <1>1, <1>2, OwnedMoved DEF Owned

\* remove_file takes the list of the entry it has freed.
LEMMA OwnedUnfiled ==
  ASSUME Owned, StoredBlobs' = StoredBlobs,
         NEW s \in SegmentsOf(disk, "FILEINFO"),
         SegmentsOf(disk', "FILEINFO") = SegmentsOf(disk, "FILEINFO") \ {s},
         \A t \in SegmentsOf(disk', "FILEINFO") : disk'[t] = disk[t],
         UNCHANGED pending, op'.blobs = disk[s].blobs
  PROVE  Owned'
<1> DEFINE k == <<"entry", s>>
           l == <<"op", 0>>
<1>1. k \in DOMAIN Lists /\ l \in DOMAIN Lists' /\ Lists'[l] = Lists[k]
  BY ListsAre, NextListsAre DEF ListsShape
<1>2. \A x \in DOMAIN Lists' \ {l} : x \in DOMAIN Lists \ {k} /\ Lists'[x] = Lists[x]
  <2> SUFFICES ASSUME NEW x \in DOMAIN Lists' \ {l} PROVE x \in DOMAIN Lists \ {k} /\ Lists'[x] = Lists[x]
    OBVIOUS
  <2>1. CASE \E t \in SegmentsOf(disk', "FILEINFO") : x = <<"entry", t>>
    BY <2>1, ListsAre, NextListsAre DEF ListsShape
  <2>2. CASE \E c \in Clients : x = <<"session", c>>
    BY <2>2, ListsAre, NextListsAre DEF ListsShape
  <2> QED BY <2>1, <2>2, NextListCases
<1> HIDE DEF k, l
<1> QED BY <1>1, <1>2, OwnedMoved DEF Owned

\* remove_file frees the first blob of its list.
LEMMA OwnedFreed ==
  ASSUME Owned, KindKept(disk, disk', "FILEINFO"), UNCHANGED pending,
         op.blobs \in Seq(BlobIds), op.blobs # <<>>, op'.blobs = Tail(op.blobs),
         StoredBlobs \ {Head(op.blobs)} \subseteq StoredBlobs'
  PROVE  Owned'
<1> DEFINE l == <<"op", 0>>
<1>1. l \in DOMAIN Lists /\ Lists[l] = op.blobs /\ Lists'[l] = op'.blobs
  BY ListsAre, NextListsAre DEF ListsShape
<1>2. DOMAIN Lists' = DOMAIN Lists
  BY EntriesKept
<1>3. \A x \in DOMAIN Lists \ {l} : Lists'[x] = Lists[x]
  <2> SUFFICES ASSUME NEW x \in DOMAIN Lists \ {l} PROVE Lists'[x] = Lists[x]
    OBVIOUS
  <2>1. CASE \E t \in SegmentsOf(disk, "FILEINFO") : x = <<"entry", t>>
    BY <2>1, EntriesKept
  <2>2. CASE \E c \in Clients : x = <<"session", c>>
    BY <2>2, ListsAre, NextListsAre DEF ListsShape
  <2> QED BY <2>1, <2>2, ListCases
<1> HIDE DEF l
<1> QED BY <1>1, <1>2, <1>3, OwnedTail DEF Owned
-----------------------------------------------------------------------------
(* The operations, one lemma each. *)
LEMMA ReadyOpened ==
  ASSUME Consistent, Ready
  PROVE  Opened /\ op.kind = "none"
BY DEF Ready, Opened, HandleUsable

LEMMA IdleFits ==
  ASSUME op'.kind = "none"
  PROVE  ControlFits'
BY DEF ControlFits

LEMMA WriteBlobConsistent ==
  ASSUME Consistent, Sorted', NEW c \in Clients, NEW b \in BlobIds, NEW m \in MstateIds, NEW size \in BlobSizes,
         WriteBlob(c, b, m, size)
  PROVE  Consistent'
<1>1. Opened /\ op.kind = "none" /\ op' = op /\ phase' = "open"
  BY ReadyOpened DEF WriteBlob, Ready
<1>2. hza_write_blob(b, m, size) /\ UNCHANGED maps /\ \A p : Removing(p)' <=> Removing(p)
  BY <1>1 DEF WriteBlob, Removing
<1>3. /\ FileGood /\ TablesMatch(disk)' /\ LiveTyped' /\ UniqueOnDisk'
      /\ StoredBlobs' = StoredBlobs \cup {b} /\ b \notin StoredBlobs /\ KindKept(disk, disk', "FILEINFO")
  BY <1>1, <1>2, BlobWritten
<1>4. Owned'
  <2> DEFINE l == <<"session", c>>
  <2>1. pending[c] \in Seq(BlobIds) /\ pending' = [pending EXCEPT ![c] = Append(@, b)]
    BY DEF WriteBlob, Consistent, Sorted, ControlTyped
  <2>2. pending'[c] = Append(pending[c], b) /\ \A k \in Clients \ {c} : pending'[k] = pending[k]
    BY <2>1 DEF Consistent, Sorted, ControlTyped
  <2>3. l \in DOMAIN Lists /\ Lists[l] = pending[c] /\ Lists'[l] = Append(Lists[l], b)
    BY <2>2, ListsAre, NextListsAre DEF ListsShape
  <2>4. \A k \in DOMAIN Lists \ {l} : Lists'[k] = Lists[k]
    <3> SUFFICES ASSUME NEW k \in DOMAIN Lists \ {l} PROVE Lists'[k] = Lists[k]
      OBVIOUS
    <3>1. CASE \E s \in SegmentsOf(disk, "FILEINFO") : k = <<"entry", s>>
      BY <1>3, <3>1, EntriesKept
    <3>2. CASE \E a \in Clients : k = <<"session", a>>
      BY <2>2, <3>2, ListsAre, NextListsAre DEF ListsShape
    <3>3. CASE k = <<"op", 0>>
      BY <1>1, <3>3, ListsAre, NextListsAre DEF ListsShape
    <3> QED BY <3>1, <3>2, <3>3, ListCases
  <2> HIDE DEF l
  <2> QED BY <1>3, <2>1, <2>3, <2>4, OwnedGrows DEF Consistent
<1>5. ControlFits' /\ FileEnds' /\ TablesKnown'
  BY <1>1, <1>3, IdleFits, StaysOpen DEF FileGood
<1> QED BY <1>3, <1>4, <1>5 DEF Consistent

\* hza_create_metadata_file_entry with the list of k, which becomes empty.
LEMMA EntryConsistent ==
  ASSUME Opened, Sorted', phase' = "open", op.kind # "remove",
         UNCHANGED <<mstate_aux_map, mstate_inv_aux_map, ids>>,
         NEW p \in FilePaths, ~Contains(file_map, p),
         NEW k \in {<<"session", c>> : c \in Clients} \cup {<<"op", 0>>}, Lists[k] \in Seq(BlobIds),
         hza_create_metadata_file_entry(p, Lists[k], Idle),
         \A l \in {<<"session", c>> : c \in Clients} \cup {<<"op", 0>>} :
           DOMAIN Lists'[l] = {} \/ (l # k /\ Lists'[l] = Lists[l])
  PROVE  Consistent'
<1> DEFINE bs  == Lists[k]
           seg == FileSegment(p, bs)
           a   == hza_alloc_fragment(seg.len)
<1>1. Idle.kind = "none" /\ Dead.kind = "dead" /\ Owned
  BY IdleType DEF Opened, Consistent
<1>2. seg \in Segments /\ seg.kind = "FILEINFO" /\ seg.blobs = bs
  BY SegmentTypes
<1>3. k \in DOMAIN Lists /\ \A t : k # <<"entry", t>>
  BY ListsAre DEF ListsShape
<1>4. CASE /\ ~Blocked(file_map, p) /\ WriteSegment(seg)
           /\ file_map' = Put(file_map, p, [blobs |-> bs, sof |-> a.sof]) /\ op' = Idle
  <2>1. /\ FileGood /\ TablesMatch(disk)' /\ LiveTyped' /\ UniqueOnDisk' /\ StoredBlobs' = StoredBlobs
        /\ \E s : /\ SegmentsOf(disk', "FILEINFO") = SegmentsOf(disk, "FILEINFO") \cup {s}
                  /\ s \notin SegmentsOf(disk, "FILEINFO") /\ disk'[s] = seg
                  /\ \A t \in SegmentsOf(disk, "FILEINFO") : disk'[t] = disk[t]
    BY <1>1, <1>4, EntryWritten DEF ids
  <2>2. PICK s : /\ SegmentsOf(disk', "FILEINFO") = SegmentsOf(disk, "FILEINFO") \cup {s}
                 /\ s \notin SegmentsOf(disk, "FILEINFO") /\ disk'[s] = seg
                 /\ \A t \in SegmentsOf(disk, "FILEINFO") : disk'[t] = disk[t]
    BY <2>1
  <2> HIDE DEF seg, a, bs
  <2>3. disk'[s].blobs = Lists[k]
    BY <1>2, <2>2 DEF bs
  <2>4. Owned'
    BY <1>1, <1>3, <2>1, <2>2, <2>3, OwnedFiled
  <2>5. ControlFits' /\ FileEnds' /\ TablesKnown'
    BY <1>1, <1>4, <2>1, IdleFits, StaysOpen DEF FileGood
  <2> QED BY <2>1, <2>4, <2>5 DEF Consistent
<1>5. CASE Allocated(a) /\ disk' = a.disk /\ op' = Dead /\ UNCHANGED file_map
  <2>1. LiveTyped' /\ UniqueOnDisk' /\ StoredBlobs' = StoredBlobs /\ KindKept(disk, disk', "FILEINFO")
    BY <1>2, <1>5, AllocatedOnly
  <2> HIDE DEF seg, a, bs
  <2>2. DOMAIN Lists' = DOMAIN Lists /\ \A l \in DOMAIN Lists : DOMAIN Lists'[l] = {} \/ Lists'[l] = Lists[l]
    BY <2>1, EntriesKept, ListCases
  <2>3. Owned'
    <3>1. StoredBlobs \subseteq StoredBlobs' /\ OwnedOnce(Lists, StoredBlobs)
      BY <1>1, <2>1 DEF Owned
    <3>2. \A l \in DOMAIN Lists' : DOMAIN Lists'[l] = {} \/ (l \in DOMAIN Lists /\ Lists'[l] = Lists[l])
      BY <2>2
    <3> QED BY <3>1, <3>2, OwnedCleared DEF Owned
  <2>4. ControlFits' /\ FileEnds' /\ TablesKnown'
    BY <1>1, <1>5, DeadFits
  <2> QED BY <2>1, <2>3, <2>4 DEF Consistent
<1>6. hza_create_metadata_file_entry(p, bs, Idle)
  OBVIOUS
<1> HIDE DEF bs
<1> QED BY <1>4, <1>5, <1>6 DEF hza_create_metadata_file_entry

LEMMA CreateFileEntryConsistent ==
  ASSUME Consistent, Sorted', NEW c \in Clients, NEW p \in FilePaths, CreateFileEntry(c, p)
  PROVE  Consistent'
<1> DEFINE k == <<"session", c>>
<1>1. Opened /\ op.kind = "none" /\ phase' = "open"
  BY ReadyOpened DEF CreateFileEntry, Ready
<1>2. k \in {<<"session", d>> : d \in Clients} /\ Lists[k] = pending[c] /\ pending[c] \in Seq(BlobIds)
  BY ListsAre DEF ListsShape, Consistent, Sorted, ControlTyped
<1>3. op'.blobs \in {op.blobs, <<>>}
  BY DEF CreateFileEntry, hza_create_metadata_file_entry, Idle, Dead, Operation
<1>4. pending'[c] = <<>> /\ \A d \in Clients \ {c} : pending'[d] = pending[d]
  BY DEF CreateFileEntry, Consistent, Sorted, ControlTyped
<1>5. DOMAIN <<>> = {}
  OBVIOUS
<1>6. \A l \in {<<"session", d>> : d \in Clients} \cup {<<"op", 0>>} :
        DOMAIN Lists'[l] = {} \/ (l # k /\ Lists'[l] = Lists[l])
  <2>1. ASSUME NEW d \in Clients
        PROVE  DOMAIN Lists'[<<"session", d>>] = {}
               \/ (<<"session", d>> # k /\ Lists'[<<"session", d>>] = Lists[<<"session", d>>])
    BY <1>4, <1>5, ListsAre, NextListsAre DEF ListsShape
  <2>2. DOMAIN Lists'[<<"op", 0>>] = {} \/ (<<"op", 0>> # k /\ Lists'[<<"op", 0>>] = Lists[<<"op", 0>>])
    BY <1>3, <1>5, ListsAre, NextListsAre DEF ListsShape
  <2> QED BY <2>1, <2>2
<1> HIDE DEF k
<1> QED BY <1>1, <1>2, <1>6, EntryConsistent DEF CreateFileEntry

LEMMA CreateFileFinishConsistent ==
  ASSUME Consistent, Sorted', CreateFileFinish
  PROVE  Consistent'
<1> DEFINE k == <<"op", 0>>
<1>1. Opened /\ op.kind = "create" /\ phase' = "open" /\ op.path \in FilePaths /\ ~Contains(file_map, op.path)
  BY DEF CreateFileFinish, Opened, HandleUsable, Consistent, ControlFits
<1>2. Lists[k] = op.blobs /\ op.blobs \in Seq(BlobIds)
  BY ListsAre DEF ListsShape, Consistent, Sorted, ControlTyped, Operations
<1>3. op'.blobs = <<>> /\ UNCHANGED pending
  BY DEF CreateFileFinish, hza_create_metadata_file_entry, Idle, Dead, Operation
<1>4. \A l \in {<<"session", d>> : d \in Clients} \cup {<<"op", 0>>} :
        DOMAIN Lists'[l] = {} \/ (l # k /\ Lists'[l] = Lists[l])
  <2>1. ASSUME NEW d \in Clients
        PROVE  <<"session", d>> # k /\ Lists'[<<"session", d>>] = Lists[<<"session", d>>]
    BY <1>3, ListsAre, NextListsAre DEF ListsShape
  <2>2. DOMAIN Lists'[<<"op", 0>>] = {}
    BY <1>3, NextListsAre DEF ListsShape
  <2> QED BY <2>1, <2>2
<1>5. hza_create_metadata_file_entry(op.path, Lists[k], Idle)
  BY <1>2 DEF CreateFileFinish
<1> HIDE DEF k
<1>6. k \in {<<"op", 0>>}
  BY DEF k
<1> QED BY <1>1, <1>2, <1>4, <1>5, <1>6, EntryConsistent DEF CreateFileFinish

\* Steps that leave the file and the tables alone.
LEMMA QuietConsistent ==
  ASSUME Consistent, Sorted', ControlFits', HandleUsable' => HandleUsable,
         UNCHANGED <<phase, disk, endAt, eof, fragments, file_map, mstate_aux_map, blob_map, mstate_map>>,
         \A p : Removing(p)' <=> Removing(p),
         \A c \in Clients : pending'[c] \in {pending[c], <<>>}, op'.blobs \in {op.blobs, <<>>}
  PROVE  Consistent'
<1>1. LiveTyped' /\ UniqueOnDisk'
  BY DEF Consistent, LiveTyped, UniqueOnDisk
<1>2. Owned'
  <2>1. KindKept(disk, disk', "FILEINFO") /\ StoredBlobs' = StoredBlobs
    BY DEF KindKept, StoredBlobs
  <2> QED BY <2>1, OwnedKept DEF Consistent
<1>3. FileEnds'
  BY DEF Consistent, FileEnds, ArchiveEnd
<1>4. TablesKnown'
  <2>1. View' = View
    BY DEF View, Indexed
  <2>2. FileTable' = FileTable /\ TagTable' = TagTable
    BY FileTableKept DEF TagTable
  <2> QED BY <2>1, <2>2
          DEF Consistent, TablesKnown, TablesMatch, FilesMatch, TagsMatch, BlobsMatch, MstatesMatch
<1> QED BY <1>1, <1>2, <1>3, <1>4 DEF Consistent

LEMMA AbandonConsistent ==
  ASSUME Consistent, Sorted', NEW c \in Clients, Abandon(c)
  PROVE  Consistent'
<1>1. UNCHANGED <<phase, op, disk, endAt, eof, fragments, file_map, mstate_aux_map, blob_map, mstate_map>>
  BY DEF Abandon, file, maps, ids
<1>2. \A d \in Clients : pending'[d] \in {pending[d], <<>>}
  BY DEF Abandon, Consistent, Sorted, ControlTyped
<1>3. ControlFits'
  BY <1>1 DEF Consistent, ControlFits
<1> QED BY <1>1, <1>2, <1>3, QuietConsistent DEF HandleUsable, Removing

LEMMA CreateFileConsistent ==
  ASSUME Consistent, Sorted', NEW p \in FilePaths, NEW n, CreateFile(p, n)
  PROVE  Consistent'
<1>1. /\ UNCHANGED <<phase, disk, endAt, eof, fragments, file_map, mstate_aux_map, blob_map, mstate_map, pending>>
      /\ phase = "open" /\ op.kind = "none" /\ ~Contains(file_map, p)
  BY DEF CreateFile, Ready, file, maps, ids
<1>2. op'.kind = "create" /\ op'.path = p /\ op'.blobs = <<>>
  BY DEF CreateFile, Operation
<1>3. ControlFits'
  BY <1>1, <1>2 DEF ControlFits
<1> QED BY <1>1, <1>2, <1>3, QuietConsistent DEF HandleUsable, Removing

LEMMA LookupThrowsConsistent ==
  ASSUME Consistent, Sorted', NEW f, NEW p, LookupThrows(f, p)
  PROVE  Consistent'
<1>1. /\ UNCHANGED <<phase, disk, endAt, eof, fragments, file_map, mstate_aux_map, blob_map, mstate_map, pending>>
      /\ phase = "open" /\ op.kind = "none"
  BY DEF LookupThrows, Ready, file, maps, ids
<1>2. op'.kind = "dead" /\ op'.blobs = <<>>
  BY DEF LookupThrows, Dead, Operation
<1>3. ControlFits'
  BY <1>1, <1>2, DeadFits
<1> QED BY <1>1, <1>2, <1>3, QuietConsistent DEF HandleUsable, Removing

LEMMA StutterConsistent ==
  ASSUME Consistent, Sorted', UNCHANGED vars
  PROVE  Consistent'
<1>1. UNCHANGED <<phase, op, disk, endAt, eof, fragments, file_map, mstate_aux_map, blob_map, mstate_map, pending>>
  BY DEF vars
<1>2. ControlFits'
  BY <1>1 DEF Consistent, ControlFits
<1> QED BY <1>1, <1>2, QuietConsistent DEF HandleUsable, Removing

LEMMA CreateFileBlobConsistent ==
  ASSUME Consistent, Sorted', NEW b \in BlobIds, NEW m \in MstateIds, NEW size \in BlobSizes, CreateFileBlob(b, m, size)
  PROVE  Consistent'
<1>1. /\ Opened /\ op.kind = "create" /\ phase' = "open" /\ UNCHANGED <<phase, maps, pending>>
      /\ op.path \in FilePaths /\ ~Contains(file_map, op.path) /\ op.blobs \in Seq(BlobIds) /\ op \in Operations
  BY DEF CreateFileBlob, Opened, HandleUsable, Consistent, ControlFits, Sorted, ControlTyped, Operations
<1>2. CASE hza_write_blob(b, m, size) /\ op' = [op EXCEPT !.left = @ - 1, !.blobs = Append(@, b)]
  <2>1. op'.kind = "create" /\ op'.path = op.path /\ op'.blobs = Append(op.blobs, b)
    BY <1>1, <1>2 DEF Operations
  <2>2. /\ FileGood /\ TablesMatch(disk)' /\ LiveTyped' /\ UniqueOnDisk'
        /\ StoredBlobs' = StoredBlobs \cup {b} /\ b \notin StoredBlobs /\ KindKept(disk, disk', "FILEINFO")
    BY <1>1, <1>2, <2>1, BlobWritten DEF Removing
  <2>3. Owned'
    <3> DEFINE l == <<"op", 0>>
    <3>1. l \in DOMAIN Lists /\ Lists[l] = op.blobs /\ Lists'[l] = Append(Lists[l], b)
      BY <2>1, ListsAre, NextListsAre DEF ListsShape
    <3>2. \A k \in DOMAIN Lists \ {l} : Lists'[k] = Lists[k]
      <4> SUFFICES ASSUME NEW k \in DOMAIN Lists \ {l} PROVE Lists'[k] = Lists[k]
        OBVIOUS
      <4>1. CASE \E s \in SegmentsOf(disk, "FILEINFO") : k = <<"entry", s>>
        BY <2>2, <4>1, EntriesKept
      <4>2. CASE \E a \in Clients : k = <<"session", a>>
        BY <1>1, <4>2, ListsAre, NextListsAre DEF ListsShape
      <4> QED BY <4>1, <4>2, ListCases
    <3> HIDE DEF l
    <3> QED BY <1>1, <2>2, <3>1, <3>2, OwnedGrows DEF Consistent
  <2>4. ControlFits'
    BY <1>1, <2>1 DEF ControlFits, maps
  <2>5. FileEnds' /\ TablesKnown'
    BY <1>1, <2>2, StaysOpen DEF FileGood
  <2> QED BY <2>2, <2>3, <2>4, <2>5 DEF Consistent
<1>3. CASE op' = Idle /\ UNCHANGED <<file, eof, ids, fragments>>
  <2>1. op'.kind = "none" /\ op'.blobs = <<>>
    BY <1>3 DEF Idle, Operation
  <2>2. ControlFits'
    BY <2>1, IdleFits
  <2> QED BY <1>1, <1>3, <2>1, <2>2, QuietConsistent DEF Removing, Opened, maps, ids, file
<1> QED BY <1>2, <1>3 DEF CreateFileBlob

LEMMA RemoveFileConsistent ==
  ASSUME Consistent, Sorted', NEW p \in FilePaths, RemoveFile(p)
  PROVE  Consistent'
<1>1. Opened /\ op.kind = "none" /\ phase' = "open" /\ p \in DOMAIN file_map /\ Writable /\ TablesMatch(disk)
  BY ReadyOpened, OpenedState DEF RemoveFile, Ready
<1>2. /\ disk' = MarkEmpty(disk, file_map[p].sof) /\ fragments' = Append(fragments, FragmentAt(file_map[p].sof))
      /\ op'.kind = "remove" /\ op'.path = p /\ op'.blobs = file_map[p].blobs
      /\ UNCHANGED <<endAt, eof, file_map, mstate_aux_map, blob_map, mstate_map, pending>>
  BY DEF RemoveFile, Operation, maps, ids
<1>3. FileTable = [q \in DOMAIN file_map |-> file_map[q].sof] /\ FileTable' = Drop(FileTable, p)
  <2>1. (\A q : ~Removing(q)) /\ \A q : Removing(q)' <=> q = p
    BY <1>1, <1>2 DEF Removing
  <2> QED BY <1>2, <2>1 DEF FileTable, Drop
<1>4. p \in DOMAIN FileTable /\ FileTable[p] = file_map[p].sof
  BY <1>1, <1>3
<1> DEFINE s == FileTable[p]
<1>5. s \in SegmentsOf(disk, "FILEINFO") /\ s \in Live(disk) /\ disk[s].blobs = file_map[p].blobs
  BY <1>1, <1>4 DEF TablesMatch, FilesMatch, IndexOf, SegmentsOf, Live
<1>6. FreedTo({s}, disk', fragments')
  <2>1. FreedTo({} \cup {s}, disk', fragments')
    BY <1>1, <1>2, <1>4, <1>5, FreeNone, FreeOne
  <2>2. {} \cup {s} = {s}
    OBVIOUS
  <2> QED BY <2>1, <2>2
<1>7. /\ FileGood /\ TablesMatch(disk)' /\ LiveTyped' /\ UniqueOnDisk'
      /\ StoredBlobs' = StoredBlobs
      /\ SegmentsOf(disk', "FILEINFO") = SegmentsOf(disk, "FILEINFO") \ {s}
      /\ \A t \in SegmentsOf(disk', "FILEINFO") : disk'[t] = disk[t]
  BY <1>1, <1>2, <1>3, <1>4, <1>6, EntryFreed
<1> HIDE DEF s
<1>8. Owned'
  BY <1>2, <1>5, <1>7, OwnedUnfiled DEF Consistent
<1>9. ControlFits'
  BY <1>1, <1>2 DEF ControlFits
<1>10. FileEnds' /\ TablesKnown'
  BY <1>1, <1>7, StaysOpen DEF FileGood
<1> QED BY <1>7, <1>8, <1>9, <1>10 DEF Consistent

\* A blob that a removal still has to free is there.
LEMMA BlobsFound ==
  ASSUME Opened, NEW i \in DOMAIN op.blobs
  PROVE  op.blobs[i] \in DOMAIN blob_map
<1>1. op.blobs[i] \in StoredBlobs
  BY ListsAre DEF Opened, Consistent, Owned, OwnedOnce, ListsShape
<1>2. IndexOf(blob_map, disk, "BLOB", "blob")
  BY OpenedState DEF TablesMatch, BlobsMatch
<1> QED BY <1>1, <1>2 DEF StoredBlobs, SegmentsOf, IndexOf

LEMMA RemoveFileBlobConsistent ==
  ASSUME Consistent, Sorted', RemoveFileBlob
  PROVE  Consistent'
<1>1. /\ Opened /\ op.kind = "remove" /\ phase' = "open" /\ UNCHANGED <<maps, pending, endAt, eof>>
      /\ op.blobs \in Seq(BlobIds) /\ op.blobs # <<>> /\ op \in Operations /\ op.path \in DOMAIN file_map
  BY DEF RemoveFileBlob, Opened, HandleUsable, Consistent, ControlFits, Sorted, ControlTyped, Operations
<1>2. Head(op.blobs) \in DOMAIN blob_map
  <2>1. 1 \in DOMAIN op.blobs /\ op.blobs[1] = Head(op.blobs)
    BY <1>1
  <2> QED BY <1>1, <2>1, BlobsFound
<1>3. hza_rm_blob(Head(op.blobs)) /\ op' = [op EXCEPT !.blobs = Tail(@)]
  BY <1>2 DEF RemoveFileBlob
<1>4. op'.kind = "remove" /\ op'.path = op.path /\ op'.blobs = Tail(op.blobs)
  BY <1>1, <1>3 DEF Operations
<1>5. /\ FileGood /\ TablesMatch(disk)' /\ LiveTyped' /\ UniqueOnDisk'
      /\ StoredBlobs \ {Head(op.blobs)} \subseteq StoredBlobs' /\ KindKept(disk, disk', "FILEINFO")
  BY <1>1, <1>2, <1>3, <1>4, BlobFreed DEF Removing
<1>6. Owned'
  BY <1>1, <1>4, <1>5, OwnedFreed DEF Consistent
<1>7. ControlFits'
  BY <1>1, <1>4 DEF ControlFits, maps
<1>8. FileEnds' /\ TablesKnown'
  BY <1>1, <1>5, StaysOpen DEF FileGood
<1> QED BY <1>5, <1>6, <1>7, <1>8 DEF Consistent

LEMMA RemoveFileFinishConsistent ==
  ASSUME Consistent, Sorted', RemoveFileFinish
  PROVE  Consistent'
<1>1. /\ Opened /\ op.kind = "remove" /\ phase' = "open" /\ Writable /\ TablesMatch(disk)
      /\ file_map' = Drop(file_map, op.path) /\ op'.kind = "none" /\ op'.blobs = <<>>
      /\ UNCHANGED <<disk, endAt, eof, fragments, mstate_aux_map, blob_map, mstate_map, pending>>
  BY OpenedState DEF RemoveFileFinish, Opened, HandleUsable, Idle, Operation, file, ids
<1>2. FileTable' = FileTable /\ \A p \in DOMAIN FileTable : file_map'[p] = file_map[p]
  <2>1. (\A q : Removing(q) <=> q = op.path) /\ \A q : ~Removing(q)'
    BY <1>1 DEF Removing
  <2> QED BY <1>1, <2>1 DEF FileTable, Drop
<1>3. TablesMatch(disk)'
  <2>1. FilesMatch(disk)'
    BY <1>1, <1>2 DEF TablesMatch, FilesMatch
  <2>2. TagsMatch(disk)' /\ BlobsMatch(disk)' /\ MstatesMatch(disk)' /\ FreeList(disk, fragments)'
    BY <1>1 DEF TablesMatch, TagsMatch, TagTable, BlobsMatch, MstatesMatch
  <2> QED BY <2>1, <2>2 DEF TablesMatch
<1>4. LiveTyped' /\ UniqueOnDisk'
  BY <1>1 DEF Consistent, LiveTyped, UniqueOnDisk
<1>5. Owned'
  <2>1. KindKept(disk, disk', "FILEINFO") /\ StoredBlobs' = StoredBlobs
    BY <1>1 DEF KindKept, StoredBlobs
  <2> QED BY <1>1, <2>1, OwnedKept DEF Consistent
<1>6. ControlFits' /\ FileEnds' /\ TablesKnown'
  BY <1>1, <1>3, IdleFits, StaysOpen DEF Writable
<1> QED BY <1>4, <1>5, <1>6 DEF Consistent

\* Steps that write or free mstates and tags.
LEMMA MstateStepConsistent ==
  ASSUME Consistent, Sorted', phase' = "open", ControlFits',
         FileGood, TablesMatch(disk)', LiveTyped', UniqueOnDisk',
         StoredBlobs' = StoredBlobs, KindKept(disk, disk', "FILEINFO"),
         UNCHANGED pending, op'.blobs \in {op.blobs, <<>>}
  PROVE  Consistent'
<1>1. Owned'
  BY OwnedKept DEF Consistent
<1>2. FileEnds' /\ TablesKnown'
  BY StaysOpen DEF FileGood
<1> QED BY <1>1, <1>2 DEF Consistent

LEMMA InstallMstateConsistent ==
  ASSUME Consistent, Sorted', NEW p \in TagPaths, NEW m \in MstateIds, NEW size \in MstateSizes,
         InstallMstate(p, m, size)
  PROVE  Consistent'
<1>1. /\ Opened /\ op.kind = "none" /\ phase' = "open" /\ UNCHANGED <<maps, blob_map, pending>>
      /\ hza_write_mstate(m, size) /\ ~Contains(mstate_aux_map, p)
  BY ReadyOpened DEF InstallMstate, Ready
<1>2. op'.kind = "install" /\ op'.path = p /\ op'.blobs = <<>> /\ op'.mstate = m
  BY DEF InstallMstate, Operation
<1>3. \A q : Removing(q)' <=> Removing(q)
  BY <1>1, <1>2 DEF Removing
<1>4. /\ FileGood /\ TablesMatch(disk)' /\ LiveTyped' /\ UniqueOnDisk'
      /\ StoredBlobs' = StoredBlobs /\ KindKept(disk, disk', "FILEINFO")
  BY <1>1, <1>3, MstateWritten
<1>5. ControlFits'
  BY <1>1, <1>2 DEF ControlFits, maps
<1> QED BY <1>1, <1>2, <1>4, <1>5, MstateStepConsistent

LEMMA InstallUntaggedConsistent ==
  ASSUME Consistent, Sorted', NEW m \in MstateIds, NEW size \in MstateSizes, InstallUntagged(m, size)
  PROVE  Consistent'
<1>1. /\ Opened /\ op.kind = "none" /\ phase' = "open" /\ op' = op /\ UNCHANGED <<maps, blob_map, pending>>
      /\ hza_write_mstate(m, size)
  BY ReadyOpened DEF InstallUntagged, Ready
<1>2. \A q : Removing(q)' <=> Removing(q)
  BY <1>1 DEF Removing
<1>3. /\ FileGood /\ TablesMatch(disk)' /\ LiveTyped' /\ UniqueOnDisk'
      /\ StoredBlobs' = StoredBlobs /\ KindKept(disk, disk', "FILEINFO")
  BY <1>1, <1>2, MstateWritten
<1>4. ControlFits'
  BY <1>1, IdleFits
<1> QED BY <1>1, <1>3, <1>4, MstateStepConsistent

LEMMA InstallMstateTagConsistent ==
  ASSUME Consistent, Sorted', InstallMstateTag
  PROVE  Consistent'
<1> DEFINE p   == op.path
           m   == op.mstate
           seg == AuxSegment(p, m)
           a   == hza_alloc_fragment(seg.len)
<1>1. /\ Opened /\ op.kind = "install" /\ phase' = "open" /\ UNCHANGED <<file_map, blob_map, mstate_map, pending>>
      /\ p \in TagPaths /\ m \in MstateIds /\ ~Contains(mstate_aux_map, p)
  BY DEF InstallMstateTag, Opened, HandleUsable, Consistent, ControlFits, ids
<1>2. Idle.kind = "none" /\ Dead.kind = "dead" /\ Idle.blobs = <<>> /\ Dead.blobs = <<>>
  BY DEF Idle, Dead, Operation
<1>3. CASE /\ ~Blocked(mstate_aux_map, p) /\ WriteSegment(seg)
           /\ mstate_aux_map' = Put(mstate_aux_map, p, [mstate |-> m, sof |-> a.sof])
           /\ op' = Idle
  <2>1. \A q : Removing(q)' <=> Removing(q)
    BY <1>1, <1>2, <1>3 DEF Removing
  <2> HIDE DEF p, m
  <2>2. /\ FileGood /\ TablesMatch(disk)' /\ LiveTyped' /\ UniqueOnDisk'
        /\ StoredBlobs' = StoredBlobs /\ KindKept(disk, disk', "FILEINFO")
    BY <1>1, <1>3, <2>1, TagWritten
  <2>3. ControlFits'
    BY <1>2, <1>3, IdleFits
  <2> QED BY <1>1, <1>2, <1>3, <2>2, <2>3, MstateStepConsistent
<1>4. CASE Allocated(a) /\ disk' = a.disk /\ op' = Dead
  <2>1. seg \in Segments /\ seg.kind = "MSTATE_AUX"
    BY <1>1, SegmentTypes
  <2>2. LiveTyped' /\ UniqueOnDisk' /\ StoredBlobs' = StoredBlobs /\ KindKept(disk, disk', "FILEINFO")
    BY <1>1, <1>4, <2>1, AllocatedOnly
  <2>3. Owned'
    BY <1>1, <1>2, <1>4, <2>2, OwnedKept DEF Consistent
  <2>4. ControlFits' /\ FileEnds' /\ TablesKnown'
    BY <1>1, <1>2, <1>4, DeadFits
  <2> QED BY <2>2, <2>3, <2>4 DEF Consistent
<1> QED BY <1>3, <1>4 DEF InstallMstateTag

LEMMA UninstallTagConsistent ==
  ASSUME Consistent, Sorted', NEW p \in TagPaths, UninstallTag(p)
  PROVE  Consistent'
<1>1. Opened /\ op.kind = "none" /\ phase' = "open" /\ op' = op /\ UNCHANGED pending
  BY ReadyOpened DEF UninstallTag, Ready
<1>2. /\ FileGood /\ TablesMatch(disk)' /\ LiveTyped' /\ UniqueOnDisk'
      /\ StoredBlobs' = StoredBlobs /\ KindKept(disk, disk', "FILEINFO")
  BY <1>1, TagFreed
<1>3. ControlFits'
  BY <1>1, IdleFits
<1> QED BY <1>1, <1>2, <1>3, MstateStepConsistent

LEMMA UninstallIdConsistent ==
  ASSUME Consistent, Sorted', NEW m \in MstateIds, UninstallId(m)
  PROVE  Consistent'
<1>1. Opened /\ op.kind = "none" /\ phase' = "open" /\ op' = op /\ UNCHANGED pending
  BY ReadyOpened DEF UninstallId, Ready
<1>2. /\ FileGood /\ TablesMatch(disk)' /\ LiveTyped' /\ UniqueOnDisk'
      /\ StoredBlobs' = StoredBlobs /\ KindKept(disk, disk', "FILEINFO")
  BY <1>1, IdFreed
<1>3. ControlFits'
  BY <1>1, IdleFits
<1> QED BY <1>1, <1>2, <1>3, MstateStepConsistent

\* Steps that leave the file alone and, if they touch them at all, empty the
\* lists of sessions and of the operation.
LEMMA FileKept ==
  ASSUME LiveTyped, UniqueOnDisk, Owned, disk' = disk,
         \A c \in Clients : pending'[c] \in {pending[c], <<>>}, op'.blobs \in {op.blobs, <<>>}
  PROVE  LiveTyped' /\ UniqueOnDisk' /\ Owned'
<1>1. KindKept(disk, disk', "FILEINFO") /\ StoredBlobs' = StoredBlobs
  BY DEF KindKept, StoredBlobs
<1> QED BY <1>1, OwnedKept DEF LiveTyped, UniqueOnDisk

LEMMA CloseConsistent ==
  ASSUME Consistent, Sorted', Close
  PROVE  Consistent'
<1>1. /\ Opened /\ op.kind = "none" /\ phase' = "closed" /\ endAt' = eof
      /\ UNCHANGED <<op, disk, pending>>
  BY ReadyOpened DEF Close
<1>2. LiveTyped' /\ UniqueOnDisk' /\ Owned'
  BY <1>1, FileKept DEF Consistent
<1>3. Writable
  BY <1>1, OpenedState
<1>4. ControlFits' /\ TablesKnown'
  BY <1>1, IdleFits DEF TablesKnown
<1>5. FileEnds'
  BY <1>1, <1>3 DEF FileEnds, ArchiveEnd, Writable, FileTyped
<1> QED BY <1>2, <1>4, <1>5 DEF Consistent

LEMMA LoadConsistent ==
  ASSUME Consistent, Sorted', Load
  PROVE  Consistent'
<1>1. /\ phase = "closed" /\ phase' = "scanning" /\ eof' = 0 /\ op' = op /\ op.kind = "none"
      /\ file_map' = EmptyMap /\ mstate_aux_map' = EmptyMap /\ blob_map' = EmptyMap /\ mstate_map' = EmptyMap
      /\ fragments' = <<>> /\ UNCHANGED <<disk, endAt>> /\ \A c \in Clients : pending'[c] = <<>>
  BY DEF Load, file, Consistent, ControlFits
<1>2. LiveTyped' /\ UniqueOnDisk' /\ Owned'
  BY <1>1, FileKept DEF Consistent
<1>3. ControlFits'
  BY <1>1, IdleFits
<1>4. HandleUsable /\ endAt \in Nat /\ Tiled(disk, endAt)
  BY <1>1 DEF Consistent, FileEnds, HandleUsable, ArchiveEnd
<1>5. FileEnds'
  BY <1>1, <1>4 DEF FileEnds, ArchiveEnd, Tiled
<1>6. TablesKnown'
  <2>1. DOMAIN View' = {}
    BY <1>1 DEF View, Indexed, Consistent, Sorted, FileTyped, DiskOK
  <2>2. DOMAIN FileTable' = {} /\ DOMAIN TagTable' = {} /\ DOMAIN blob_map' = {} /\ DOMAIN mstate_map' = {}
        /\ DOMAIN fragments' = {}
    BY <1>1 DEF FileTable, TagTable, EmptyMap
  <2> QED BY <2>1, <2>2
          DEF TablesKnown, TablesMatch, FilesMatch, TagsMatch, BlobsMatch, MstatesMatch, IndexOf, FreeList
<1> QED BY <1>2, <1>3, <1>5, <1>6 DEF Consistent
-----------------------------------------------------------------------------
(* hza_scan: the tables learn of one more segment. *)
OneMore(d, e, s, seg) ==
  /\ s \notin DOMAIN d /\ DOMAIN e = DOMAIN d \cup {s} /\ e[s] = seg
  /\ \A t \in DOMAIN d : e[t] = d[t]

LEMMA OneMoreWritten ==
  ASSUME NEW d, NEW e, NEW s, NEW seg, OneMore(d, e, s, seg), seg.kind # "EMPTY"
  PROVE  Written(d, e, s, seg)
BY DEF OneMore, Written, Live

LEMMA OneMoreKeeps ==
  ASSUME NEW d, NEW e, NEW s, NEW seg, OneMore(d, e, s, seg), NEW kind, kind # seg.kind
  PROVE  KindKept(d, e, kind)
BY DEF OneMore, KindKept, SegmentsOf

LEMMA FreeListMore ==
  ASSUME NEW d, NEW e, NEW s, NEW seg, OneMore(d, e, s, seg), seg.kind # "EMPTY",
         NEW fs, FreeList(d, fs)
  PROVE  FreeList(e, fs)
BY DEF OneMore, FreeList

\* The scan finds a free block.
LEMMA FreeScanned ==
  ASSUME NEW d, NEW e, NEW s, NEW seg, OneMore(d, e, s, seg), seg.kind = "EMPTY",
         NEW fs \in Seq(Fragments), FreeList(d, fs), NEW f, f.sof = s, f.length = seg.len
  PROVE  FreeList(e, Append(fs, f))
<1> DEFINE gs == Append(fs, f)
<1>1. /\ Len(fs) \in Nat /\ DOMAIN fs = 1..Len(fs) /\ DOMAIN gs = 1..(Len(fs) + 1)
      /\ gs[Len(fs) + 1] = f /\ \A j \in DOMAIN fs : gs[j] = fs[j]
  OBVIOUS
<1>2. DOMAIN gs = DOMAIN fs \cup {Len(fs) + 1} /\ Len(fs) + 1 \notin DOMAIN fs
  BY <1>1
<1> HIDE DEF gs
<1>3. \A j \in DOMAIN gs :
        gs[j].sof \in DOMAIN e /\ e[gs[j].sof].kind = "EMPTY" /\ gs[j].length = e[gs[j].sof].len
  BY <1>1, <1>2 DEF FreeList, OneMore
<1>4. \A j, k \in DOMAIN gs : gs[j].sof = gs[k].sof => j = k
  BY <1>1, <1>2 DEF FreeList, OneMore
<1>5. \A t \in DOMAIN e : e[t].kind = "EMPTY" => \E j \in DOMAIN gs : gs[j].sof = t
  BY <1>1, <1>2 DEF FreeList, OneMore
<1>6. FreeList(e, gs)
  BY <1>3, <1>4, <1>5 DEF FreeList
<1> QED BY <1>6 DEF gs

\* The read position moves from one segment to the next, or to END.
LEMMA ScannedSegment ==
  ASSUME Consistent, NEW kind, Scanning(kind), Advance
  PROVE  /\ OneMore(View, View', eof, disk[eof]) /\ FileEnds'
         /\ \A s \in DOMAIN View : s \in DOMAIN disk /\ View[s] = disk[s] /\ s # eof
         /\ eof \in DOMAIN disk /\ disk[eof] \in Segments /\ disk[eof].kind = kind
         /\ TablesMatch(View)
<1>1. /\ phase = "scanning" /\ phase' = phase /\ HandleUsable /\ eof \in DOMAIN disk /\ disk[eof].kind = kind
      /\ disk' = disk /\ endAt' = endAt /\ eof' = After(disk, eof)
  BY DEF Scanning, Advance, HandleUsable, file, EndOf, After
<1>2. DiskOK(disk) /\ endAt \in Nat /\ Tiled(disk, endAt) /\ TablesMatch(View)
  BY <1>1 DEF Consistent, Sorted, FileTyped, FileEnds, ArchiveEnd, TablesKnown
<1>3. disk[eof] \in Segments /\ eof \in Nat /\ eof < After(disk, eof) /\ After(disk, eof) \in DOMAIN disk \cup {endAt}
  BY <1>1, <1>2, TiledBelowEnd DEF DiskOK, Tiled
<1>4. FileEnds'
  BY <1>1, <1>2, <1>3 DEF FileEnds, ArchiveEnd
<1>5. \A s \in DOMAIN disk : /\ s \in Nat /\ After(disk, eof) \in Nat
                             /\ s < After(disk, eof) <=> s < eof \/ s = eof
  BY <1>1, <1>2, <1>3 DEF DiskOK, Tiled
<1>6. DOMAIN View = {s \in DOMAIN disk : s < eof} /\ \A s \in DOMAIN View : View[s] = disk[s]
  BY <1>1 DEF View, Indexed
<1>7. DOMAIN View' = {s \in DOMAIN disk : s < After(disk, eof)} /\ \A s \in DOMAIN View' : View'[s] = disk[s]
  BY <1>1 DEF View, Indexed
<1>8. OneMore(View, View', eof, disk[eof])
  BY <1>1, <1>3, <1>5, <1>6, <1>7 DEF OneMore
<1> QED BY <1>1, <1>2, <1>3, <1>4, <1>6, <1>8 DEF OneMore

\* Tables of other kinds of segments.
LEMMA FilesUnseen ==
  ASSUME FilesMatch(View), KindKept(View, View', "FILEINFO"), UNCHANGED file_map, op' = op
  PROVE  FilesMatch(View)'
<1>1. FileTable' = FileTable
  BY FileTableKept DEF Removing
<1>2. IndexOf(FileTable, View', "FILEINFO", "path")
  BY IndexKept DEF FilesMatch
<1>3. \A p \in DOMAIN FileTable : View'[FileTable[p]].blobs = file_map[p].blobs
  BY DEF FilesMatch, IndexOf, KindKept, SegmentsOf
<1> QED BY <1>1, <1>2, <1>3 DEF FilesMatch

LEMMA TagsUnseen ==
  ASSUME TagsMatch(View), KindKept(View, View', "MSTATE_AUX"), UNCHANGED mstate_aux_map
  PROVE  TagsMatch(View)'
<1>1. TagTable' = TagTable
  BY DEF TagTable
<1>2. IndexOf(TagTable, View', "MSTATE_AUX", "path")
  BY IndexKept DEF TagsMatch
<1>3. \A p \in DOMAIN TagTable : View'[TagTable[p]].mstate = mstate_aux_map[p].mstate
  BY DEF TagsMatch, IndexOf, KindKept, SegmentsOf
<1> QED BY <1>1, <1>2, <1>3 DEF TagsMatch

LEMMA BlobsUnseen ==
  ASSUME BlobsMatch(View), KindKept(View, View', "BLOB"), UNCHANGED blob_map
  PROVE  BlobsMatch(View)'
BY IndexKept DEF BlobsMatch

LEMMA MstatesUnseen ==
  ASSUME MstatesMatch(View), KindKept(View, View', "MSTATE"), UNCHANGED mstate_map
  PROVE  MstatesMatch(View)'
BY IndexKept DEF MstatesMatch

\* The table of the kind the scan has met: the key is new, as no two segments of
\* the file share one.
LEMMA KeyUnseen ==
  ASSUME Consistent, NEW kind, Scanning(kind), Advance, NEW T, NEW field,
         IndexOf(T, View, kind, field),
         <<kind, field>> \in {<<"FILEINFO", "path">>, <<"MSTATE_AUX", "path">>, <<"BLOB", "blob">>, <<"MSTATE", "mstate">>}
  PROVE  disk[eof][field] \notin DOMAIN T /\ IndexOf(Put(T, disk[eof][field], eof), View', kind, field)
<1> DEFINE k == disk[eof][field]
<1>1. /\ OneMore(View, View', eof, disk[eof]) /\ eof \in DOMAIN disk /\ disk[eof] \in Segments
      /\ disk[eof].kind = kind
      /\ \A s \in DOMAIN View : s \in DOMAIN disk /\ View[s] = disk[s] /\ s # eof
  BY ScannedSegment
<1>2. ASSUME k \in DOMAIN T PROVE FALSE
  <2>1. PICK s \in DOMAIN disk : s # eof /\ disk[s].kind = kind /\ disk[s][field] = k
    BY <1>1, <1>2 DEF IndexOf
  <2>2. CASE kind = "BLOB" /\ field = "blob"
    BY <1>1, <2>1, <2>2 DEF Consistent, UniqueOnDisk
  <2>3. CASE kind = "MSTATE" /\ field = "mstate"
    BY <1>1, <2>1, <2>3 DEF Consistent, UniqueOnDisk
  <2>4. CASE kind \in {"FILEINFO", "MSTATE_AUX"} /\ field = "path"
    <3>1. disk[s].path = disk[eof].path /\ ~Prefix(disk[eof].path, disk[s].path)
      BY <1>1, <2>1, <2>4 DEF Consistent, UniqueOnDisk
    <3>2. disk[eof].path \in FilePaths \cup TagPaths
      BY <1>1, <2>4 DEF Consistent, LiveTyped, Fits
    <3>3. Prefix(disk[eof].path, disk[eof].path)
      <4>1. Len(disk[eof].path) \in Nat
        BY <3>2, ConstantsAssumption
      <4> QED BY <4>1 DEF Prefix
    <3> QED BY <3>1, <3>3
  <2> QED BY <2>2, <2>3, <2>4
<1>3. Written(View, View', eof, disk[eof])
  BY <1>1, OneMoreWritten
<1>4. IndexOf(Put(T, k, eof), View', kind, field)
  BY <1>1, <1>2, <1>3, IndexAdded
<1> QED BY <1>2, <1>4

\* What every step of the scan needs besides the tables.
LEMMA ScanStepConsistent ==
  ASSUME Consistent, Sorted', NEW kind, Scanning(kind), Advance,
         op' \in {op, Dead}, op' = op => TablesMatch(View)'
  PROVE  Consistent'
<1>1. phase' = "scanning" /\ op.kind = "none" /\ UNCHANGED <<disk, endAt, pending>>
  BY DEF Scanning, Advance, file
<1>2. LiveTyped' /\ UniqueOnDisk' /\ Owned'
  <2>1. op'.blobs \in {op.blobs, <<>>}
    BY DEF Dead, Operation
  <2> QED BY <1>1, <2>1, FileKept DEF Consistent
<1>3. CASE op' = op
  BY <1>1, <1>2, <1>3, ScannedSegment, IdleFits DEF Consistent, TablesKnown
<1>4. CASE op' = Dead
  <2>1. op'.kind = "dead"
    BY <1>4, IdleType
  <2> QED BY <1>1, <1>2, <2>1, DeadFits DEF Consistent
<1> QED BY <1>3, <1>4

LEMMA ScanVersionConsistent ==
  ASSUME Consistent, Sorted', ScanVersion
  PROVE  Consistent'
<1>1. /\ Scanning("VERSION") /\ Advance /\ op' \in {op, Dead}
      /\ UNCHANGED <<file_map, mstate_aux_map, blob_map, mstate_map, fragments>>
  BY DEF ScanVersion
<1>2. OneMore(View, View', eof, disk[eof]) /\ disk[eof].kind = "VERSION" /\ TablesMatch(View)
  BY <1>1, ScannedSegment
<1>3. /\ KindKept(View, View', "FILEINFO") /\ KindKept(View, View', "MSTATE_AUX")
      /\ KindKept(View, View', "BLOB") /\ KindKept(View, View', "MSTATE")
  BY <1>2, OneMoreKeeps
<1>4. FreeList(View', fragments')
  BY <1>1, <1>2, FreeListMore DEF TablesMatch
<1>5. op' = op => TablesMatch(View)'
  BY <1>1, <1>2, <1>3, <1>4, FilesUnseen, TagsUnseen, BlobsUnseen, MstatesUnseen DEF TablesMatch
<1> QED BY <1>1, <1>5, ScanStepConsistent

LEMMA ScanFileConsistent ==
  ASSUME Consistent, Sorted', ScanFile
  PROVE  Consistent'
<1> DEFINE p == disk[eof].path
<1>1. /\ Scanning("FILEINFO") /\ Advance /\ op.kind = "none"
      /\ UNCHANGED <<mstate_aux_map, blob_map, mstate_map, fragments>>
      /\ \/ op' = Dead
         \/ op' = op /\ file_map' = Put(file_map, p, [blobs |-> disk[eof].blobs, sof |-> eof])
  BY DEF ScanFile, Scanning
<1>2. /\ OneMore(View, View', eof, disk[eof]) /\ disk[eof].kind = "FILEINFO" /\ TablesMatch(View)
      /\ disk[eof] \in Segments
  BY <1>1, ScannedSegment
<1>3. /\ KindKept(View, View', "MSTATE_AUX")
      /\ KindKept(View, View', "BLOB") /\ KindKept(View, View', "MSTATE")
  BY <1>2, OneMoreKeeps
<1>4. FreeList(View', fragments')
  BY <1>1, <1>2, FreeListMore DEF TablesMatch
<1>5. ASSUME op' = op, file_map' = Put(file_map, p, [blobs |-> disk[eof].blobs, sof |-> eof])
      PROVE  FilesMatch(View)'
  <2>1. IndexOf(FileTable, View, "FILEINFO", "path")
    BY <1>2 DEF TablesMatch, FilesMatch
  <2>2. p \notin DOMAIN FileTable /\ IndexOf(Put(FileTable, p, eof), View', "FILEINFO", "path")
    <3>1. disk[eof]["path"] = p
      OBVIOUS
    <3> QED BY <1>1, <2>1, <3>1, KeyUnseen
  <2> HIDE DEF p
  <2>3. DOMAIN FileTable = DOMAIN file_map /\ \A q \in DOMAIN FileTable : FileTable[q] = file_map[q].sof
    BY <1>1 DEF FileTable, Removing
  <2>4. /\ DOMAIN file_map' = DOMAIN file_map \cup {p}
        /\ file_map'[p].sof = eof /\ file_map'[p].blobs = disk[eof].blobs
        /\ \A q \in DOMAIN file_map : q # p /\ file_map'[q] = file_map[q]
    BY <1>5, <2>2, <2>3 DEF Put
  <2>5. DOMAIN FileTable' = DOMAIN file_map' /\ \A q \in DOMAIN FileTable' : FileTable'[q] = file_map'[q].sof
    BY <1>1, <1>5 DEF FileTable, Removing
  <2>6. FileTable' = Put(FileTable, p, eof)
    <3>1. FileTable' = [q \in DOMAIN FileTable' |-> FileTable'[q]]
      BY DEF FileTable
    <3> QED BY <2>3, <2>4, <2>5, <3>1 DEF Put
  <2>7. \A q \in DOMAIN FileTable' : View'[FileTable'[q]].blobs = file_map'[q].blobs
    <3>1. \A q \in DOMAIN FileTable : View'[FileTable[q]] = View[FileTable[q]]
      BY <1>2, <2>1 DEF IndexOf, OneMore
    <3>2. \A q \in DOMAIN FileTable : View[FileTable[q]].blobs = file_map[q].blobs
      BY <1>2 DEF TablesMatch, FilesMatch
    <3>3. View'[eof] = disk[eof]
      BY <1>2 DEF OneMore
    <3> QED BY <2>3, <2>4, <2>5, <3>1, <3>2, <3>3
  <2> QED BY <2>2, <2>6, <2>7 DEF FilesMatch
<1>6. ASSUME op' = op, file_map' = Put(file_map, p, [blobs |-> disk[eof].blobs, sof |-> eof])
      PROVE  TablesMatch(View)'
  BY <1>1, <1>2, <1>3, <1>4, <1>5, <1>6, TagsUnseen, BlobsUnseen, MstatesUnseen DEF TablesMatch
<1>7. op' \in {op, Dead} /\ (op' = op => TablesMatch(View)')
  <2>1. op.kind # Dead.kind
    BY <1>1, IdleType
  <2> QED BY <1>1, <1>6, <2>1
<1> QED BY <1>1, <1>7, ScanStepConsistent

LEMMA ScanTagConsistent ==
  ASSUME Consistent, Sorted', ScanTag
  PROVE  Consistent'
<1> DEFINE p == disk[eof].path
<1>1. /\ Scanning("MSTATE_AUX") /\ Advance /\ op.kind = "none"
      /\ UNCHANGED <<file_map, blob_map, mstate_map, fragments>>
      /\ \/ op' = Dead
         \/ op' = op /\ mstate_aux_map' = Put(mstate_aux_map, p, [mstate |-> disk[eof].mstate, sof |-> eof])
  BY DEF ScanTag, Scanning
<1>2. /\ OneMore(View, View', eof, disk[eof]) /\ disk[eof].kind = "MSTATE_AUX" /\ TablesMatch(View)
      /\ disk[eof] \in Segments
  BY <1>1, ScannedSegment
<1>3. /\ KindKept(View, View', "FILEINFO")
      /\ KindKept(View, View', "BLOB") /\ KindKept(View, View', "MSTATE")
  BY <1>2, OneMoreKeeps
<1>4. FreeList(View', fragments')
  BY <1>1, <1>2, FreeListMore DEF TablesMatch
<1>5. ASSUME mstate_aux_map' = Put(mstate_aux_map, p, [mstate |-> disk[eof].mstate, sof |-> eof])
      PROVE  TagsMatch(View)'
  <2>1. IndexOf(TagTable, View, "MSTATE_AUX", "path")
    BY <1>2 DEF TablesMatch, TagsMatch
  <2>2. p \notin DOMAIN TagTable /\ IndexOf(Put(TagTable, p, eof), View', "MSTATE_AUX", "path")
    <3>1. disk[eof]["path"] = p
      OBVIOUS
    <3> QED BY <1>1, <2>1, <3>1, KeyUnseen
  <2> HIDE DEF p
  <2>3. DOMAIN TagTable = DOMAIN mstate_aux_map /\ \A q \in DOMAIN TagTable : TagTable[q] = mstate_aux_map[q].sof
    BY DEF TagTable
  <2>4. /\ DOMAIN mstate_aux_map' = DOMAIN mstate_aux_map \cup {p}
        /\ mstate_aux_map'[p].sof = eof /\ mstate_aux_map'[p].mstate = disk[eof].mstate
        /\ \A q \in DOMAIN mstate_aux_map : q # p /\ mstate_aux_map'[q] = mstate_aux_map[q]
    BY <1>5, <2>2, <2>3 DEF Put
  <2>5. /\ DOMAIN TagTable' = DOMAIN mstate_aux_map'
        /\ \A q \in DOMAIN TagTable' : TagTable'[q] = mstate_aux_map'[q].sof
    BY DEF TagTable
  <2>6. TagTable' = Put(TagTable, p, eof)
    <3>1. TagTable' = [q \in DOMAIN TagTable' |-> TagTable'[q]]
      BY DEF TagTable
    <3> QED BY <2>3, <2>4, <2>5, <3>1 DEF Put
  <2>7. \A q \in DOMAIN TagTable' : View'[TagTable'[q]].mstate = mstate_aux_map'[q].mstate
    <3>1. \A q \in DOMAIN TagTable : View'[TagTable[q]] = View[TagTable[q]]
      BY <1>2, <2>1 DEF IndexOf, OneMore
    <3>2. \A q \in DOMAIN TagTable : View[TagTable[q]].mstate = mstate_aux_map[q].mstate
      BY <1>2 DEF TablesMatch, TagsMatch
    <3>3. View'[eof] = disk[eof]
      BY <1>2 DEF OneMore
    <3> QED BY <2>3, <2>4, <2>5, <3>1, <3>2, <3>3
  <2> QED BY <2>2, <2>6, <2>7 DEF TagsMatch
<1>6. ASSUME op' = op, mstate_aux_map' = Put(mstate_aux_map, p, [mstate |-> disk[eof].mstate, sof |-> eof])
      PROVE  TablesMatch(View)'
  BY <1>1, <1>2, <1>3, <1>4, <1>5, <1>6, FilesUnseen, BlobsUnseen, MstatesUnseen DEF TablesMatch
<1>7. op' \in {op, Dead} /\ (op' = op => TablesMatch(View)')
  <2>1. op.kind # Dead.kind
    BY <1>1, IdleType
  <2> QED BY <1>1, <1>6, <2>1
<1> QED BY <1>1, <1>7, ScanStepConsistent

LEMMA ScanBlobConsistent ==
  ASSUME Consistent, Sorted', ScanBlob
  PROVE  Consistent'
<1>1. /\ Scanning("BLOB") /\ Advance /\ op' = op
      /\ blob_map' = Put(blob_map, disk[eof].blob, eof)
      /\ UNCHANGED <<file_map, mstate_aux_map, mstate_map, fragments>>
  BY DEF ScanBlob
<1>2. OneMore(View, View', eof, disk[eof]) /\ disk[eof].kind = "BLOB" /\ TablesMatch(View)
  BY <1>1, ScannedSegment
<1>3. /\ KindKept(View, View', "FILEINFO") /\ KindKept(View, View', "MSTATE_AUX")
      /\ KindKept(View, View', "MSTATE")
  BY <1>2, OneMoreKeeps
<1>4. FreeList(View', fragments')
  BY <1>1, <1>2, FreeListMore DEF TablesMatch
<1>5. BlobsMatch(View)'
  <2>1. disk[eof]["blob"] = disk[eof].blob /\ IndexOf(blob_map, View, "BLOB", "blob")
    BY <1>2 DEF TablesMatch, BlobsMatch
  <2>2. IndexOf(Put(blob_map, disk[eof].blob, eof), View', "BLOB", "blob")
    BY <1>1, <2>1, KeyUnseen
  <2> QED BY <1>1, <2>2 DEF BlobsMatch
<1>6. TablesMatch(View)'
  BY <1>1, <1>2, <1>3, <1>4, <1>5, FilesUnseen, TagsUnseen, MstatesUnseen DEF TablesMatch
<1> QED BY <1>1, <1>6, ScanStepConsistent

LEMMA ScanMstateConsistent ==
  ASSUME Consistent, Sorted', ScanMstate
  PROVE  Consistent'
<1>1. /\ Scanning("MSTATE") /\ Advance /\ op' = op
      /\ mstate_map' = Put(mstate_map, disk[eof].mstate, eof)
      /\ UNCHANGED <<file_map, mstate_aux_map, blob_map, fragments>>
  BY DEF ScanMstate
<1>2. OneMore(View, View', eof, disk[eof]) /\ disk[eof].kind = "MSTATE" /\ TablesMatch(View)
  BY <1>1, ScannedSegment
<1>3. /\ KindKept(View, View', "FILEINFO") /\ KindKept(View, View', "MSTATE_AUX")
      /\ KindKept(View, View', "BLOB")
  BY <1>2, OneMoreKeeps
<1>4. FreeList(View', fragments')
  BY <1>1, <1>2, FreeListMore DEF TablesMatch
<1>5. MstatesMatch(View)'
  <2>1. disk[eof]["mstate"] = disk[eof].mstate /\ IndexOf(mstate_map, View, "MSTATE", "mstate")
    BY <1>2 DEF TablesMatch, MstatesMatch
  <2>2. IndexOf(Put(mstate_map, disk[eof].mstate, eof), View', "MSTATE", "mstate")
    BY <1>1, <2>1, KeyUnseen
  <2> QED BY <1>1, <2>2 DEF MstatesMatch
<1>6. TablesMatch(View)'
  BY <1>1, <1>2, <1>3, <1>4, <1>5, FilesUnseen, TagsUnseen, BlobsUnseen DEF TablesMatch
<1> QED BY <1>1, <1>6, ScanStepConsistent

LEMMA ScanFragmentConsistent ==
  ASSUME Consistent, Sorted', ScanFragment
  PROVE  Consistent'
<1>1. /\ Scanning("EMPTY") /\ Advance /\ op' = op
      /\ fragments' = Append(fragments, FragmentAt(eof))
      /\ UNCHANGED <<file_map, mstate_aux_map, blob_map, mstate_map>>
  BY DEF ScanFragment
<1>2. OneMore(View, View', eof, disk[eof]) /\ disk[eof].kind = "EMPTY" /\ TablesMatch(View)
  BY <1>1, ScannedSegment
<1>3. /\ KindKept(View, View', "FILEINFO") /\ KindKept(View, View', "MSTATE_AUX")
      /\ KindKept(View, View', "BLOB") /\ KindKept(View, View', "MSTATE")
  BY <1>2, OneMoreKeeps
<1>4. FreeList(View', fragments')
  <2>1. FragmentAt(eof).sof = eof /\ FragmentAt(eof).length = disk[eof].len
    BY DEF FragmentAt
  <2>2. fragments \in Seq(Fragments) /\ FreeList(View, fragments)
    BY <1>2 DEF TablesMatch, Consistent, Sorted, FileTyped
  <2> QED BY <1>1, <1>2, <2>1, <2>2, FreeScanned
<1>5. TablesMatch(View)'
  BY <1>1, <1>2, <1>3, <1>4, FilesUnseen, TagsUnseen, BlobsUnseen, MstatesUnseen DEF TablesMatch
<1> QED BY <1>1, <1>5, ScanStepConsistent

\* At END every segment has been seen.
LEMMA ScanEndConsistent ==
  ASSUME Consistent, Sorted', ScanEnd
  PROVE  Consistent'
<1>1. /\ phase = "scanning" /\ phase' = "open" /\ op.kind = "none" /\ op' = op /\ eof = endAt /\ HandleUsable
      /\ UNCHANGED <<disk, endAt, eof, fragments, file_map, mstate_aux_map, blob_map, mstate_map, pending>>
  BY DEF ScanEnd, HandleUsable, file, maps, ids
<1>2. LiveTyped' /\ UniqueOnDisk' /\ Owned'
  BY <1>1, FileKept DEF Consistent
<1>3. DiskOK(disk) /\ eof \in Nat /\ Tiled(disk, eof) /\ TablesMatch(View)
  BY <1>1 DEF Consistent, Sorted, FileTyped, FileEnds, ArchiveEnd, TablesKnown
<1>4. View' = View
  <2>1. \A s \in DOMAIN disk : s < eof
    BY <1>3, TiledBelowEnd
  <2> QED BY <1>1, <2>1 DEF View, Indexed
<1>5. TablesMatch(View)'
  <2>1. FileTable' = FileTable /\ TagTable' = TagTable
    BY <1>1, FileTableKept DEF TagTable, Removing
  <2> QED BY <1>1, <1>3, <1>4, <2>1 DEF TablesMatch, FilesMatch, TagsMatch, BlobsMatch, MstatesMatch
<1>6. ControlFits' /\ TablesKnown'
  BY <1>1, <1>5, IdleFits DEF TablesKnown
<1>7. FileEnds'
  BY <1>1, <1>3 DEF FileEnds, ArchiveEnd
<1> QED BY <1>2, <1>6, <1>7 DEF Consistent
-----------------------------------------------------------------------------
LEMMA InitConsistent == Init => Consistent
<1> SUFFICES ASSUME Init PROVE Consistent
  OBVIOUS
<1>1. PICK v \in Versions : disk = Put(EmptyMap, 0, VersionSegment(v))
  BY DEF Init
<1>2. /\ phase = "closed" /\ op.kind = "none" /\ op.blobs = <<>> /\ endAt = 104
      /\ \A c \in Clients : pending[c] = <<>>
  BY DEF Init, Idle, Operation, HDR
<1>3. /\ DOMAIN disk = {0} /\ disk[0].kind = "VERSION" /\ disk[0].len = 32
  BY <1>1 DEF Put, EmptyMap, VersionSegment, Segment
<1>4. Sorted /\ ControlFits /\ TablesKnown
  BY <1>2, InitTyped DEF ControlFits, TablesKnown
<1>5. LiveTyped /\ UniqueOnDisk
  BY <1>3 DEF LiveTyped, Fits, UniqueOnDisk
<1>6. Owned
  <2>1. SegmentsOf(disk, "FILEINFO") = {}
    BY <1>3 DEF SegmentsOf
  <2>2. DOMAIN <<>> = {}
    OBVIOUS
  <2>3. \A l \in DOMAIN Lists : DOMAIN Lists[l] = {}
    BY <1>2, <2>1, <2>2, ListsAre DEF ListsShape
  <2> QED BY <2>3 DEF Owned, OwnedOnce
<1>7. FileEnds
  <2>1. After(disk, 0) = 104
    BY <1>3 DEF After, HDR
  <2>2. Tiled(disk, 104)
    BY <1>3, <2>1 DEF Tiled
  <2> QED BY <1>2, <2>2 DEF FileEnds, ArchiveEnd
<1> QED BY <1>4, <1>5, <1>6, <1>7 DEF Consistent

LEMMA NextConsistent == Consistent /\ [Next]_vars => Consistent'
<1> SUFFICES ASSUME Consistent, [Next]_vars PROVE Consistent'
  OBVIOUS
<1>1. Sorted'
  BY NextTyped DEF Consistent
<1>2. CASE UNCHANGED vars
  BY <1>1, <1>2, StutterConsistent
<1>3. CASE Scan
  BY <1>1, <1>3, ScanVersionConsistent, ScanFileConsistent, ScanTagConsistent, ScanBlobConsistent,
     ScanMstateConsistent, ScanFragmentConsistent, ScanEndConsistent DEF Scan
<1>4. CASE Progress /\ ~Scan
  BY <1>1, <1>4, CreateFileBlobConsistent, CreateFileFinishConsistent, RemoveFileBlobConsistent,
     RemoveFileFinishConsistent, InstallMstateTagConsistent DEF Progress
<1>5. CASE ServerRequest
  BY <1>1, <1>5, WriteBlobConsistent, CreateFileEntryConsistent, AbandonConsistent, RemoveFileConsistent,
     InstallMstateConsistent, InstallUntaggedConsistent, UninstallTagConsistent, LookupThrowsConsistent,
     CloseConsistent, LoadConsistent DEF ServerRequest
<1>6. CASE LibraryRequest
  BY <1>1, <1>6, CreateFileConsistent, UninstallIdConsistent DEF LibraryRequest
<1> QED BY <1>2, <1>3, <1>4, <1>5, <1>6 DEF Next

LEMMA AlwaysConsistent == Spec => []Consistent
BY InitConsistent, NextConsistent, PTL DEF Spec
-----------------------------------------------------------------------------
(* What the invariant says. *)
LEMMA ConsistentTiles == Consistent => Tiling
<1>1. \A s : EndOf(s) = After(disk, s)
  BY DEF EndOf, After
<1> QED BY <1>1 DEF Consistent, FileEnds, Tiled, Tiling

LEMMA ConsistentIndexes == Consistent => IndexMatchesFile
<1> SUFFICES ASSUME Consistent, HandleUsable, phase # "closed"
             PROVE  FileIndex /\ TagIndex /\ BlobIndex /\ MstateIndex /\ FragmentIndex
  BY DEF IndexMatchesFile, Consistent
<1>1. TablesMatch(View)
  BY DEF Consistent, TablesKnown
<1>2. /\ \A s \in DOMAIN View : s \in DOMAIN disk /\ Indexed(s) /\ View[s] = disk[s]
      /\ \A s \in DOMAIN disk : Indexed(s) => s \in DOMAIN View /\ View[s] = disk[s]
  BY DEF View
<1>3. FileIndex
  <2>1. /\ DOMAIN FileTable = {p \in DOMAIN file_map : ~Removing(p)}
        /\ \A p \in DOMAIN FileTable : FileTable[p] = file_map[p].sof
    BY DEF FileTable
  <2>2. /\ \A p \in DOMAIN FileTable : /\ FileTable[p] \in DOMAIN View
                                       /\ View[FileTable[p]].kind = "FILEINFO" /\ View[FileTable[p]].path = p
                                       /\ View[FileTable[p]].blobs = file_map[p].blobs
        /\ \A s \in DOMAIN View : View[s].kind = "FILEINFO" =>
             View[s].path \in DOMAIN FileTable /\ FileTable[View[s].path] = s
    BY <1>1 DEF TablesMatch, FilesMatch, IndexOf
  <2> QED BY <1>2, <2>1, <2>2 DEF FileIndex, OfKind
<1>4. TagIndex
  <2>1. /\ DOMAIN TagTable = DOMAIN mstate_aux_map
        /\ \A p \in DOMAIN TagTable : TagTable[p] = mstate_aux_map[p].sof
    BY DEF TagTable
  <2>2. /\ \A p \in DOMAIN TagTable : /\ TagTable[p] \in DOMAIN View
                                      /\ View[TagTable[p]].kind = "MSTATE_AUX" /\ View[TagTable[p]].path = p
                                      /\ View[TagTable[p]].mstate = mstate_aux_map[p].mstate
        /\ \A s \in DOMAIN View : View[s].kind = "MSTATE_AUX" =>
             View[s].path \in DOMAIN TagTable /\ TagTable[View[s].path] = s
    BY <1>1 DEF TablesMatch, TagsMatch, IndexOf
  <2> QED BY <1>2, <2>1, <2>2 DEF TagIndex, OfKind
<1>5. BlobIndex /\ MstateIndex
  BY <1>1, <1>2 DEF TablesMatch, BlobsMatch, MstatesMatch, IndexOf, BlobIndex, MstateIndex, OfKind
<1>6. FragmentIndex
  BY <1>1, <1>2 DEF TablesMatch, FreeList, FragmentIndex, OfKind
<1> QED BY <1>3, <1>4, <1>5, <1>6

-----------------------------------------------------------------------------
(* What a step does to the segments in use. *)

\* The removal frees the blob that comes next in its list, no other step frees a blob.
FreesOwnBlob(S) ==
  \A t \in S : disk[t].kind = "BLOB" =>
    op.kind = "remove" /\ op.blobs # <<>> /\ disk[t].blob = Head(op.blobs)

StepEffect ==
  \/ SameLive(disk, disk')
  \/ \E s, seg : Written(disk, disk', s, seg)
  \/ \E S : Freed(disk, disk', S) /\ FreesOwnBlob(S)

LEMMA QuietEffect == ASSUME UNCHANGED disk PROVE StepEffect
BY DEF StepEffect, SameLive

LEMMA EntryEffect ==
  ASSUME Opened, op.kind # "remove", NEW p \in FilePaths, NEW bs \in Seq(BlobIds),
         hza_create_metadata_file_entry(p, bs, Idle)
  PROVE  StepEffect
<1> DEFINE seg == FileSegment(p, bs)
<1>1. Writable /\ seg \in Segments /\ seg.kind = "FILEINFO"
  BY OpenedState, SegmentTypes
<1>2. WriteSegment(seg) \/ disk' = hza_alloc_fragment(seg.len).disk
  BY DEF hza_create_metadata_file_entry
<1> HIDE DEF seg
<1>3. Written(disk, disk', hza_alloc_fragment(seg.len).sof, seg) \/ SameLive(disk, disk')
  BY <1>1, <1>2, WriteEffect, AllocationKeepsData
<1> QED BY <1>3 DEF StepEffect

LEMMA TagEffect ==
  ASSUME Consistent, InstallMstateTag
  PROVE  StepEffect
<1> DEFINE seg == AuxSegment(op.path, op.mstate)
<1>1. Opened /\ op.path \in TagPaths /\ op.mstate \in MstateIds
  BY DEF InstallMstateTag, Opened, HandleUsable, Consistent, ControlFits
<1>2. Writable /\ seg \in Segments /\ seg.kind = "MSTATE_AUX"
  BY <1>1, OpenedState, SegmentTypes
<1>3. WriteSegment(seg) \/ disk' = hza_alloc_fragment(seg.len).disk
  BY DEF InstallMstateTag
<1> HIDE DEF seg
<1>4. Written(disk, disk', hza_alloc_fragment(seg.len).sof, seg) \/ SameLive(disk, disk')
  BY <1>2, <1>3, WriteEffect, AllocationKeepsData
<1> QED BY <1>4 DEF StepEffect

LEMMA BlobEffect ==
  ASSUME Opened, NEW b \in BlobIds, NEW m \in MstateIds, NEW size \in BlobSizes, hza_write_blob(b, m, size)
  PROVE  StepEffect
<1> DEFINE seg == BlobSegment(b, m, size)
<1>1. Writable /\ seg \in Segments /\ seg.kind = "BLOB" /\ WriteSegment(seg)
  BY OpenedState, SegmentTypes DEF hza_write_blob
<1> HIDE DEF seg
<1> QED BY <1>1, WriteEffect DEF StepEffect

LEMMA MstateEffect ==
  ASSUME Opened, NEW m \in MstateIds, NEW size \in MstateSizes, hza_write_mstate(m, size)
  PROVE  StepEffect
<1> DEFINE seg == MstateSegment(m, size)
<1>1. Writable /\ seg \in Segments /\ seg.kind = "MSTATE" /\ WriteSegment(seg)
  BY OpenedState, SegmentTypes DEF hza_write_mstate
<1> HIDE DEF seg
<1> QED BY <1>1, WriteEffect DEF StepEffect

LEMMA RemoveFileEffect ==
  ASSUME Consistent, NEW p \in FilePaths, RemoveFile(p)
  PROVE  StepEffect
<1>1. Opened /\ op.kind = "none" /\ p \in DOMAIN file_map /\ Writable /\ TablesMatch(disk)
  BY ReadyOpened, OpenedState DEF RemoveFile
<1> DEFINE s == file_map[p].sof
<1>2. s \in Live(disk) /\ disk[s].kind = "FILEINFO"
  <2>1. p \in DOMAIN FileTable /\ FileTable[p] = s
    BY <1>1 DEF FileTable, Removing
  <2> QED BY <1>1, <2>1 DEF TablesMatch, FilesMatch, IndexOf, Live
<1>3. disk' = MarkEmpty(disk, s)
  BY DEF RemoveFile
<1> HIDE DEF s
<1>4. Freed(disk, disk', {s})
  BY <1>2, <1>3 DEF Freed, MarkEmpty, Live
<1>5. FreesOwnBlob({s})
  BY <1>2 DEF FreesOwnBlob
<1> QED BY <1>4, <1>5 DEF StepEffect

LEMMA RemoveFileBlobEffect ==
  ASSUME Consistent, RemoveFileBlob
  PROVE  StepEffect
<1>1. /\ Opened /\ op.kind = "remove" /\ UNCHANGED <<maps, endAt, eof>>
      /\ op.blobs \in Seq(BlobIds) /\ op.blobs # <<>> /\ op \in Operations
  BY DEF RemoveFileBlob, Opened, HandleUsable, Consistent, Sorted, ControlTyped, Operations
<1>2. Head(op.blobs) \in DOMAIN blob_map
  <2>1. 1 \in DOMAIN op.blobs /\ op.blobs[1] = Head(op.blobs)
    BY <1>1
  <2> QED BY <1>1, <2>1, BlobsFound
<1>3. hza_rm_blob(Head(op.blobs)) /\ op' = [op EXCEPT !.blobs = Tail(@)]
  BY <1>2 DEF RemoveFileBlob
<1>4. op'.kind = "remove" /\ op'.path = op.path
  BY <1>1, <1>3 DEF Operations
<1>5. /\ Freed(disk, disk', FreedWith(Head(op.blobs)))
      /\ \A t \in FreedWith(Head(op.blobs)) :
           (disk[t].kind = "BLOB" /\ disk[t].blob = Head(op.blobs)) \/ disk[t].kind = "MSTATE"
  BY <1>1, <1>2, <1>3, <1>4, BlobFreed DEF Removing
<1>6. FreesOwnBlob(FreedWith(Head(op.blobs)))
  BY <1>1, <1>5 DEF FreesOwnBlob
<1> QED BY <1>5, <1>6 DEF StepEffect

LEMMA UninstallEffect ==
  ASSUME Consistent, NEW p, UninstallTag(p) \/ UninstallId(p)
  PROVE  StepEffect
<1>1. Opened
  BY ReadyOpened DEF UninstallTag, UninstallId
<1>2. CASE UninstallTag(p)
  <2> DEFINE S == MstateAt(mstate_aux_map[p].mstate) \cup {TagTable[p]}
  <2>1. Freed(disk, disk', S) /\ \A t \in S : disk[t].kind \in {"MSTATE", "MSTATE_AUX"}
    BY <1>1, <1>2, TagFreed
  <2> HIDE DEF S
  <2> QED BY <2>1 DEF StepEffect, FreesOwnBlob
<1>3. CASE UninstallId(p)
  BY <1>1, <1>3, IdFreed DEF StepEffect, FreesOwnBlob
<1> QED BY <1>2, <1>3

LEMMA NextEffect ==
  ASSUME Consistent, [Next]_vars
  PROVE  StepEffect
<1>1. CASE UNCHANGED vars
  BY <1>1, QuietEffect DEF vars
<1>2. CASE Scan
  BY <1>2, QuietEffect DEF Scan, ScanVersion, ScanFile, ScanTag, ScanBlob, ScanMstate, ScanFragment, ScanEnd,
                           Advance, file
<1>3. ASSUME NEW b \in BlobIds, NEW m \in MstateIds, NEW size \in BlobSizes, CreateFileBlob(b, m, size)
      PROVE  StepEffect
  <2>1. Opened
    BY <1>3 DEF CreateFileBlob, Opened, HandleUsable
  <2> QED BY <1>3, <2>1, BlobEffect, QuietEffect DEF CreateFileBlob, file
<1>4. CASE CreateFileFinish
  <2>1. Opened /\ op.kind = "create" /\ op.path \in FilePaths /\ op.blobs \in Seq(BlobIds)
    BY <1>4 DEF CreateFileFinish, Opened, HandleUsable, Consistent, ControlFits, Sorted, ControlTyped, Operations
  <2> QED BY <1>4, <2>1, EntryEffect DEF CreateFileFinish
<1>5. CASE RemoveFileFinish
  BY <1>5, QuietEffect DEF RemoveFileFinish, file
<1>6. CASE Progress
  BY <1>2, <1>3, <1>4, <1>5, <1>6, RemoveFileBlobEffect, TagEffect DEF Progress
<1>7. ASSUME NEW c \in Clients, NEW b \in BlobIds, NEW m \in MstateIds, NEW size \in BlobSizes,
             WriteBlob(c, b, m, size)
      PROVE  StepEffect
  BY <1>7, ReadyOpened, BlobEffect DEF WriteBlob
<1>8. ASSUME NEW c \in Clients, NEW p \in FilePaths, CreateFileEntry(c, p)
      PROVE  StepEffect
  <2>1. Opened /\ op.kind = "none" /\ pending[c] \in Seq(BlobIds)
    BY <1>8, ReadyOpened DEF CreateFileEntry, Consistent, Sorted, ControlTyped
  <2> QED BY <1>8, <2>1, EntryEffect DEF CreateFileEntry
<1>9. ASSUME NEW m \in MstateIds, NEW size \in MstateSizes,
             (\E p : InstallMstate(p, m, size)) \/ InstallUntagged(m, size)
      PROVE  StepEffect
  BY <1>9, ReadyOpened, MstateEffect DEF InstallMstate, InstallUntagged
<1>10. ASSUME \/ \E c \in Clients : Abandon(c)
              \/ \E f, p : LookupThrows(f, p)
              \/ Close \/ Load
       PROVE  StepEffect
  BY <1>10, QuietEffect DEF Abandon, LookupThrows, Close, Load, file
<1>11. CASE ServerRequest
  BY <1>7, <1>8, <1>9, <1>10, <1>11, RemoveFileEffect, UninstallEffect DEF ServerRequest
<1>12. CASE LibraryRequest
  BY <1>12, QuietEffect, UninstallEffect DEF LibraryRequest, CreateFile, file
<1> QED BY <1>1, <1>6, <1>11, <1>12 DEF Next

LEMMA EffectKeepsData ==
  ASSUME StepEffect, NEW t \in DOMAIN disk, disk[t].kind # "EMPTY"
  PROVE  t \in DOMAIN disk' /\ disk'[t] \in {disk[t], [disk[t] EXCEPT !.kind = "EMPTY"]}
<1>1. t \in Live(disk)
  BY DEF Live
<1>2. CASE SameLive(disk, disk')
  BY <1>1, <1>2 DEF SameLive, Live
<1>3. ASSUME NEW s, NEW seg, Written(disk, disk', s, seg) PROVE t \in DOMAIN disk' /\ disk'[t] = disk[t]
  BY <1>1, <1>3 DEF Written, Live
<1>4. ASSUME NEW S, Freed(disk, disk', S)
      PROVE  t \in DOMAIN disk' /\ disk'[t] \in {disk[t], [disk[t] EXCEPT !.kind = "EMPTY"]}
  BY <1>4 DEF Freed
<1> QED BY <1>2, <1>3, <1>4 DEF StepEffect

LEMMA EffectKeepsBlobs ==
  ASSUME Consistent, StepEffect, NEW l \in BlobLists, l[1] = "entry", NEW i \in DOMAIN BlobsIn(l),
         NEW t \in OfKind("BLOB"), disk[t].blob = BlobsIn(l)[i]
  PROVE  disk'[t] = disk[t]
<1>1. t \in Live(disk) /\ t \in DOMAIN disk /\ disk[t].kind = "BLOB"
  BY DEF OfKind, Live
<1>2. CASE SameLive(disk, disk')
  BY <1>1, <1>2 DEF SameLive, Live
<1>3. ASSUME NEW s, NEW seg, Written(disk, disk', s, seg) PROVE disk'[t] = disk[t]
  BY <1>1, <1>3 DEF Written, Live
<1>4. ASSUME NEW S, Freed(disk, disk', S), FreesOwnBlob(S) PROVE disk'[t] = disk[t]
  <2>1. SUFFICES ASSUME t \in S PROVE FALSE
    BY <1>1, <1>4 DEF Freed
  <2>2. op.blobs # <<>> /\ disk[t].blob = Head(op.blobs)
    BY <1>1, <1>4, <2>1 DEF FreesOwnBlob
  <2>3. op.blobs \in Seq(BlobIds)
    BY DEF Consistent, Sorted, ControlTyped, Operations
  <2>4. 1 \in DOMAIN op.blobs /\ op.blobs[1] = Head(op.blobs)
    BY <2>2, <2>3
  <2>5. /\ <<"op", 0>> \in DOMAIN Lists /\ Lists[<<"op", 0>>] = op.blobs
        /\ l \in DOMAIN Lists /\ Lists[l] = BlobsIn(l)
    <3>1. l \in DOMAIN Lists /\ Lists[l] = BlobsIn(l)
      BY DEF Lists
    <3> QED BY <3>1, ListsAre DEF ListsShape
  <2>6. <<"op", 0>> = l
    <3> DEFINE k == <<"op", 0>>
    <3>1. k \in DOMAIN Lists /\ 1 \in DOMAIN Lists[k] /\ i \in DOMAIN Lists[l] /\ Lists[k][1] = Lists[l][i]
      BY <2>2, <2>4, <2>5
    <3>2. l \in DOMAIN Lists
      BY <2>5
    <3> HIDE DEF k
    <3>3. k = l
      BY <3>1, <3>2 DEF Consistent, Owned, OwnedOnce
    <3> QED BY <3>3 DEF k
  <2>7. <<"op", 0>>[1] = "op"
    OBVIOUS
  <2> QED BY <2>6, <2>7
<1> QED BY <1>2, <1>3, <1>4 DEF StepEffect
-----------------------------------------------------------------------------
\* Whatever is written, freed, split and reused, in whatever order and across
\* any number of loads: as long as the handle is usable the segments tile the
\* file from its first bit to metadata.eof or the END marker, so hza_scan, which
\* hops from block length to block length, meets every one of them.
THEOREM SegmentsTile == Spec => []Tiling
BY AlwaysConsistent, ConsistentTiles, PTL

\* The maps of HZ_ArchiveMetadata and its free list describe exactly the
\* segments of the file, after every operation and at every point of the scan,
\* and no id or path is on disk twice: what the operations maintain by hand is
\* what the next load() rebuilds.
THEOREM IndexIsFile == Spec => []IndexMatchesFile
BY AlwaysConsistent, ConsistentIndexes, PTL

\* A blob id that a file entry, a session or a running operation holds names a
\* blob of the file, and exactly one of them holds it: remove_file always finds
\* the blobs of its file and frees nobody else's.
THEOREM BlobsHaveOneOwner == Spec => []BlobsOwnedOnce
<1>1. Consistent => BlobsOwnedOnce
  BY ListsOwned DEF Consistent
<1> QED BY <1>1, AlwaysConsistent, PTL

\* No step of any operation overwrites a segment in use: hza_alloc_fragment
\* hands out free space only, and freeing changes the marker alone.
THEOREM DataIsStable == Spec => LiveDataStable
<1>1. Consistent /\ [Next]_vars =>
        \A s \in DOMAIN disk : disk[s].kind # "EMPTY" =>
          s \in DOMAIN disk' /\ disk'[s] \in {disk[s], [disk[s] EXCEPT !.kind = "EMPTY"]}
  BY NextEffect, EffectKeepsData
<1> QED BY <1>1, AlwaysConsistent, PTL DEF Spec, LiveDataStable

\* The blobs a file entry lists stay as they are until the entry itself has been
\* freed: no removal of another file and no uninstall takes them away.
THEOREM BlobsStay == Spec => BlobsOutliveFiles
<1>1. Consistent /\ [Next]_vars =>
        \A l \in BlobLists : l[1] = "entry" => \A i \in DOMAIN BlobsIn(l) :
          \A t \in OfKind("BLOB") : disk[t].blob = BlobsIn(l)[i] => disk'[t] = disk[t]
  BY NextEffect, EffectKeepsBlobs
<1> QED BY <1>1, AlwaysConsistent, PTL DEF Spec, BlobsOutliveFiles

-----------------------------------------------------------------------------
(* What callers rely on: dependency counters that count, tags that do not  *)
(* dangle, and with them that the archive is the store of ArchiveStore.    *)

(* What the first load adds to Consistent.  Counters and                   *)
(* mstate_inv_aux_map are right from the moment the archive is opened      *)
(* because there is nothing in the file yet.                               *)
NotUsed == loads = 0 => phase = "closed"

Fresh == loads = 0 \/ (loads = 1 /\ phase = "scanning") =>
           \A s \in DOMAIN disk : disk[s].kind = "VERSION"

CountOf(m) == IF m \in DOMAIN dep_counter THEN dep_counter[m] ELSE 0

Counts ==
  \A m \in MstateIds :
    /\ IsFiniteSet(Users(m)) /\ Cardinality(Users(m)) = CountOf(m)
    /\ m \in DOMAIN dep_counter => dep_counter[m] # 0

Counted == NotUsed /\ Fresh /\ (FirstLoad => Counts /\ BlobsResolve)

-----------------------------------------------------------------------------
(* Segments of one kind *)

\* The segments of a kind that are there stay.
KindGrows(d, e, kind) ==
  \A s \in SegmentsOf(d, kind) : s \in SegmentsOf(e, kind) /\ e[s] = d[s]

LEMMA SameDisk ==
  ASSUME NEW d, NEW kind
  PROVE  KindKept(d, d, kind) /\ KindGrows(d, d, kind)
BY DEF KindKept, KindGrows

LEMMA KeptGrows ==
  ASSUME NEW d, NEW e, NEW kind, KindKept(d, e, kind)
  PROVE  KindGrows(d, e, kind)
BY DEF KindKept, KindGrows

LEMMA WrittenGrows ==
  ASSUME NEW d, NEW e, NEW s, NEW seg, Written(d, e, s, seg), NEW kind, kind # "EMPTY"
  PROVE  KindGrows(d, e, kind)
BY DEF Written, Live, KindGrows, SegmentsOf

\* One more segment of its kind.
LEMMA WrittenAdds ==
  ASSUME NEW d, NEW e, NEW s, NEW seg, Written(d, e, s, seg), seg.kind # "EMPTY"
  PROVE  /\ SegmentsOf(e, seg.kind) = SegmentsOf(d, seg.kind) \cup {s}
         /\ s \notin SegmentsOf(d, seg.kind) /\ e[s] = seg
         /\ \A t \in SegmentsOf(d, seg.kind) : e[t] = d[t]
BY DEF Written, Live, SegmentsOf

LEMMA FreedSegments ==
  ASSUME NEW d, NEW e, NEW S, DiskOK(d), Freed(d, e, S), NEW kind, kind # "EMPTY"
  PROVE  /\ SegmentsOf(e, kind) = SegmentsOf(d, kind) \ S
         /\ \A t \in SegmentsOf(e, kind) : e[t] = d[t]
BY FreedLive DEF SegmentsOf, Live

LEMMA Kindly == \A kind : OfKind(kind) = SegmentsOf(disk, kind)
BY DEF OfKind, SegmentsOf

LEMMA NextKindly == (\A kind : OfKind(kind) = SegmentsOf(disk, kind))'
BY Kindly, PTL
-----------------------------------------------------------------------------
(* Counters *)
LEMMA UsersAre == \A m : Users(m) = {s \in SegmentsOf(disk, "BLOB") : disk[s].mstate = m}
BY Kindly DEF Users

LEMMA NextUsersAre == (\A m : Users(m) = {s \in SegmentsOf(disk, "BLOB") : disk[s].mstate = m})'
BY UsersAre, PTL

LEMMA UsersKept ==
  ASSUME KindKept(disk, disk', "BLOB"), NEW m
  PROVE  Users(m)' = Users(m)
BY UsersAre, NextUsersAre DEF KindKept

\* An mstate that is not counted has no blob.
LEMMA UncountedUnused ==
  ASSUME Counts, NEW m \in MstateIds
  PROVE  m \in DOMAIN dep_counter <=> Users(m) # {}
<1>1. IsFiniteSet(Users(m)) /\ Cardinality(Users(m)) = CountOf(m)
      /\ (m \in DOMAIN dep_counter => dep_counter[m] # 0)
  BY DEF Counts
<1>2. Cardinality(Users(m)) = 0 <=> Users(m) = {}
  BY <1>1, FS_EmptySet
<1> QED BY <1>1, <1>2 DEF CountOf

\* An archive that is open has been loaded.
LEMMA OpenUsed ==
  ASSUME NotUsed, phase = "open", loads' = loads, phase' # "scanning"
  PROVE  NotUsed' /\ Fresh'
BY DEF NotUsed, Fresh

\* What the steps on an open archive that count nothing do.
CountsNothing ==
  /\ phase = "open" /\ phase' # "scanning" /\ UNCHANGED <<loads, dep_counter>>
  /\ KindKept(disk, disk', "BLOB")
  /\ \A t \in SegmentsOf(disk, "MSTATE") :
       \/ t \in SegmentsOf(disk', "MSTATE") /\ disk'[t] = disk[t]
       \/ disk[t].mstate \notin DOMAIN dep_counter

LEMMA NothingCounted ==
  ASSUME Consistent, Counted, CountsNothing
  PROVE  Counted'
<1>1. NotUsed' /\ Fresh'
  BY OpenUsed DEF Counted, CountsNothing
<1>2. ASSUME FirstLoad' PROVE Counts' /\ BlobsResolve'
  <2>1. FirstLoad /\ Counts /\ BlobsResolve
    BY <1>2 DEF FirstLoad, Counted, CountsNothing
  <2>2. Counts'
    <3>1. \A m : Users(m)' = Users(m)
      BY UsersKept DEF CountsNothing
    <3>2. \A m : CountOf(m)' = CountOf(m)
      BY DEF CountOf, CountsNothing
    <3> QED BY <2>1, <3>1, <3>2 DEF Counts, CountsNothing
  <2>3. BlobsResolve'
    <3> SUFFICES ASSUME NEW s \in SegmentsOf(disk', "BLOB")
                 PROVE  \E t \in SegmentsOf(disk', "MSTATE") : disk'[t].mstate = disk'[s].mstate
      BY NextKindly DEF BlobsResolve
    <3>1. s \in SegmentsOf(disk, "BLOB") /\ disk'[s] = disk[s]
      BY DEF CountsNothing, KindKept
    <3>2. PICK t \in SegmentsOf(disk, "MSTATE") : disk[t].mstate = disk[s].mstate
      BY <2>1, <3>1, Kindly DEF BlobsResolve
    <3>3. disk[s].mstate \in MstateIds /\ s \in Users(disk[s].mstate)
      BY <3>1, UsersAre DEF Consistent, LiveTyped, Fits, SegmentsOf
    <3>4. disk[t].mstate \in DOMAIN dep_counter
      BY <2>1, <3>2, <3>3, UncountedUnused
    <3> QED BY <3>1, <3>2, <3>4 DEF CountsNothing
  <2> QED BY <2>2, <2>3
<1> QED BY <1>1, <1>2 DEF Counted

\* hza_write_blob, which counts one more blob of its mstate.
LEMMA WrittenCounted ==
  ASSUME Consistent, Counted, phase = "open", phase' = "open", loads' = loads,
         NEW b \in BlobIds, NEW m \in MstateIds, NEW size \in BlobSizes,
         m \in DOMAIN mstate_map, MstatesMatch(disk), dep_counter' = hza_increment_dep(m),
         NEW s, Written(disk, disk', s, BlobSegment(b, m, size))
  PROVE  Counted'
<1> DEFINE seg == BlobSegment(b, m, size)
<1>1. NotUsed' /\ Fresh'
  BY OpenUsed DEF Counted
<1>2. seg.kind = "BLOB" /\ seg.mstate = m
  BY SegmentTypes
<1>3. /\ SegmentsOf(disk', "BLOB") = SegmentsOf(disk, "BLOB") \cup {s}
      /\ s \notin SegmentsOf(disk, "BLOB") /\ disk'[s] = seg
      /\ \A t \in SegmentsOf(disk, "BLOB") : disk'[t] = disk[t]
  BY <1>2, WrittenAdds
<1>4. KindGrows(disk, disk', "MSTATE")
  BY WrittenGrows
<1> HIDE DEF seg
<1>5. ASSUME FirstLoad' PROVE Counts' /\ BlobsResolve'
  <2>1. FirstLoad /\ Counts /\ BlobsResolve
    BY <1>5 DEF FirstLoad, Counted
  <2>2. /\ Users(m)' = Users(m) \cup {s} /\ s \notin Users(m)
        /\ \A n \in MstateIds \ {m} : Users(n)' = Users(n)
    BY <1>2, <1>3, UsersAre, NextUsersAre
  <2>3. /\ DOMAIN dep_counter' = DOMAIN dep_counter \cup {m}
        /\ dep_counter'[m] = CountOf(m) + 1
        /\ \A n \in DOMAIN dep_counter \ {m} : dep_counter'[n] = dep_counter[n]
    BY DEF hza_increment_dep, Put, CountOf
  <2>4. CountOf(m)' = CountOf(m) + 1 /\ \A n \in MstateIds \ {m} : CountOf(n)' = CountOf(n)
    BY <2>3 DEF CountOf
  <2>5. CountOf(m) \in Nat
    BY DEF CountOf, Consistent, Sorted, CountersTyped
  <2>6. Counts'
    <3>1. IsFiniteSet(Users(m)) /\ Cardinality(Users(m)) = CountOf(m)
      BY <2>1 DEF Counts
    <3>2. /\ IsFiniteSet(Users(m) \cup {s})
          /\ Cardinality(Users(m) \cup {s}) = Cardinality(Users(m)) + 1
      BY <2>2, <3>1, FS_AddElement
    <3>3. ASSUME NEW n \in MstateIds
          PROVE  /\ IsFiniteSet(Users(n)') /\ Cardinality(Users(n)') = CountOf(n)'
                 /\ n \in DOMAIN dep_counter' => dep_counter'[n] # 0
      <4>1. CASE n = m
        <5>1. IsFiniteSet(Users(m)') /\ Cardinality(Users(m)') = Cardinality(Users(m)) + 1
          BY <2>2, <3>2
        <5>2. Cardinality(Users(m)') = CountOf(m)'
          BY <2>4, <3>1, <5>1
        <5>3. dep_counter'[m] # 0
          BY <2>3, <2>5
        <5> QED BY <4>1, <5>1, <5>2, <5>3
      <4>2. CASE n # m
        BY <2>1, <2>2, <2>3, <2>4, <4>2 DEF Counts
      <4> QED BY <4>1, <4>2
    <3> QED BY <3>3 DEF Counts
  <2>7. BlobsResolve'
    <3> SUFFICES ASSUME NEW r \in SegmentsOf(disk', "BLOB")
                 PROVE  \E t \in SegmentsOf(disk', "MSTATE") : disk'[t].mstate = disk'[r].mstate
      BY NextKindly DEF BlobsResolve
    <3>1. CASE r = s
      <4>1. /\ mstate_map[m] \in SegmentsOf(disk, "MSTATE") /\ disk[mstate_map[m]].mstate = m
        BY DEF MstatesMatch, IndexOf, SegmentsOf
      <4> QED BY <1>2, <1>3, <1>4, <3>1, <4>1 DEF KindGrows
    <3>2. CASE r # s
      <4>1. r \in SegmentsOf(disk, "BLOB") /\ disk'[r] = disk[r]
        BY <1>3, <3>2
      <4>2. \E t \in SegmentsOf(disk, "MSTATE") : disk[t].mstate = disk[r].mstate
        BY <2>1, <4>1, Kindly DEF BlobsResolve
      <4> QED BY <1>4, <4>1, <4>2 DEF KindGrows
    <3> QED BY <3>1, <3>2
  <2> QED BY <2>6, <2>7
<1> QED BY <1>1, <1>5 DEF Counted

\* hza_rm_blob, which counts one blob less and takes the mstate along when it
\* was the last one.
LEMMA FreedCounted ==
  ASSUME Consistent, Counted, phase = "open", phase' = "open", loads' = loads,
         NEW b \in DOMAIN blob_map, hza_rm_blob(b), TablesMatch(disk), DiskOK(disk),
         Freed(disk, disk', FreedWith(b)),
         \A t \in FreedWith(b) : (disk[t].kind = "BLOB" /\ disk[t].blob = b) \/ disk[t].kind = "MSTATE"
  PROVE  Counted'
<1>1. NotUsed' /\ Fresh'
  BY OpenUsed DEF Counted
<1>2. /\ \A k \in DOMAIN blob_map : /\ blob_map[k] \in SegmentsOf(disk, "BLOB")
                                    /\ disk[blob_map[k]].blob = k
      /\ \A s \in SegmentsOf(disk, "BLOB") : blob_map[disk[s].blob] = s
  BY DEF TablesMatch, BlobsMatch, IndexOf, SegmentsOf
<1>3. PICK sof \in SegmentsOf(disk, "BLOB") : sof = blob_map[b]
  BY <1>2
<1>4. PICK m \in MstateIds : m = disk[sof].mstate
  BY <1>3 DEF Consistent, LiveTyped, Fits, SegmentsOf
<1>5. dep_counter' = hza_decrement_dep(m)
  BY <1>3, <1>4 DEF hza_rm_blob
<1>6. PICK S : S = FreedWith(b)
  OBVIOUS
<1>7. Freed(disk, disk', S)
  BY <1>6
<1>8. /\ SegmentsOf(disk', "BLOB") = SegmentsOf(disk, "BLOB") \ S
      /\ \A t \in SegmentsOf(disk', "BLOB") : disk'[t] = disk[t]
      /\ SegmentsOf(disk', "MSTATE") = SegmentsOf(disk, "MSTATE") \ S
      /\ \A t \in SegmentsOf(disk', "MSTATE") : disk'[t] = disk[t]
  BY <1>7, FreedSegments
<1>9. sof \in S /\ \A t \in SegmentsOf(disk, "BLOB") : t \in S => t = sof
  BY <1>2, <1>3, <1>6 DEF FreedWith, SegmentsOf
<1>10. \A t \in SegmentsOf(disk, "MSTATE") : t \in S => DropsMstate(m) /\ disk[t].mstate = m
  BY <1>3, <1>4, <1>6 DEF FreedWith, MstateAt, TablesMatch, MstatesMatch, IndexOf, SegmentsOf
<1>11. ASSUME FirstLoad' PROVE Counts' /\ BlobsResolve'
  <2>1. FirstLoad /\ Counts /\ BlobsResolve
    BY <1>11 DEF FirstLoad, Counted
  <2>2. sof \in Users(m)
    BY <1>3, <1>4, UsersAre
  <2>3. SegmentsOf(disk', "BLOB") = SegmentsOf(disk, "BLOB") \ {sof}
    BY <1>3, <1>8, <1>9
  <2>4. \A n : Users(n)' = Users(n) \ {sof}
    BY <1>8, <2>3, UsersAre, NextUsersAre
  <2>5. \A n \in MstateIds \ {m} : Users(n)' = Users(n)
    BY <1>4, <2>4, UsersAre
  <2>6. IsFiniteSet(Users(m)) /\ Cardinality(Users(m)) = CountOf(m)
    BY <2>1 DEF Counts
  <2>7. IsFiniteSet(Users(m) \ {sof}) /\ Cardinality(Users(m) \ {sof}) = Cardinality(Users(m)) - 1
    BY <2>2, <2>6, FS_RemoveElement
  <2>8. m \in DOMAIN dep_counter /\ dep_counter[m] \in Nat /\ dep_counter[m] # 0
    BY <2>1, <2>2, UncountedUnused DEF Counts, Consistent, Sorted, CountersTyped
  <2>9. /\ \A n \in MstateIds \ {m} : n \in DOMAIN dep_counter' => n \in DOMAIN dep_counter
        /\ \A n \in MstateIds \ {m} : n \in DOMAIN dep_counter => n \in DOMAIN dep_counter'
        /\ \A n \in DOMAIN dep_counter' \ {m} : dep_counter'[n] = dep_counter[n]
        /\ m \in DOMAIN dep_counter' => dep_counter'[m] = dep_counter[m] - 1 /\ dep_counter[m] # 1
        /\ m \notin DOMAIN dep_counter' => dep_counter[m] = 1
    <3>1. CASE dep_counter[m] > 1
      <4>1. dep_counter' = [dep_counter EXCEPT ![m] = @ - 1]
        BY <1>5, <2>8, <3>1 DEF hza_decrement_dep
      <4>2. /\ DOMAIN dep_counter' = DOMAIN dep_counter /\ dep_counter'[m] = dep_counter[m] - 1
            /\ \A n \in DOMAIN dep_counter \ {m} : dep_counter'[n] = dep_counter[n]
        BY <2>8, <4>1
      <4> QED BY <2>8, <3>1, <4>2
    <3>2. CASE ~(dep_counter[m] > 1)
      <4>1. dep_counter[m] = 1
        BY <2>8, <3>2
      <4>2. dep_counter' = Drop(dep_counter, m)
        BY <1>5, <2>8, <3>2 DEF hza_decrement_dep
      <4>3. /\ DOMAIN dep_counter' = DOMAIN dep_counter \ {m}
            /\ \A n \in DOMAIN dep_counter \ {m} : dep_counter'[n] = dep_counter[n]
        BY <4>2 DEF Drop
      <4> QED BY <4>1, <4>3
    <3> QED BY <3>1, <3>2
  <2>10. CountOf(m) = dep_counter[m]
    BY <2>8 DEF CountOf
  <2>11. CountOf(m)' = CountOf(m) - 1
    <3>1. CountOf(m)' = IF m \in DOMAIN dep_counter' THEN dep_counter'[m] ELSE 0
      BY DEF CountOf
    <3> QED BY <2>8, <2>9, <2>10, <3>1
  <2>12. Counts'
    <3> SUFFICES ASSUME NEW n \in MstateIds
                 PROVE  /\ IsFiniteSet(Users(n)') /\ Cardinality(Users(n)') = CountOf(n)'
                        /\ n \in DOMAIN dep_counter' => dep_counter'[n] # 0
      BY DEF Counts
    <3>1. CASE n = m
      <4>1. IsFiniteSet(Users(m)') /\ Cardinality(Users(m)') = Cardinality(Users(m)) - 1
        BY <2>4, <2>7
      <4>2. Cardinality(Users(m)') = CountOf(m)'
        BY <2>6, <2>11, <4>1
      <4>3. m \in DOMAIN dep_counter' => dep_counter'[m] # 0
        BY <2>8, <2>9
      <4> QED BY <3>1, <4>1, <4>2, <4>3
    <3>2. CASE n # m
      <4>1. n \in MstateIds \ {m}
        BY <3>2
      <4>2. Users(n)' = Users(n)
        BY <2>5, <4>1
      <4>3. CountOf(n)' = CountOf(n)
        BY <2>9, <4>1 DEF CountOf
      <4>4. IsFiniteSet(Users(n)) /\ Cardinality(Users(n)) = CountOf(n)
            /\ (n \in DOMAIN dep_counter => dep_counter[n] # 0)
        BY <2>1 DEF Counts
      <4>5. n \in DOMAIN dep_counter' => dep_counter'[n] # 0
        BY <2>9, <4>1, <4>4
      <4> QED BY <4>2, <4>3, <4>4, <4>5
    <3> QED BY <3>1, <3>2
  <2>13. DropsMstate(m) => Users(m) \ {sof} = {}
    <3>1. DropsMstate(m) => CountOf(m) = 1
      BY <2>8, <2>10 DEF DropsMstate
    <3> QED BY <2>6, <2>7, <3>1, FS_EmptySet
  <2>14. BlobsResolve'
    <3> SUFFICES ASSUME NEW r \in SegmentsOf(disk', "BLOB")
                 PROVE  \E t \in SegmentsOf(disk', "MSTATE") : disk'[t].mstate = disk'[r].mstate
      BY NextKindly DEF BlobsResolve
    <3>1. r \in SegmentsOf(disk, "BLOB") /\ disk'[r] = disk[r] /\ r # sof
      BY <1>8, <1>9
    <3>2. PICK t \in SegmentsOf(disk, "MSTATE") : disk[t].mstate = disk[r].mstate
      BY <2>1, <3>1, Kindly DEF BlobsResolve
    <3>3. t \notin S
      BY <1>10, <2>13, <3>1, <3>2, UsersAre
    <3> QED BY <1>8, <3>1, <3>2, <3>3
  <2> QED BY <2>12, <2>14
<1> QED BY <1>1, <1>11 DEF Counted
-----------------------------------------------------------------------------
(* What the operations do to the file, with the segment they write or free. *)
LEMMA BlobStep ==
  ASSUME Opened, NEW b \in BlobIds, NEW m \in MstateIds, NEW size \in BlobSizes, hza_write_blob(b, m, size)
  PROVE  \E s : Written(disk, disk', s, BlobSegment(b, m, size))
<1> DEFINE seg == BlobSegment(b, m, size)
<1>1. Writable /\ seg \in Segments /\ seg.kind = "BLOB" /\ WriteSegment(seg)
  BY OpenedState, SegmentTypes DEF hza_write_blob
<1> HIDE DEF seg
<1>2. \E s : Written(disk, disk', s, seg)
  BY <1>1, WriteEffect
<1> QED BY <1>2 DEF seg

LEMMA MstateStep ==
  ASSUME Opened, NEW m \in MstateIds, NEW size \in MstateSizes, hza_write_mstate(m, size)
  PROVE  \E s : Written(disk, disk', s, MstateSegment(m, size))
<1> DEFINE seg == MstateSegment(m, size)
<1>1. Writable /\ seg \in Segments /\ seg.kind = "MSTATE" /\ WriteSegment(seg)
  BY OpenedState, SegmentTypes DEF hza_write_mstate
<1> HIDE DEF seg
<1>2. \E s : Written(disk, disk', s, seg)
  BY <1>1, WriteEffect
<1> QED BY <1>2 DEF seg

LEMMA EntryStep ==
  ASSUME Opened, NEW p \in FilePaths, NEW bs \in Seq(BlobIds), hza_create_metadata_file_entry(p, bs, Idle)
  PROVE  \/ ~Blocked(file_map, p) /\ \E s : Written(disk, disk', s, FileSegment(p, bs))
         \/ SameLive(disk, disk')
<1> DEFINE seg == FileSegment(p, bs)
<1>1. Writable /\ seg \in Segments /\ seg.kind = "FILEINFO"
  BY OpenedState, SegmentTypes
<1>2. (~Blocked(file_map, p) /\ WriteSegment(seg)) \/ disk' = hza_alloc_fragment(seg.len).disk
  BY DEF hza_create_metadata_file_entry
<1> HIDE DEF seg
<1>3. (~Blocked(file_map, p) /\ \E s : Written(disk, disk', s, seg)) \/ SameLive(disk, disk')
  BY <1>1, <1>2, WriteEffect, AllocationKeepsData
<1> QED BY <1>3 DEF seg

LEMMA TagStep ==
  ASSUME Consistent, InstallMstateTag
  PROVE  /\ Opened /\ op.path \in TagPaths /\ op.mstate \in MstateIds /\ ~Contains(mstate_aux_map, op.path)
         /\ \/ /\ ~Blocked(mstate_aux_map, op.path)
               /\ mstate_inv_aux_map' = mstate_inv_aux_map \cup {op.mstate}
               /\ op' = Idle
               /\ \E s : Written(disk, disk', s, AuxSegment(op.path, op.mstate))
            \/ SameLive(disk, disk') /\ op' = Dead /\ UNCHANGED <<mstate_aux_map, mstate_inv_aux_map>>
<1> DEFINE seg == AuxSegment(op.path, op.mstate)
<1>1. Opened /\ op.path \in TagPaths /\ op.mstate \in MstateIds /\ ~Contains(mstate_aux_map, op.path)
  BY DEF InstallMstateTag, Opened, HandleUsable, Consistent, ControlFits
<1>2. Writable /\ seg \in Segments /\ seg.kind = "MSTATE_AUX"
  BY <1>1, OpenedState, SegmentTypes
<1>3. \/ /\ ~Blocked(mstate_aux_map, op.path) /\ WriteSegment(seg) /\ op' = Idle
         /\ mstate_inv_aux_map' = mstate_inv_aux_map \cup {op.mstate}
      \/ /\ disk' = hza_alloc_fragment(seg.len).disk /\ op' = Dead
         /\ UNCHANGED <<mstate_aux_map, mstate_inv_aux_map>>
  BY DEF InstallMstateTag
<1> HIDE DEF seg
<1>4. WriteSegment(seg) => \E s : Written(disk, disk', s, seg)
  BY <1>2, WriteEffect
<1>5. disk' = hza_alloc_fragment(seg.len).disk => SameLive(disk, disk')
  BY <1>2, AllocationKeepsData
<1> QED BY <1>1, <1>3, <1>4, <1>5 DEF seg

LEMMA RemoveFileStep ==
  ASSUME Consistent, NEW p, RemoveFile(p)
  PROVE  /\ Opened /\ op.kind = "none" /\ p \in DOMAIN FileTable
         /\ disk[FileTable[p]].kind = "FILEINFO" /\ disk[FileTable[p]].path = p
         /\ Freed(disk, disk', {FileTable[p]})
<1>1. Opened /\ op.kind = "none" /\ p \in DOMAIN file_map /\ Writable /\ TablesMatch(disk)
  BY ReadyOpened, OpenedState DEF RemoveFile
<1> DEFINE s == FileTable[p]
<1>2. p \in DOMAIN FileTable /\ s = file_map[p].sof
  BY <1>1 DEF FileTable, Removing
<1>3. s \in Live(disk) /\ disk[s].kind = "FILEINFO" /\ disk[s].path = p
  BY <1>1, <1>2 DEF TablesMatch, FilesMatch, IndexOf, Live
<1>4. disk' = MarkEmpty(disk, s)
  BY <1>2 DEF RemoveFile
<1> HIDE DEF s
<1>5. Freed(disk, disk', {s})
  BY <1>3, <1>4 DEF Freed, MarkEmpty, Live
<1> QED BY <1>1, <1>2, <1>3, <1>5 DEF s

LEMMA RemoveFileBlobStep ==
  ASSUME Consistent, RemoveFileBlob
  PROVE  /\ Opened /\ op.kind = "remove" /\ op.blobs \in Seq(BlobIds) /\ op.blobs # <<>>
         /\ Head(op.blobs) \in DOMAIN blob_map /\ hza_rm_blob(Head(op.blobs))
         /\ op'.kind = "remove" /\ op'.path = op.path
         /\ Freed(disk, disk', FreedWith(Head(op.blobs)))
         /\ \A t \in FreedWith(Head(op.blobs)) :
              (disk[t].kind = "BLOB" /\ disk[t].blob = Head(op.blobs)) \/ disk[t].kind = "MSTATE"
<1>1. /\ Opened /\ op.kind = "remove" /\ UNCHANGED <<maps, endAt, eof>>
      /\ op.blobs \in Seq(BlobIds) /\ op.blobs # <<>> /\ op \in Operations
  BY DEF RemoveFileBlob, Opened, HandleUsable, Consistent, Sorted, ControlTyped, Operations
<1>2. Head(op.blobs) \in DOMAIN blob_map
  <2>1. 1 \in DOMAIN op.blobs /\ op.blobs[1] = Head(op.blobs)
    BY <1>1
  <2> QED BY <1>1, <2>1, BlobsFound
<1>3. hza_rm_blob(Head(op.blobs)) /\ op' = [op EXCEPT !.blobs = Tail(@)]
  BY <1>2 DEF RemoveFileBlob
<1>4. op'.kind = "remove" /\ op'.path = op.path
  BY <1>1, <1>3 DEF Operations
<1>5. /\ Freed(disk, disk', FreedWith(Head(op.blobs)))
      /\ \A t \in FreedWith(Head(op.blobs)) :
           (disk[t].kind = "BLOB" /\ disk[t].blob = Head(op.blobs)) \/ disk[t].kind = "MSTATE"
  BY <1>1, <1>2, <1>3, <1>4, BlobFreed DEF Removing
<1> QED BY <1>1, <1>2, <1>3, <1>4, <1>5
-----------------------------------------------------------------------------
(* DependenciesCounted, operation by operation. *)

\* Steps that leave file and counters alone.
LEMMA QuietCounted ==
  ASSUME Counted, UNCHANGED <<disk, dep_counter, loads>>,
         loads = 0 => phase' = "closed", phase' = "scanning" => phase = "scanning"
  PROVE  Counted'
<1>1. NotUsed' /\ Fresh'
  BY DEF Counted, NotUsed, Fresh
<1>2. \A m : Users(m)' = Users(m) /\ CountOf(m)' = CountOf(m)
  BY DEF Users, CountOf, OfKind
<1>3. FirstLoad' => Counts' /\ BlobsResolve'
  BY <1>2 DEF Counted, FirstLoad, Counts, BlobsResolve, OfKind
<1> QED BY <1>1, <1>3 DEF Counted

LEMMA BlobCounted ==
  ASSUME Opened, Counted, UNCHANGED <<phase, loads>>,
         NEW b \in BlobIds, NEW m \in MstateIds, NEW size \in BlobSizes, hza_write_blob(b, m, size)
  PROVE  Counted'
<1>1. PICK s : Written(disk, disk', s, BlobSegment(b, m, size))
  BY BlobStep
<1>2. m \in DOMAIN mstate_map /\ dep_counter' = hza_increment_dep(m)
  BY DEF hza_write_blob
<1>3. Consistent /\ phase = "open" /\ phase' = "open" /\ MstatesMatch(disk)
  BY OpenedState DEF Opened, TablesMatch
<1> QED BY <1>1, <1>2, <1>3, WrittenCounted

LEMMA MstateCounted ==
  ASSUME Opened, Counted, UNCHANGED <<phase, loads, dep_counter>>,
         NEW m \in MstateIds, NEW size \in MstateSizes, hza_write_mstate(m, size)
  PROVE  Counted'
<1>1. PICK s : Written(disk, disk', s, MstateSegment(m, size))
  BY MstateStep
<1>2. MstateSegment(m, size).kind = "MSTATE"
  BY SegmentTypes
<1>3. KindKept(disk, disk', "BLOB") /\ KindGrows(disk, disk', "MSTATE")
  BY <1>1, <1>2, WrittenKeeps, WrittenGrows
<1> QED BY <1>3, NothingCounted DEF CountsNothing, Opened, KindGrows

\* A file entry or a tag is written, or space is allocated for nothing.
LEMMA EntryCounted ==
  ASSUME Opened, Counted, UNCHANGED <<phase, loads, dep_counter>>,
         \/ SameLive(disk, disk')
         \/ \E s, seg : Written(disk, disk', s, seg) /\ seg.kind \in {"FILEINFO", "MSTATE_AUX"}
  PROVE  Counted'
<1>1. KindKept(disk, disk', "BLOB") /\ KindKept(disk, disk', "MSTATE")
  BY SameLiveKeeps, WrittenKeeps
<1>2. KindGrows(disk, disk', "MSTATE")
  BY <1>1, KeptGrows
<1> QED BY <1>1, <1>2, NothingCounted DEF CountsNothing, Opened, KindGrows

LEMMA FileEntryCounted ==
  ASSUME Opened, Counted, UNCHANGED <<phase, loads, dep_counter>>,
         NEW p \in FilePaths, NEW bs \in Seq(BlobIds), hza_create_metadata_file_entry(p, bs, Idle)
  PROVE  Counted'
<1>1. FileSegment(p, bs).kind = "FILEINFO"
  BY SegmentTypes
<1> QED BY <1>1, EntryStep, EntryCounted

\* No blob and no mstate that is counted is freed.
LEMMA UncountedFreed ==
  ASSUME Opened, Counted, UNCHANGED <<phase, loads, dep_counter>>,
         NEW S, Freed(disk, disk', S),
         \A t \in S : disk[t].kind # "BLOB" /\ (disk[t].kind = "MSTATE" => disk[t].mstate \notin DOMAIN dep_counter)
  PROVE  Counted'
<1>1. DiskOK(disk)
  BY OpenedState DEF Writable, FileTyped
<1>2. KindKept(disk, disk', "BLOB")
  BY <1>1, FreedKeeps
<1>3. /\ SegmentsOf(disk', "MSTATE") = SegmentsOf(disk, "MSTATE") \ S
      /\ \A t \in SegmentsOf(disk', "MSTATE") : disk'[t] = disk[t]
  BY <1>1, FreedSegments
<1>4. \A t \in SegmentsOf(disk, "MSTATE") :
        \/ t \in SegmentsOf(disk', "MSTATE") /\ disk'[t] = disk[t]
        \/ disk[t].mstate \notin DOMAIN dep_counter
  BY <1>3 DEF SegmentsOf
<1> QED BY <1>2, <1>4, NothingCounted DEF CountsNothing, Opened

LEMMA MstateAtCounted ==
  ASSUME Opened, NEW m, NEW t \in MstateAt(m)
  PROVE  m \in DOMAIN mstate_map /\ disk[t].mstate = m /\ disk[t].kind = "MSTATE"
BY OpenedState DEF MstateAt, TablesMatch, MstatesMatch, IndexOf

LEMMA UninstallTagCounted ==
  ASSUME Consistent, Counted, NEW p, UninstallTag(p)
  PROVE  Counted'
<1>1. Opened /\ UNCHANGED <<phase, loads, dep_counter>>
  BY ReadyOpened DEF UninstallTag
<1>2. /\ Freed(disk, disk', MstateAt(mstate_aux_map[p].mstate) \cup {TagTable[p]})
      /\ disk[TagTable[p]].kind = "MSTATE_AUX"
  BY <1>1, TagFreed
<1>3. ~(mstate_aux_map[p].mstate \in DOMAIN mstate_map /\ mstate_aux_map[p].mstate \in DOMAIN dep_counter)
  BY DEF UninstallTag, hza_check_mstate_deps
<1>4. \A t \in MstateAt(mstate_aux_map[p].mstate) :
        disk[t].kind = "MSTATE" /\ disk[t].mstate \notin DOMAIN dep_counter
  BY <1>1, <1>3, MstateAtCounted
<1> QED BY <1>1, <1>2, <1>4, UncountedFreed

LEMMA UninstallIdCounted ==
  ASSUME Consistent, Counted, NEW m, UninstallId(m)
  PROVE  Counted'
<1>1. Opened /\ UNCHANGED <<phase, loads, dep_counter>> /\ m \notin DOMAIN dep_counter
  BY ReadyOpened DEF UninstallId, hza_check_mstate_deps
<1>2. Freed(disk, disk', MstateAt(m))
  BY <1>1, IdFreed
<1>3. \A t \in MstateAt(m) : disk[t].kind = "MSTATE" /\ disk[t].mstate \notin DOMAIN dep_counter
  BY <1>1, MstateAtCounted
<1> QED BY <1>1, <1>2, <1>3, UncountedFreed

LEMMA RemoveFileCounted ==
  ASSUME Consistent, Counted, NEW p, RemoveFile(p)
  PROVE  Counted'
<1>1. Opened /\ Freed(disk, disk', {FileTable[p]}) /\ disk[FileTable[p]].kind = "FILEINFO"
  BY RemoveFileStep
<1>2. UNCHANGED <<phase, loads, dep_counter>>
  BY DEF RemoveFile, ids
<1> QED BY <1>1, <1>2, UncountedFreed

LEMMA RemoveFileBlobCounted ==
  ASSUME Consistent, Counted, RemoveFileBlob
  PROVE  Counted'
<1>1. PICK b : b = Head(op.blobs)
  OBVIOUS
<1>2. /\ Opened /\ b \in DOMAIN blob_map /\ hza_rm_blob(b)
      /\ Freed(disk, disk', FreedWith(b))
      /\ \A t \in FreedWith(b) : (disk[t].kind = "BLOB" /\ disk[t].blob = b) \/ disk[t].kind = "MSTATE"
  BY <1>1, RemoveFileBlobStep
<1>3. phase = "open" /\ phase' = "open" /\ loads' = loads
  BY DEF RemoveFileBlob
<1>4. TablesMatch(disk) /\ DiskOK(disk)
  BY <1>2, OpenedState DEF Writable, FileTyped
<1> QED BY <1>2, <1>3, <1>4, FreedCounted

\* The first load finds no blob and no mstate, and any other is not the first.
LEMMA LoadCounted ==
  ASSUME Consistent, Counted, Load
  PROVE  Counted'
<1>1. loads \in Nat /\ loads' = loads + 1 /\ disk' = disk /\ dep_counter' = EmptyMap /\ phase = "closed" /\ phase' = "scanning"
  BY DEF Load, file, Consistent, Sorted, ControlTyped
<1>2. NotUsed' /\ Fresh'
  BY <1>1 DEF NotUsed, Fresh, Counted
<1>3. ASSUME FirstLoad' PROVE Counts' /\ BlobsResolve'
  <2>1. \A s \in DOMAIN disk' : disk'[s].kind = "VERSION"
    BY <1>1, <1>3 DEF FirstLoad, Counted, Fresh
  <2>2. SegmentsOf(disk', "BLOB") = {}
    BY <2>1 DEF SegmentsOf
  <2>3. \A m : Users(m)' = {}
    BY <2>2, NextUsersAre
  <2>4. \A m : CountOf(m)' = 0 /\ m \notin DOMAIN dep_counter'
    BY <1>1 DEF CountOf, EmptyMap
  <2> QED BY <2>2, <2>3, <2>4, FS_EmptySet, NextKindly DEF Counts, BlobsResolve
<1> QED BY <1>2, <1>3 DEF Counted

LEMMA ScanCounted ==
  ASSUME Consistent, Counted, Scan
  PROVE  Counted'
<1>1. phase = "scanning" /\ UNCHANGED <<disk, dep_counter, loads>>
  BY DEF Scan, ScanVersion, ScanFile, ScanTag, ScanBlob, ScanMstate, ScanFragment, ScanEnd, Scanning, Advance, file, ids
<1>2. loads # 0
  BY <1>1 DEF Counted, NotUsed
<1> QED BY <1>1, <1>2, QuietCounted

LEMMA CreateFileBlobCounted ==
  ASSUME Consistent, Counted, NEW b \in BlobIds, NEW m \in MstateIds, NEW size \in BlobSizes, CreateFileBlob(b, m, size)
  PROVE  Counted'
<1>1. Opened /\ UNCHANGED <<phase, loads>> /\ phase = "open" /\ loads # 0
  BY DEF CreateFileBlob, Opened, HandleUsable, Counted, NotUsed
<1>2. CASE hza_write_blob(b, m, size)
  BY <1>1, <1>2, BlobCounted
<1>3. CASE UNCHANGED <<file, eof, ids, fragments>>
  BY <1>1, <1>3, QuietCounted DEF file, ids
<1> QED BY <1>2, <1>3 DEF CreateFileBlob

\* Steps on an open archive that touch neither file nor counters.
LEMMA OpenQuietCounted ==
  ASSUME Counted, phase = "open", phase' # "scanning", UNCHANGED <<disk, dep_counter, loads>>
  PROVE  Counted'
BY QuietCounted DEF Counted, NotUsed

LEMMA NextCounted ==
  ASSUME Consistent, Counted, [Next]_vars
  PROVE  Counted'
<1>1. CASE UNCHANGED vars
  BY <1>1, QuietCounted DEF vars, Counted, NotUsed
<1>2. CASE LibraryRequest
  <2>1. ASSUME NEW p \in FilePaths, NEW n \in 0..MaxBlobs, CreateFile(p, n) PROVE Counted'
    BY <2>1, OpenQuietCounted DEF CreateFile, Ready, file, ids
  <2>2. ASSUME NEW m \in MstateIds, UninstallId(m) PROVE Counted'
    BY <2>2, UninstallIdCounted
  <2> QED BY <1>2, <2>1, <2>2 DEF LibraryRequest
<1>3. CASE ServerRequest
  <2>1. ASSUME NEW c \in Clients, NEW b \in BlobIds, NEW m \in MstateIds, NEW size \in BlobSizes, WriteBlob(c, b, m, size)
        PROVE  Counted'
    <3>1. Opened /\ UNCHANGED <<phase, loads>> /\ hza_write_blob(b, m, size)
      BY <2>1, ReadyOpened DEF WriteBlob
    <3> QED BY <3>1, BlobCounted
  <2>2. ASSUME NEW c \in Clients, NEW p \in FilePaths, CreateFileEntry(c, p) PROVE Counted'
    <3>1. Opened /\ UNCHANGED <<phase, loads, dep_counter>> /\ pending[c] \in Seq(BlobIds)
          /\ hza_create_metadata_file_entry(p, pending[c], Idle)
      BY <2>2, ReadyOpened DEF CreateFileEntry, ids, Consistent, Sorted, ControlTyped
    <3> QED BY <3>1, FileEntryCounted
  <2>3. ASSUME NEW c \in Clients, Abandon(c) PROVE Counted'
    BY <2>3, OpenQuietCounted DEF Abandon, file, ids
  <2>4. ASSUME NEW p \in FilePaths, RemoveFile(p) PROVE Counted'
    BY <2>4, RemoveFileCounted
  <2>5. ASSUME NEW p \in TagPaths, NEW m \in MstateIds, NEW size \in MstateSizes, InstallMstate(p, m, size)
        PROVE  Counted'
    <3>1. Opened /\ UNCHANGED <<phase, loads, dep_counter>> /\ hza_write_mstate(m, size)
      BY <2>5, ReadyOpened DEF InstallMstate
    <3> QED BY <3>1, MstateCounted
  <2>6. ASSUME NEW m \in MstateIds, NEW size \in MstateSizes, InstallUntagged(m, size) PROVE Counted'
    <3>1. Opened /\ UNCHANGED <<phase, loads, dep_counter>> /\ hza_write_mstate(m, size)
      BY <2>6, ReadyOpened DEF InstallUntagged
    <3> QED BY <3>1, MstateCounted
  <2>7. ASSUME NEW p \in TagPaths, UninstallTag(p) PROVE Counted'
    BY <2>7, UninstallTagCounted
  <2>8. ASSUME NEW f, NEW p, LookupThrows(f, p) PROVE Counted'
    BY <2>8, OpenQuietCounted DEF LookupThrows, Ready, file, ids
  <2>9. ASSUME Close PROVE Counted'
    BY <2>9, OpenQuietCounted DEF Close, Ready, ids
  <2>10. ASSUME Load PROVE Counted'
    BY <2>10, LoadCounted
  <2> QED BY <1>3, <2>1, <2>2, <2>3, <2>4, <2>5, <2>6, <2>7, <2>8, <2>9, <2>10 DEF ServerRequest
<1>4. CASE Progress
  <2>1. ASSUME NEW b \in BlobIds, NEW m \in MstateIds, NEW size \in BlobSizes, CreateFileBlob(b, m, size)
        PROVE  Counted'
    BY <2>1, CreateFileBlobCounted
  <2>2. ASSUME CreateFileFinish PROVE Counted'
    <3>1. Opened /\ UNCHANGED <<phase, loads, dep_counter>> /\ op.path \in FilePaths /\ op.blobs \in Seq(BlobIds)
          /\ hza_create_metadata_file_entry(op.path, op.blobs, Idle)
      BY <2>2 DEF CreateFileFinish, ids, Opened, HandleUsable, Consistent, ControlFits, Sorted, ControlTyped, Operations
    <3> QED BY <3>1, FileEntryCounted
  <2>3. ASSUME RemoveFileBlob PROVE Counted'
    BY <2>3, RemoveFileBlobCounted
  <2>4. ASSUME RemoveFileFinish PROVE Counted'
    BY <2>4, OpenQuietCounted DEF RemoveFileFinish, file, ids
  <2>5. ASSUME InstallMstateTag PROVE Counted'
    <3>1. Opened /\ op.path \in TagPaths /\ op.mstate \in MstateIds /\ UNCHANGED <<phase, loads, dep_counter>>
          /\ ((\E s : Written(disk, disk', s, AuxSegment(op.path, op.mstate))) \/ SameLive(disk, disk'))
      BY <2>5, TagStep DEF InstallMstateTag, ids
    <3>2. AuxSegment(op.path, op.mstate).kind = "MSTATE_AUX"
      BY <3>1, SegmentTypes
    <3> QED BY <3>1, <3>2, EntryCounted
  <2>6. ASSUME Scan PROVE Counted'
    BY <2>6, ScanCounted
  <2> QED BY <1>4, <2>1, <2>2, <2>3, <2>4, <2>5, <2>6 DEF Progress
<1> QED BY <1>1, <1>2, <1>3, <1>4 DEF Next

LEMMA InitCounted == Init => Counted
<1> SUFFICES ASSUME Init PROVE Counted
  OBVIOUS
<1>1. \A s \in DOMAIN disk : disk[s].kind = "VERSION"
  BY DEF Init, Put, EmptyMap, VersionSegment, Segment
<1>2. NotUsed /\ Fresh
  BY <1>1 DEF Init, NotUsed, Fresh
<1>3. SegmentsOf(disk, "BLOB") = {}
  BY <1>1 DEF SegmentsOf
<1>4. \A m : Users(m) = {}
  BY <1>3, UsersAre
<1>5. \A m : CountOf(m) = 0 /\ m \notin DOMAIN dep_counter
  BY DEF Init, CountOf, EmptyMap
<1> QED BY <1>2, <1>3, <1>4, <1>5, FS_EmptySet, Kindly DEF Counted, Counts, BlobsResolve

LEMMA CountedCounts == Counted => DependenciesCounted
<1> SUFFICES ASSUME Counted, FirstLoad
             PROVE  /\ BlobsResolve
                    /\ \A m \in MstateIds : /\ m \in DOMAIN dep_counter <=> Users(m) # {}
                                            /\ m \in DOMAIN dep_counter => dep_counter[m] = Cardinality(Users(m))
  BY DEF DependenciesCounted
<1>1. Counts /\ BlobsResolve
  BY DEF Counted
<1>2. \A m \in MstateIds : m \in DOMAIN dep_counter <=> Users(m) # {}
  BY <1>1, UncountedUnused
<1>3. \A m \in MstateIds : m \in DOMAIN dep_counter => dep_counter[m] = Cardinality(Users(m))
  BY <1>1 DEF Counts, CountOf
<1> QED BY <1>1, <1>2, <1>3

\* While a fresh archive stays open, dep_counter counts the blobs of every
\* mstate, whatever is written, filed, removed and uninstalled: the mstate a blob
\* was encoded with leaves the archive with its last blob and not before.
THEOREM DependenciesAreCounted == Spec => []DependenciesCounted
<1>1. Init => Counted
  BY InitCounted
<1>2. Consistent /\ Counted /\ [Next]_vars => Counted'
  BY NextCounted
<1>3. Counted => DependenciesCounted
  BY CountedCounts
<1> QED BY <1>1, <1>2, <1>3, AlwaysConsistent, PTL DEF Spec
-----------------------------------------------------------------------------
(* Tags, when mstates are uninstalled by tag only: the server's operations. *)

\* The server does not use create_file, and a session files what it has written
\* before its list is longer than MaxBlobs.
ServerBounds ==
  /\ op.kind # "create"
  /\ \A c \in Clients : Len(pending[c]) <= MaxBlobs

TagsMarked == mstate_inv_aux_map = {disk[s].mstate : s \in SegmentsOf(disk, "MSTATE_AUX")}

TaggedOnce ==
  \A s, t \in SegmentsOf(disk, "MSTATE_AUX") : disk[s].mstate = disk[t].mstate => s = t

TagsCore == TagsResolve /\ TagsMarked /\ TaggedOnce

\* install_mstate has written the mstate and not yet its tag.
InstallThere ==
  op.kind = "install" => \E t \in SegmentsOf(disk, "MSTATE") : disk[t].mstate = op.mstate

InstallFits == InstallThere /\ (op.kind = "install" => op.mstate \notin mstate_inv_aux_map)

TableMarked ==
  HandleUsable => \A p \in DOMAIN mstate_aux_map : mstate_aux_map[p].mstate \in mstate_inv_aux_map

TagsHeld == FirstLoad => TagsCore /\ InstallFits /\ TableMarked

LEMMA ServerIsLibrary == [ServerNext]_vars => [Next]_vars
BY DEF ServerNext, Next

LEMMA InitBounded == Init => ServerBounds
<1> SUFFICES ASSUME Init PROVE ServerBounds
  OBVIOUS
<1>1. op.kind = "none"
  BY DEF Init, Idle, Operation
<1>2. \A c \in Clients : Len(pending[c]) = 0
  BY DEF Init
<1> QED BY <1>1, <1>2, ConstantsAssumption DEF ServerBounds

LEMMA ServerBounded ==
  ASSUME Sorted, ServerBounds, [ServerNext]_vars
  PROVE  ServerBounds'
<1>1. pending \in [Clients -> Seq(BlobIds)] /\ op \in Operations
  BY DEF Sorted, ControlTyped
<1>2. Idle.kind = "none" /\ Dead.kind = "dead"
  BY DEF Idle, Dead, Operation
<1>3. MaxBlobs \in Nat
  BY ConstantsAssumption
<1>4. ASSUME UNCHANGED pending, op' = op \/ op'.kind # "create" PROVE ServerBounds'
  BY <1>4 DEF ServerBounds
<1>5. ASSUME NEW c \in Clients, pending' = [pending EXCEPT ![c] = <<>>], op' = op \/ op'.kind # "create"
      PROVE  ServerBounds'
  BY <1>1, <1>3, <1>5 DEF ServerBounds
<1>6. CASE UNCHANGED vars
  BY <1>4, <1>6 DEF vars
<1>7. CASE ServerRequest
  <2>1. ASSUME NEW c \in Clients, NEW b \in BlobIds, NEW m \in MstateIds, NEW size \in BlobSizes, WriteBlob(c, b, m, size)
        PROVE  ServerBounds'
    <3>1. Len(pending[c]) < MaxBlobs /\ pending' = [pending EXCEPT ![c] = Append(@, b)] /\ op' = op
      BY <2>1 DEF WriteBlob
    <3>2. Len(Append(pending[c], b)) = Len(pending[c]) + 1 /\ Len(pending[c]) \in Nat
      BY <1>1
    <3>3. \A k \in Clients : pending'[k] = IF k = c THEN Append(pending[c], b) ELSE pending[k]
      BY <1>1, <3>1
    <3> QED BY <1>3, <3>1, <3>2, <3>3 DEF ServerBounds
  <2>2. ASSUME NEW c \in Clients, NEW p \in FilePaths, CreateFileEntry(c, p) PROVE ServerBounds'
    BY <1>2, <1>5, <2>2 DEF CreateFileEntry, hza_create_metadata_file_entry
  <2>3. ASSUME NEW c \in Clients, Abandon(c) PROVE ServerBounds'
    BY <1>5, <2>3 DEF Abandon
  <2>4. ASSUME NEW p \in FilePaths, RemoveFile(p) PROVE ServerBounds'
    BY <1>4, <2>4 DEF RemoveFile, Operation
  <2>5. ASSUME NEW p \in TagPaths, NEW m \in MstateIds, NEW size \in MstateSizes, InstallMstate(p, m, size)
        PROVE  ServerBounds'
    BY <1>4, <2>5 DEF InstallMstate, Operation
  <2>6. ASSUME NEW m \in MstateIds, NEW size \in MstateSizes, InstallUntagged(m, size) PROVE ServerBounds'
    BY <1>4, <2>6 DEF InstallUntagged
  <2>7. ASSUME NEW p \in TagPaths, UninstallTag(p) PROVE ServerBounds'
    BY <1>4, <2>7 DEF UninstallTag
  <2>8. ASSUME NEW f, NEW p, LookupThrows(f, p) PROVE ServerBounds'
    BY <1>2, <1>4, <2>8 DEF LookupThrows
  <2>9. ASSUME Close PROVE ServerBounds'
    BY <1>4, <2>9 DEF Close
  <2>10. ASSUME Load PROVE ServerBounds'
    <3>1. op' = op /\ \A c \in Clients : Len(pending'[c]) = 0
      BY <2>10 DEF Load
    <3> QED BY <1>3, <3>1 DEF ServerBounds
  <2> QED BY <1>7, <2>1, <2>2, <2>3, <2>4, <2>5, <2>6, <2>7, <2>8, <2>9, <2>10 DEF ServerRequest
<1>8. CASE Progress
  <2>1. ASSUME Scan PROVE op' \in {op, Dead} /\ UNCHANGED pending
    BY <2>1 DEF Scan, ScanVersion, ScanFile, ScanTag, ScanBlob, ScanMstate, ScanFragment, ScanEnd, Advance
  <2>2. ASSUME RemoveFileBlob PROVE (op'.kind = op.kind \/ op' = Idle) /\ UNCHANGED pending
    BY <1>1, <2>2 DEF RemoveFileBlob, Operations
  <2>3. ASSUME RemoveFileFinish PROVE op' = Idle /\ UNCHANGED pending
    BY <2>3 DEF RemoveFileFinish
  <2>4. ASSUME InstallMstateTag PROVE op' \in {Idle, Dead} /\ UNCHANGED pending
    BY <2>4 DEF InstallMstateTag
  <2>5. ~CreateFileFinish /\ \A b \in BlobIds, m \in MstateIds, size \in BlobSizes : ~CreateFileBlob(b, m, size)
    BY DEF ServerBounds, CreateFileFinish, CreateFileBlob
  <2> QED BY <1>2, <1>4, <1>8, <2>1, <2>2, <2>3, <2>4, <2>5 DEF Progress, ServerBounds
<1> QED BY <1>6, <1>7, <1>8 DEF ServerNext

\* mstate_aux_map speaks of the tags of the file.
LEMMA NextTableMarked ==
  ASSUME Consistent', TagsMarked', phase' # "closed"
  PROVE  TableMarked'
<1> SUFFICES ASSUME HandleUsable', NEW p \in DOMAIN mstate_aux_map'
             PROVE  mstate_aux_map'[p].mstate \in mstate_inv_aux_map'
  BY DEF TableMarked
<1>1. TagsMatch(View)'
  BY DEF Consistent, TablesKnown, TablesMatch
<1>2. DOMAIN TagTable' = DOMAIN mstate_aux_map'
  BY DEF TagTable
<1>3. /\ TagTable'[p] \in DOMAIN View' /\ View'[TagTable'[p]].kind = "MSTATE_AUX"
      /\ View'[TagTable'[p]].mstate = mstate_aux_map'[p].mstate
  BY <1>1, <1>2 DEF TagsMatch, IndexOf
<1>4. TagTable'[p] \in DOMAIN disk' /\ View'[TagTable'[p]] = disk'[TagTable'[p]]
  BY <1>3 DEF View
<1> QED BY <1>3, <1>4 DEF TagsMarked, SegmentsOf

\* Tags stay, and no mstate they name goes.
LEMMA CoreKept ==
  ASSUME TagsCore, UNCHANGED mstate_inv_aux_map, KindKept(disk, disk', "MSTATE_AUX"),
         \A t \in SegmentsOf(disk, "MSTATE") :
           \/ t \in SegmentsOf(disk', "MSTATE") /\ disk'[t] = disk[t]
           \/ disk[t].mstate \notin mstate_inv_aux_map
  PROVE  TagsCore'
<1>1. TagsMarked' /\ TaggedOnce'
  BY DEF TagsCore, TagsMarked, TaggedOnce, KindKept
<1>2. TagsResolve'
  <2> SUFFICES ASSUME NEW s \in SegmentsOf(disk', "MSTATE_AUX")
               PROVE  \E t \in SegmentsOf(disk', "MSTATE") : disk'[t].mstate = disk'[s].mstate
    BY NextKindly DEF TagsResolve
  <2>1. s \in SegmentsOf(disk, "MSTATE_AUX") /\ disk'[s] = disk[s]
    BY DEF KindKept
  <2>2. PICK t \in SegmentsOf(disk, "MSTATE") : disk[t].mstate = disk[s].mstate
    BY <2>1, Kindly DEF TagsCore, TagsResolve
  <2>3. disk[t].mstate \in mstate_inv_aux_map
    BY <2>1, <2>2 DEF TagsCore, TagsMarked
  <2> QED BY <2>1, <2>2, <2>3
<1> QED BY <1>1, <1>2 DEF TagsCore

LEMMA HeldKept ==
  ASSUME Consistent', TagsHeld, UNCHANGED <<loads, mstate_inv_aux_map>>,
         KindKept(disk, disk', "MSTATE_AUX"),
         \A t \in SegmentsOf(disk, "MSTATE") :
           \/ t \in SegmentsOf(disk', "MSTATE") /\ disk'[t] = disk[t]
           \/ disk[t].mstate \notin mstate_inv_aux_map,
         op'.kind # "install" \/ (op' = op /\ disk' = disk),
         phase' # "closed" \/ (UNCHANGED mstate_aux_map /\ (HandleUsable' => HandleUsable))
  PROVE  TagsHeld'
<1> SUFFICES ASSUME FirstLoad' PROVE TagsCore' /\ InstallFits' /\ TableMarked'
  BY DEF TagsHeld
<1>1. TagsCore /\ InstallFits /\ TableMarked
  BY DEF TagsHeld, FirstLoad
<1>2. TagsCore'
  BY <1>1, CoreKept
<1>3. InstallFits'
  BY <1>1 DEF InstallFits, InstallThere
<1>4. TableMarked'
  <2>1. CASE phase' # "closed"
    BY <1>2, <2>1, NextTableMarked DEF TagsCore
  <2>2. CASE UNCHANGED mstate_aux_map /\ (HandleUsable' => HandleUsable)
    BY <1>1, <2>2 DEF TableMarked
  <2> QED BY <2>1, <2>2
<1> QED BY <1>2, <1>3, <1>4

\* Steps that add to the file, tags and mstates apart.
LEMMA HeldGrows ==
  ASSUME Consistent', TagsHeld, UNCHANGED <<loads, mstate_inv_aux_map>>, phase' = "open",
         KindKept(disk, disk', "MSTATE_AUX"), KindGrows(disk, disk', "MSTATE"),
         op'.kind # "install"
  PROVE  TagsHeld'
BY HeldKept DEF KindGrows

LEMMA QuietHeld ==
  ASSUME Consistent', TagsHeld, UNCHANGED <<loads, mstate_inv_aux_map, disk>>,
         op' = op \/ op'.kind # "install",
         phase' # "closed" \/ (UNCHANGED mstate_aux_map /\ (HandleUsable' => HandleUsable))
  PROVE  TagsHeld'
BY SameDisk, HeldKept

LEMMA MstateHeld ==
  ASSUME Opened, Consistent', TagsHeld, UNCHANGED <<phase, loads, mstate_inv_aux_map>>,
         NEW m \in MstateIds, NEW size \in MstateSizes, hza_write_mstate(m, size),
         op'.kind = "install" => op'.mstate = m, op'.kind = "install" \/ op' = op, op.kind = "none"
  PROVE  TagsHeld'
<1>1. PICK s : Written(disk, disk', s, MstateSegment(m, size))
  BY MstateStep
<1>2. MstateSegment(m, size).kind = "MSTATE" /\ MstateSegment(m, size).mstate = m
  BY SegmentTypes
<1>3. /\ KindKept(disk, disk', "MSTATE_AUX") /\ KindGrows(disk, disk', "MSTATE")
      /\ s \in SegmentsOf(disk', "MSTATE") /\ disk'[s].mstate = m
  BY <1>1, <1>2, WrittenKeeps, WrittenGrows, WrittenAdds
<1>4. phase' = "open"
  BY DEF Opened
<1>5. CASE op'.kind # "install"
  BY <1>3, <1>4, <1>5, HeldGrows
<1>6. CASE op'.kind = "install"
  <2> SUFFICES ASSUME FirstLoad' PROVE TagsCore' /\ InstallFits' /\ TableMarked'
    BY DEF TagsHeld
  <2>1. TagsCore
    BY DEF TagsHeld, FirstLoad
  <2>2. TagsCore'
    BY <1>3, <2>1, CoreKept DEF KindGrows
  <2>3. TableMarked'
    BY <1>4, <2>2, NextTableMarked DEF TagsCore
  <2>4. \A t \in SegmentsOf(disk, "MSTATE") : disk[t].mstate # m
    BY OpenedState DEF hza_write_mstate, TablesMatch, MstatesMatch, IndexOf, SegmentsOf
  <2>5. m \notin mstate_inv_aux_map
    BY <2>1, <2>4, Kindly DEF TagsCore, TagsMarked, TagsResolve
  <2> QED BY <1>3, <1>6, <2>2, <2>3, <2>5 DEF InstallFits, InstallThere
<1> QED BY <1>5, <1>6

\* The tag of install_mstate.
LEMMA InstallMstateTagHeld ==
  ASSUME Consistent, Consistent', TagsHeld, InstallMstateTag
  PROVE  TagsHeld'
<1>1. UNCHANGED <<phase, loads>> /\ op.kind = "install" /\ phase = "open"
  BY DEF InstallMstateTag
<1>2. CASE SameLive(disk, disk') /\ op' = Dead /\ UNCHANGED mstate_inv_aux_map
  <2>1. KindKept(disk, disk', "MSTATE_AUX") /\ KindKept(disk, disk', "MSTATE")
    BY <1>2, SameLiveKeeps
  <2>2. op'.kind = "dead"
    BY <1>2 DEF Dead, Operation
  <2> QED BY <1>1, <1>2, <2>1, <2>2, KeptGrows, HeldGrows
<1>3. ASSUME mstate_inv_aux_map' = mstate_inv_aux_map \cup {op.mstate}, op' = Idle,
             NEW s, Written(disk, disk', s, AuxSegment(op.path, op.mstate))
      PROVE  TagsHeld'
  <2> SUFFICES ASSUME FirstLoad' PROVE TagsCore' /\ InstallFits' /\ TableMarked'
    BY DEF TagsHeld
  <2>1. TagsCore /\ InstallFits
    BY <1>1 DEF TagsHeld, FirstLoad
  <2>2. op.path \in TagPaths /\ op.mstate \in MstateIds
    BY TagStep
  <2>3. AuxSegment(op.path, op.mstate).kind = "MSTATE_AUX" /\ AuxSegment(op.path, op.mstate).mstate = op.mstate
    BY <2>2, SegmentTypes
  <2>4. /\ SegmentsOf(disk', "MSTATE_AUX") = SegmentsOf(disk, "MSTATE_AUX") \cup {s}
        /\ s \notin SegmentsOf(disk, "MSTATE_AUX") /\ disk'[s].mstate = op.mstate
        /\ \A t \in SegmentsOf(disk, "MSTATE_AUX") : disk'[t] = disk[t]
    BY <1>3, <2>3, WrittenAdds
  <2>5. KindGrows(disk, disk', "MSTATE")
    BY <1>3, WrittenGrows
  <2>6. TagsMarked'
    BY <1>3, <2>1, <2>4 DEF TagsCore, TagsMarked
  <2>7. \A t \in SegmentsOf(disk, "MSTATE_AUX") : disk[t].mstate # op.mstate
    BY <1>1, <2>1 DEF InstallFits, InstallThere, TagsCore, TagsMarked
  <2>8. TaggedOnce'
    BY <2>1, <2>4, <2>7 DEF TagsCore, TaggedOnce
  <2>9. TagsResolve'
    <3> SUFFICES ASSUME NEW r \in SegmentsOf(disk', "MSTATE_AUX")
                 PROVE  \E t \in SegmentsOf(disk', "MSTATE") : disk'[t].mstate = disk'[r].mstate
      BY NextKindly DEF TagsResolve
    <3>1. \E t \in SegmentsOf(disk, "MSTATE") : disk[t].mstate = disk'[r].mstate
      BY <1>1, <2>1, <2>4, Kindly DEF InstallFits, InstallThere, TagsCore, TagsResolve
    <3> QED BY <2>5, <3>1 DEF KindGrows
  <2>10. InstallFits'
    BY <1>3 DEF InstallFits, InstallThere, Idle, Operation
  <2>11. TableMarked'
    BY <1>1, <2>6, NextTableMarked
  <2> QED BY <2>6, <2>8, <2>9, <2>10, <2>11 DEF TagsCore
<1> QED BY <1>2, <1>3, TagStep

\* uninstall_mstate takes the tag and the mstate it names, which has no other tag.
LEMMA UninstallTagHeld ==
  ASSUME Consistent, Consistent', TagsHeld, NEW p, UninstallTag(p)
  PROVE  TagsHeld'
<1>1. Opened /\ op.kind = "none" /\ p \in DOMAIN mstate_aux_map /\ UNCHANGED <<phase, op, loads>>
  BY ReadyOpened DEF UninstallTag
<1>2. PICK m : m = mstate_aux_map[p].mstate
  OBVIOUS
<1>3. PICK a : a = TagTable[p]
  OBVIOUS
<1>4. PICK S : S = MstateAt(m)
  OBVIOUS
<1>5. /\ Freed(disk, disk', S \cup {a}) /\ disk[a].kind = "MSTATE_AUX"
      /\ \A s \in S : disk[s].kind = "MSTATE" /\ disk[s].mstate = m
  BY <1>1, <1>2, <1>3, <1>4, TagFreed, MstateAtCounted
<1>6. disk[a].mstate = m /\ a \in DOMAIN disk
  BY <1>1, <1>2, <1>3, OpenedState DEF TablesMatch, TagsMatch, IndexOf, TagTable
<1>7. mstate_inv_aux_map' = mstate_inv_aux_map \ {m}
  BY <1>2 DEF UninstallTag
<1>8. DiskOK(disk)
  BY <1>1, OpenedState DEF Writable, FileTyped
<1>9. /\ SegmentsOf(disk', "MSTATE_AUX") = SegmentsOf(disk, "MSTATE_AUX") \ {a}
      /\ \A t \in SegmentsOf(disk', "MSTATE_AUX") : disk'[t] = disk[t]
      /\ SegmentsOf(disk', "MSTATE") = SegmentsOf(disk, "MSTATE") \ S
      /\ \A t \in SegmentsOf(disk', "MSTATE") : disk'[t] = disk[t]
  <2>1. /\ SegmentsOf(disk', "MSTATE_AUX") = SegmentsOf(disk, "MSTATE_AUX") \ (S \cup {a})
        /\ \A t \in SegmentsOf(disk', "MSTATE_AUX") : disk'[t] = disk[t]
        /\ SegmentsOf(disk', "MSTATE") = SegmentsOf(disk, "MSTATE") \ (S \cup {a})
        /\ \A t \in SegmentsOf(disk', "MSTATE") : disk'[t] = disk[t]
    BY <1>5, <1>8, FreedSegments
  <2> QED BY <1>5, <2>1 DEF SegmentsOf
<1>10. ASSUME FirstLoad' PROVE TagsCore' /\ InstallFits' /\ TableMarked'
  <2>1. TagsCore
    BY <1>1, <1>10 DEF TagsHeld, FirstLoad
  <2>2. \A t \in SegmentsOf(disk, "MSTATE_AUX") : disk[t].mstate = m => t = a
    BY <1>5, <1>6, <2>1 DEF TagsCore, TaggedOnce, SegmentsOf
  <2>3. TagsMarked' /\ TaggedOnce'
    BY <1>6, <1>7, <1>9, <2>1, <2>2 DEF TagsCore, TagsMarked, TaggedOnce
  <2>4. TagsResolve'
    <3> SUFFICES ASSUME NEW s \in SegmentsOf(disk', "MSTATE_AUX")
                 PROVE  \E t \in SegmentsOf(disk', "MSTATE") : disk'[t].mstate = disk'[s].mstate
      BY NextKindly DEF TagsResolve
    <3>1. s \in SegmentsOf(disk, "MSTATE_AUX") /\ disk'[s] = disk[s] /\ disk[s].mstate # m
      BY <1>9, <2>2
    <3>2. PICK t \in SegmentsOf(disk, "MSTATE") : disk[t].mstate = disk[s].mstate
      BY <2>1, <3>1, Kindly DEF TagsCore, TagsResolve
    <3>3. t \notin S
      BY <1>5, <3>1, <3>2
    <3> QED BY <1>9, <3>1, <3>2, <3>3
  <2>5. InstallFits'
    BY <1>1 DEF InstallFits, InstallThere
  <2>6. TableMarked'
    BY <1>1, <2>3, NextTableMarked DEF Opened
  <2> QED BY <2>3, <2>4, <2>5, <2>6 DEF TagsCore
<1> QED BY <1>10 DEF TagsHeld

\* A tagged mstate stays when its last blob goes.
LEMMA RemoveFileBlobHeld ==
  ASSUME Consistent, Consistent', TagsHeld, RemoveFileBlob
  PROVE  TagsHeld'
<1>1. PICK b : b = Head(op.blobs)
  OBVIOUS
<1>2. /\ Opened /\ b \in DOMAIN blob_map /\ Freed(disk, disk', FreedWith(b)) /\ op'.kind = "remove"
      /\ \A t \in FreedWith(b) : (disk[t].kind = "BLOB" /\ disk[t].blob = b) \/ disk[t].kind = "MSTATE"
  BY <1>1, RemoveFileBlobStep
<1>3. phase' = "open" /\ UNCHANGED <<loads, mstate_inv_aux_map>>
  BY DEF RemoveFileBlob, maps
<1>4. DiskOK(disk) /\ TablesMatch(disk)
  BY <1>2, OpenedState DEF Writable, FileTyped
<1>5. PICK S : S = FreedWith(b)
  OBVIOUS
<1>6. disk[blob_map[b]].kind = "BLOB"
  BY <1>2, <1>4 DEF TablesMatch, BlobsMatch, IndexOf
<1>7. \A t \in SegmentsOf(disk, "MSTATE") : t \in S => disk[t].mstate \notin mstate_inv_aux_map
  BY <1>4, <1>5, <1>6 DEF FreedWith, MstateAt, DropsMstate, TablesMatch, MstatesMatch, IndexOf, SegmentsOf
<1>8. /\ SegmentsOf(disk', "MSTATE") = SegmentsOf(disk, "MSTATE") \ S
      /\ \A t \in SegmentsOf(disk', "MSTATE") : disk'[t] = disk[t]
  BY <1>2, <1>4, <1>5, FreedSegments
<1>9. KindKept(disk, disk', "MSTATE_AUX")
  BY <1>2, <1>4, FreedKeeps
<1>10. \A t \in SegmentsOf(disk, "MSTATE") :
         \/ t \in SegmentsOf(disk', "MSTATE") /\ disk'[t] = disk[t]
         \/ disk[t].mstate \notin mstate_inv_aux_map
  BY <1>7, <1>8
<1> QED BY <1>2, <1>3, <1>9, <1>10, HeldKept

LEMMA RemoveFileHeld ==
  ASSUME Consistent, Consistent', TagsHeld, NEW p, RemoveFile(p)
  PROVE  TagsHeld'
<1>1. Opened /\ Freed(disk, disk', {FileTable[p]}) /\ disk[FileTable[p]].kind = "FILEINFO"
  BY RemoveFileStep
<1>2. op'.kind = "remove" /\ phase' = "open" /\ UNCHANGED <<loads, mstate_inv_aux_map>>
  BY <1>1 DEF RemoveFile, maps, Operation, Opened
<1>3. DiskOK(disk)
  BY <1>1, OpenedState DEF Writable, FileTyped
<1>4. KindKept(disk, disk', "MSTATE_AUX") /\ KindKept(disk, disk', "MSTATE")
  BY <1>1, <1>3, FreedKeeps
<1> QED BY <1>2, <1>4, KeptGrows, HeldGrows

LEMMA LoadHeld ==
  ASSUME Consistent, Consistent', Counted, TagsHeld, Load
  PROVE  TagsHeld'
<1> SUFFICES ASSUME FirstLoad' PROVE TagsCore' /\ InstallFits' /\ TableMarked'
  BY DEF TagsHeld
<1>1. /\ loads \in Nat /\ loads' = loads + 1 /\ disk' = disk /\ mstate_inv_aux_map' = {}
      /\ phase = "closed" /\ phase' = "scanning" /\ op' = op
  BY DEF Load, file, Consistent, Sorted, ControlTyped
<1>2. \A s \in DOMAIN disk' : disk'[s].kind = "VERSION"
  BY <1>1 DEF FirstLoad, Counted, Fresh
<1>3. SegmentsOf(disk', "MSTATE_AUX") = {}
  BY <1>2 DEF SegmentsOf
<1>4. TagsCore'
  BY <1>1, <1>3, NextKindly DEF TagsCore, TagsResolve, TagsMarked, TaggedOnce
<1>5. InstallFits'
  BY <1>1 DEF InstallFits, InstallThere, Consistent, ControlFits
<1>6. TableMarked'
  BY <1>1, <1>4, NextTableMarked DEF TagsCore
<1> QED BY <1>4, <1>5, <1>6

LEMMA ScanHeld ==
  ASSUME Consistent, Consistent', TagsHeld, Scan
  PROVE  TagsHeld'
<1>1. phase' # "closed" /\ UNCHANGED <<disk, loads, mstate_inv_aux_map>> /\ op' \in {op, Dead}
  BY DEF Scan, ScanVersion, ScanFile, ScanTag, ScanBlob, ScanMstate, ScanFragment, ScanEnd, Scanning, Advance, file, maps
<1>2. Dead.kind = "dead"
  BY DEF Dead, Operation
<1> QED BY <1>1, <1>2, QuietHeld

\* A file entry or a blob is written, or space is allocated for nothing.
LEMMA EntryHeld ==
  ASSUME Opened, Consistent', TagsHeld, UNCHANGED <<phase, loads, mstate_inv_aux_map>>, op'.kind # "install",
         \/ SameLive(disk, disk')
         \/ \E s, seg : Written(disk, disk', s, seg) /\ seg.kind \in {"FILEINFO", "BLOB"}
  PROVE  TagsHeld'
<1>1. KindKept(disk, disk', "MSTATE_AUX") /\ KindKept(disk, disk', "MSTATE")
  BY SameLiveKeeps, WrittenKeeps
<1> QED BY <1>1, KeptGrows, HeldGrows DEF Opened

LEMMA NextHeld ==
  ASSUME Consistent, Consistent', Counted, ServerBounds, TagsHeld, [ServerNext]_vars
  PROVE  TagsHeld'
<1>1. CASE UNCHANGED vars
  BY <1>1, QuietHeld DEF vars, HandleUsable
<1>2. CASE ServerRequest
  <2>1. ASSUME NEW c \in Clients, NEW b \in BlobIds, NEW m \in MstateIds, NEW size \in BlobSizes, WriteBlob(c, b, m, size)
        PROVE  TagsHeld'
    <3>1. /\ Opened /\ op.kind = "none" /\ hza_write_blob(b, m, size)
          /\ UNCHANGED <<phase, op, loads, mstate_inv_aux_map>>
      BY <2>1, ReadyOpened DEF WriteBlob, maps
    <3>2. BlobSegment(b, m, size).kind = "BLOB"
      BY SegmentTypes
    <3> QED BY <3>1, <3>2, BlobStep, EntryHeld
  <2>2. ASSUME NEW c \in Clients, NEW p \in FilePaths, CreateFileEntry(c, p) PROVE TagsHeld'
    <3>1. /\ Opened /\ UNCHANGED <<phase, loads, mstate_inv_aux_map>> /\ pending[c] \in Seq(BlobIds)
          /\ hza_create_metadata_file_entry(p, pending[c], Idle)
      BY <2>2, ReadyOpened DEF CreateFileEntry, Consistent, Sorted, ControlTyped
    <3>2. op'.kind # "install"
      BY <3>1 DEF hza_create_metadata_file_entry, Idle, Dead, Operation
    <3>3. FileSegment(p, pending[c]).kind = "FILEINFO"
      BY <3>1, SegmentTypes
    <3> QED BY <3>1, <3>2, <3>3, EntryStep, EntryHeld
  <2>3. ASSUME NEW c \in Clients, Abandon(c) PROVE TagsHeld'
    BY <2>3, QuietHeld DEF Abandon, file, maps
  <2>4. ASSUME NEW p \in FilePaths, RemoveFile(p) PROVE TagsHeld'
    BY <2>4, RemoveFileHeld
  <2>5. ASSUME NEW p \in TagPaths, NEW m \in MstateIds, NEW size \in MstateSizes, InstallMstate(p, m, size)
        PROVE  TagsHeld'
    <3>1. /\ Opened /\ op.kind = "none" /\ hza_write_mstate(m, size) /\ UNCHANGED <<phase, loads, mstate_inv_aux_map>>
          /\ op'.kind = "install" /\ op'.mstate = m
      BY <2>5, ReadyOpened DEF InstallMstate, maps, Operation
    <3> QED BY <3>1, MstateHeld
  <2>6. ASSUME NEW m \in MstateIds, NEW size \in MstateSizes, InstallUntagged(m, size) PROVE TagsHeld'
    <3>1. /\ Opened /\ op.kind = "none" /\ hza_write_mstate(m, size)
          /\ UNCHANGED <<phase, op, loads, mstate_inv_aux_map>>
      BY <2>6, ReadyOpened DEF InstallUntagged, maps
    <3> QED BY <3>1, MstateHeld
  <2>7. ASSUME NEW p \in TagPaths, UninstallTag(p) PROVE TagsHeld'
    BY <2>7, UninstallTagHeld
  <2>8. ASSUME NEW f, NEW p, LookupThrows(f, p) PROVE TagsHeld'
    <3>1. phase' = "open" /\ op'.kind = "dead" /\ UNCHANGED <<loads, mstate_inv_aux_map, disk>>
      BY <2>8 DEF LookupThrows, Ready, file, maps, Dead, Operation
    <3> QED BY <3>1, QuietHeld
  <2>9. ASSUME Close PROVE TagsHeld'
    BY <2>9, QuietHeld DEF Close, maps, HandleUsable
  <2>10. ASSUME Load PROVE TagsHeld'
    BY <2>10, LoadHeld
  <2> QED BY <1>2, <2>1, <2>2, <2>3, <2>4, <2>5, <2>6, <2>7, <2>8, <2>9, <2>10 DEF ServerRequest
<1>3. CASE Progress
  <2>1. ASSUME RemoveFileFinish PROVE TagsHeld'
    <3>1. phase' = "open" /\ op'.kind = "none" /\ UNCHANGED <<loads, mstate_inv_aux_map, disk>>
      BY <2>1 DEF RemoveFileFinish, file, Idle, Operation
    <3> QED BY <3>1, QuietHeld
  <2>2. ~CreateFileFinish /\ \A b \in BlobIds, m \in MstateIds, size \in BlobSizes : ~CreateFileBlob(b, m, size)
    BY DEF ServerBounds, CreateFileFinish, CreateFileBlob
  <2> QED BY <1>3, <2>1, <2>2, RemoveFileBlobHeld, InstallMstateTagHeld, ScanHeld DEF Progress
<1> QED BY <1>1, <1>2, <1>3 DEF ServerNext

LEMMA InitHeld == Init => TagsHeld
<1> SUFFICES ASSUME Init PROVE TagsCore /\ InstallFits /\ TableMarked
  BY DEF TagsHeld
<1>1. \A s \in DOMAIN disk : disk[s].kind = "VERSION"
  BY DEF Init, Put, EmptyMap, VersionSegment, Segment
<1>2. SegmentsOf(disk, "MSTATE_AUX") = {}
  BY <1>1 DEF SegmentsOf
<1>3. mstate_inv_aux_map = {} /\ DOMAIN mstate_aux_map = {} /\ op.kind = "none"
  BY DEF Init, EmptyMap, Idle, Operation
<1> QED BY <1>2, <1>3, Kindly DEF TagsCore, TagsResolve, TagsMarked, TaggedOnce, InstallFits, InstallThere, TableMarked

\* Nothing else runs between the mstate and its tag, whatever was loaded before.
LEMMA NextInstallThere ==
  ASSUME Consistent, ServerBounds, InstallThere, [ServerNext]_vars
  PROVE  InstallThere'
<1>1. ASSUME op'.kind # "install" \/ (op' = op /\ disk' = disk) PROVE InstallThere'
  BY <1>1 DEF InstallThere
<1>2. CASE UNCHANGED vars
  BY <1>1, <1>2 DEF vars
<1>3. CASE ServerRequest
  <2>1. ASSUME NEW p \in TagPaths, NEW m \in MstateIds, NEW size \in MstateSizes, InstallMstate(p, m, size)
        PROVE  InstallThere'
    <3>1. Opened /\ hza_write_mstate(m, size) /\ op'.mstate = m
      BY <2>1, ReadyOpened DEF InstallMstate, Operation
    <3>2. PICK s : Written(disk, disk', s, MstateSegment(m, size))
      BY <3>1, MstateStep
    <3>3. MstateSegment(m, size).kind = "MSTATE" /\ MstateSegment(m, size).mstate = m
      BY SegmentTypes
    <3>4. s \in SegmentsOf(disk', "MSTATE") /\ disk'[s].mstate = m
      BY <3>2, <3>3, WrittenAdds
    <3> QED BY <3>1, <3>4 DEF InstallThere
  <2>2. ASSUME NEW c \in Clients, NEW b \in BlobIds, NEW m \in MstateIds, NEW size \in BlobSizes, WriteBlob(c, b, m, size)
        PROVE  InstallThere'
    BY <1>1, <2>2 DEF WriteBlob, Ready
  <2>3. ASSUME NEW c \in Clients, NEW p \in FilePaths, CreateFileEntry(c, p) PROVE InstallThere'
    BY <1>1, <2>3 DEF CreateFileEntry, hza_create_metadata_file_entry, Idle, Dead, Operation
  <2>4. ASSUME NEW c \in Clients, Abandon(c) PROVE InstallThere'
    BY <1>1, <2>4 DEF Abandon, file
  <2>5. ASSUME NEW p \in FilePaths, RemoveFile(p) PROVE InstallThere'
    BY <1>1, <2>5 DEF RemoveFile, Operation
  <2>6. ASSUME NEW m \in MstateIds, NEW size \in MstateSizes, InstallUntagged(m, size) PROVE InstallThere'
    BY <1>1, <2>6 DEF InstallUntagged, Ready
  <2>7. ASSUME NEW p \in TagPaths, UninstallTag(p) PROVE InstallThere'
    BY <1>1, <2>7 DEF UninstallTag, Ready
  <2>8. ASSUME NEW f, NEW p, LookupThrows(f, p) PROVE InstallThere'
    BY <1>1, <2>8 DEF LookupThrows, Dead, Operation
  <2>9. ASSUME Close PROVE InstallThere'
    BY <1>1, <2>9 DEF Close, Ready
  <2>10. ASSUME Load PROVE InstallThere'
    BY <1>1, <2>10 DEF Load, file
  <2> QED BY <1>3, <2>1, <2>2, <2>3, <2>4, <2>5, <2>6, <2>7, <2>8, <2>9, <2>10 DEF ServerRequest
<1>4. CASE Progress
  <2>1. ASSUME Scan PROVE op.kind = "none" /\ op' \in {op, Dead}
    BY <2>1 DEF Scan, ScanVersion, ScanFile, ScanTag, ScanBlob, ScanMstate, ScanFragment, ScanEnd, Scanning
  <2>2. ASSUME RemoveFileBlob PROVE op'.kind = "remove"
    BY <2>2, RemoveFileBlobStep
  <2>3. ASSUME RemoveFileFinish \/ InstallMstateTag PROVE op' \in {Idle, Dead}
    BY <2>3 DEF RemoveFileFinish, InstallMstateTag
  <2>4. Idle.kind = "none" /\ Dead.kind = "dead"
    BY DEF Idle, Dead, Operation
  <2>5. ~CreateFileFinish /\ \A b \in BlobIds, m \in MstateIds, size \in BlobSizes : ~CreateFileBlob(b, m, size)
    BY DEF ServerBounds, CreateFileFinish, CreateFileBlob
  <2> QED BY <1>1, <1>4, <2>1, <2>2, <2>3, <2>4, <2>5 DEF Progress
<1> QED BY <1>2, <1>3, <1>4 DEF ServerNext

\* What is true of an archive that the server uses.
Serving == Consistent /\ Counted /\ ServerBounds /\ InstallThere /\ TagsHeld

LEMMA InitIdle == Init => InstallThere
BY DEF Init, Idle, Operation, InstallThere

LEMMA AlwaysServing == ServerSpec => []Serving
<1>1. Init => Serving
  BY InitConsistent, InitCounted, InitBounded, InitHeld, InitIdle DEF Serving
<1>2. Serving /\ [ServerNext]_vars => Serving'
  <2> SUFFICES ASSUME Serving, [ServerNext]_vars PROVE Serving'
    OBVIOUS
  <2>1. Consistent' /\ Counted'
    BY ServerIsLibrary, NextConsistent, NextCounted DEF Serving
  <2>2. ServerBounds' /\ InstallThere' /\ TagsHeld'
    BY <2>1, ServerBounded, NextInstallThere, NextHeld DEF Serving, Consistent
  <2> QED BY <2>1, <2>2 DEF Serving
<1> QED BY <1>1, <1>2, PTL DEF ServerSpec

\* A tag of a fresh archive names an mstate of the archive and is in
\* mstate_inv_aux_map as long as mstates are uninstalled by tag: an mstate that
\* somebody installed under a name does not go with the last blob it encoded.
THEOREM TagsAreKept == ServerSpec => []TagsKept
<1>1. Serving => TagsKept
  BY DEF Serving, TagsHeld, TagsKept, TagsCore, TableMarked
<1> QED BY <1>1, AlwaysServing, PTL
-----------------------------------------------------------------------------
(* The store.  What the refinement mapping reads off a file are maps from  *)
(* one field of the segments of a kind to another.                         *)
KeyMap(d, kind, key, val) ==
  [k \in {d[s][key] : s \in SegmentsOf(d, kind)} |->
     d[CHOOSE s \in SegmentsOf(d, kind) : d[s][key] = k][val]]

KeysUnique(d, kind, key) ==
  \A s, t \in SegmentsOf(d, kind) : d[s][key] = d[t][key] => s = t

LEMMA KeyMapAt ==
  ASSUME NEW d, NEW kind, NEW key, NEW val, KeysUnique(d, kind, key), NEW s \in SegmentsOf(d, kind)
  PROVE  d[s][key] \in DOMAIN KeyMap(d, kind, key, val) /\ KeyMap(d, kind, key, val)[d[s][key]] = d[s][val]
<1>1. PICK t : t = CHOOSE r \in SegmentsOf(d, kind) : d[r][key] = d[s][key]
  OBVIOUS
<1>2. t \in SegmentsOf(d, kind) /\ d[t][key] = d[s][key]
  BY <1>1
<1>3. t = s
  BY <1>2 DEF KeysUnique
<1> QED BY <1>1, <1>3 DEF KeyMap

LEMMA KeyMapKept ==
  ASSUME NEW d, NEW e, NEW kind, NEW key, NEW val, KindKept(d, e, kind),
         KeysUnique(d, kind, key), KeysUnique(e, kind, key)
  PROVE  KeyMap(e, kind, key, val) = KeyMap(d, kind, key, val)
<1>1. DOMAIN KeyMap(e, kind, key, val) = DOMAIN KeyMap(d, kind, key, val)
  BY DEF KeyMap, KindKept
<1>2. ASSUME NEW k \in DOMAIN KeyMap(d, kind, key, val)
      PROVE  KeyMap(e, kind, key, val)[k] = KeyMap(d, kind, key, val)[k]
  <2>1. PICK s \in SegmentsOf(d, kind) : k = d[s][key]
    BY DEF KeyMap
  <2>2. s \in SegmentsOf(e, kind) /\ e[s] = d[s]
    BY DEF KindKept
  <2> QED BY <2>1, <2>2, KeyMapAt
<1>3. KeyMap(e, kind, key, val) = [k \in DOMAIN KeyMap(e, kind, key, val) |-> KeyMap(e, kind, key, val)[k]]
  BY DEF KeyMap
<1>4. KeyMap(d, kind, key, val) = [k \in DOMAIN KeyMap(d, kind, key, val) |-> KeyMap(d, kind, key, val)[k]]
  BY DEF KeyMap
<1> QED BY <1>1, <1>2, <1>3, <1>4

\* One segment more of the kind.
LEMMA KeyMapAdded ==
  ASSUME NEW d, NEW e, NEW kind, NEW key, NEW val, NEW s,
         SegmentsOf(e, kind) = SegmentsOf(d, kind) \cup {s},
         \A t \in SegmentsOf(d, kind) : e[t] = d[t], s \notin SegmentsOf(d, kind),
         KeysUnique(d, kind, key), KeysUnique(e, kind, key)
  PROVE  KeyMap(e, kind, key, val) = Put(KeyMap(d, kind, key, val), e[s][key], e[s][val])
<1> DEFINE f == KeyMap(d, kind, key, val)
           g == KeyMap(e, kind, key, val)
<1>1. /\ DOMAIN f = {d[t][key] : t \in SegmentsOf(d, kind)}
      /\ DOMAIN g = {e[t][key] : t \in SegmentsOf(e, kind)}
  BY DEF KeyMap
<1>2. /\ \A t \in SegmentsOf(d, kind) : f[d[t][key]] = d[t][val]
      /\ \A t \in SegmentsOf(e, kind) : g[e[t][key]] = e[t][val]
  BY KeyMapAt
<1>3. g = [k \in DOMAIN g |-> g[k]]
  BY DEF KeyMap
<1> HIDE DEF f, g
<1>4. DOMAIN g = DOMAIN f \cup {e[s][key]}
  BY <1>1
<1>5. \A k \in DOMAIN g : g[k] = IF k = e[s][key] THEN e[s][val] ELSE f[k]
  <2> SUFFICES ASSUME NEW k \in DOMAIN g, k # e[s][key] PROVE g[k] = f[k]
    BY <1>2
  <2>1. PICK t \in SegmentsOf(e, kind) : k = e[t][key]
    BY <1>1
  <2>2. t \in SegmentsOf(d, kind) /\ e[t] = d[t]
    BY <2>1
  <2> QED BY <1>2, <2>1, <2>2
<1>6. g = Put(f, e[s][key], e[s][val])
  BY <1>3, <1>4, <1>5 DEF Put
<1> QED BY <1>6 DEF f, g

\* One segment less of the kind.
LEMMA KeyMapRemoved ==
  ASSUME NEW d, NEW e, NEW kind, NEW key, NEW val, NEW r \in SegmentsOf(d, kind),
         SegmentsOf(e, kind) = SegmentsOf(d, kind) \ {r},
         \A t \in SegmentsOf(e, kind) : e[t] = d[t],
         KeysUnique(d, kind, key), KeysUnique(e, kind, key)
  PROVE  KeyMap(e, kind, key, val) = Drop(KeyMap(d, kind, key, val), d[r][key])
<1> DEFINE f == KeyMap(d, kind, key, val)
           g == KeyMap(e, kind, key, val)
<1>1. /\ DOMAIN f = {d[t][key] : t \in SegmentsOf(d, kind)}
      /\ DOMAIN g = {e[t][key] : t \in SegmentsOf(e, kind)}
  BY DEF KeyMap
<1>2. /\ \A t \in SegmentsOf(d, kind) : f[d[t][key]] = d[t][val]
      /\ \A t \in SegmentsOf(e, kind) : g[e[t][key]] = e[t][val]
  BY KeyMapAt
<1>3. g = [k \in DOMAIN g |-> g[k]]
  BY DEF KeyMap
<1> HIDE DEF f, g
<1>4. \A t \in SegmentsOf(e, kind) : t \in SegmentsOf(d, kind) /\ e[t] = d[t] /\ d[t][key] # d[r][key]
  BY DEF KeysUnique
<1>5. DOMAIN g = DOMAIN f \ {d[r][key]}
  <2>1. \A k \in DOMAIN g : k \in DOMAIN f /\ k # d[r][key]
    BY <1>1, <1>4
  <2>2. \A k \in DOMAIN f \ {d[r][key]} : k \in DOMAIN g
    BY <1>1
  <2> QED BY <2>1, <2>2
<1>6. \A k \in DOMAIN g : g[k] = f[k]
  BY <1>1, <1>2, <1>4
<1>7. g = Drop(f, d[r][key])
  BY <1>3, <1>5, <1>6 DEF Drop
<1> QED BY <1>7 DEF f, g

\* No two segments of a file share an id or a path.
FileKeysUnique ==
  /\ KeysUnique(disk, "FILEINFO", "path") /\ KeysUnique(disk, "MSTATE_AUX", "path")
  /\ KeysUnique(disk, "BLOB", "blob") /\ KeysUnique(disk, "MSTATE", "mstate")

LEMMA ConsistentKeys == Consistent => FileKeysUnique
<1> SUFFICES ASSUME Consistent PROVE FileKeysUnique
  OBVIOUS
<1>1. \A p \in FilePaths \cup TagPaths : Prefix(p, p)
  BY ConstantsAssumption DEF Prefix
<1>2. \A s \in DOMAIN disk : disk[s].kind \in {"FILEINFO", "MSTATE_AUX"} => disk[s].path \in FilePaths \cup TagPaths
  BY DEF Consistent, LiveTyped, Fits
<1>3. UniqueOnDisk
  BY DEF Consistent
<1>4. ASSUME NEW s \in DOMAIN disk, NEW t \in DOMAIN disk, s # t, disk[s].kind = disk[t].kind,
             disk[s].kind \in {"FILEINFO", "MSTATE_AUX"}
      PROVE  disk[s].path # disk[t].path
  BY <1>1, <1>2, <1>3, <1>4 DEF UniqueOnDisk
<1>5. KeysUnique(disk, "FILEINFO", "path") /\ KeysUnique(disk, "MSTATE_AUX", "path")
  BY <1>4 DEF KeysUnique, SegmentsOf
<1>6. KeysUnique(disk, "BLOB", "blob") /\ KeysUnique(disk, "MSTATE", "mstate")
  BY <1>3 DEF KeysUnique, SegmentsOf, UniqueOnDisk
<1> QED BY <1>5, <1>6 DEF FileKeysUnique

LEMMA NextConsistentKeys == Consistent' => FileKeysUnique'
BY ConsistentKeys, PTL

\* The refinement mapping in these terms.
StoreOnDisk ==
  /\ FilesOnDisk = KeyMap(disk, "FILEINFO", "path", "blobs")
  /\ TagsOnDisk = KeyMap(disk, "MSTATE_AUX", "path", "mstate")
  /\ BlobsOnDisk = KeyMap(disk, "BLOB", "blob", "mstate")
  /\ MstatesOnDisk = {disk[s].mstate : s \in SegmentsOf(disk, "MSTATE")}

LEMMA StoreIs == StoreOnDisk
BY Kindly DEF StoreOnDisk, FilesOnDisk, TagsOnDisk, BlobsOnDisk, MstatesOnDisk, SegmentWith, KeyMap, OfKind, SegmentsOf

LEMMA NextStoreIs == StoreOnDisk'
BY StoreIs, PTL
-----------------------------------------------------------------------------
(* What is left of the store by a step that leaves the segments of a kind. *)
LEMMA FilesStay ==
  ASSUME Consistent, Consistent', KindKept(disk, disk', "FILEINFO")
  PROVE  FilesOnDisk' = FilesOnDisk
BY ConsistentKeys, NextConsistentKeys, StoreIs, NextStoreIs, KeyMapKept DEF FileKeysUnique, StoreOnDisk

LEMMA TagsStay ==
  ASSUME Consistent, Consistent', KindKept(disk, disk', "MSTATE_AUX")
  PROVE  TagsOnDisk' = TagsOnDisk
BY ConsistentKeys, NextConsistentKeys, StoreIs, NextStoreIs, KeyMapKept DEF FileKeysUnique, StoreOnDisk

LEMMA BlobsStayOnDisk ==
  ASSUME Consistent, Consistent', KindKept(disk, disk', "BLOB")
  PROVE  BlobsOnDisk' = BlobsOnDisk
BY ConsistentKeys, NextConsistentKeys, StoreIs, NextStoreIs, KeyMapKept DEF FileKeysUnique, StoreOnDisk

LEMMA MstatesStay ==
  ASSUME KindKept(disk, disk', "MSTATE")
  PROVE  MstatesOnDisk' = MstatesOnDisk
BY StoreIs, NextStoreIs DEF StoreOnDisk, KindKept

\* And by one that adds or frees a segment of the kind.
LEMMA FileMapAdded ==
  ASSUME Consistent, Consistent', NEW s, s \notin SegmentsOf(disk, "FILEINFO"),
         SegmentsOf(disk', "FILEINFO") = SegmentsOf(disk, "FILEINFO") \cup {s},
         \A t \in SegmentsOf(disk, "FILEINFO") : disk'[t] = disk[t]
  PROVE  FilesOnDisk' = Put(FilesOnDisk, disk'[s].path, disk'[s].blobs)
BY ConsistentKeys, NextConsistentKeys, StoreIs, NextStoreIs, KeyMapAdded DEF FileKeysUnique, StoreOnDisk

LEMMA TagMapAdded ==
  ASSUME Consistent, Consistent', NEW s, s \notin SegmentsOf(disk, "MSTATE_AUX"),
         SegmentsOf(disk', "MSTATE_AUX") = SegmentsOf(disk, "MSTATE_AUX") \cup {s},
         \A t \in SegmentsOf(disk, "MSTATE_AUX") : disk'[t] = disk[t]
  PROVE  TagsOnDisk' = Put(TagsOnDisk, disk'[s].path, disk'[s].mstate)
BY ConsistentKeys, NextConsistentKeys, StoreIs, NextStoreIs, KeyMapAdded DEF FileKeysUnique, StoreOnDisk

LEMMA BlobMapAdded ==
  ASSUME Consistent, Consistent', NEW s, s \notin SegmentsOf(disk, "BLOB"),
         SegmentsOf(disk', "BLOB") = SegmentsOf(disk, "BLOB") \cup {s},
         \A t \in SegmentsOf(disk, "BLOB") : disk'[t] = disk[t]
  PROVE  BlobsOnDisk' = Put(BlobsOnDisk, disk'[s].blob, disk'[s].mstate)
BY ConsistentKeys, NextConsistentKeys, StoreIs, NextStoreIs, KeyMapAdded DEF FileKeysUnique, StoreOnDisk

LEMMA FileMapRemoved ==
  ASSUME Consistent, Consistent', NEW r \in SegmentsOf(disk, "FILEINFO"),
         SegmentsOf(disk', "FILEINFO") = SegmentsOf(disk, "FILEINFO") \ {r},
         \A t \in SegmentsOf(disk', "FILEINFO") : disk'[t] = disk[t]
  PROVE  FilesOnDisk' = Drop(FilesOnDisk, disk[r].path)
<1>1. KeysUnique(disk, "FILEINFO", "path") /\ KeysUnique(disk', "FILEINFO", "path")
  BY ConsistentKeys, NextConsistentKeys DEF FileKeysUnique
<1>2. KeyMap(disk', "FILEINFO", "path", "blobs") = Drop(KeyMap(disk, "FILEINFO", "path", "blobs"), disk[r]["path"])
  BY <1>1, KeyMapRemoved
<1> QED BY <1>2, StoreIs, NextStoreIs DEF StoreOnDisk

LEMMA TagMapRemoved ==
  ASSUME Consistent, Consistent', NEW r \in SegmentsOf(disk, "MSTATE_AUX"),
         SegmentsOf(disk', "MSTATE_AUX") = SegmentsOf(disk, "MSTATE_AUX") \ {r},
         \A t \in SegmentsOf(disk', "MSTATE_AUX") : disk'[t] = disk[t]
  PROVE  TagsOnDisk' = Drop(TagsOnDisk, disk[r].path)
<1>1. KeysUnique(disk, "MSTATE_AUX", "path") /\ KeysUnique(disk', "MSTATE_AUX", "path")
  BY ConsistentKeys, NextConsistentKeys DEF FileKeysUnique
<1>2. KeyMap(disk', "MSTATE_AUX", "path", "mstate") = Drop(KeyMap(disk, "MSTATE_AUX", "path", "mstate"), disk[r]["path"])
  BY <1>1, KeyMapRemoved
<1> QED BY <1>2, StoreIs, NextStoreIs DEF StoreOnDisk

LEMMA BlobMapRemoved ==
  ASSUME Consistent, Consistent', NEW r \in SegmentsOf(disk, "BLOB"),
         SegmentsOf(disk', "BLOB") = SegmentsOf(disk, "BLOB") \ {r},
         \A t \in SegmentsOf(disk', "BLOB") : disk'[t] = disk[t]
  PROVE  BlobsOnDisk' = Drop(BlobsOnDisk, disk[r].blob)
<1>1. KeysUnique(disk, "BLOB", "blob") /\ KeysUnique(disk', "BLOB", "blob")
  BY ConsistentKeys, NextConsistentKeys DEF FileKeysUnique
<1>2. KeyMap(disk', "BLOB", "blob", "mstate") = Drop(KeyMap(disk, "BLOB", "blob", "mstate"), disk[r]["blob"])
  BY <1>1, KeyMapRemoved
<1> QED BY <1>2, StoreIs, NextStoreIs DEF StoreOnDisk

StoreStays == UNCHANGED <<FilesOnDisk, TagsOnDisk, BlobsOnDisk, MstatesOnDisk>>

LEMMA SameStore ==
  ASSUME Consistent, Consistent', SameLive(disk, disk')
  PROVE  StoreStays
BY SameLiveKeeps, FilesStay, TagsStay, BlobsStayOnDisk, MstatesStay DEF StoreStays

LEMMA QuietStore ==
  ASSUME Consistent, Consistent', UNCHANGED disk
  PROVE  StoreStays
BY SameStore DEF SameLive

\* The store of an open archive is what its tables say.
LEMMA OpenStore ==
  ASSUME Opened
  PROVE  /\ DOMAIN FilesOnDisk = DOMAIN FileTable
         /\ DOMAIN TagsOnDisk = DOMAIN mstate_aux_map
         /\ \A p \in DOMAIN mstate_aux_map : TagsOnDisk[p] = mstate_aux_map[p].mstate
         /\ DOMAIN BlobsOnDisk = DOMAIN blob_map
         /\ \A b \in DOMAIN blob_map : BlobsOnDisk[b] = disk[blob_map[b]].mstate
         /\ MstatesOnDisk = DOMAIN mstate_map
<1>1. /\ FilesMatch(disk) /\ TagsMatch(disk) /\ BlobsMatch(disk) /\ MstatesMatch(disk) /\ FileKeysUnique /\ StoreOnDisk
  BY OpenedState, ConsistentKeys, StoreIs DEF Opened, TablesMatch
<1>2. DOMAIN FilesOnDisk = DOMAIN FileTable
  BY <1>1 DEF StoreOnDisk, KeyMap, FilesMatch, IndexOf, SegmentsOf
<1>3. MstatesOnDisk = DOMAIN mstate_map
  BY <1>1 DEF StoreOnDisk, MstatesMatch, IndexOf, SegmentsOf
<1>4. DOMAIN BlobsOnDisk = DOMAIN blob_map
  BY <1>1 DEF StoreOnDisk, KeyMap, BlobsMatch, IndexOf, SegmentsOf
<1>5. ASSUME NEW b \in DOMAIN blob_map PROVE BlobsOnDisk[b] = disk[blob_map[b]].mstate
  <2>1. blob_map[b] \in SegmentsOf(disk, "BLOB") /\ disk[blob_map[b]].blob = b
    BY <1>1 DEF BlobsMatch, IndexOf, SegmentsOf
  <2>2. KeyMap(disk, "BLOB", "blob", "mstate")[disk[blob_map[b]].blob] = disk[blob_map[b]].mstate
    BY <1>1, <2>1, KeyMapAt DEF FileKeysUnique
  <2> QED BY <1>1, <2>1, <2>2 DEF StoreOnDisk
<1>6. DOMAIN TagTable = DOMAIN mstate_aux_map
  BY DEF TagTable
<1>7. DOMAIN TagsOnDisk = DOMAIN mstate_aux_map
  BY <1>1, <1>6 DEF StoreOnDisk, KeyMap, TagsMatch, IndexOf, SegmentsOf
<1>8. ASSUME NEW p \in DOMAIN mstate_aux_map PROVE TagsOnDisk[p] = mstate_aux_map[p].mstate
  <2>1. /\ TagTable[p] \in SegmentsOf(disk, "MSTATE_AUX") /\ disk[TagTable[p]].path = p
        /\ disk[TagTable[p]].mstate = mstate_aux_map[p].mstate
    BY <1>1, <1>6 DEF TagsMatch, IndexOf, SegmentsOf
  <2>2. KeyMap(disk, "MSTATE_AUX", "path", "mstate")[disk[TagTable[p]].path] = disk[TagTable[p]].mstate
    BY <1>1, <2>1, KeyMapAt DEF FileKeysUnique
  <2> QED BY <1>1, <2>1, <2>2 DEF StoreOnDisk
<1> QED BY <1>2, <1>3, <1>4, <1>5, <1>7, <1>8

\* Blobs that a session or the operation holds are no file's.
LEMMA HeldNotOwned ==
  ASSUME Consistent, NEW l \in {<<"session", c>> : c \in Clients} \cup {<<"op", 0>>}, NEW i \in DOMAIN Lists[l]
  PROVE  Lists[l][i] \notin Store!Owned
<1> SUFFICES ASSUME NEW p \in DOMAIN FilesOnDisk, NEW j \in DOMAIN FilesOnDisk[p], FilesOnDisk[p][j] = Lists[l][i]
             PROVE  FALSE
  BY DEF Store!Owned
<1>1. FileKeysUnique /\ StoreOnDisk /\ ListsShape /\ OwnedOnce(Lists, StoredBlobs)
  BY ConsistentKeys, StoreIs, ListsAre DEF Consistent, Owned
<1>2. PICK s \in SegmentsOf(disk, "FILEINFO") : p = disk[s].path
  BY <1>1 DEF StoreOnDisk, KeyMap
<1>3. FilesOnDisk[p] = disk[s].blobs
  <2>1. KeyMap(disk, "FILEINFO", "path", "blobs")[disk[s].path] = disk[s].blobs
    BY <1>1, KeyMapAt DEF FileKeysUnique
  <2> QED BY <1>1, <1>2, <2>1 DEF StoreOnDisk
<1>4. PICK k : k = <<"entry", s>>
  OBVIOUS
<1>5. k \in DOMAIN Lists /\ Lists[k] = disk[s].blobs /\ l \in DOMAIN Lists
  BY <1>1, <1>4 DEF ListsShape
<1>6. k # l
  BY <1>4
<1>7. j \in DOMAIN Lists[k] /\ Lists[k][j] = Lists[l][i]
  BY <1>3, <1>5
<1> QED BY <1>1, <1>5, <1>6, <1>7 DEF OwnedOnce

\* ArchiveStore's view of paths and maps is Archive's.
LEMMA StoreMaps ==
  /\ \A f, k, v : Store!Put(f, k, v) = Put(f, k, v) /\ Store!Drop(f, k) = Drop(f, k)
  /\ \A f, g, p : DOMAIN f = DOMAIN g =>
       (Store!Contains(f, p) <=> Contains(g, p)) /\ (Store!Blocked(f, p) <=> Blocked(g, p))
  /\ Store!EmptyMap = EmptyMap
BY DEF Store!Put, Put, Store!Drop, Drop, Store!Contains, Contains, Store!Blocked, Blocked,
       Store!ProperPrefix, ProperPrefix, Store!Prefix, Prefix, Store!EmptyMap, EmptyMap
-----------------------------------------------------------------------------
(* The operations as steps of the store. *)
LEMMA BlobAdds ==
  ASSUME Opened, Consistent', NEW b \in BlobIds, NEW m \in MstateIds, NEW size \in BlobSizes, hza_write_blob(b, m, size)
  PROVE  Store!AddBlob(b, m)
<1>1. PICK s : Written(disk, disk', s, BlobSegment(b, m, size))
  BY BlobStep
<1>2. /\ BlobSegment(b, m, size).kind = "BLOB" /\ BlobSegment(b, m, size).blob = b
      /\ BlobSegment(b, m, size).mstate = m
  BY SegmentTypes
<1>3. /\ SegmentsOf(disk', "BLOB") = SegmentsOf(disk, "BLOB") \cup {s} /\ s \notin SegmentsOf(disk, "BLOB")
      /\ disk'[s].blob = b /\ disk'[s].mstate = m /\ \A t \in SegmentsOf(disk, "BLOB") : disk'[t] = disk[t]
  BY <1>1, <1>2, WrittenAdds
<1>6. BlobsOnDisk' = Put(BlobsOnDisk, b, m)
  BY <1>3, BlobMapAdded DEF Opened
<1>7. /\ KindKept(disk, disk', "FILEINFO") /\ KindKept(disk, disk', "MSTATE_AUX") /\ KindKept(disk, disk', "MSTATE")
  BY <1>1, <1>2, WrittenKeeps
<1>8. UNCHANGED <<FilesOnDisk, TagsOnDisk, MstatesOnDisk>>
  BY <1>7, FilesStay, TagsStay, MstatesStay DEF Opened
<1>9. b \notin DOMAIN BlobsOnDisk /\ m \in MstatesOnDisk
  BY OpenStore DEF hza_write_blob
<1> QED BY <1>6, <1>8, <1>9, StoreMaps DEF Store!AddBlob

LEMMA MstateAdds ==
  ASSUME Opened, Consistent', NEW m \in MstateIds, NEW size \in MstateSizes, hza_write_mstate(m, size)
  PROVE  Store!AddMstate(m)
<1>1. PICK s : Written(disk, disk', s, MstateSegment(m, size))
  BY MstateStep
<1>2. MstateSegment(m, size).kind = "MSTATE" /\ MstateSegment(m, size).mstate = m
  BY SegmentTypes
<1>3. /\ SegmentsOf(disk', "MSTATE") = SegmentsOf(disk, "MSTATE") \cup {s}
      /\ disk'[s].mstate = m /\ \A t \in SegmentsOf(disk, "MSTATE") : disk'[t] = disk[t]
  BY <1>1, <1>2, WrittenAdds
<1>4. MstatesOnDisk' = MstatesOnDisk \cup {m}
  BY <1>3, StoreIs, NextStoreIs DEF StoreOnDisk
<1>5. KindKept(disk, disk', "FILEINFO") /\ KindKept(disk, disk', "MSTATE_AUX") /\ KindKept(disk, disk', "BLOB")
  BY <1>1, <1>2, WrittenKeeps
<1>6. UNCHANGED <<FilesOnDisk, TagsOnDisk, BlobsOnDisk>>
  BY <1>5, FilesStay, TagsStay, BlobsStayOnDisk DEF Opened
<1>7. m \notin MstatesOnDisk
  BY OpenStore DEF hza_write_mstate
<1> QED BY <1>4, <1>6, <1>7 DEF Store!AddMstate

\* create_file_entry: what the session wrote becomes a file.
LEMMA EntryAdds ==
  ASSUME Opened, Consistent', ServerBounds, op.kind = "none", NEW c \in Clients, NEW p \in FilePaths, CreateFileEntry(c, p)
  PROVE  StoreStays \/ \E n \in 0..MaxBlobs : \E bs \in [1..n -> BlobIds] : Store!AddFile(p, bs)
<1>1. PICK bs : bs = pending[c]
  OBVIOUS
<1>2. bs \in Seq(BlobIds) /\ hza_create_metadata_file_entry(p, bs, Idle) /\ ~Contains(file_map, p)
  BY <1>1 DEF CreateFileEntry, Opened, Consistent, Sorted, ControlTyped
<1>3. CASE SameLive(disk, disk')
  BY <1>3, SameStore DEF Opened
<1>4. ASSUME ~Blocked(file_map, p), NEW s, Written(disk, disk', s, FileSegment(p, bs))
      PROVE  Store!AddFile(p, bs)
  <2>1. /\ FileSegment(p, bs).kind = "FILEINFO" /\ FileSegment(p, bs).path = p /\ FileSegment(p, bs).blobs = bs
    BY <1>2, SegmentTypes
  <2>2. /\ SegmentsOf(disk', "FILEINFO") = SegmentsOf(disk, "FILEINFO") \cup {s} /\ s \notin SegmentsOf(disk, "FILEINFO")
        /\ disk'[s].path = p /\ disk'[s].blobs = bs /\ \A t \in SegmentsOf(disk, "FILEINFO") : disk'[t] = disk[t]
    BY <1>4, <2>1, WrittenAdds
  <2>3. StoreOnDisk
    BY StoreIs
  <2>5. FilesOnDisk' = Put(FilesOnDisk, p, bs)
    BY <2>2, FileMapAdded DEF Opened
  <2>6. KindKept(disk, disk', "BLOB") /\ KindKept(disk, disk', "MSTATE_AUX") /\ KindKept(disk, disk', "MSTATE")
    BY <1>4, <2>1, WrittenKeeps
  <2>7. UNCHANGED <<TagsOnDisk, BlobsOnDisk, MstatesOnDisk>>
    BY <2>6, TagsStay, BlobsStayOnDisk, MstatesStay DEF Opened
  <2>8. DOMAIN FilesOnDisk = DOMAIN file_map
    BY OpenStore DEF FileTable, Removing
  <2>9. PICK l \in {<<"session", k>> : k \in Clients} \cup {<<"op", 0>>} : l = <<"session", c>>
    OBVIOUS
  <2>10. l \in DOMAIN Lists /\ Lists[l] = bs
    BY <1>1, <2>9, ListsAre DEF ListsShape
  <2>11. OwnedOnce(Lists, StoredBlobs)
    BY DEF Opened, Consistent, Owned
  <2>12. \A i \in DOMAIN bs : bs[i] \notin Store!Owned
    BY <2>10, HeldNotOwned DEF Opened
  <2>13. \A i \in DOMAIN bs : bs[i] \in DOMAIN BlobsOnDisk
    BY <2>3, <2>10, <2>11 DEF OwnedOnce, StoredBlobs, StoreOnDisk, KeyMap
  <2>14. \A i, j \in DOMAIN bs : bs[i] = bs[j] => i = j
    BY <2>10, <2>11 DEF OwnedOnce
  <2> QED BY <1>2, <1>4, <2>5, <2>7, <2>8, <2>12, <2>13, <2>14, StoreMaps DEF Store!AddFile
<1>5. Len(bs) \in 0..MaxBlobs /\ bs \in [1..Len(bs) -> BlobIds]
  BY <1>1, <1>2, ConstantsAssumption DEF ServerBounds
<1> QED BY <1>2, <1>3, <1>4, <1>5, EntryStep

\* remove_file: the file goes with its entry.
LEMMA FileDrops ==
  ASSUME Consistent, Consistent', NEW p, RemoveFile(p)
  PROVE  Store!DropFile(p)
<1>1. PICK r : r = FileTable[p]
  OBVIOUS
<1>2. /\ Opened /\ p \in DOMAIN FileTable /\ disk[r].kind = "FILEINFO" /\ disk[r].path = p
      /\ Freed(disk, disk', {r})
  BY <1>1, RemoveFileStep
<1>3. DiskOK(disk)
  BY <1>2, OpenedState DEF Writable, FileTyped
<1>4. r \in SegmentsOf(disk, "FILEINFO")
  BY <1>2 DEF Freed, Live, SegmentsOf
<1>5. /\ SegmentsOf(disk', "FILEINFO") = SegmentsOf(disk, "FILEINFO") \ {r}
      /\ \A t \in SegmentsOf(disk', "FILEINFO") : disk'[t] = disk[t]
  BY <1>2, <1>3, FreedSegments
<1>8. FilesOnDisk' = Drop(FilesOnDisk, p)
  BY <1>2, <1>4, <1>5, FileMapRemoved
<1>9. KindKept(disk, disk', "BLOB") /\ KindKept(disk, disk', "MSTATE_AUX") /\ KindKept(disk, disk', "MSTATE")
  BY <1>2, <1>3, FreedKeeps
<1>10. UNCHANGED <<TagsOnDisk, BlobsOnDisk, MstatesOnDisk>>
  BY <1>9, TagsStay, BlobsStayOnDisk, MstatesStay
<1>11. p \in DOMAIN FilesOnDisk
  BY <1>2, OpenStore
<1> QED BY <1>8, <1>10, <1>11, StoreMaps DEF Store!DropFile

\* install_mstate: the tag that follows its mstate.
LEMMA TagAdds ==
  ASSUME Consistent, Consistent', InstallMstateTag, NEW m, m = op.mstate
  PROVE  /\ m \in MstateIds /\ op.path \in TagPaths /\ op.kind = "install"
         /\ StoreStays \/ (m \in MstatesOnDisk => Store!TagUncounted(op.path, m))
<1>1. /\ Opened /\ op.path \in TagPaths /\ op.mstate \in MstateIds /\ ~Contains(mstate_aux_map, op.path)
      /\ \/ ~Blocked(mstate_aux_map, op.path) /\ \E s : Written(disk, disk', s, AuxSegment(op.path, op.mstate))
         \/ SameLive(disk, disk')
  BY TagStep
<1>2. PICK p : p = op.path
  OBVIOUS
<1>3. SameLive(disk, disk') => StoreStays
  BY SameStore
<1>4. ASSUME ~Blocked(mstate_aux_map, p), NEW s, Written(disk, disk', s, AuxSegment(p, m)), m \in MstatesOnDisk
      PROVE  Store!TagUncounted(p, m)
  <2>1. AuxSegment(p, m).kind = "MSTATE_AUX" /\ AuxSegment(p, m).path = p /\ AuxSegment(p, m).mstate = m
    BY <1>1, <1>2, SegmentTypes
  <2>2. /\ SegmentsOf(disk', "MSTATE_AUX") = SegmentsOf(disk, "MSTATE_AUX") \cup {s} /\ s \notin SegmentsOf(disk, "MSTATE_AUX")
        /\ disk'[s].path = p /\ disk'[s].mstate = m /\ \A t \in SegmentsOf(disk, "MSTATE_AUX") : disk'[t] = disk[t]
    BY <1>4, <2>1, WrittenAdds
  <2>5. TagsOnDisk' = Put(TagsOnDisk, p, m)
    BY <2>2, TagMapAdded
  <2>6. KindKept(disk, disk', "BLOB") /\ KindKept(disk, disk', "FILEINFO") /\ KindKept(disk, disk', "MSTATE")
    BY <1>4, <2>1, WrittenKeeps
  <2>7. UNCHANGED <<FilesOnDisk, BlobsOnDisk, MstatesOnDisk>>
    BY <2>6, FilesStay, BlobsStayOnDisk, MstatesStay
  <2>8. DOMAIN TagsOnDisk = DOMAIN mstate_aux_map
    BY <1>1, OpenStore
  <2> QED BY <1>1, <1>2, <1>4, <2>5, <2>7, <2>8, StoreMaps DEF Store!TagUncounted
<1>5. op.kind = "install"
  BY DEF InstallMstateTag
<1>6. StoreStays \/ (m \in MstatesOnDisk => Store!TagUncounted(p, m))
  <2>1. \/ ~Blocked(mstate_aux_map, p) /\ \E s : Written(disk, disk', s, AuxSegment(p, m))
        \/ SameLive(disk, disk')
    BY <1>1, <1>2
  <2> QED BY <1>3, <1>4, <2>1
<1> QED BY <1>1, <1>2, <1>5, <1>6

\* uninstall_mstate: the tag and the mstate it names.
LEMMA TagDrops ==
  ASSUME Consistent, Consistent', NEW p, UninstallTag(p)
  PROVE  Store!UntagUncounted(p)
<1>1. Opened /\ p \in DOMAIN mstate_aux_map
  BY ReadyOpened DEF UninstallTag
<1>2. PICK m : m = mstate_aux_map[p].mstate
  OBVIOUS
<1>3. PICK a : a = TagTable[p]
  OBVIOUS
<1>4. PICK S : S = MstateAt(m)
  OBVIOUS
<1>5. /\ Freed(disk, disk', S \cup {a}) /\ disk[a].kind = "MSTATE_AUX"
      /\ \A s \in S : disk[s].kind = "MSTATE" /\ disk[s].mstate = m
  BY <1>1, <1>2, <1>3, <1>4, TagFreed, MstateAtCounted
<1>6. disk[a].path = p /\ a \in SegmentsOf(disk, "MSTATE_AUX")
  BY <1>1, <1>3, <1>5, OpenedState DEF TablesMatch, TagsMatch, IndexOf, TagTable, SegmentsOf
<1>7. \A t \in SegmentsOf(disk, "MSTATE") : disk[t].mstate = m => t \in S
  BY <1>1, <1>4, OpenedState DEF TablesMatch, MstatesMatch, IndexOf, SegmentsOf, MstateAt
<1>8. DiskOK(disk)
  BY <1>1, OpenedState DEF Writable, FileTyped
<1>9. /\ SegmentsOf(disk', "MSTATE_AUX") = SegmentsOf(disk, "MSTATE_AUX") \ {a}
      /\ \A t \in SegmentsOf(disk', "MSTATE_AUX") : disk'[t] = disk[t]
      /\ SegmentsOf(disk', "MSTATE") = SegmentsOf(disk, "MSTATE") \ S
      /\ \A t \in SegmentsOf(disk', "MSTATE") : disk'[t] = disk[t]
  <2>1. /\ SegmentsOf(disk', "MSTATE_AUX") = SegmentsOf(disk, "MSTATE_AUX") \ (S \cup {a})
        /\ \A t \in SegmentsOf(disk', "MSTATE_AUX") : disk'[t] = disk[t]
        /\ SegmentsOf(disk', "MSTATE") = SegmentsOf(disk, "MSTATE") \ (S \cup {a})
        /\ \A t \in SegmentsOf(disk', "MSTATE") : disk'[t] = disk[t]
    BY <1>5, <1>8, FreedSegments
  <2> QED BY <1>5, <2>1 DEF SegmentsOf
<1>10. StoreOnDisk /\ StoreOnDisk'
  BY StoreIs, NextStoreIs
<1>11. /\ SegmentsOf(disk', "MSTATE_AUX") = SegmentsOf(disk, "MSTATE_AUX") \ {a}
       /\ \A t \in SegmentsOf(disk', "MSTATE_AUX") : disk'[t] = disk[t]
  BY <1>9
<1>12. TagsOnDisk' = Drop(TagsOnDisk, p)
  BY <1>6, <1>11, TagMapRemoved
<1>13. MstatesOnDisk' = MstatesOnDisk \ {m}
  BY <1>5, <1>7, <1>9, <1>10 DEF StoreOnDisk, SegmentsOf
<1>14. KindKept(disk, disk', "BLOB") /\ KindKept(disk, disk', "FILEINFO")
  BY <1>5, <1>8, FreedKeeps
<1>15. UNCHANGED <<FilesOnDisk, BlobsOnDisk>>
  BY <1>14, FilesStay, BlobsStayOnDisk
<1>16. p \in DOMAIN TagsOnDisk /\ TagsOnDisk[p] = m
  BY <1>1, <1>2, OpenStore
<1> QED BY <1>12, <1>13, <1>15, <1>16, StoreMaps DEF Store!UntagUncounted

\* remove_file: the next blob goes, and with it its mstate if DropsMstate says so.
LEMMA BlobDrops ==
  ASSUME Consistent, Consistent', RemoveFileBlob, NEW b, b = Head(op.blobs)
  PROVE  /\ b \in BlobIds /\ b \in DOMAIN BlobsOnDisk \ Store!Owned
         /\ BlobsOnDisk' = Drop(BlobsOnDisk, b) /\ UNCHANGED <<FilesOnDisk, TagsOnDisk>>
         /\ MstatesOnDisk' = IF DropsMstate(BlobsOnDisk[b]) THEN MstatesOnDisk \ {BlobsOnDisk[b]} ELSE MstatesOnDisk
<1>1. /\ Opened /\ op.blobs \in Seq(BlobIds) /\ op.blobs # <<>> /\ b \in DOMAIN blob_map
      /\ Freed(disk, disk', FreedWith(b))
      /\ \A t \in FreedWith(b) : (disk[t].kind = "BLOB" /\ disk[t].blob = b) \/ disk[t].kind = "MSTATE"
  BY RemoveFileBlobStep
<1>2. DiskOK(disk) /\ TablesMatch(disk)
  BY <1>1, OpenedState DEF Writable, FileTyped
<1>3. /\ \A k \in DOMAIN blob_map : /\ blob_map[k] \in SegmentsOf(disk, "BLOB")
                                    /\ disk[blob_map[k]].blob = k
      /\ \A s \in SegmentsOf(disk, "BLOB") : blob_map[disk[s].blob] = s
  BY <1>2 DEF TablesMatch, BlobsMatch, IndexOf, SegmentsOf
<1>4. PICK r \in SegmentsOf(disk, "BLOB") : r = blob_map[b]
  BY <1>1, <1>3
<1>5. PICK m : m = disk[r].mstate
  OBVIOUS
<1>6. PICK S : S = FreedWith(b)
  OBVIOUS
<1>7. disk[r].blob = b /\ r \in S /\ \A t \in SegmentsOf(disk, "BLOB") : t \in S => t = r
  BY <1>1, <1>3, <1>4, <1>6 DEF FreedWith, SegmentsOf
<1>8. \A t \in SegmentsOf(disk, "MSTATE") : t \in S <=> DropsMstate(m) /\ disk[t].mstate = m
  BY <1>2, <1>4, <1>5, <1>6 DEF FreedWith, MstateAt, TablesMatch, MstatesMatch, IndexOf, SegmentsOf
<1>9. /\ SegmentsOf(disk', "BLOB") = SegmentsOf(disk, "BLOB") \ S
      /\ \A t \in SegmentsOf(disk', "BLOB") : disk'[t] = disk[t]
      /\ SegmentsOf(disk', "MSTATE") = SegmentsOf(disk, "MSTATE") \ S
      /\ \A t \in SegmentsOf(disk', "MSTATE") : disk'[t] = disk[t]
  BY <1>1, <1>2, <1>6, FreedSegments
<1>10. SegmentsOf(disk', "BLOB") = SegmentsOf(disk, "BLOB") \ {r}
  BY <1>7, <1>9
<1>11. StoreOnDisk /\ StoreOnDisk'
  BY StoreIs, NextStoreIs
<1>12. \A t \in SegmentsOf(disk', "BLOB") : disk'[t] = disk[t]
  BY <1>9
<1>13. BlobsOnDisk' = Drop(BlobsOnDisk, b)
  BY <1>7, <1>10, <1>12, BlobMapRemoved
<1>14. b \in DOMAIN BlobsOnDisk /\ BlobsOnDisk[b] = m
  BY <1>1, <1>4, <1>5, OpenStore
<1>15. MstatesOnDisk' = IF DropsMstate(m) THEN MstatesOnDisk \ {m} ELSE MstatesOnDisk
  <2>1. CASE DropsMstate(m)
    BY <1>8, <1>9, <1>11, <2>1 DEF StoreOnDisk
  <2>2. CASE ~DropsMstate(m)
    BY <1>8, <1>9, <1>11, <2>2 DEF StoreOnDisk
  <2> QED BY <2>1, <2>2
<1>16. KindKept(disk, disk', "MSTATE_AUX") /\ KindKept(disk, disk', "FILEINFO")
  BY <1>1, <1>2, FreedKeeps
<1>17. UNCHANGED <<FilesOnDisk, TagsOnDisk>>
  BY <1>16, FilesStay, TagsStay
<1>18. b \notin Store!Owned
  <2>1. PICK l \in {<<"session", k>> : k \in Clients} \cup {<<"op", 0>>} : l = <<"op", 0>>
    OBVIOUS
  <2>2. Lists[l] = op.blobs
    BY <2>1, ListsAre DEF ListsShape
  <2>3. 1 \in DOMAIN op.blobs /\ op.blobs[1] = b
    BY <1>1
  <2> QED BY <2>2, <2>3, HeldNotOwned
<1>19. b \in BlobIds
  BY <1>1
<1> QED BY <1>13, <1>14, <1>15, <1>17, <1>18, <1>19
-----------------------------------------------------------------------------
(* The store while the archive is fresh: counters and tags are right. *)

\* The last blob of an mstate, by counting and by looking.
LEMMA LastUser ==
  ASSUME Counts, Consistent, NEW r \in SegmentsOf(disk, "BLOB")
  PROVE  LET m == disk[r].mstate
         IN  /\ m \in DOMAIN dep_counter
             /\ dep_counter[m] <= 1 <=> \A s \in SegmentsOf(disk, "BLOB") : disk[s].mstate = m => s = r
<1>1. PICK m \in MstateIds : m = disk[r].mstate
  BY DEF Consistent, LiveTyped, Fits, SegmentsOf
<1>2. r \in Users(m)
  BY <1>1, UsersAre
<1>3. IsFiniteSet(Users(m)) /\ Cardinality(Users(m)) = CountOf(m)
  BY DEF Counts
<1>4. m \in DOMAIN dep_counter
  BY <1>2, UncountedUnused
<1>5. CountOf(m) = dep_counter[m] /\ dep_counter[m] \in Nat
  BY <1>4 DEF CountOf, Consistent, Sorted, CountersTyped
<1>6. IsFiniteSet(Users(m) \ {r}) /\ Cardinality(Users(m) \ {r}) = Cardinality(Users(m)) - 1
  BY <1>2, <1>3, FS_RemoveElement
<1>7. Cardinality(Users(m) \ {r}) \in Nat
  BY <1>6, FS_CardinalityType
<1>8. Users(m) \ {r} = {} <=> Cardinality(Users(m) \ {r}) = 0
  BY <1>6, FS_EmptySet
<1>9. dep_counter[m] <= 1 <=> Users(m) \ {r} = {}
  BY <1>3, <1>5, <1>6, <1>7, <1>8
<1>10. Users(m) \ {r} = {} <=> \A s \in SegmentsOf(disk, "BLOB") : disk[s].mstate = m => s = r
  BY UsersAre
<1> QED BY <1>1, <1>4, <1>9, <1>10

LEMMA TaggedIsMarked ==
  ASSUME Consistent, TagsMarked
  PROVE  Store!Tagged = mstate_inv_aux_map
<1>1. FileKeysUnique /\ StoreOnDisk
  BY ConsistentKeys, StoreIs
<1>2. DOMAIN TagsOnDisk = {disk[s].path : s \in SegmentsOf(disk, "MSTATE_AUX")}
  BY <1>1 DEF StoreOnDisk, KeyMap
<1>3. \A s \in SegmentsOf(disk, "MSTATE_AUX") : TagsOnDisk[disk[s].path] = disk[s].mstate
  BY <1>1, KeyMapAt DEF FileKeysUnique, StoreOnDisk
<1> QED BY <1>2, <1>3 DEF Store!Tagged, TagsMarked

\* Blobs and the mstates they name, in the file and in the store.
LEMMA BlobsOfStore ==
  ASSUME Consistent
  PROVE  /\ \A s \in SegmentsOf(disk, "BLOB") : disk[s].blob \in DOMAIN BlobsOnDisk /\ BlobsOnDisk[disk[s].blob] = disk[s].mstate
         /\ \A c \in DOMAIN BlobsOnDisk : \E s \in SegmentsOf(disk, "BLOB") : c = disk[s].blob
         /\ KeysUnique(disk, "BLOB", "blob")
<1>1. FileKeysUnique /\ StoreOnDisk
  BY ConsistentKeys, StoreIs
<1>2. DOMAIN BlobsOnDisk = {disk[s].blob : s \in SegmentsOf(disk, "BLOB")}
  BY <1>1 DEF StoreOnDisk, KeyMap
<1>3. \A s \in SegmentsOf(disk, "BLOB") : BlobsOnDisk[disk[s].blob] = disk[s].mstate
  BY <1>1, KeyMapAt DEF FileKeysUnique, StoreOnDisk
<1> QED BY <1>1, <1>2, <1>3 DEF FileKeysUnique

LEMMA FreshBlobDrops ==
  ASSUME Serving, Consistent', FirstLoad, RemoveFileBlob, NEW b, b = Head(op.blobs)
  PROVE  b \in BlobIds /\ Store!DropBlob(b)
<1>1. Consistent /\ Counts /\ TagsMarked
  BY DEF Serving, Counted, TagsHeld, TagsCore
<1>2. /\ b \in BlobIds /\ b \in DOMAIN BlobsOnDisk \ Store!Owned
      /\ BlobsOnDisk' = Drop(BlobsOnDisk, b) /\ UNCHANGED <<FilesOnDisk, TagsOnDisk>>
      /\ MstatesOnDisk' = IF DropsMstate(BlobsOnDisk[b]) THEN MstatesOnDisk \ {BlobsOnDisk[b]} ELSE MstatesOnDisk
  BY <1>1, BlobDrops
<1>3. PICK r \in SegmentsOf(disk, "BLOB") : b = disk[r].blob
  BY <1>1, <1>2, BlobsOfStore
<1>4. PICK m : m = BlobsOnDisk[b]
  OBVIOUS
<1>5. m = disk[r].mstate
  BY <1>1, <1>3, <1>4, BlobsOfStore
<1>6. /\ m \in DOMAIN dep_counter
      /\ dep_counter[m] <= 1 <=> \A s \in SegmentsOf(disk, "BLOB") : disk[s].mstate = m => s = r
  BY <1>1, <1>5, LastUser
<1>7. (\A s \in SegmentsOf(disk, "BLOB") : disk[s].mstate = m => s = r)
        <=> \A c \in DOMAIN BlobsOnDisk \ {b} : BlobsOnDisk[c] # m
  <2>1. \A s \in SegmentsOf(disk, "BLOB") : disk[s].blob = b <=> s = r
    BY <1>1, <1>3, BlobsOfStore DEF KeysUnique
  <2>2. \A s \in SegmentsOf(disk, "BLOB") : disk[s].blob \in DOMAIN BlobsOnDisk /\ BlobsOnDisk[disk[s].blob] = disk[s].mstate
    BY <1>1, BlobsOfStore
  <2>3. \A c \in DOMAIN BlobsOnDisk : \E s \in SegmentsOf(disk, "BLOB") : c = disk[s].blob
    BY <1>1, BlobsOfStore
  <2> QED BY <2>1, <2>2, <2>3
<1>8. DropsMstate(m) <=> (\A c \in DOMAIN BlobsOnDisk \ {b} : BlobsOnDisk[c] # m) /\ m \notin Store!Tagged
  BY <1>1, <1>6, <1>7, TaggedIsMarked DEF DropsMstate
<1>9. MstatesOnDisk' = IF (\A c \in DOMAIN BlobsOnDisk \ {b} : BlobsOnDisk[c] # m) /\ m \notin Store!Tagged
                       THEN MstatesOnDisk \ {m} ELSE MstatesOnDisk
  BY <1>2, <1>4, <1>8
<1> QED BY <1>2, <1>4, <1>9, StoreMaps DEF Store!DropBlob

LEMMA FreshTagDrops ==
  ASSUME Serving, Consistent', FirstLoad, NEW p, UninstallTag(p)
  PROVE  Store!Untag(p)
<1>1. Consistent /\ Counts /\ TagsResolve /\ Opened /\ p \in DOMAIN mstate_aux_map
  BY ReadyOpened DEF Serving, Counted, TagsHeld, TagsCore, UninstallTag
<1>2. Store!UntagUncounted(p)
  BY <1>1, TagDrops
<1>3. PICK m : m = mstate_aux_map[p].mstate
  OBVIOUS
<1>4. TagsOnDisk[p] = m
  BY <1>1, <1>3, OpenStore
<1>5. PICK a \in SegmentsOf(disk, "MSTATE_AUX") : disk[a].mstate = m
  BY <1>1, <1>3, OpenedState DEF TablesMatch, TagsMatch, IndexOf, TagTable, SegmentsOf
<1>6. m \in MstateIds
  BY <1>1, <1>5 DEF Consistent, LiveTyped, Fits, SegmentsOf
<1>7. PICK t \in SegmentsOf(disk, "MSTATE") : disk[t].mstate = m
  BY <1>1, <1>5, Kindly DEF TagsResolve
<1>8. m \in DOMAIN mstate_map
  BY <1>1, <1>7, OpenedState DEF TablesMatch, MstatesMatch, IndexOf, SegmentsOf
<1>9. m \notin DOMAIN dep_counter
  BY <1>3, <1>8 DEF UninstallTag, hza_check_mstate_deps
<1>10. Users(m) = {}
  BY <1>1, <1>6, <1>9, UncountedUnused
<1>11. \A c \in DOMAIN BlobsOnDisk : BlobsOnDisk[c] # TagsOnDisk[p]
  BY <1>1, <1>4, <1>10, BlobsOfStore, UsersAre
<1> QED BY <1>2, <1>11 DEF Store!Untag, Store!UntagUncounted
-----------------------------------------------------------------------------
\* Steps that leave the file alone, and the ones that only add to it or drop a file.
AddStep == StoreStays \/ Store!Add

LEMMA ServerAdds ==
  ASSUME Consistent, Consistent', ServerBounds, [ServerNext]_vars,
         ~RemoveFileBlob, ~InstallMstateTag, \A p \in TagPaths : ~UninstallTag(p)
  PROVE  AddStep
<1>1. CASE UNCHANGED vars
  BY <1>1, QuietStore DEF vars, AddStep
<1>2. CASE ServerRequest
  <2>1. ASSUME NEW c \in Clients, NEW b \in BlobIds, NEW m \in MstateIds, NEW size \in BlobSizes, WriteBlob(c, b, m, size)
        PROVE  AddStep
    <3>1. Opened /\ hza_write_blob(b, m, size)
      BY <2>1, ReadyOpened DEF WriteBlob
    <3> QED BY <3>1, BlobAdds DEF AddStep, Store!Add
  <2>2. ASSUME NEW c \in Clients, NEW p \in FilePaths, CreateFileEntry(c, p) PROVE AddStep
    <3>1. Opened /\ op.kind = "none"
      BY <2>2, ReadyOpened DEF CreateFileEntry
    <3>2. StoreStays \/ \E n \in 0..MaxBlobs : \E bs \in [1..n -> BlobIds] : Store!AddFile(p, bs)
      BY <2>2, <3>1, EntryAdds
    <3> QED BY <3>2 DEF AddStep, Store!Add
  <2>3. ASSUME NEW c \in Clients, Abandon(c) PROVE AddStep
    BY <2>3, QuietStore DEF Abandon, file, AddStep
  <2>4. ASSUME NEW p \in FilePaths, RemoveFile(p) PROVE AddStep
    BY <2>4, FileDrops DEF AddStep, Store!Add
  <2>5. ASSUME NEW p \in TagPaths, NEW m \in MstateIds, NEW size \in MstateSizes, InstallMstate(p, m, size)
        PROVE  AddStep
    <3>1. Opened /\ hza_write_mstate(m, size)
      BY <2>5, ReadyOpened DEF InstallMstate
    <3> QED BY <3>1, MstateAdds DEF AddStep, Store!Add
  <2>6. ASSUME NEW m \in MstateIds, NEW size \in MstateSizes, InstallUntagged(m, size) PROVE AddStep
    <3>1. Opened /\ hza_write_mstate(m, size)
      BY <2>6, ReadyOpened DEF InstallUntagged
    <3> QED BY <3>1, MstateAdds DEF AddStep, Store!Add
  <2>7. ASSUME NEW f, NEW p, LookupThrows(f, p) PROVE AddStep
    BY <2>7, QuietStore DEF LookupThrows, file, AddStep
  <2>8. ASSUME Close PROVE AddStep
    BY <2>8, QuietStore DEF Close, AddStep
  <2>9. ASSUME Load PROVE AddStep
    BY <2>9, QuietStore DEF Load, file, AddStep
  <2> QED BY <1>2, <2>1, <2>2, <2>3, <2>4, <2>5, <2>6, <2>7, <2>8, <2>9 DEF ServerRequest
<1>3. CASE Progress
  <2>1. ASSUME RemoveFileFinish PROVE AddStep
    BY <2>1, QuietStore DEF RemoveFileFinish, file, AddStep
  <2>2. ~CreateFileFinish /\ \A b \in BlobIds, m \in MstateIds, size \in BlobSizes : ~CreateFileBlob(b, m, size)
    BY DEF ServerBounds, CreateFileFinish, CreateFileBlob
  <2>3. ASSUME Scan PROVE AddStep
    <3>1. UNCHANGED disk
      BY <2>3 DEF Scan, ScanVersion, ScanFile, ScanTag, ScanBlob, ScanMstate, ScanFragment, ScanEnd, Advance, file
    <3> QED BY <3>1, QuietStore DEF AddStep
  <2> QED BY <1>3, <2>1, <2>2, <2>3 DEF Progress
<1> QED BY <1>1, <1>2, <1>3 DEF ServerNext

\* An archive that the server opens, closes and opens again: a step adds to the
\* store, takes a file, a blob or a tag from it, or leaves it alone.
LEMMA ServerSteps ==
  ASSUME Serving, Consistent', [ServerNext]_vars
  PROVE  StoreStays \/ Store!UncountedNext
<1>1. Consistent /\ ServerBounds /\ InstallThere
  BY DEF Serving
<1>2. ASSUME RemoveFileBlob PROVE Store!UncountedNext
  <2>1. PICK b : b = Head(op.blobs)
    OBVIOUS
  <2>2. /\ b \in BlobIds /\ b \in DOMAIN BlobsOnDisk \ Store!Owned
        /\ BlobsOnDisk' = Drop(BlobsOnDisk, b) /\ UNCHANGED <<FilesOnDisk, TagsOnDisk>>
        /\ MstatesOnDisk' = IF DropsMstate(BlobsOnDisk[b]) THEN MstatesOnDisk \ {BlobsOnDisk[b]} ELSE MstatesOnDisk
    BY <1>1, <1>2, <2>1, BlobDrops
  <2>3. MstatesOnDisk' \in {MstatesOnDisk, MstatesOnDisk \ {BlobsOnDisk[b]}}
    BY <2>2
  <2>4. Store!DropBlobUncounted(b)
    BY <2>2, <2>3, StoreMaps DEF Store!DropBlobUncounted
  <2> QED BY <2>2, <2>4 DEF Store!UncountedNext
<1>3. ASSUME InstallMstateTag PROVE StoreStays \/ Store!UncountedNext
  <2>1. PICK m : m = op.mstate
    OBVIOUS
  <2>2. /\ m \in MstateIds /\ op.path \in TagPaths /\ op.kind = "install"
        /\ StoreStays \/ (m \in MstatesOnDisk => Store!TagUncounted(op.path, m))
    BY <1>1, <1>3, <2>1, TagAdds
  <2>3. m \in MstatesOnDisk
    BY <1>1, <2>1, <2>2, StoreIs DEF StoreOnDisk, InstallThere
  <2> QED BY <2>2, <2>3 DEF Store!UncountedNext
<1>4. ASSUME NEW p \in TagPaths, UninstallTag(p) PROVE Store!UncountedNext
  BY <1>1, <1>4, TagDrops DEF Store!UncountedNext
<1>5. ASSUME ~RemoveFileBlob, ~InstallMstateTag, \A p \in TagPaths : ~UninstallTag(p)
      PROVE  StoreStays \/ Store!UncountedNext
  BY <1>1, <1>5, ServerAdds DEF AddStep, Store!UncountedNext
<1> QED BY <1>2, <1>3, <1>4, <1>5

\* A fresh archive: the mstates' lifetime is the one the store promises.
LEMMA FreshServerSteps ==
  ASSUME Serving, Consistent', FirstLoad, [ServerNext]_vars
  PROVE  StoreStays \/ Store!Next
<1>1. Consistent /\ ServerBounds /\ InstallThere /\ InstallFits /\ TagsMarked
  BY DEF Serving, TagsHeld, TagsCore
<1>2. ASSUME RemoveFileBlob PROVE Store!Next
  <2>1. PICK b : b = Head(op.blobs)
    OBVIOUS
  <2> QED BY <1>2, <2>1, FreshBlobDrops DEF Store!Next
<1>3. ASSUME InstallMstateTag PROVE StoreStays \/ Store!Next
  <2>1. PICK m : m = op.mstate
    OBVIOUS
  <2>2. /\ m \in MstateIds /\ op.path \in TagPaths /\ op.kind = "install"
        /\ StoreStays \/ (m \in MstatesOnDisk => Store!TagUncounted(op.path, m))
    BY <1>1, <1>3, <2>1, TagAdds
  <2>3. m \in MstatesOnDisk
    BY <1>1, <2>1, <2>2, StoreIs DEF StoreOnDisk, InstallThere
  <2>4. m \notin Store!Tagged
    BY <1>1, <2>1, <2>2, TaggedIsMarked DEF InstallFits
  <2>5. StoreStays \/ Store!Tag(op.path, m)
    BY <2>2, <2>3, <2>4 DEF Store!Tag
  <2> QED BY <2>2, <2>5 DEF Store!Next
<1>4. ASSUME NEW p \in TagPaths, UninstallTag(p) PROVE Store!Next
  BY <1>4, FreshTagDrops DEF Store!Next
<1>5. ASSUME ~RemoveFileBlob, ~InstallMstateTag, \A p \in TagPaths : ~UninstallTag(p)
      PROVE  StoreStays \/ Store!Next
  BY <1>1, <1>5, ServerAdds DEF AddStep, Store!Next
<1> QED BY <1>2, <1>3, <1>4, <1>5

LEMMA StoreInit == Init => Store!Init
<1> SUFFICES ASSUME Init PROVE Store!Init
  OBVIOUS
<1>1. \A s \in DOMAIN disk : disk[s].kind = "VERSION"
  BY DEF Init, Put, EmptyMap, VersionSegment, Segment
<1>2. \A kind : kind # "VERSION" => SegmentsOf(disk, kind) = {}
  BY <1>1 DEF SegmentsOf
<1>3. /\ SegmentsOf(disk, "FILEINFO") = {} /\ SegmentsOf(disk, "MSTATE_AUX") = {}
      /\ SegmentsOf(disk, "BLOB") = {} /\ SegmentsOf(disk, "MSTATE") = {}
  BY <1>2
<1>4. \A kind, key, val : SegmentsOf(disk, kind) = {} => KeyMap(disk, kind, key, val) = EmptyMap
  BY DEF KeyMap, EmptyMap
<1> QED BY <1>3, <1>4, StoreIs, StoreMaps DEF StoreOnDisk, Store!Init

\* For every set of clients, paths, ids and sizes and any number of loads, what
\* the server's operations do to the file is what ArchiveStore allows: files own
\* stored blobs, blobs go only when their file is gone, names do not clash, and
\* closing and loading the archive changes nothing a caller stored.
THEOREM StoreAcrossLoads == ServerSpec => ImplementsStoreAcrossLoads
<1>1. Init => Store!Init
  BY StoreInit
<1>2. Serving /\ Serving' /\ [ServerNext]_vars => [Store!UncountedNext]_(Store!storeVars)
  BY ServerSteps DEF Serving, StoreStays, Store!storeVars
<1> QED BY <1>1, <1>2, AlwaysServing, PTL DEF ServerSpec, ImplementsStoreAcrossLoads, Store!UncountedSpec

\* While the archive has not been loaded a second time the store keeps its
\* promise about mstates too: one stays exactly as long as a blob or a tag needs
\* it, and an untagged one goes with its last blob.
THEOREM FreshStore == ServerSpec /\ []FirstLoad => ImplementsStore
<1>1. Init => Store!Init
  BY StoreInit
<1>2. Serving /\ Serving' /\ FirstLoad /\ [ServerNext]_vars => [Store!Next]_(Store!storeVars)
  BY FreshServerSteps DEF Serving, StoreStays, Store!storeVars
<1> QED BY <1>1, <1>2, AlwaysServing, PTL DEF ServerSpec, ImplementsStore, Store!Spec
=============================================================================
