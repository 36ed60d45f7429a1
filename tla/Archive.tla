------------------------------- MODULE Archive -------------------------------
(***************************************************************************)
(* The .hz archive of HZ_Archive (src/src/hzip_storage/archive/archive.cpp)*)
(* : a file of self-describing segments, the maps that index it in memory, *)
(* the free list of fragments and the dependency counters of mstates.      *)
(*                                                                         *)
(* The file is the partial function disk from bit offsets to segment       *)
(* headers with the part of the payload the archive interprets; lengths    *)
(* are the code's, in bits.  Every public operation holds HZ_Archive's     *)
(* mutex from its first to its last statement.  An operation that writes   *)
(* or removes several segments is several steps under the mutex (op), and  *)
(* an exception that leaves the mutex locked is op.kind = "dead": no       *)
(* thread can use the handle afterwards.                                   *)
(***************************************************************************)
EXTENDS PathMap, Integers, FiniteSets

CONSTANTS
  Clients,        \* sessions of the server that write blobs
  FilePaths,      \* paths of files, non-root
  TagPaths,       \* paths of tagged mstates, non-root
  PathLength,     \* characters of each path
  BlobIds,        \* 64-bit random ids
  MstateIds,
  BlobSizes,      \* header bytes + data bytes of a blob
  MstateSizes,    \* data bytes of an mstate
  Versions,       \* versions an archive on disk may carry
  HZ_ARCHIVE_VERSION,
  MaxBlobs,       \* bound: blobs of one file
  MaxEof,         \* bound: bits of the archive
  MaxLoads,       \* bound: times the archive is opened
  NoPath, NoId, NoEnd

ASSUME ConstantsAssumption ==
  /\ FilePaths \subseteq Seq(STRING) \ {<<>>}
  /\ TagPaths \subseteq Seq(STRING) \ {<<>>}
  /\ FilePaths \cup TagPaths \subseteq DOMAIN PathLength
  /\ \A p \in DOMAIN PathLength : PathLength[p] \in Nat
  /\ BlobSizes \subseteq Nat /\ MstateSizes \subseteq Nat
  /\ HZ_ARCHIVE_VERSION \in Versions
  /\ MaxBlobs \in Nat /\ MaxEof \in Nat /\ MaxLoads \in Nat
  /\ NoPath \notin FilePaths \cup TagPaths
  /\ NoId \notin BlobIds \cup MstateIds
  /\ NoEnd \notin Nat

VARIABLES
  phase,               \* "closed", "scanning" (in load) or "open"
  op,                  \* the operation that holds the mutex
  disk, endAt,         \* the file: segments by offset, offset of the END marker
  eof,                 \* metadata.eof; the read position while scanning
  file_map, mstate_aux_map, mstate_inv_aux_map,
  blob_map, mstate_map, dep_counter, fragments,
  pending,             \* blob ids a session has written and not yet filed
  loads

file   == <<disk, endAt>>
maps   == <<file_map, mstate_aux_map, mstate_inv_aux_map>>
ids    == <<blob_map, mstate_map, dep_counter>>
vars   == <<phase, op, disk, endAt, eof, file_map, mstate_aux_map,
            mstate_inv_aux_map, blob_map, mstate_map, dep_counter, fragments,
            pending, loads>>
-----------------------------------------------------------------------------
(* Segments.  A header is an 8-bit marker and a 64-bit block length.       *)
HDR == 72

Kinds == {"EMPTY", "VERSION", "FILEINFO", "MSTATE_AUX", "BLOB", "MSTATE"}

Segment(kind, len, ver, p, bs, b, m) ==
  [kind |-> kind, len |-> len, version |-> ver, path |-> p, blobs |-> bs,
   blob |-> b, mstate |-> m]

VersionSegment(v) == Segment("VERSION", 32, v, NoPath, <<>>, NoId, NoId)

\* 0x40 + 8|path| + 0x42 + 64 per blob id
FileSegment(p, bs) ==
  Segment("FILEINFO", 130 + 8 * PathLength[p] + 64 * Len(bs), HZ_ARCHIVE_VERSION, p, bs, NoId, NoId)

\* 0x48 + 0x40 + 8|path|
AuxSegment(p, m) ==
  Segment("MSTATE_AUX", 136 + 8 * PathLength[p], HZ_ARCHIVE_VERSION, p, <<>>, NoId, m)

\* 0x140 + 8(|header| + |data|)
BlobSegment(b, m, size) ==
  Segment("BLOB", 320 + 8 * size, HZ_ARCHIVE_VERSION, NoPath, <<>>, b, m)

\* 0xC0 + 8|data|
MstateSegment(m, size) ==
  Segment("MSTATE", 192 + 8 * size, HZ_ARCHIVE_VERSION, NoPath, <<>>, NoId, m)

Segments ==
  [kind: Kinds, len: Nat, version: Versions,
   path: FilePaths \cup TagPaths \cup {NoPath}, blobs: Seq(BlobIds),
   blob: BlobIds \cup {NoId}, mstate: MstateIds \cup {NoId}]

Fragments == [sof: Nat, length: Nat]

\* One past the last bit of the segment at s.
EndOf(s) == s + HDR + disk[s].len

\* Writing the EMPTY marker over a segment's marker leaves its length and
\* payload in place; the fragment is read back from the file.
MarkEmpty(d, s) == [d EXCEPT ![s].kind = "EMPTY"]

FragmentAt(s) == [sof |-> s, length |-> disk[s].len]
-----------------------------------------------------------------------------
(* Operations that hold the mutex across steps.                            *)
Operation(kind, p, left, bs, m) ==
  [kind |-> kind, path |-> p, left |-> left, blobs |-> bs, mstate |-> m]

Idle == Operation("none", NoPath, 0, <<>>, NoId)

\* An exception left the mutex locked: every later operation blocks forever.
Dead == Operation("dead", NoPath, 0, <<>>, NoId)

Ready == phase = "open" /\ op.kind = "none"

-----------------------------------------------------------------------------
(* hza_alloc_fragment: best fit over the free list, first of equals; a     *)
(* remainder too small for a header is not used.                           *)
\* Mutant: any block that is long enough.
UsableAnyRemainder(i, len) == fragments[i].length >= len

Usable(i, len) ==
  LET diff == fragments[i].length - len
  IN  diff = 0 \/ diff >= HDR

BestFit(len) ==
  {i \in DOMAIN fragments :
     /\ Usable(i, len)
     /\ \A j \in DOMAIN fragments :
          Usable(j, len) =>
            \/ fragments[i].length < fragments[j].length
            \/ fragments[i].length = fragments[j].length /\ i <= j}

\* Mutant: a block used up stays on the free list.
KeepIndex(s, i) == s

RemoveIndex(s, i) ==
  [j \in 1..(Len(s) - 1) |-> IF j < i THEN s[j] ELSE s[j + 1]]

\* Mutant: the remainder's own header is not subtracted from its length.
AllocForgetsHeader(len) ==
  LET i    == CHOOSE i \in BestFit(len) : TRUE
      diff == fragments[i].length - len
      next == fragments[i].sof + HDR + len
  IN  IF BestFit(len) = {}
      THEN [sof |-> eof, eof |-> eof + HDR + len, fragments |-> fragments, disk |-> disk]
      ELSE [sof |-> fragments[i].sof, eof |-> eof,
            fragments |-> IF diff = 0 THEN RemoveIndex(fragments, i)
                          ELSE [fragments EXCEPT ![i] = [sof |-> next, length |-> diff]],
            disk |-> IF diff = 0 THEN disk
                     ELSE Put(disk, next,
                              Segment("EMPTY", diff, HZ_ARCHIVE_VERSION, NoPath, <<>>, NoId, NoId))]

\* Where a segment of len bits goes, and what allocating it does to the file,
\* the free list and the end of the archive.
hza_alloc_fragment(len) ==
  IF BestFit(len) = {}
  THEN [sof |-> eof, eof |-> eof + HDR + len, fragments |-> fragments, disk |-> disk]
  ELSE LET i    == CHOOSE i \in BestFit(len) : TRUE
           sof  == fragments[i].sof
           diff == fragments[i].length - len
           next == sof + HDR + len
       IN  [sof |-> sof, eof |-> eof,
            fragments |-> IF diff = 0 THEN RemoveIndex(fragments, i)
                          ELSE [fragments EXCEPT ![i] = [sof |-> next, length |-> diff - HDR]],
            disk |-> IF diff = 0 THEN disk
                     ELSE Put(disk, next,
                              Segment("EMPTY", diff - HDR, HZ_ARCHIVE_VERSION, NoPath, <<>>, NoId, NoId))]

\* The END marker is overwritten by the first segment appended at eof.
Allocated(a) ==
  /\ a.eof <= MaxEof
  /\ fragments' = a.fragments
  /\ eof' = a.eof
  /\ endAt' = IF a.eof = eof THEN endAt ELSE NoEnd

\* Allocate and write seg.
WriteSegment(seg) ==
  LET a == hza_alloc_fragment(seg.len)
  IN  /\ Allocated(a)
      /\ disk' = Put(a.disk, a.sof, seg)

-----------------------------------------------------------------------------
(* mstates and their dependency counters                                   *)
hza_write_mstate(m, size) ==
  /\ m \in MstateIds \ DOMAIN mstate_map
  /\ WriteSegment(MstateSegment(m, size))
  /\ mstate_map' = Put(mstate_map, m, hza_alloc_fragment(192 + 8 * size).sof)

hza_check_mstate_deps(m) == m \in DOMAIN dep_counter

\* Mutant: insert() instead of ++.
IncrementOnce(m) == Put(dep_counter, m, 1)

hza_increment_dep(m) ==
  Put(dep_counter, m, IF m \in DOMAIN dep_counter THEN dep_counter[m] + 1 ELSE 1)

\* hza_rm_mstate's effect when no dependency is counted; d and fs are the
\* file and the free list so far.
RmMstateDisk(d, m) ==
  IF m \in DOMAIN mstate_map THEN MarkEmpty(d, mstate_map[m]) ELSE d

RmMstateFragments(fs, m) ==
  IF m \in DOMAIN mstate_map THEN Append(fs, FragmentAt(mstate_map[m])) ELSE fs

\* Mutant: tagged mstates go with their last blob too.
DropsTaggedMstate(m) == m \in DOMAIN dep_counter /\ dep_counter[m] <= 1

\* The last dependency on an untagged mstate takes the mstate with it.
DropsMstate(m) ==
  /\ m \in DOMAIN dep_counter
  /\ dep_counter[m] <= 1
  /\ m \notin mstate_inv_aux_map

hza_decrement_dep(m) ==
  IF m \notin DOMAIN dep_counter THEN dep_counter
  ELSE IF dep_counter[m] > 1 THEN [dep_counter EXCEPT ![m] = @ - 1]
  ELSE Drop(dep_counter, m)

-----------------------------------------------------------------------------
(* blobs                                                                   *)
hza_write_blob(b, m, size) ==
  /\ m \in DOMAIN mstate_map
  /\ b \in BlobIds \ DOMAIN blob_map
  /\ WriteSegment(BlobSegment(b, m, size))
  /\ blob_map' = Put(blob_map, b, hza_alloc_fragment(320 + 8 * size).sof)
  /\ dep_counter' = hza_increment_dep(m)
  /\ UNCHANGED mstate_map

hza_rm_blob(b) ==
  LET sof  == blob_map[b]
      m    == disk[sof].mstate
      d    == MarkEmpty(disk, sof)
      fs   == Append(fragments, FragmentAt(sof))
      drop == DropsMstate(m)
  IN  /\ disk' = IF drop THEN RmMstateDisk(d, m) ELSE d
      /\ fragments' = IF drop THEN RmMstateFragments(fs, m) ELSE fs
      /\ mstate_map' = IF drop THEN Drop(mstate_map, m) ELSE mstate_map
      /\ dep_counter' = hza_decrement_dep(m)
      /\ blob_map' = Drop(blob_map, b)

\* hza_create_metadata_file_entry after its contains() check.  The space is
\* allocated before file_map.set, which throws below an existing file and
\* then leaves the mutex locked and the segment unwritten.
hza_create_metadata_file_entry(p, bs, done) ==
  LET seg == FileSegment(p, bs)
      a   == hza_alloc_fragment(seg.len)
  IN  \/ /\ ~Blocked(file_map, p)
         /\ WriteSegment(seg)
         /\ file_map' = Put(file_map, p, [blobs |-> bs, sof |-> a.sof])
         /\ op' = done
      \/ /\ Blocked(file_map, p)
         /\ Allocated(a)
         /\ disk' = a.disk
         /\ op' = Dead
         /\ UNCHANGED file_map

-----------------------------------------------------------------------------
(* Public operations.  One that throws before it changes anything and      *)
(* unlocks the mutex is not a step.                                        *)

\* write_blob, called by a session's encode job; pending is the streamer's
\* list of the ids returned.
WriteBlob(c, b, m, size) ==
  /\ Ready
  /\ Len(pending[c]) < MaxBlobs
  /\ hza_write_blob(b, m, size)
  /\ pending' = [pending EXCEPT ![c] = Append(@, b)]
  /\ UNCHANGED <<phase, op, maps, loads>>

\* Mutant: the list of blob ids is not cleared.
CreateFileEntryKeepsList(c, p) ==
  /\ Ready
  /\ ~Contains(file_map, p)
  /\ hza_create_metadata_file_entry(p, pending[c], Idle)
  /\ UNCHANGED <<phase, mstate_aux_map, mstate_inv_aux_map, ids, pending, loads>>

\* create_file_entry, with the ids the session collected.
CreateFileEntry(c, p) ==
  /\ Ready
  /\ ~Contains(file_map, p)
  /\ hza_create_metadata_file_entry(p, pending[c], Idle)
  /\ pending' = [pending EXCEPT ![c] = <<>>]
  /\ UNCHANGED <<phase, mstate_aux_map, mstate_inv_aux_map, ids, loads>>

\* The session ends without an entry: an error, or "file entry cannot be
\* overwritten".  Its blobs stay in the archive and no file owns them.
Abandon(c) ==
  /\ phase = "open"
  /\ pending[c] # <<>>
  /\ pending' = [pending EXCEPT ![c] = <<>>]
  /\ UNCHANGED <<phase, op, file, eof, maps, ids, fragments, loads>>

\* create_file: check, one hza_write_blob per blob, then the entry.
CreateFile(p, n) ==
  /\ Ready
  /\ ~Contains(file_map, p)
  /\ op' = Operation("create", p, n, <<>>, NoId)
  /\ UNCHANGED <<phase, file, eof, maps, ids, fragments, pending, loads>>

CreateFileBlob(b, m, size) ==
  /\ phase = "open" /\ op.kind = "create" /\ op.left > 0
  /\ \/ /\ hza_write_blob(b, m, size)
        /\ op' = [op EXCEPT !.left = @ - 1, !.blobs = Append(@, b)]
     \/ /\ m \notin DOMAIN mstate_map       \* MstateNotFoundException
        /\ op' = Idle
        /\ UNCHANGED <<file, eof, ids, fragments>>
  /\ UNCHANGED <<phase, maps, pending, loads>>

CreateFileFinish ==
  /\ phase = "open" /\ op.kind = "create" /\ op.left = 0
  /\ hza_create_metadata_file_entry(op.path, op.blobs, Idle)
  /\ UNCHANGED <<phase, mstate_aux_map, mstate_inv_aux_map, ids, pending, loads>>

\* Mutant: the entry stays in the file.
RemoveFileKeepsEntry(p) ==
  /\ Ready
  /\ p \in DOMAIN file_map
  /\ op' = Operation("remove", p, 0, file_map[p].blobs, NoId)
  /\ UNCHANGED <<phase, file, eof, maps, ids, fragments, pending, loads>>

\* remove_file of a file: free its entry, then each blob, then the trie entry.
RemoveFile(p) ==
  /\ Ready
  /\ p \in DOMAIN file_map
  /\ LET sof == file_map[p].sof
     IN  /\ disk' = MarkEmpty(disk, sof)
         /\ fragments' = Append(fragments, FragmentAt(sof))
  /\ op' = Operation("remove", p, 0, file_map[p].blobs, NoId)
  /\ UNCHANGED <<phase, endAt, eof, maps, ids, pending, loads>>

RemoveFileBlob ==
  /\ phase = "open" /\ op.kind = "remove" /\ op.blobs # <<>>
  /\ \/ /\ Head(op.blobs) \in DOMAIN blob_map
        /\ hza_rm_blob(Head(op.blobs))
        /\ op' = [op EXCEPT !.blobs = Tail(@)]
     \/ /\ Head(op.blobs) \notin DOMAIN blob_map   \* BlobNotFoundException
        /\ op' = Idle
        /\ UNCHANGED <<disk, ids, fragments>>
  /\ UNCHANGED <<phase, endAt, eof, maps, pending, loads>>

\* Mutant: the mutex is not unlocked.
RemoveFileLocked ==
  /\ phase = "open" /\ op.kind = "remove" /\ op.blobs = <<>>
  /\ file_map' = Drop(file_map, op.path)
  /\ op' = Dead
  /\ UNCHANGED <<phase, file, eof, mstate_aux_map, mstate_inv_aux_map, ids,
                 fragments, pending, loads>>

RemoveFileFinish ==
  /\ phase = "open" /\ op.kind = "remove" /\ op.blobs = <<>>
  /\ file_map' = Drop(file_map, op.path)
  /\ op' = Idle
  /\ UNCHANGED <<phase, file, eof, mstate_aux_map, mstate_inv_aux_map, ids,
                 fragments, pending, loads>>

\* install_mstate(path, mstate): the mstate, then its tag.
InstallMstate(p, m, size) ==
  /\ Ready
  /\ ~Contains(mstate_aux_map, p)
  /\ hza_write_mstate(m, size)
  /\ op' = Operation("install", p, 0, <<>>, m)
  /\ UNCHANGED <<phase, maps, blob_map, dep_counter, pending, loads>>

InstallMstateTag ==
  LET seg == AuxSegment(op.path, op.mstate)
      a   == hza_alloc_fragment(seg.len)
  IN  /\ phase = "open" /\ op.kind = "install"
      /\ \/ /\ ~Blocked(mstate_aux_map, op.path)
            /\ WriteSegment(seg)
            /\ mstate_aux_map' = Put(mstate_aux_map, op.path,
                                     [mstate |-> op.mstate, sof |-> a.sof])
            /\ mstate_inv_aux_map' = mstate_inv_aux_map \cup {op.mstate}
            /\ op' = Idle
         \/ /\ Blocked(mstate_aux_map, op.path)
            /\ Allocated(a)
            /\ disk' = a.disk
            /\ op' = Dead
            /\ UNCHANGED <<mstate_aux_map, mstate_inv_aux_map>>
      /\ UNCHANGED <<phase, file_map, ids, pending, loads>>

\* install_mstate(mstate) and inject_mstate(mstate, blob): an untagged mstate.
InstallUntagged(m, size) ==
  /\ Ready
  /\ hza_write_mstate(m, size)
  /\ UNCHANGED <<phase, op, maps, blob_map, dep_counter, pending, loads>>

\* uninstall_mstate(path); "mstate dependency detected" is not a step.
UninstallTag(p) ==
  /\ Ready
  /\ p \in DOMAIN mstate_aux_map
  /\ LET m   == mstate_aux_map[p].mstate
         sof == mstate_aux_map[p].sof
     IN  /\ ~(m \in DOMAIN mstate_map /\ hza_check_mstate_deps(m))
         /\ disk' = MarkEmpty(RmMstateDisk(disk, m), sof)
         /\ fragments' = Append(RmMstateFragments(fragments, m), FragmentAt(sof))
         /\ mstate_map' = Drop(mstate_map, m)
         /\ mstate_inv_aux_map' = mstate_inv_aux_map \ {m}
  /\ mstate_aux_map' = Drop(mstate_aux_map, p)
  /\ UNCHANGED <<phase, op, endAt, eof, file_map, blob_map, dep_counter, pending, loads>>

\* uninstall_mstate(id): the tag, if there is one, is not looked at.
UninstallId(m) ==
  /\ Ready
  /\ m \in DOMAIN mstate_map
  /\ ~hza_check_mstate_deps(m)
  /\ disk' = RmMstateDisk(disk, m)
  /\ fragments' = RmMstateFragments(fragments, m)
  /\ mstate_map' = Drop(mstate_map, m)
  /\ UNCHANGED <<phase, op, endAt, eof, maps, blob_map, dep_counter, pending, loads>>

\* Trie lookups that throw with the mutex held: get() of a directory
\* (remove_file, read_file, read_file_entry; uninstall_mstate, inject_mstate,
\* read_mstate) and children() of an unknown prefix (list_file_system,
\* list_mstate_system).
LookupThrows(m, p) ==
  /\ Ready
  /\ IsDir(m, p) \/ ~Contains(m, p)
  /\ op' = Dead
  /\ UNCHANGED <<phase, file, eof, maps, ids, fragments, pending, loads>>

\* close
Close ==
  /\ Ready
  /\ endAt' = eof
  /\ phase' = "closed"
  /\ UNCHANGED <<op, disk, eof, maps, ids, fragments, pending, loads>>

-----------------------------------------------------------------------------
(* load: a new HZ_Archive object, whose maps hza_scan fills from the file. *)
(* The dependency counters and mstate_inv_aux_map are not on disk and the  *)
(* scan does not rebuild them.                                             *)
Load ==
  /\ phase = "closed"
  /\ loads < MaxLoads
  /\ phase' = "scanning"
  /\ loads' = loads + 1
  /\ eof' = 0
  /\ file_map' = EmptyMap /\ mstate_aux_map' = EmptyMap /\ mstate_inv_aux_map' = {}
  /\ blob_map' = EmptyMap /\ mstate_map' = EmptyMap /\ dep_counter' = EmptyMap
  /\ fragments' = <<>>
  /\ pending' = [c \in Clients |-> <<>>]
  /\ UNCHANGED <<op, file>>

\* The read position is at a segment of the given kind.
Scanning(kind) ==
  /\ phase = "scanning" /\ op.kind = "none"
  /\ eof # endAt
  /\ eof \in DOMAIN disk
  /\ disk[eof].kind = kind

\* Mutant: the next header is looked for one header early.
AdvanceShort ==
  /\ eof' = eof + disk[eof].len
  /\ UNCHANGED <<phase, file, mstate_inv_aux_map, dep_counter, pending, loads>>

Advance == eof' = EndOf(eof) /\ UNCHANGED <<phase, file, mstate_inv_aux_map, dep_counter, pending, loads>>

ScanVersion ==
  /\ Scanning("VERSION")
  /\ op' = IF disk[eof].version = HZ_ARCHIVE_VERSION THEN op ELSE Dead
  /\ Advance
  /\ UNCHANGED <<file_map, mstate_aux_map, blob_map, mstate_map, fragments>>

ScanFile ==
  /\ Scanning("FILEINFO")
  /\ LET p == disk[eof].path
     IN  IF Blocked(file_map, p) \/ IsDir(file_map, p)
         THEN op' = Dead /\ UNCHANGED file_map
         ELSE /\ file_map' = Put(file_map, p, [blobs |-> disk[eof].blobs, sof |-> eof])
              /\ UNCHANGED op
  /\ Advance
  /\ UNCHANGED <<mstate_aux_map, blob_map, mstate_map, fragments>>

ScanTag ==
  /\ Scanning("MSTATE_AUX")
  /\ LET p == disk[eof].path
     IN  IF Blocked(mstate_aux_map, p) \/ IsDir(mstate_aux_map, p)
         THEN op' = Dead /\ UNCHANGED mstate_aux_map
         ELSE /\ mstate_aux_map' = Put(mstate_aux_map, p, [mstate |-> disk[eof].mstate, sof |-> eof])
              /\ UNCHANGED op
  /\ Advance
  /\ UNCHANGED <<file_map, blob_map, mstate_map, fragments>>

ScanBlob ==
  /\ Scanning("BLOB")
  /\ blob_map' = Put(blob_map, disk[eof].blob, eof)
  /\ Advance
  /\ UNCHANGED <<op, file_map, mstate_aux_map, mstate_map, fragments>>

ScanMstate ==
  /\ Scanning("MSTATE")
  /\ mstate_map' = Put(mstate_map, disk[eof].mstate, eof)
  /\ Advance
  /\ UNCHANGED <<op, file_map, mstate_aux_map, blob_map, fragments>>

ScanFragment ==
  /\ Scanning("EMPTY")
  /\ fragments' = Append(fragments, FragmentAt(eof))
  /\ Advance
  /\ UNCHANGED <<op, file_map, mstate_aux_map, blob_map, mstate_map>>

ScanEnd ==
  /\ phase = "scanning" /\ op.kind = "none"
  /\ eof = endAt
  /\ phase' = "open"
  /\ UNCHANGED <<op, file, eof, maps, ids, fragments, pending, loads>>

Scan == \/ ScanVersion \/ ScanFile \/ ScanTag
        \/ ScanBlob \/ ScanMstate \/ ScanFragment \/ ScanEnd

-----------------------------------------------------------------------------
\* hza_init has written the version segment and END; the file may also come
\* from a build with another version.
Init ==
  /\ phase = "closed" /\ op = Idle
  /\ \E v \in Versions : disk = Put(EmptyMap, 0, VersionSegment(v))
  /\ endAt = HDR + 32 /\ eof = 0
  /\ file_map = EmptyMap /\ mstate_aux_map = EmptyMap /\ mstate_inv_aux_map = {}
  /\ blob_map = EmptyMap /\ mstate_map = EmptyMap /\ dep_counter = EmptyMap
  /\ fragments = <<>>
  /\ pending = [c \in Clients |-> <<>>]
  /\ loads = 0

\* What holds the mutex goes on.
Progress ==
  \/ \E b \in BlobIds, m \in MstateIds, size \in BlobSizes : CreateFileBlob(b, m, size)
  \/ CreateFileFinish \/ RemoveFileBlob \/ RemoveFileFinish \/ InstallMstateTag
  \/ Scan

\* The operations the server's handlers and jobs call.
ServerRequest ==
  \/ \E c \in Clients, b \in BlobIds, m \in MstateIds, size \in BlobSizes : WriteBlob(c, b, m, size)
  \/ \E c \in Clients, p \in FilePaths : CreateFileEntry(c, p)
  \/ \E c \in Clients : Abandon(c)
  \/ \E p \in FilePaths : RemoveFile(p)
  \/ \E p \in TagPaths, m \in MstateIds, size \in MstateSizes : InstallMstate(p, m, size)
  \/ \E m \in MstateIds, size \in MstateSizes : InstallUntagged(m, size)
  \/ \E p \in TagPaths : UninstallTag(p)
  \/ \E p \in FilePaths : LookupThrows(file_map, p)
  \/ \E p \in TagPaths : LookupThrows(mstate_aux_map, p)
  \/ Close \/ Load

\* The rest of HZ_Archive's public operations.
LibraryRequest ==
  \/ \E p \in FilePaths, n \in 0..MaxBlobs : CreateFile(p, n)
  \/ \E m \in MstateIds : UninstallId(m)

ServerNext == ServerRequest \/ Progress

Next == LibraryRequest \/ ServerRequest \/ Progress

Spec == Init /\ [][Next]_vars

ServerSpec == Init /\ [][ServerNext]_vars

\* A thread that holds the mutex keeps running: nothing it does blocks.
FairSpec == ServerSpec /\ WF_vars(Progress)
-----------------------------------------------------------------------------
(* Types *)

\* The operation that holds the mutex.
Operations ==
  [kind: {"none", "dead", "create", "remove", "install"},
   path: FilePaths \cup TagPaths \cup {NoPath}, left: Nat, blobs: Seq(BlobIds),
   mstate: MstateIds \cup {NoId}]

\* The type invariant: the file is a finite map from offsets to well-formed
\* segments and every in-memory table of HZ_ArchiveMetadata holds ids, paths
\* and offsets of the right kind.
TypeOK ==
  /\ phase \in {"closed", "scanning", "open"}
  /\ op \in Operations
  /\ DOMAIN disk \subseteq Nat /\ \A s \in DOMAIN disk : disk[s] \in Segments
  /\ endAt \in Nat \cup {NoEnd} /\ eof \in Nat
  /\ DOMAIN file_map \subseteq FilePaths \cup TagPaths \cup {NoPath}
  /\ \A p \in DOMAIN file_map : file_map[p] \in [blobs: Seq(BlobIds), sof: Nat]
  /\ DOMAIN mstate_aux_map \subseteq FilePaths \cup TagPaths \cup {NoPath}
  /\ \A p \in DOMAIN mstate_aux_map :
       mstate_aux_map[p] \in [mstate: MstateIds \cup {NoId}, sof: Nat]
  /\ mstate_inv_aux_map \subseteq MstateIds \cup {NoId}
  /\ DOMAIN blob_map \subseteq BlobIds \cup {NoId}
  /\ \A b \in DOMAIN blob_map : blob_map[b] \in Nat
  /\ DOMAIN mstate_map \subseteq MstateIds \cup {NoId}
  /\ \A m \in DOMAIN mstate_map : mstate_map[m] \in Nat
  /\ DOMAIN dep_counter \subseteq MstateIds \cup {NoId}
  /\ \A m \in DOMAIN dep_counter : dep_counter[m] \in Nat
  /\ fragments \in Seq(Fragments)
  /\ pending \in [Clients -> Seq(BlobIds)]
  /\ loads \in Nat

-----------------------------------------------------------------------------
(* The file *)
HandleUsable == op.kind # "dead"

OfKind(kind) == {s \in DOMAIN disk : disk[s].kind = kind}

\* Where the archive ends: metadata.eof once loaded, the END marker before.
ArchiveEnd == IF phase = "open" THEN eof ELSE endAt

\* The segments tile the file from 0 to its end without gap or overlap, so
\* that hza_scan, which hops from block length to block length, meets every
\* segment and then the END marker; while scanning, the read position is at a
\* segment or at END.  This is what best-fit splitting, block reuse, appending
\* and close() must keep between them.
Tiling ==
  HandleUsable =>
    /\ ArchiveEnd \in Nat
    /\ 0 \in DOMAIN disk
    /\ \A s \in DOMAIN disk :
         EndOf(s) \in DOMAIN disk \cup {ArchiveEnd} /\ EndOf(s) <= ArchiveEnd
    /\ \A s, t \in DOMAIN disk : s < t => EndOf(s) <= t
    /\ phase = "scanning" => eof \in DOMAIN disk \cup {endAt}
    /\ phase = "open" => endAt \in {eof, NoEnd}

\* The segments the in-memory tables speak of: all once loaded, the ones
\* before the read position during the scan.
Indexed(s) == phase = "open" \/ (phase = "scanning" /\ s < eof)

\* remove_file has freed the entry of p and not yet erased p from file_map.
Removing(p) == op.kind = "remove" /\ op.path = p

FileIndex ==
  /\ \A p \in DOMAIN file_map : Removing(p) \/
       LET s == file_map[p].sof
       IN  /\ s \in OfKind("FILEINFO") /\ Indexed(s)
           /\ disk[s].path = p /\ disk[s].blobs = file_map[p].blobs
  /\ \A s \in OfKind("FILEINFO") : Indexed(s) =>
       disk[s].path \in DOMAIN file_map /\ file_map[disk[s].path].sof = s

TagIndex ==
  /\ \A p \in DOMAIN mstate_aux_map :
       LET s == mstate_aux_map[p].sof
       IN  /\ s \in OfKind("MSTATE_AUX") /\ Indexed(s)
           /\ disk[s].path = p /\ disk[s].mstate = mstate_aux_map[p].mstate
  /\ \A s \in OfKind("MSTATE_AUX") : Indexed(s) =>
       disk[s].path \in DOMAIN mstate_aux_map /\ mstate_aux_map[disk[s].path].sof = s

BlobIndex ==
  /\ \A b \in DOMAIN blob_map :
       blob_map[b] \in OfKind("BLOB") /\ Indexed(blob_map[b]) /\ disk[blob_map[b]].blob = b
  /\ \A s \in OfKind("BLOB") : Indexed(s) =>
       disk[s].blob \in DOMAIN blob_map /\ blob_map[disk[s].blob] = s

MstateIndex ==
  /\ \A m \in DOMAIN mstate_map :
       /\ mstate_map[m] \in OfKind("MSTATE") /\ Indexed(mstate_map[m])
       /\ disk[mstate_map[m]].mstate = m
  /\ \A s \in OfKind("MSTATE") : Indexed(s) =>
       disk[s].mstate \in DOMAIN mstate_map /\ mstate_map[disk[s].mstate] = s

\* No freed block is lost and none is on the free list twice.
FragmentIndex ==
  /\ \A i \in DOMAIN fragments :
       /\ fragments[i].sof \in OfKind("EMPTY") /\ Indexed(fragments[i].sof)
       /\ fragments[i].length = disk[fragments[i].sof].len
  /\ \A i, j \in DOMAIN fragments : fragments[i].sof = fragments[j].sof => i = j
  /\ \A s \in OfKind("EMPTY") : Indexed(s) => \E i \in DOMAIN fragments : fragments[i].sof = s

\* On disk no id is used twice and no path is used twice or lies below another
\* one, so the order of segments cannot matter to the scan, and set() does not
\* throw during it.
UniqueOnDisk ==
  \A s, t \in DOMAIN disk : s # t /\ disk[s].kind = disk[t].kind =>
    /\ disk[s].kind = "BLOB" => disk[s].blob # disk[t].blob
    /\ disk[s].kind = "MSTATE" => disk[s].mstate # disk[t].mstate
    /\ disk[s].kind \in {"FILEINFO", "MSTATE_AUX"} => ~Prefix(disk[s].path, disk[t].path)

\* file_map, mstate_aux_map, blob_map, mstate_map and fragments describe
\* exactly the segments of the file: the maps every operation maintains by hand
\* agree with what the next load() will find, and it finds every path and id
\* once.
IndexMatchesFile ==
  /\ UniqueOnDisk
  /\ HandleUsable /\ phase # "closed" =>
       FileIndex /\ TagIndex /\ BlobIndex /\ MstateIndex /\ FragmentIndex

-----------------------------------------------------------------------------
(* References *)

\* Lists of blob ids: of a file entry, of a session, of the running operation.
BlobLists == {<<"entry", s>> : s \in OfKind("FILEINFO")}
             \cup {<<"session", c>> : c \in Clients} \cup {<<"op", 0>>}

BlobsIn(l) == CASE l[1] = "entry"   -> disk[l[2]].blobs
                [] l[1] = "session" -> pending[l[2]]
                [] l[1] = "op"      -> op.blobs

\* Every blob id of a file entry names a blob of the file, and no blob belongs
\* to two files, two sessions or a file and a session: otherwise remove_file
\* would throw between freeing the entry and erasing it, or free the other
\* file's data.
BlobsOwnedOnce ==
  /\ \A l \in BlobLists : \A i \in DOMAIN BlobsIn(l) :
       \E t \in OfKind("BLOB") : disk[t].blob = BlobsIn(l)[i]
  /\ \A k, l \in BlobLists : \A i \in DOMAIN BlobsIn(k), j \in DOMAIN BlobsIn(l) :
       BlobsIn(k)[i] = BlobsIn(l)[j] => k = l /\ i = j

\* The archive has been loaded once, when it held the version segment only.
FirstLoad == loads <= 1

\* Every blob can be decoded: the mstate it names is in the archive.
BlobsResolve == \A s \in OfKind("BLOB") : \E t \in OfKind("MSTATE") : disk[t].mstate = disk[s].mstate

\* Every tag names an mstate of the archive.
TagsResolve == \A s \in OfKind("MSTATE_AUX") : \E t \in OfKind("MSTATE") : disk[t].mstate = disk[s].mstate

Users(m) == {s \in OfKind("BLOB") : disk[s].mstate = m}

\* While a fresh archive stays open, dep_counter counts the blobs of each
\* mstate exactly, mstate_inv_aux_map is the set of tagged mstates, and so every
\* blob can be decoded whatever is removed and uninstalled in between.
DependenciesCounted ==
  FirstLoad =>
    /\ BlobsResolve
    /\ HandleUsable => \A m \in MstateIds :
         /\ m \in DOMAIN dep_counter <=> Users(m) # {}
         /\ m \in DOMAIN dep_counter => dep_counter[m] = Cardinality(Users(m))

\* While a fresh archive stays open and mstates are uninstalled by tag only, a
\* tag never dangles and remains marked as such.
TagsKept ==
  FirstLoad /\ HandleUsable =>
    /\ TagsResolve
    /\ \A p \in DOMAIN mstate_aux_map : mstate_aux_map[p].mstate \in mstate_inv_aux_map

-----------------------------------------------------------------------------
(* What a step may never do, and what must happen *)

\* The payload of a segment that is in use is never overwritten: a step leaves
\* it as it is or frees it, keeping its block length.
LiveDataStable ==
  [][\A s \in DOMAIN disk : disk[s].kind # "EMPTY" =>
       s \in DOMAIN disk' /\ disk'[s] \in {disk[s], [disk[s] EXCEPT !.kind = "EMPTY"]}]_vars

\* A blob of a file entry is freed only by the removal of that entry.
BlobsOutliveFiles ==
  [][\A l \in BlobLists : l[1] = "entry" => \A i \in DOMAIN BlobsIn(l) :
       \A t \in OfKind("BLOB") : disk[t].blob = BlobsIn(l)[i] => disk'[t] = disk[t]]_vars

\* load() ends: the scan reaches END, or throws.
LoadEnds == phase = "scanning" ~> phase = "open" \/ ~HandleUsable

\* remove_file ends and releases the mutex.
RemoveEnds == op.kind = "remove" ~> op.kind = "none"
=============================================================================
