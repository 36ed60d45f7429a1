-------------------------- MODULE ArchiveRefinement --------------------------
(***************************************************************************)
(* HZ_Archive implements ArchiveStore.  The store is read off the file, so *)
(* the mapping is the same whether the archive is open, closed or loading. *)
(***************************************************************************)
EXTENDS Archive

\* The segment of kind with value v in the given field.
SegmentWith(kind, field, v) == CHOOSE s \in OfKind(kind) : disk[s][field] = v

FilesOnDisk ==
  [p \in {disk[s].path : s \in OfKind("FILEINFO")} |-> disk[SegmentWith("FILEINFO", "path", p)].blobs]

TagsOnDisk ==
  [p \in {disk[s].path : s \in OfKind("MSTATE_AUX")} |-> disk[SegmentWith("MSTATE_AUX", "path", p)].mstate]

BlobsOnDisk ==
  [b \in {disk[s].blob : s \in OfKind("BLOB")} |-> disk[SegmentWith("BLOB", "blob", b)].mstate]

MstatesOnDisk == {disk[s].mstate : s \in OfKind("MSTATE")}

Store == INSTANCE ArchiveStore WITH
  files <- FilesOnDisk, tags <- TagsOnDisk, blobs <- BlobsOnDisk, mstates <- MstatesOnDisk

\* A fresh archive, used through the server's operations until it is closed,
\* behaves as the store: files own their blobs, an mstate stays as long as a
\* blob or a tag needs it and an untagged one goes with its last blob.
ImplementsStore == Store!Spec

\* Across closing and loading again everything but the mstates' lifetime still
\* behaves as the store, and close() and load() change nothing a caller stored.
ImplementsStoreAcrossLoads == Store!UncountedSpec
=============================================================================
