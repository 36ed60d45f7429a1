----------------------------- MODULE ArchiveStore -----------------------------
(***************************************************************************)
(* What an archive promises its callers, without offsets, fragments, maps  *)
(* or a file: blobs that name the mstate they were encoded with, mstates   *)
(* under tags, files that own blobs.  Closing and loading the archive is   *)
(* not a step: it changes none of this.                                    *)
(***************************************************************************)
EXTENDS PathMap

CONSTANTS BlobIds, MstateIds, FilePaths, TagPaths,
          MaxBlobs    \* bound: blobs of one file

VARIABLES
  files,     \* path -> sequence of blob ids
  tags,      \* path -> mstate id
  blobs,     \* blob id -> mstate id
  mstates    \* set of mstate ids

storeVars == <<files, tags, blobs, mstates>>

Owned == {b \in DOMAIN blobs : \E p \in DOMAIN files : \E i \in DOMAIN files[p] : files[p][i] = b}

Tagged == {tags[p] : p \in DOMAIN tags}

Init == files = EmptyMap /\ tags = EmptyMap /\ blobs = EmptyMap /\ mstates = {}

\* A blob is stored only with an mstate the archive has.
AddBlob(b, m) ==
  /\ b \notin DOMAIN blobs /\ m \in mstates
  /\ blobs' = Put(blobs, b, m)
  /\ UNCHANGED <<files, tags, mstates>>

\* A file entry gets stored blobs, each once, that no other file owns, at a path
\* that neither exists nor lies below a file.
AddFile(p, bs) ==
  /\ ~Contains(files, p) /\ ~Blocked(files, p)
  /\ \A i \in DOMAIN bs : bs[i] \in DOMAIN blobs \ Owned
  /\ \A i, j \in DOMAIN bs : bs[i] = bs[j] => i = j
  /\ files' = Put(files, p, bs)
  /\ UNCHANGED <<tags, blobs, mstates>>

DropFile(p) ==
  /\ p \in DOMAIN files
  /\ files' = Drop(files, p)
  /\ UNCHANGED <<tags, blobs, mstates>>

\* A blob no file owns goes; its mstate goes with it exactly when it was
\* untagged and this was its last blob.
DropBlob(b) ==
  LET m    == blobs[b]
      last == \A c \in DOMAIN blobs \ {b} : blobs[c] # m
  IN  /\ b \in DOMAIN blobs \ Owned
      /\ blobs' = Drop(blobs, b)
      /\ mstates' = IF last /\ m \notin Tagged THEN mstates \ {m} ELSE mstates
      /\ UNCHANGED <<files, tags>>

AddMstate(m) ==
  /\ m \notin mstates
  /\ mstates' = mstates \cup {m}
  /\ UNCHANGED <<files, tags, blobs>>

TagUncounted(p, m) ==
  /\ ~Contains(tags, p) /\ ~Blocked(tags, p)
  /\ m \in mstates
  /\ tags' = Put(tags, p, m)
  /\ UNCHANGED <<files, blobs, mstates>>

\* An mstate gets one tag.
Tag(p, m) == m \notin Tagged /\ TagUncounted(p, m)

\* An mstate is uninstalled, with its tag, when no blob needs it.
Untag(p) ==
  /\ p \in DOMAIN tags
  /\ \A b \in DOMAIN blobs : blobs[b] # tags[p]
  /\ tags' = Drop(tags, p)
  /\ mstates' = mstates \ {tags[p]}
  /\ UNCHANGED <<files, blobs>>

\* The mstate operations after the archive was loaded a second time keep less:
\* the counters start from nothing, so an mstate may go while blobs or tags
\* still name it, and a new mstate may get the id such a tag still has.
DropBlobUncounted(b) ==
  /\ b \in DOMAIN blobs \ Owned
  /\ blobs' = Drop(blobs, b)
  /\ mstates' \in {mstates, mstates \ {blobs[b]}}
  /\ UNCHANGED <<files, tags>>

UntagUncounted(p) ==
  /\ p \in DOMAIN tags
  /\ tags' = Drop(tags, p)
  /\ mstates' = mstates \ {tags[p]}
  /\ UNCHANGED <<files, blobs>>

Add ==
  \/ \E b \in BlobIds, m \in MstateIds : AddBlob(b, m)
  \/ \E p \in FilePaths, n \in 0..MaxBlobs : \E bs \in [1..n -> BlobIds] : AddFile(p, bs)
  \/ \E p \in FilePaths : DropFile(p)
  \/ \E m \in MstateIds : AddMstate(m)

Next ==
  \/ Add
  \/ \E b \in BlobIds : DropBlob(b)
  \/ \E p \in TagPaths, m \in MstateIds : Tag(p, m)
  \/ \E p \in TagPaths : Untag(p)

UncountedNext ==
  \/ Add
  \/ \E b \in BlobIds : DropBlobUncounted(b)
  \/ \E p \in TagPaths, m \in MstateIds : TagUncounted(p, m)
  \/ \E p \in TagPaths : UntagUncounted(p)

Spec == Init /\ [][Next]_storeVars

UncountedSpec == Init /\ [][UncountedNext]_storeVars
=============================================================================
