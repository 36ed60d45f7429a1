------------------------------- MODULE Pipeline -------------------------------
(***************************************************************************)
(* What the server's requests do to an archive they share: the encode,     *)
(* decode and train streams of handlers/streamer.cpp with the jobs of      *)
(* hzip_codec/processor/processor.cpp, the deletions of handlers/query.cpp *)
(* and write_mstate.  A request is a sequence of archive calls; each call  *)
(* is atomic (HZ_Archive's mutex) and other sessions run in between.       *)
(*                                                                         *)
(* The archive is the store that Archive implements on its first load,     *)
(* with the contents of blobs and mstates added.  Bytes are abstract: a    *)
(* chunk is a value, some chunks do not shrink, a model is the set of      *)
(* chunks it was trained on, and a payload is raw or packed with a model.  *)
(***************************************************************************)
EXTENDS Naturals, Sequences, FiniteSets, PathMap

CONSTANTS
  Clients,
  Files,          \* destinations, none below another
  Tags,           \* mstate addresses, none below another
  Chunks,         \* pieces of data as the streamer cuts them
  Incompressible, \* chunks that Victini does not make smaller
  EncodeTags,     \* addresses encode requests use: tags or NoTag
  Streams,        \* bound: what a client sends in one stream, chunk by chunk
  MaxIds,         \* bound: blobs and mstates ever written
  MaxRequests,    \* bound: requests of one client
  NoTag, NoId

ASSUME PipelineAssumption ==
  /\ Incompressible \subseteq Chunks
  /\ EncodeTags \subseteq Tags \cup {NoTag} /\ NoTag \notin Tags
  /\ Streams \subseteq Seq(Chunks) /\ MaxIds \in Nat /\ MaxRequests \in Nat
  /\ NoId \notin Nat

VARIABLES
  files,    \* path -> [ids, sent, tag]: the entry, what its author streamed and how
  tags,     \* tag -> mstate id
  mstates,  \* mstate id -> mstate
  blobs,    \* blob id -> [mstate, payload, chunk, tag]: chunk and tag are the author's
  lastId,   \* 64-bit random ids do not repeat: count them
  req,      \* the request each session is serving
  requests  \* requests served so far

archive == <<files, tags, mstates, blobs>>
vars == <<files, tags, mstates, blobs, lastId, req, requests>>

-----------------------------------------------------------------------------
(* mstates and codecs *)
Mstate(alg, model) == [alg |-> alg, model |-> model]

\* HZ_MState(): algorithm UNCOMPRESSED, no data.
EmptyMstate == Mstate("UNCOMPRESSED", {})

Raw(d) == [form |-> "raw", data |-> d, model |-> {}]

Packed(d, model) == [form |-> "packed", data |-> d, model |-> model]

\* Victini::compress: an empty mstate is filled from the data.
VictiniMstate(d, ms) == IF ms = EmptyMstate THEN Mstate("VICTINI", {d}) ELSE Mstate("VICTINI", ms.model)

\* HZ_Blob::evaluate: if the data did not shrink, keep it raw and replace the
\* mstate by an empty one.
Evaluated(d, ms) ==
  IF d \in Incompressible THEN [payload |-> Raw(d), mstate |-> EmptyMstate]
  ELSE [payload |-> Packed(d, ms.model), mstate |-> ms]

Compressed(d, ms) == Evaluated(d, VictiniMstate(d, ms))

\* Victini::train on top of the mstate injected.
Trained(d, ms) == Mstate("VICTINI", ms.model \cup {d})

Garbage == "garbage"

\* decompress with the codec of the mstate's algorithm.
Decoded(payload, ms) ==
  IF \/ ms.alg = "UNCOMPRESSED" /\ payload.form = "raw"
     \/ ms.alg = "VICTINI" /\ payload.form = "packed" /\ payload.model = ms.model
  THEN payload.data ELSE Garbage

-----------------------------------------------------------------------------
(* The archive's operations *)
Users(m) == {b \in DOMAIN blobs : blobs[b].mstate = m}

\* Mutant: no check of dependencies.
CanAlwaysUninstall(t) == t \in DOMAIN tags

\* uninstall_mstate(tag) does not throw.
CanUninstall(t) == t \in DOMAIN tags /\ Users(tags[t]) = {}

\* Mutant: the tag is left.
UninstallKeepsTag(t) ==
  /\ mstates' = Drop(mstates, tags[t])
  /\ UNCHANGED tags

UninstallMstate(t) ==
  /\ tags' = Drop(tags, t)
  /\ mstates' = Drop(mstates, tags[t])

\* install_mstate(tag, ms)
InstallMstate(t, ms) ==
  /\ lastId < MaxIds
  /\ lastId' = lastId + 1
  /\ tags' = Put(tags, t, lastId')
  /\ mstates' = Put(mstates, lastId', ms)

Restricted(f, S) == [x \in S |-> f[x]]

\* remove_file: the blobs go, and the untagged mstates nobody needs any more.
RemoveFile(p) ==
  LET gone  == {files[p].ids[i] : i \in DOMAIN files[p].ids}
      left  == DOMAIN blobs \ gone
      freed == {blobs[b].mstate : b \in gone} \ ({blobs[b].mstate : b \in left} \cup {tags[t] : t \in DOMAIN tags})
  IN  /\ files' = Drop(files, p)
      /\ blobs' = Restricted(blobs, left)
      /\ mstates' = Restricted(mstates, DOMAIN mstates \ freed)

-----------------------------------------------------------------------------
(* Requests *)
Request(kind, at, p, t, todo) ==
  [kind |-> kind, at |-> at, path |-> p, tag |-> t, todo |-> todo, sent |-> todo,
   ids |-> <<>>, out |-> <<>>, mid |-> NoId, mstate |-> EmptyMstate, payload |-> Raw(NoId),
   result |-> "none"]

NoRequest == Request("none", "idle", NoId, NoTag, <<>>)

At(c, kind, where) == req[c].kind = kind /\ req[c].at = where

Idle(c) == req[c].at = "idle" /\ requests[c] < MaxRequests

Begin(c, r) ==
  /\ req' = [req EXCEPT ![c] = r]
  /\ requests' = [requests EXCEPT ![c] = @ + 1]

\* The answer; what a decode stream sent stays to be looked at.
Done(c, result) ==
  req' = [req EXCEPT ![c] = IF @.kind = "decode"
                            THEN [@ EXCEPT !.at = "idle", !.todo = <<>>, !.result = result]
                            ELSE [NoRequest EXCEPT !.kind = req[c].kind, !.result = result]]

\* A job's on_error tells the client; the streamer goes on with the next chunk.
JobFails(c, next) == req' = [req EXCEPT ![c].at = next, ![c].todo = Tail(@), ![c].mid = NoId]

-----------------------------------------------------------------------------
(* encode *)
EncodeStart(c, p, t, chunks) ==
  /\ Idle(c)
  /\ p \notin DOMAIN files                           \* "File already exists"
  /\ Begin(c, Request("encode", "inject", p, t, chunks))
  /\ UNCHANGED <<archive, lastId>>

\* hzp_encode: inject_mstate by address, or the empty mstate.
EncodeInject(c) ==
  /\ At(c, "encode", "inject") /\ req[c].todo # <<>>
  /\ IF req[c].tag = NoTag
     THEN req' = [req EXCEPT ![c].at = "compress", ![c].mstate = EmptyMstate, ![c].mid = NoId]
     ELSE IF req[c].tag \in DOMAIN tags
     THEN req' = [req EXCEPT ![c].at = "compress", ![c].mid = tags[req[c].tag],
                             ![c].mstate = mstates[tags[req[c].tag]]]
     ELSE JobFails(c, "inject")                      \* MstateNotFoundException
  /\ UNCHANGED <<archive, lastId, requests>>

\* compress, evaluate, and without an address inject_mstate(mstate, blob).
EncodeCompress(c) ==
  /\ At(c, "encode", "compress")
  /\ LET r   == req[c]
         out == Compressed(Head(r.todo), r.mstate)
     IN  IF r.tag = NoTag
         THEN /\ lastId < MaxIds
              /\ lastId' = lastId + 1
              /\ mstates' = Put(mstates, lastId', out.mstate)
              /\ req' = [req EXCEPT ![c].at = "write", ![c].payload = out.payload, ![c].mid = lastId']
         ELSE /\ req' = [req EXCEPT ![c].at = "write", ![c].payload = out.payload]
              /\ UNCHANGED <<mstates, lastId>>
  /\ UNCHANGED <<files, tags, blobs, requests>>

\* Mutant: the newest id comes first.
EncodeWritePrepends(c) ==
  /\ At(c, "encode", "write")
  /\ LET r == req[c]
     IN  IF r.mid \in DOMAIN mstates
         THEN /\ lastId < MaxIds
              /\ lastId' = lastId + 1
              /\ blobs' = Put(blobs, lastId',
                              [mstate |-> r.mid, payload |-> r.payload, chunk |-> Head(r.todo), tag |-> r.tag])
              /\ req' = [req EXCEPT ![c].at = "inject", ![c].ids = <<lastId'>> \o @,
                                    ![c].todo = Tail(@), ![c].mid = NoId]
         ELSE JobFails(c, "inject") /\ UNCHANGED <<blobs, lastId>>
  /\ UNCHANGED <<files, tags, mstates, requests>>

\* write_blob under the mstate id, and the id callback.
EncodeWrite(c) ==
  /\ At(c, "encode", "write")
  /\ LET r == req[c]
     IN  IF r.mid \in DOMAIN mstates
         THEN /\ lastId < MaxIds
              /\ lastId' = lastId + 1
              /\ blobs' = Put(blobs, lastId',
                              [mstate |-> r.mid, payload |-> r.payload, chunk |-> Head(r.todo), tag |-> r.tag])
              /\ req' = [req EXCEPT ![c].at = "inject", ![c].ids = Append(@, lastId'),
                                    ![c].todo = Tail(@), ![c].mid = NoId]
         ELSE JobFails(c, "inject") /\ UNCHANGED <<blobs, lastId>>
  /\ UNCHANGED <<files, tags, mstates, requests>>

\* create_file_entry with the ids collected.
EncodeFinish(c) ==
  /\ At(c, "encode", "inject") /\ req[c].todo = <<>>
  /\ IF req[c].path \in DOMAIN files
     THEN Done(c, "error") /\ UNCHANGED files        \* "file entry cannot be overwritten"
     ELSE /\ files' = Put(files, req[c].path, [ids |-> req[c].ids, sent |-> req[c].sent, tag |-> req[c].tag])
          /\ Done(c, "success")
  /\ UNCHANGED <<tags, mstates, blobs, lastId, requests>>

-----------------------------------------------------------------------------
(* decode: the entry, then blob after blob. *)
DecodeStart(c, p) ==
  /\ Idle(c)
  /\ p \in DOMAIN files
  /\ LET bs == files[p].ids
     IN  Begin(c, [Request("decode", "read", p, files[p].tag, bs)
                     EXCEPT !.sent = [i \in DOMAIN bs |-> blobs[bs[i]].chunk]])
  /\ UNCHANGED <<archive, lastId>>

\* Mutant: a blob that is gone is skipped.
DecodeSkipsMissing(c) ==
  /\ At(c, "decode", "read") /\ req[c].todo # <<>>
  /\ LET b == Head(req[c].todo)
     IN  IF b \in DOMAIN blobs
         THEN req' = [req EXCEPT ![c].todo = Tail(@),
                        ![c].out = Append(@, Decoded(blobs[b].payload, mstates[blobs[b].mstate]))]
         ELSE req' = [req EXCEPT ![c].todo = Tail(@)]
  /\ UNCHANGED <<archive, lastId, requests>>

\* read_blob, with its mstate, and hzp_decode.
DecodeBlob(c) ==
  /\ At(c, "decode", "read") /\ req[c].todo # <<>>
  /\ LET b == Head(req[c].todo)
     IN  IF b \in DOMAIN blobs
         THEN req' = [req EXCEPT ![c].todo = Tail(@),
                        ![c].out = Append(@, Decoded(blobs[b].payload, mstates[blobs[b].mstate]))]
         ELSE Done(c, "error")                       \* BlobNotFoundException
  /\ UNCHANGED <<archive, lastId, requests>>

DecodeFinish(c) ==
  /\ At(c, "decode", "read") /\ req[c].todo = <<>>
  /\ Done(c, "success")
  /\ UNCHANGED <<archive, lastId, requests>>

-----------------------------------------------------------------------------
(* train: hzp_train makes three or four separate archive calls per chunk. *)
TrainStart(c, t, chunks) ==
  /\ Idle(c)
  /\ Begin(c, Request("train", "check", NoId, t, chunks))
  /\ UNCHANGED <<archive, lastId>>

TrainCheck(c) ==
  /\ At(c, "train", "check") /\ req[c].todo # <<>>
  /\ req' = [req EXCEPT ![c].at = IF req[c].tag \in DOMAIN tags THEN "inject" ELSE "install",
                        ![c].mstate = EmptyMstate]
  /\ UNCHANGED <<archive, lastId, requests>>

TrainInject(c) ==
  /\ At(c, "train", "inject")
  /\ IF req[c].tag \in DOMAIN tags
     THEN req' = [req EXCEPT ![c].at = "uninstall", ![c].mid = tags[req[c].tag],
                             ![c].mstate = mstates[tags[req[c].tag]]]
     ELSE JobFails(c, "check")
  /\ UNCHANGED <<archive, lastId, requests>>

TrainUninstall(c) ==
  /\ At(c, "train", "uninstall")
  /\ IF CanUninstall(req[c].tag)
     THEN /\ UninstallMstate(req[c].tag)
          /\ req' = [req EXCEPT ![c].at = "install"]
     ELSE JobFails(c, "check") /\ UNCHANGED <<tags, mstates>>
  /\ UNCHANGED <<files, blobs, lastId, requests>>

\* Mutant: the trained mstate is not installed.
TrainForgetsInstall(c) ==
  /\ At(c, "train", "install")
  /\ req' = [req EXCEPT ![c].at = "check", ![c].todo = Tail(@)]
  /\ UNCHANGED <<archive, lastId, requests>>

\* train and install_mstate.
TrainInstall(c) ==
  /\ At(c, "train", "install")
  /\ IF req[c].tag \notin DOMAIN tags
     THEN /\ InstallMstate(req[c].tag, Trained(Head(req[c].todo), req[c].mstate))
          /\ req' = [req EXCEPT ![c].at = "check", ![c].todo = Tail(@)]
     ELSE JobFails(c, "check") /\ UNCHANGED <<tags, mstates, lastId>>
  /\ UNCHANGED <<files, blobs, requests>>

TrainFinish(c) ==
  /\ At(c, "train", "check") /\ req[c].todo = <<>>
  /\ Done(c, "success")
  /\ UNCHANGED <<archive, lastId, requests>>

-----------------------------------------------------------------------------
(* Requests of one archive call *)
DeleteFile(c, p) ==
  /\ Idle(c) /\ p \in DOMAIN files
  /\ RemoveFile(p)
  /\ Begin(c, [NoRequest EXCEPT !.kind = "delete"])
  /\ UNCHANGED <<tags, lastId>>

DeleteMstate(c, t) ==
  /\ Idle(c) /\ CanUninstall(t)
  /\ UninstallMstate(t)
  /\ Begin(c, [NoRequest EXCEPT !.kind = "delete"])
  /\ UNCHANGED <<files, blobs, lastId>>

WriteMstate(c, t) ==
  /\ Idle(c) /\ t \notin DOMAIN tags
  /\ InstallMstate(t, Mstate("VICTINI", {c}))
  /\ Begin(c, [NoRequest EXCEPT !.kind = "write"])
  /\ UNCHANGED <<files, blobs>>

-----------------------------------------------------------------------------
Init ==
  /\ files = EmptyMap /\ tags = EmptyMap /\ mstates = EmptyMap /\ blobs = EmptyMap
  /\ lastId = 0
  /\ req = [c \in Clients |-> NoRequest]
  /\ requests = [c \in Clients |-> 0]

Continue(c) ==
  \/ EncodeInject(c) \/ EncodeCompress(c) \/ EncodeWrite(c) \/ EncodeFinish(c)
  \/ DecodeBlob(c) \/ DecodeFinish(c)
  \/ TrainCheck(c) \/ TrainInject(c) \/ TrainUninstall(c) \/ TrainInstall(c) \/ TrainFinish(c)

NewRequest(c) ==
  \/ \E p \in Files, t \in EncodeTags, chunks \in Streams : EncodeStart(c, p, t, chunks)
  \/ \E p \in Files : DecodeStart(c, p)
  \/ \E t \in Tags, chunks \in Streams : TrainStart(c, t, chunks)
  \/ \E p \in Files : DeleteFile(c, p)
  \/ \E t \in Tags : DeleteMstate(c, t) \/ WriteMstate(c, t)

Next == \E c \in Clients : Continue(c) \/ NewRequest(c)

Spec == Init /\ [][Next]_vars

\* A session's threads keep running.
FairSpec == Spec /\ \A c \in Clients : WF_vars(Continue(c))
-----------------------------------------------------------------------------
\* The type invariant: ids are handed out in order and the tables refer to
\* ids handed out.
TypeOK ==
  /\ DOMAIN files \subseteq Files
  /\ \A p \in DOMAIN files : /\ files[p].sent \in Seq(Chunks)
                             /\ \A i \in DOMAIN files[p].ids : files[p].ids[i] \in 1..lastId
  /\ DOMAIN tags \subseteq Tags /\ \A t \in DOMAIN tags : tags[t] \in DOMAIN mstates
  /\ DOMAIN mstates \subseteq 1..lastId /\ DOMAIN blobs \subseteq 1..lastId
  /\ \A m \in DOMAIN mstates : mstates[m].alg \in {"UNCOMPRESSED", "VICTINI"}
  /\ \A c \in Clients : req[c].result \in {"none", "success", "error"}

\* A chunk that does not shrink, encoded under a tag: EncodeCompress keeps it
\* raw, but the blob names the tag's mstate.
RawUnderTag(chunk, tag) == chunk \in Incompressible /\ tag # NoTag

Decodes(b) ==
  /\ blobs[b].mstate \in DOMAIN mstates
  /\ Decoded(blobs[b].payload, mstates[blobs[b].mstate]) = blobs[b].chunk

\* What was stored can be had back: the mstate a blob names is in the archive
\* and decodes the payload to the chunk that was encoded, however the encoding
\* interleaves with training, uninstalling and removing by other sessions; all
\* but the chunks stored raw under a tag.
StoredBlobsDecode ==
  \A b \in DOMAIN blobs : RawUnderTag(blobs[b].chunk, blobs[b].tag) \/ Decodes(b)

\* The same without the exception.
EveryBlobDecodes == \A b \in DOMAIN blobs : Decodes(b)

\* s is what is left of t when some elements are taken out.
Among(s, t) ==
  \E pick \in [DOMAIN s -> DOMAIN t] :
    /\ \A i, j \in DOMAIN s : i < j => pick[i] < pick[j]
    /\ \A i \in DOMAIN s : s[i] = t[pick[i]]

\* "Operation completed successfully" after an encode stream without a tag means
\* that the file holds all of it; under a tag every chunk the file does hold is
\* one that was sent, in the order sent (a job fails while its tag is missing).
FilesComplete ==
  \A p \in DOMAIN files :
    LET held == [i \in DOMAIN files[p].ids |-> blobs[files[p].ids[i]].chunk]
    IN  /\ \A i \in DOMAIN files[p].ids : files[p].ids[i] \in DOMAIN blobs
        /\ IF files[p].tag = NoTag THEN held = files[p].sent ELSE Among(held, files[p].sent)

\* A decode stream that succeeds sent exactly the chunks that were encoded into
\* the file it started on, even if the file was removed or replaced meanwhile;
\* all but the chunks stored raw under a tag.
DecodeReturnsFile ==
  \A c \in Clients : req[c].kind = "decode" /\ req[c].result = "success" =>
    /\ Len(req[c].out) = Len(req[c].sent)
    /\ \A i \in DOMAIN req[c].out :
         RawUnderTag(req[c].sent[i], req[c].tag) \/ req[c].out[i] = req[c].sent[i]

\* A tag taken out by training is there again afterwards.
TagReturns ==
  \A c \in Clients, t \in Tags :
    At(c, "train", "install") /\ req[c].tag = t ~> t \in DOMAIN tags
=============================================================================
