---------------------------- MODULE PipelineProofs ----------------------------
(***************************************************************************)
(* The pipeline, for any sessions, files, tags, chunks and streams: every  *)
(* blob can be decoded to the chunk it was made of, a file holds what was  *)
(* sent, and a decode stream returns it, whatever the other sessions       *)
(* train, uninstall and delete meanwhile.                                  *)
(***************************************************************************)
EXTENDS Pipeline, SequenceTheorems, TLAPS

(* Types *)
Data == Chunks \cup {NoId, Garbage}
Mstates == [alg : {"UNCOMPRESSED", "VICTINI"}, model : SUBSET (Chunks \cup Clients)]
Payloads == [form : {"raw", "packed"}, data : Data, model : SUBSET (Chunks \cup Clients)]
Marks == Tags \cup {NoTag}
Blobs == [mstate : Nat, payload : Payloads, chunk : Chunks, tag : Marks]
Entries == [ids : Seq(Nat), sent : Seq(Chunks), tag : Marks]
Kinds == {"none", "encode", "decode", "train", "delete", "write"}

Requests ==
  [kind : Kinds,
   at : {"idle", "inject", "compress", "write", "read", "check", "uninstall", "install"},
   path : Files \cup {NoId}, tag : Marks, todo : Seq(Chunks \cup Nat), sent : Seq(Chunks),
   ids : Seq(Nat), out : Seq(Data), mid : Nat \cup {NoId}, mstate : Mstates, payload : Payloads,
   result : {"none", "success", "error"}]

ArchiveTyped ==
  /\ lastId \in Nat
  /\ DOMAIN files \subseteq Files /\ files \in [DOMAIN files -> Entries]
  /\ DOMAIN tags \subseteq Tags /\ tags \in [DOMAIN tags -> Nat]
  /\ mstates \in [DOMAIN mstates -> Mstates]
  /\ blobs \in [DOMAIN blobs -> Blobs]

Typed == ArchiveTyped /\ req \in [Clients -> Requests] /\ requests \in [Clients -> Nat]

\* Ids are handed out in order; tags name different mstates, trained ones; a blob's
\* mstate is there and decodes it.
Tables ==
  /\ DOMAIN mstates \subseteq 1..lastId /\ DOMAIN blobs \subseteq 1..lastId
  /\ \A t \in DOMAIN tags : tags[t] \in DOMAIN mstates /\ mstates[tags[t]].alg = "VICTINI"
  /\ \A t, u \in DOMAIN tags : tags[t] = tags[u] => t = u
  /\ \A b \in DOMAIN blobs :
       /\ blobs[b].mstate \in DOMAIN mstates
       /\ RawUnderTag(blobs[b].chunk, blobs[b].tag) \/ Decodes(b)

\* The chunks of the blobs ids are the first k of sent, or under a tag some of
\* them in their order.
Holds(ids, sent, k, tag) ==
  /\ \A i \in 1..Len(ids) : ids[i] \in DOMAIN blobs /\ blobs[ids[i]].tag = tag
  /\ IF tag = NoTag THEN Len(ids) = k /\ \A i \in 1..k : blobs[ids[i]].chunk = sent[i]
     ELSE \E pick \in [1..Len(ids) -> 1..k] :
            /\ \A i, j \in 1..Len(ids) : i < j => pick[i] < pick[j]
            /\ \A i \in 1..Len(ids) : blobs[ids[i]].chunk = sent[pick[i]]

FilesHold ==
  \A p \in DOMAIN files : Holds(files[p].ids, files[p].sent, Len(files[p].sent), files[p].tag)

Apart(s, t) == \A i \in 1..Len(s), j \in 1..Len(t) : s[i] # t[j]

\* A blob is of one file or of one session.
BlobsApart ==
  /\ \A p, q \in DOMAIN files : p # q => Apart(files[p].ids, files[q].ids)
  /\ \A c \in Clients, p \in DOMAIN files : Apart(req[c].ids, files[p].ids)
  /\ \A c, e \in Clients : c # e => Apart(req[c].ids, req[e].ids)

Encodes(r) == r.kind = "encode" /\ r.at # "idle"

\* What is left to do is the rest of what was sent, the blobs hold the other part.
EncodeHolds(r) ==
  /\ r.path \in Files /\ r.todo \in Seq(Chunks) /\ Len(r.todo) <= Len(r.sent)
  /\ \A i \in 1..Len(r.todo) : r.todo[i] = r.sent[Len(r.sent) - Len(r.todo) + i]
  /\ Holds(r.ids, r.sent, Len(r.sent) - Len(r.todo), r.tag)

\* The mstate injected is the one the tag named, as long as it is there.
EncodeInjected(r) ==
  r.at = "compress" =>
    /\ r.todo # <<>>
    /\ IF r.tag = NoTag THEN r.mstate = EmptyMstate
       ELSE /\ r.mstate.alg = "VICTINI" /\ r.mid # NoId
            /\ r.mid \in DOMAIN mstates => mstates[r.mid] = r.mstate

\* The payload decodes with the mstate it will be written under.
EncodePacked(r) ==
  r.at = "write" =>
    /\ r.todo # <<>> /\ r.mid # NoId
    /\ r.mid \in DOMAIN mstates => \/ RawUnderTag(Head(r.todo), r.tag)
                                   \/ Decoded(r.payload, mstates[r.mid]) = Head(r.todo)

\* An mstate written for one blob is nobody else's.
HasMstate(r) == r.kind = "encode" /\ r.at = "write" /\ r.tag = NoTag

Encoded(c) ==
  HasMstate(req[c]) =>
    /\ req[c].mid \in DOMAIN mstates
    /\ \A t \in DOMAIN tags : tags[t] # req[c].mid
    /\ \A b \in DOMAIN blobs : blobs[b].mstate # req[c].mid
    /\ \A e \in Clients \ {c} : req[e].mid # req[c].mid

Encoding(r) ==
  /\ r.mid \in 1..lastId \cup {NoId}
  /\ IF Encodes(r) THEN EncodeHolds(r) /\ EncodeInjected(r) /\ EncodePacked(r) ELSE r.ids = <<>>

\* The blobs still to be read hold what is to be sent, if they are there.
DecodesOn(r) ==
  r.kind = "decode" /\ r.at = "read" =>
    /\ r.result = "none" /\ r.todo \in Seq(Nat)
    /\ Len(r.out) + Len(r.todo) = Len(r.sent)
    /\ \A i \in 1..Len(r.todo) :
         /\ r.todo[i] \in 1..lastId
         /\ r.todo[i] \in DOMAIN blobs => /\ blobs[r.todo[i]].chunk = r.sent[Len(r.out) + i]
                                          /\ blobs[r.todo[i]].tag = r.tag
    /\ \A i \in 1..Len(r.out) : RawUnderTag(r.sent[i], r.tag) \/ r.out[i] = r.sent[i]

DecodeDone(r) ==
  r.kind = "decode" /\ r.result = "success" =>
    /\ Len(r.out) = Len(r.sent)
    /\ \A i \in 1..Len(r.out) : RawUnderTag(r.sent[i], r.tag) \/ r.out[i] = r.sent[i]

TrainsOn(r) == r.kind = "train" /\ r.at # "idle" => r.todo \in Seq(Chunks) /\ r.tag \in Tags

\* A training session has a chunk, and the tag out while it is not installed.
TrainReady(r) == r.kind = "train" /\ r.at \in {"inject", "uninstall", "install"} => r.todo # <<>>

Serving(r) == Encoding(r) /\ DecodesOn(r) /\ DecodeDone(r) /\ TrainsOn(r) /\ TrainReady(r)

Stored == Typed /\ Tables /\ FilesHold /\ BlobsApart /\ \A c \in Clients : Serving(req[c]) /\ Encoded(c)

-----------------------------------------------------------------------------
(* Records and sequences *)
LEMMA MstateTypes ==
  /\ EmptyMstate \in Mstates
  /\ \A d \in Chunks, ms \in Mstates : Trained(d, ms) \in Mstates /\ Trained(d, ms).alg = "VICTINI"
  /\ \A c \in Clients : Mstate("VICTINI", {c}) \in Mstates /\ Mstate("VICTINI", {c}).alg = "VICTINI"
BY DEF EmptyMstate, Mstate, Mstates, Trained

\* What compress() makes: payload and mstate fit each other, and under a trained
\* mstate the mstate is that one unless the chunk did not shrink.
LEMMA CompressedIs ==
  ASSUME NEW d \in Chunks, NEW ms \in Mstates
  PROVE  /\ Compressed(d, ms).payload \in Payloads /\ Compressed(d, ms).mstate \in Mstates
         /\ Decoded(Compressed(d, ms).payload, Compressed(d, ms).mstate) = d
         /\ ms.alg = "VICTINI" => d \in Incompressible \/ Decoded(Compressed(d, ms).payload, ms) = d
<1>1. /\ VictiniMstate(d, ms) \in Mstates /\ VictiniMstate(d, ms).alg = "VICTINI"
      /\ ms.alg = "VICTINI" => VictiniMstate(d, ms) = ms
  BY DEF VictiniMstate, Mstate, Mstates, EmptyMstate
<1> DEFINE v == VictiniMstate(d, ms)
<1> HIDE DEF v
<1>2. v \in Mstates /\ v.alg = "VICTINI" /\ (ms.alg = "VICTINI" => v = ms)
  BY <1>1 DEF v
<1>3. Compressed(d, ms) = Evaluated(d, v)
  BY DEF Compressed, v
<1>4. ASSUME d \in Incompressible
      PROVE  Evaluated(d, v).payload = Raw(d) /\ Evaluated(d, v).mstate = EmptyMstate
  BY <1>4 DEF Evaluated
<1>5. ASSUME d \notin Incompressible
      PROVE  Evaluated(d, v).payload = Packed(d, v.model) /\ Evaluated(d, v).mstate = v
  BY <1>5 DEF Evaluated
<1>6. Raw(d) \in Payloads /\ Decoded(Raw(d), EmptyMstate) = d
  BY DEF Raw, Payloads, Data, Decoded, EmptyMstate, Mstate
<1>7. Packed(d, v.model) \in Payloads /\ Decoded(Packed(d, v.model), v) = d
  BY <1>2 DEF Packed, Payloads, Data, Decoded, Mstates
<1> QED BY <1>2, <1>3, <1>4, <1>5, <1>6, <1>7, MstateTypes

LEMMA DecodedTypes ==
  ASSUME NEW x \in Payloads, NEW ms \in Mstates
  PROVE  Decoded(x, ms) \in Data
BY DEF Payloads, Data, Decoded

LEMMA Relabelled ==
  ASSUME NEW r \in Requests, NEW kind \in Kinds, NEW result \in {"none", "success", "error"}
  PROVE  [r EXCEPT !.kind = kind, !.result = result] \in Requests /\ [r EXCEPT !.kind = kind] \in Requests
BY DEF Requests

LEMMA NoneIn == \A S : <<>> \in Seq(S)
OBVIOUS

LEMMA NewRequests ==
  /\ NoRequest \in Requests /\ NoRequest.kind = "none" /\ NoRequest.ids = <<>> /\ NoRequest.mid = NoId
  /\ \A p \in Files \cup {NoId}, t \in Marks, s \in Seq(Chunks) :
       /\ Request("encode", "inject", p, t, s) \in Requests
       /\ Request("train", "check", p, t, s) \in Requests
<1>1. Raw(NoId) \in Payloads
  BY DEF Raw, Payloads, Data
<1>2. <<>> \in Seq(Chunks) /\ <<>> \in Seq(Nat) /\ <<>> \in Seq(Data) /\ <<>> \in Seq(Chunks \cup Nat)
  OBVIOUS
<1>3. NoTag \in Marks
  BY DEF Marks
<1>4. \A s \in Seq(Chunks) : s \in Seq(Chunks \cup Nat)
  OBVIOUS
<1> QED BY <1>1, <1>2, <1>3, <1>4, MstateTypes DEF Request, NoRequest, Requests, Kinds

-----------------------------------------------------------------------------
(* What a step does to the tables *)
\* Nothing that has an id changes or comes back.
Aged ==
  /\ lastId' >= lastId
  /\ \A m \in DOMAIN mstates' : m <= lastId => m \in DOMAIN mstates /\ mstates'[m] = mstates[m]
  /\ \A b \in DOMAIN blobs' : b <= lastId => b \in DOMAIN blobs /\ blobs'[b] = blobs[b]

LEMMA HoldsStays ==
  ASSUME ArchiveTyped, Tables, Aged, NEW ids, NEW sent, NEW k, NEW tag, Holds(ids, sent, k, tag),
         \A i \in 1..Len(ids) : ids[i] \in DOMAIN blobs'
  PROVE  Holds(ids, sent, k, tag)'
<1>1. \A i \in 1..Len(ids) : ids[i] \in DOMAIN blobs' /\ blobs'[ids[i]] = blobs[ids[i]]
  BY DEF Holds, Tables, Aged
<1>2. CASE tag = NoTag
  BY <1>1, <1>2 DEF Holds
<1>3. CASE tag # NoTag
  BY <1>1, <1>3 DEF Holds
<1> QED BY <1>2, <1>3

\* Under a tag a chunk may be left out.
LEMMA HoldsLess ==
  ASSUME NEW ids \in Seq(Nat), NEW sent, NEW k \in Nat, NEW tag, tag # NoTag, Holds(ids, sent, k, tag)
  PROVE  Holds(ids, sent, k + 1, tag)
<1>1. PICK pick \in [1..Len(ids) -> 1..k] :
        /\ \A i, j \in 1..Len(ids) : i < j => pick[i] < pick[j]
        /\ \A i \in 1..Len(ids) : blobs[ids[i]].chunk = sent[pick[i]]
  BY DEF Holds
<1>2. pick \in [1..Len(ids) -> 1..(k + 1)]
  OBVIOUS
<1> QED BY <1>1, <1>2 DEF Holds

\* One more blob, one more chunk.
HoldsGrows ==
  \A ids \in Seq(Nat), k \in Nat, b \in Nat : \A sent, tag :
    /\ Holds(ids, sent, k, tag)
    /\ b \in DOMAIN blobs /\ blobs[b].tag = tag /\ blobs[b].chunk = sent[k + 1]
    => Holds(Append(ids, b), sent, k + 1, tag)

LEMMA HoldsMore == HoldsGrows /\ HoldsGrows'
<1> SUFFICES HoldsGrows
  BY PTL
<1> SUFFICES ASSUME NEW ids \in Seq(Nat), NEW k \in Nat, NEW b \in Nat, NEW sent, NEW tag,
                    Holds(ids, sent, k, tag),
                    b \in DOMAIN blobs, blobs[b].tag = tag, blobs[b].chunk = sent[k + 1]
             PROVE  Holds(Append(ids, b), sent, k + 1, tag)
  BY DEF HoldsGrows
<1> DEFINE s == Append(ids, b)
           n == Len(ids)
<1>1. n \in Nat /\ Len(s) = n + 1 /\ s[n + 1] = b /\ \A i \in 1..n : s[i] = ids[i]
  OBVIOUS
<1> HIDE DEF s, n
<1>2. \A i \in 1..Len(s) : i \in 1..n \/ i = n + 1
  BY <1>1
<1>3. \A i \in 1..Len(s) : s[i] \in DOMAIN blobs /\ blobs[s[i]].tag = tag
  BY <1>1, <1>2 DEF Holds, n
<1>4. CASE tag = NoTag
  <2>1. n = k /\ \A i \in 1..k : blobs[ids[i]].chunk = sent[i]
    BY <1>4 DEF Holds, n
  <2>2. Len(s) = k + 1 /\ \A i \in 1..(k + 1) : blobs[s[i]].chunk = sent[i]
    BY <1>1, <1>2, <2>1
  <2> QED BY <1>3, <1>4, <2>2 DEF Holds, s
<1>5. CASE tag # NoTag
  <2>1. PICK pick \in [1..n -> 1..k] :
          /\ \A i, j \in 1..n : i < j => pick[i] < pick[j]
          /\ \A i \in 1..n : blobs[ids[i]].chunk = sent[pick[i]]
    BY <1>5 DEF Holds, n
  <2> DEFINE more == [i \in 1..Len(s) |-> IF i = n + 1 THEN k + 1 ELSE pick[i]]
  <2>2. \A i \in 1..n : more[i] = pick[i] /\ pick[i] \in 1..k
    BY <1>1
  <2>3. more[n + 1] = k + 1
    BY <1>1
  <2>4. more \in [1..Len(s) -> 1..(k + 1)]
    BY <1>1
  <2> HIDE DEF more
  <2>5. ASSUME NEW i \in 1..Len(s), NEW j \in 1..Len(s), i < j PROVE more[i] < more[j]
    <3>1. i \in 1..n
      BY <1>1, <2>5
    <3>2. CASE j \in 1..n
      BY <2>1, <2>2, <2>5, <3>1, <3>2
    <3>3. CASE j = n + 1
      BY <2>2, <2>3, <3>1, <3>3
    <3> QED BY <1>2, <3>2, <3>3
  <2>6. \A i \in 1..Len(s) : blobs[s[i]].chunk = sent[more[i]]
    BY <1>1, <1>2, <2>1, <2>2, <2>3
  <2> QED BY <1>3, <1>5, <2>4, <2>5, <2>6 DEF Holds, s
<1> QED BY <1>4, <1>5

\* A request that the step does not touch stays as it should be.
LEMMA ServesOn ==
  ASSUME ArchiveTyped, ArchiveTyped', Tables, Aged, NEW r \in Requests, Serving(r),
         \A i \in 1..Len(r.ids) : r.ids[i] \in DOMAIN blobs'
  PROVE  Serving(r)'
<1>1. /\ lastId \in Nat /\ lastId' \in Nat /\ lastId' >= lastId /\ r.mid \in 1..lastId \cup {NoId}
      /\ NoId \notin Nat
  BY PipelineAssumption DEF ArchiveTyped, Aged, Serving, Encoding
<1>2. r.mid # NoId /\ r.mid \in DOMAIN mstates' => r.mid \in DOMAIN mstates /\ mstates'[r.mid] = mstates[r.mid]
  BY <1>1 DEF Aged
<1>3. EncodeHolds(r) => EncodeHolds(r)'
  BY HoldsStays DEF EncodeHolds
<1>4. EncodeInjected(r) => EncodeInjected(r)'
  BY <1>2 DEF EncodeInjected
<1>5. EncodePacked(r) => EncodePacked(r)'
  BY <1>2 DEF EncodePacked
<1>6. Encoding(r)'
  BY <1>1, <1>3, <1>4, <1>5 DEF Serving, Encoding
<1>7. DecodesOn(r)'
  <2> SUFFICES ASSUME r.kind = "decode", r.at = "read" PROVE DecodesOn(r)'
    BY DEF DecodesOn
  <2>1. \A i \in 1..Len(r.todo) :
          /\ r.todo[i] \in 1..lastId'
          /\ r.todo[i] \in DOMAIN blobs' => /\ r.todo[i] \in DOMAIN blobs
                                            /\ blobs'[r.todo[i]] = blobs[r.todo[i]]
    BY <1>1 DEF Serving, DecodesOn, Aged
  <2> QED BY <2>1 DEF Serving, DecodesOn
<1> QED BY <1>6, <1>7 DEF Serving, DecodeDone, TrainsOn, TrainReady

\* The step is one of session c, which then serves r, and takes nothing the others need.
Spares(c, r) ==
  /\ req' = [req EXCEPT ![c] = r]
  /\ Aged
  /\ \A e \in Clients \ {c} : \A i \in 1..Len(req[e].ids) : req[e].ids[i] \in DOMAIN blobs'
  /\ \A e \in Clients \ {c} : HasMstate(req[e]) =>
       /\ req[e].mid \in DOMAIN mstates'
       /\ \A t \in DOMAIN tags' : tags'[t] # req[e].mid
       /\ \A b \in DOMAIN blobs' : blobs'[b].mstate # req[e].mid
       /\ r.mid # req[e].mid

LEMMA OthersServe ==
  ASSUME Stored, ArchiveTyped', NEW c \in Clients, NEW r \in Requests, Spares(c, r),
         NEW e \in Clients, e # c
  PROVE  (Serving(req[e]) /\ Encoded(e))'
<1> PICK q \in Requests : q = req[e]
  BY DEF Stored, Typed
<1>1. req' = [req EXCEPT ![c] = r] /\ req \in [Clients -> Requests]
  BY DEF Spares, Stored, Typed
<1>2. req'[e] = q
  BY <1>1
<1>3. Serving(q)'
  <2>1. Serving(q) /\ \A i \in 1..Len(q.ids) : q.ids[i] \in DOMAIN blobs'
    BY DEF Stored, Spares
  <2> QED BY <2>1, ServesOn DEF Stored, Typed, Spares
<1>4. Serving(req[e])'
  BY <1>2, <1>3
<1>5. Encoded(e)'
  <2> SUFFICES ASSUME HasMstate(q)
               PROVE  /\ q.mid \in DOMAIN mstates'
                      /\ \A t \in DOMAIN tags' : tags'[t] # q.mid
                      /\ \A b \in DOMAIN blobs' : blobs'[b].mstate # q.mid
                      /\ \A d \in Clients \ {e} : req'[d].mid # q.mid
    BY <1>2 DEF Encoded
  <2>1. \A d \in Clients \ {e, c} : req'[d] = req[d]
    BY <1>1
  <2>2. req'[c] = r
    BY <1>1
  <2>3. \A d \in Clients \ {e} : req[d].mid # q.mid
    BY DEF Stored, Encoded
  <2> QED BY <2>1, <2>2, <2>3 DEF Spares
<1> QED BY <1>4, <1>5

\* The files that are left keep their blobs.
LEMMA FilesStay ==
  ASSUME ArchiveTyped, Tables, FilesHold, Aged, \A p \in DOMAIN files' : p \in DOMAIN files /\ files'[p] = files[p],
         \A p \in DOMAIN files' : \A i \in 1..Len(files[p].ids) : files[p].ids[i] \in DOMAIN blobs'
  PROVE  FilesHold'
<1> SUFFICES ASSUME NEW p \in DOMAIN files'
             PROVE  Holds(files[p].ids, files[p].sent, Len(files[p].sent), files[p].tag)'
  BY DEF FilesHold
<1> PICK f : f = files[p]
  OBVIOUS
<1>1. files'[p] = f /\ p \in DOMAIN files /\ \A i \in 1..Len(f.ids) : f.ids[i] \in DOMAIN blobs'
  OBVIOUS
<1>2. Holds(f.ids, f.sent, Len(f.sent), f.tag)
  BY <1>1 DEF FilesHold
<1>3. Holds(f.ids, f.sent, Len(f.sent), f.tag)'
  BY <1>1, <1>2, HoldsStays
<1> QED BY <1>1, <1>3

\* Blobs stay apart: a session gets only new ones.
LEMMA ApartStays ==
  ASSUME Stored, NEW c \in Clients, NEW r \in Requests, req' = [req EXCEPT ![c] = r],
         \A p \in DOMAIN files' : p \in DOMAIN files /\ files'[p] = files[p],
         \/ r.ids = req[c].ids
         \/ r.ids = <<>>
         \/ \E b \in Nat : r.ids = Append(req[c].ids, b) /\ b > lastId
  PROVE  BlobsApart'
<1>1. req \in [Clients -> Requests] /\ lastId \in Nat /\ files \in [DOMAIN files -> Entries]
  BY DEF Stored, Typed, ArchiveTyped
<1>2. /\ \A p \in DOMAIN files : \A i \in 1..Len(files[p].ids) : files[p].ids[i] \in 1..lastId
      /\ \A e \in Clients : \A i \in 1..Len(req[e].ids) : req[e].ids[i] \in 1..lastId
  <2>1. \A p \in DOMAIN files : \A i \in 1..Len(files[p].ids) : files[p].ids[i] \in DOMAIN blobs
    BY DEF Stored, FilesHold, Holds
  <2>2. ASSUME NEW e \in Clients, NEW i \in 1..Len(req[e].ids) PROVE req[e].ids[i] \in DOMAIN blobs
    <3>1. CASE Encodes(req[e])
      BY <3>1 DEF Stored, Serving, Encoding, EncodeHolds, Holds
    <3>2. CASE ~Encodes(req[e])
      BY <3>2 DEF Stored, Serving, Encoding
    <3> QED BY <3>1, <3>2
  <2> QED BY <2>1, <2>2 DEF Stored, Tables
\* An id of r is an id c had, or new.
<1>3. \A i \in 1..Len(r.ids) : r.ids[i] > lastId \/ \E j \in 1..Len(req[c].ids) : r.ids[i] = req[c].ids[j]
  <2>1. req[c].ids \in Seq(Nat)
    BY <1>1 DEF Requests
  <2>2. CASE r.ids = req[c].ids
    BY <2>2
  <2>3. CASE r.ids = <<>>
    BY <2>3
  <2>4. ASSUME NEW b \in Nat, r.ids = Append(req[c].ids, b), b > lastId
        PROVE  \A i \in 1..Len(r.ids) : r.ids[i] > lastId \/ \E j \in 1..Len(req[c].ids) : r.ids[i] = req[c].ids[j]
    BY <2>1, <2>4
  <2> QED BY <2>2, <2>3, <2>4
<1>4. ASSUME NEW e \in Clients, e # c PROVE Apart(r.ids, req[e].ids) /\ Apart(req[e].ids, r.ids)
  <2> SUFFICES ASSUME NEW i \in 1..Len(r.ids), NEW j \in 1..Len(req[e].ids), r.ids[i] = req[e].ids[j]
               PROVE  FALSE
    BY DEF Apart
  <2>1. Apart(req[c].ids, req[e].ids)
    BY <1>4 DEF Stored, BlobsApart
  <2>2. r.ids[i] \in 1..lastId
    BY <1>2
  <2> QED BY <1>1, <1>3, <2>1, <2>2 DEF Apart
<1>5. \A p \in DOMAIN files : Apart(r.ids, files[p].ids)
  BY <1>1, <1>2, <1>3 DEF Stored, BlobsApart, Apart
<1>6. \A e \in Clients : req'[e] = IF e = c THEN r ELSE req[e]
  BY <1>1
<1>7. \A p \in DOMAIN files' : files'[p].ids = files[p].ids /\ p \in DOMAIN files
  OBVIOUS
<1>8. \A p, q \in DOMAIN files' : p # q => Apart(files'[p].ids, files'[q].ids)
  BY <1>7 DEF Stored, BlobsApart
<1>9. \A e \in Clients, p \in DOMAIN files' : Apart(req'[e].ids, files'[p].ids)
  BY <1>5, <1>6, <1>7 DEF Stored, BlobsApart
<1>10. \A d, e \in Clients : d # e => Apart(req'[d].ids, req'[e].ids)
  BY <1>4, <1>6 DEF Stored, BlobsApart
<1> QED BY <1>8, <1>9, <1>10 DEF BlobsApart, Apart

-----------------------------------------------------------------------------
(* Steps that only read the archive *)
LEMMA StepStored ==
  ASSUME Stored, NEW c \in Clients, NEW r \in Requests, Spares(c, r),
         requests' \in [Clients -> Nat], ArchiveTyped', Tables', FilesHold', BlobsApart',
         Serving(r)', Encoded(c)'
  PROVE  Stored'
<1>1. req' = [req EXCEPT ![c] = r] /\ req \in [Clients -> Requests]
  BY DEF Spares, Stored, Typed
<1>2. req' \in [Clients -> Requests] /\ req'[c] = r
  BY <1>1
<1>3. Serving(req[c])'
  BY <1>2
<1>4. \A e \in Clients : (Serving(req[e]) /\ Encoded(e))'
  BY <1>3, OthersServe
<1> QED BY <1>2, <1>4 DEF Stored, Typed

\* Session c goes on with r, and has no new mstate or blob.
Goes(c, r) ==
  /\ req' = [req EXCEPT ![c] = r]
  /\ r.ids = req[c].ids \/ r.ids = <<>>
  /\ ~HasMstate(r)
  /\ \/ r.mid = NoId \/ r.mid = req[c].mid
     \/ \E t \in DOMAIN tags : r.mid = tags[t]

LEMMA GoesOn ==
  ASSUME Stored, NEW c \in Clients, NEW r \in Requests, Goes(c, r), Serving(r),
         UNCHANGED <<archive, lastId>>, requests' \in [Clients -> Nat]
  PROVE  Stored'
<1>1. /\ UNCHANGED <<files, tags, mstates, blobs, lastId>>
      /\ req \in [Clients -> Requests] /\ req' = [req EXCEPT ![c] = r]
      /\ lastId \in Nat /\ NoId \notin Nat
  BY PipelineAssumption DEF archive, Stored, Typed, ArchiveTyped, Goes
<1>2. Aged
  BY <1>1 DEF Aged
<1>3. ArchiveTyped'
  BY <1>1 DEF Stored, Typed, ArchiveTyped
<1>4. Tables'
  BY <1>1 DEF Stored, Tables, Decodes
<1>5. FilesHold'
  BY <1>1 DEF Stored, FilesHold, Holds
<1>6. BlobsApart'
  BY <1>1, ApartStays DEF Goes
<1>7. Serving(r)'
  BY <1>1 DEF Serving, Encoding, EncodeHolds, Holds, EncodeInjected, EncodePacked, DecodesOn, DecodeDone,
              TrainsOn, TrainReady
<1>8. Encoded(c)'
  BY <1>1 DEF Goes, Encoded
<1>9. ASSUME NEW e \in Clients, e # c PROVE \A i \in 1..Len(req[e].ids) : req[e].ids[i] \in DOMAIN blobs'
  <2>1. CASE Encodes(req[e])
    BY <1>1, <2>1 DEF Stored, Serving, Encoding, EncodeHolds, Holds
  <2>2. CASE ~Encodes(req[e])
    BY <2>2 DEF Stored, Serving, Encoding
  <2> QED BY <2>1, <2>2
<1>10. ASSUME NEW e \in Clients, e # c, HasMstate(req[e])
       PROVE  /\ req[e].mid \in DOMAIN mstates
              /\ \A t \in DOMAIN tags : tags[t] # req[e].mid
              /\ \A b \in DOMAIN blobs : blobs[b].mstate # req[e].mid
              /\ r.mid # req[e].mid
  <2>1. /\ req[e].mid \in DOMAIN mstates /\ req[c].mid # req[e].mid
        /\ \A t \in DOMAIN tags : tags[t] # req[e].mid
        /\ \A b \in DOMAIN blobs : blobs[b].mstate # req[e].mid
    BY <1>10 DEF Stored, Encoded
  <2>2. req[e].mid \in Nat
    BY <1>1, <2>1 DEF Stored, Tables
  <2> QED BY <1>1, <2>1, <2>2 DEF Goes
<1>11. Spares(c, r)
  BY <1>1, <1>2, <1>9, <1>10 DEF Spares
<1> QED BY <1>3, <1>4, <1>5, <1>6, <1>7, <1>8, <1>11, StepStored

LEMMA HoldsNone == \A sent, tag : Holds(<<>>, sent, 0, tag)
<1> SUFFICES ASSUME NEW sent, NEW tag PROVE Holds(<<>>, sent, 0, tag)
  OBVIOUS
<1>1. Len(<<>>) = 0 /\ 1..0 = {}
  OBVIOUS
<1> DEFINE pick == [i \in 1..0 |-> i]
<1>2. pick \in [1..Len(<<>>) -> 1..0]
  BY <1>1
<1> HIDE DEF pick
<1>3. /\ \A i, j \in 1..Len(<<>>) : i < j => pick[i] < pick[j]
      /\ \A i \in 1..Len(<<>>) : blobs[<<>>[i]].chunk = sent[pick[i]]
      /\ \A i \in 1..Len(<<>>) : <<>>[i] \in DOMAIN blobs /\ blobs[<<>>[i]].tag = tag
      /\ \A i \in 1..0 : blobs[<<>>[i]].chunk = sent[i]
  BY <1>1
<1> QED BY <1>1, <1>2, <1>3 DEF Holds

\* What is known of the request a session serves.
LEMMA RequestIs ==
  ASSUME Stored, NEW c \in Clients
  PROVE  /\ req[c] \in Requests /\ Serving(req[c]) /\ Encoded(c)
         /\ ~Encodes(req[c]) => req[c].ids = <<>>
         /\ Encodes(req[c]) => EncodeHolds(req[c]) /\ EncodeInjected(req[c]) /\ EncodePacked(req[c])
         /\ req[c].mid \in 1..lastId \cup {NoId}
         /\ req \in [Clients -> Requests] /\ requests \in [Clients -> Nat]
BY DEF Stored, Typed, Serving, Encoding

LEMMA Answered ==
  ASSUME Stored, NEW c \in Clients, NEW result \in {"success", "error"}, Done(c, result),
         req[c].at # "idle", req[c].kind # "none",
         req[c].kind = "decode" => req[c].at = "read" /\ (result = "success" => req[c].todo = <<>>),
         UNCHANGED <<archive, lastId, requests>>
  PROVE  Stored'
<1>1. req[c] \in Requests /\ Serving(req[c]) /\ req \in [Clients -> Requests] /\ requests \in [Clients -> Nat]
  BY RequestIs
<1>2. CASE req[c].kind = "decode"
  <2> DEFINE r == [req[c] EXCEPT !.at = "idle", !.todo = <<>>, !.result = result]
  <2>1. r \in Requests
    BY <1>1, NoneIn DEF Requests
  <2>2. /\ r.kind = "decode" /\ r.at = "idle" /\ r.result = result /\ r.ids = req[c].ids /\ r.mid = req[c].mid
        /\ r.out = req[c].out /\ r.sent = req[c].sent /\ r.tag = req[c].tag
    BY <1>1, <1>2 DEF Requests
  <2>3. req' = [req EXCEPT ![c] = r]
    BY <1>1, <1>2 DEF Done
  <2> HIDE DEF r
  <2>4. req[c].ids = <<>> /\ req[c].mid \in 1..lastId \cup {NoId}
    BY <1>2, RequestIs DEF Encodes
  <2>5. result = "success" => Len(r.out) = Len(r.sent)
    <3> SUFFICES ASSUME result = "success" PROVE Len(r.out) = Len(r.sent)
      OBVIOUS
    <3>1. Len(req[c].todo) = 0
      BY <1>2
    <3>2. Len(req[c].out) \in Nat
      BY <1>1 DEF Requests
    <3> QED BY <1>1, <1>2, <2>2, <3>1, <3>2 DEF Serving, DecodesOn
  <2>6. Serving(r)
    BY <1>1, <1>2, <2>2, <2>4, <2>5
    DEF Serving, Encoding, Encodes, DecodesOn, DecodeDone, TrainsOn, TrainReady
  <2>7. Goes(c, r)
    BY <2>2, <2>3 DEF Goes, HasMstate
  <2> QED BY <1>1, <2>1, <2>6, <2>7, GoesOn
<1>3. CASE req[c].kind # "decode"
  <2> DEFINE r == [NoRequest EXCEPT !.kind = req[c].kind, !.result = result]
  <2>1. r \in Requests
    <3>1. req[c].kind \in Kinds
      BY <1>1 DEF Requests, Kinds
    <3> QED BY <3>1, NewRequests, Relabelled
  <2>2. /\ r.kind = req[c].kind /\ r.at = "idle" /\ r.ids = <<>> /\ r.mid = NoId /\ r.todo = <<>>
    BY <1>1 DEF NoRequest, Request
  <2>3. req' = [req EXCEPT ![c] = r]
    BY <1>1, <1>3 DEF Done
  <2> HIDE DEF r
  <2>4. Serving(r)
    BY <1>3, <2>2 DEF Serving, Encoding, Encodes, DecodesOn, DecodeDone, TrainsOn, TrainReady
  <2>5. Goes(c, r)
    BY <2>2, <2>3 DEF Goes, HasMstate
  <2> QED BY <1>1, <2>1, <2>4, <2>5, GoesOn
<1> QED BY <1>2, <1>3

LEMMA TailIs ==
  ASSUME NEW S, NEW s \in Seq(S), s # <<>>
  PROVE  /\ Head(s) \in S /\ Tail(s) \in Seq(S) /\ Len(s) \in Nat /\ Len(s) >= 1 /\ Head(s) = s[1]
         /\ Len(Tail(s)) = Len(s) - 1 /\ \A i \in 1..Len(Tail(s)) : Tail(s)[i] = s[i + 1]
BY HeadTailProperties

\* The rest of what was sent, after one more chunk.
LEMMA NextChunk ==
  ASSUME NEW todo \in Seq(Chunks), todo # <<>>, NEW sent \in Seq(Chunks), Len(todo) <= Len(sent),
         \A i \in 1..Len(todo) : todo[i] = sent[Len(sent) - Len(todo) + i]
  PROVE  /\ Tail(todo) \in Seq(Chunks) /\ Len(Tail(todo)) <= Len(sent)
         /\ \A i \in 1..Len(Tail(todo)) : Tail(todo)[i] = sent[Len(sent) - Len(Tail(todo)) + i]
         /\ Len(sent) - Len(todo) \in Nat /\ Len(sent) - Len(Tail(todo)) = (Len(sent) - Len(todo)) + 1
         /\ Head(todo) = sent[(Len(sent) - Len(todo)) + 1] /\ Head(todo) \in Chunks
<1>1. Len(sent) \in Nat
  OBVIOUS
<1>2. /\ Head(todo) \in Chunks /\ Tail(todo) \in Seq(Chunks) /\ Len(todo) \in Nat /\ Len(todo) >= 1
      /\ Head(todo) = todo[1] /\ Len(Tail(todo)) = Len(todo) - 1
      /\ \A i \in 1..Len(Tail(todo)) : Tail(todo)[i] = todo[i + 1]
  BY TailIs
<1> DEFINE m == Len(todo)
           n == Len(sent)
           rest == Tail(todo)
<1>3. /\ m \in Nat /\ n \in Nat /\ m >= 1 /\ m <= n /\ Len(rest) = m - 1
      /\ \A i \in 1..m : todo[i] = sent[n - m + i]
      /\ \A i \in 1..Len(rest) : rest[i] = todo[i + 1]
  BY <1>1, <1>2
<1> HIDE DEF m, n, rest
<1>4. ASSUME NEW i \in 1..Len(rest) PROVE rest[i] = sent[n - Len(rest) + i]
  <2>1. i + 1 \in 1..m /\ n - m + (i + 1) = n - Len(rest) + i
    BY <1>3
  <2> QED BY <1>3, <2>1
<1>5. n - m \in Nat /\ n - Len(rest) = (n - m) + 1 /\ Len(rest) <= n /\ todo[1] = sent[n - m + 1]
  BY <1>3
<1> QED BY <1>2, <1>4, <1>5 DEF m, n, rest

\* A failed job of a tagged encode stream leaves its chunk out.
LEMMA ChunkFails ==
  ASSUME Stored, NEW c \in Clients, JobFails(c, "inject"), Encodes(req[c]), req[c].tag # NoTag,
         req[c].todo # <<>>, UNCHANGED <<archive, lastId, requests>>
  PROVE  Stored'
<1> DEFINE q == req[c]
           r == [q EXCEPT !.at = "inject", !.todo = Tail(@), !.mid = NoId]
<1>1. /\ q \in Requests /\ Serving(q) /\ EncodeHolds(q) /\ req \in [Clients -> Requests]
      /\ requests \in [Clients -> Nat]
  BY RequestIs
<1>2. q.todo \in Seq(Chunks) /\ q.sent \in Seq(Chunks) /\ q.ids \in Seq(Nat) /\ q.path \in Files
  BY <1>1 DEF EncodeHolds, Requests
<1>3. req' = [req EXCEPT ![c] = r]
  BY <1>1 DEF JobFails
<1> DEFINE rest == Tail(q.todo)
<1>4. /\ rest \in Seq(Chunks) /\ Len(rest) <= Len(q.sent)
      /\ \A i \in 1..Len(rest) : rest[i] = q.sent[Len(q.sent) - Len(rest) + i]
      /\ Len(q.sent) - Len(q.todo) \in Nat /\ Len(q.sent) - Len(rest) = (Len(q.sent) - Len(q.todo)) + 1
  BY <1>1, <1>2, NextChunk DEF EncodeHolds
<1>5. Holds(q.ids, q.sent, Len(q.sent) - Len(q.todo), q.tag)
  BY <1>1 DEF EncodeHolds
<1>6. Holds(q.ids, q.sent, Len(q.sent) - Len(rest), q.tag)
  BY <1>2, <1>4, <1>5, HoldsLess
<1>7. r \in Requests
  <2>1. rest \in Seq(Chunks \cup Nat)
    BY <1>4
  <2> QED BY <1>1, <2>1 DEF Requests
<1>8. /\ r.kind = "encode" /\ r.at = "inject" /\ r.todo = rest /\ r.mid = NoId
      /\ r.ids = q.ids /\ r.sent = q.sent /\ r.tag = q.tag /\ r.path = q.path
  BY <1>1 DEF Requests, Encodes
<1> HIDE DEF r, q, rest
<1>9. Serving(r)
  BY <1>2, <1>4, <1>6, <1>8 DEF Serving, Encoding, Encodes, EncodeHolds, EncodeInjected, EncodePacked, DecodesOn,
                          DecodeDone, TrainsOn, TrainReady
<1>10. Goes(c, r)
  BY <1>3, <1>8 DEF Goes, HasMstate, q
<1> QED BY <1>1, <1>7, <1>9, <1>10, GoesOn

LEMMA EncodeStartKeeps ==
  ASSUME Stored, NEW c \in Clients, NEW p \in Files, NEW t \in EncodeTags, NEW chunks \in Streams,
         EncodeStart(c, p, t, chunks)
  PROVE  Stored'
<1> DEFINE r == Request("encode", "inject", p, t, chunks)
<1>1. chunks \in Seq(Chunks) /\ t \in Marks
  BY PipelineAssumption DEF Marks
<1>2. r \in Requests
  BY <1>1, NewRequests
<1>3. /\ r.kind = "encode" /\ r.at = "inject" /\ r.todo = chunks /\ r.sent = chunks /\ r.ids = <<>>
      /\ r.mid = NoId /\ r.tag = t /\ r.path = p
  BY DEF Request
<1>4. req' = [req EXCEPT ![c] = r] /\ requests' \in [Clients -> Nat] /\ UNCHANGED <<archive, lastId>>
  BY RequestIs DEF EncodeStart, Begin
<1> HIDE DEF r
<1>5. Len(chunks) - Len(chunks) = 0 /\ \A i \in 1..Len(chunks) : i = Len(chunks) - Len(chunks) + i
  BY <1>1
<1>6. EncodeHolds(r)
  BY <1>1, <1>3, <1>5, HoldsNone DEF EncodeHolds
<1>7. Serving(r)
  BY <1>3, <1>6 DEF Serving, Encoding, Encodes, EncodeInjected, EncodePacked, DecodesOn, DecodeDone, TrainsOn,
                    TrainReady
<1>8. Goes(c, r)
  BY <1>3, <1>4 DEF Goes, HasMstate
<1> QED BY <1>2, <1>4, <1>7, <1>8, GoesOn

LEMMA EncodeInjectKeeps ==
  ASSUME Stored, NEW c \in Clients, EncodeInject(c)
  PROVE  Stored'
<1> PICK q : q = req[c]
  OBVIOUS
<1>1. /\ q \in Requests /\ Serving(q) /\ EncodeHolds(q) /\ req \in [Clients -> Requests]
      /\ requests \in [Clients -> Nat] /\ q.kind = "encode" /\ q.at = "inject" /\ q.todo # <<>>
      /\ Encodes(q) /\ UNCHANGED <<archive, lastId, requests>>
  BY RequestIs DEF EncodeInject, At, Encodes
<1>2. ASSUME NEW mid \in Nat \cup {NoId}, NEW ms \in Mstates,
             mid = NoId \/ \E t \in DOMAIN tags : mid = tags[t],
             IF q.tag = NoTag THEN ms = EmptyMstate
             ELSE mid # NoId /\ ms.alg = "VICTINI" /\ ms = mstates[mid],
             mid \in 1..lastId \cup {NoId},
             req' = [req EXCEPT ![c] = [q EXCEPT !.at = "compress", !.mstate = ms, !.mid = mid]]
      PROVE  Stored'
  <2> DEFINE r == [q EXCEPT !.at = "compress", !.mstate = ms, !.mid = mid]
  <2>1. r \in Requests
    BY <1>1 DEF Requests
  <2>2. /\ r.kind = "encode" /\ r.at = "compress" /\ r.todo = q.todo /\ r.sent = q.sent /\ r.ids = q.ids
        /\ r.tag = q.tag /\ r.path = q.path /\ r.mid = mid /\ r.mstate = ms
    BY <1>1 DEF Requests
  <2>3. req' = [req EXCEPT ![c] = r]
    BY <1>2
  <2> HIDE DEF r
  <2>4. EncodeHolds(r) /\ EncodeInjected(r) /\ EncodePacked(r)
    BY <1>1, <1>2, <2>2 DEF EncodeHolds, EncodeInjected, EncodePacked
  <2>5. Serving(r)
    BY <1>1, <1>2, <2>2, <2>4 DEF Serving, Encoding, Encodes, DecodesOn, DecodeDone, TrainsOn, TrainReady
  <2>6. Goes(c, r)
    BY <1>2, <2>2, <2>3 DEF Goes, HasMstate
  <2> QED BY <1>1, <2>1, <2>5, <2>6, GoesOn
<1>3. CASE q.tag = NoTag
  <2>1. req' = [req EXCEPT ![c] = [q EXCEPT !.at = "compress", !.mstate = EmptyMstate, !.mid = NoId]]
    BY <1>1, <1>3 DEF EncodeInject
  <2> QED BY <1>2, <1>3, <2>1, MstateTypes
<1>4. CASE q.tag # NoTag /\ q.tag \in DOMAIN tags
  <2>1. req' = [req EXCEPT ![c] = [q EXCEPT !.at = "compress", !.mstate = mstates[tags[q.tag]],
                                            !.mid = tags[q.tag]]]
    BY <1>1, <1>4 DEF EncodeInject
  <2>2. /\ tags[q.tag] \in 1..lastId /\ tags[q.tag] \in Nat /\ tags[q.tag] # NoId
        /\ mstates[tags[q.tag]] \in Mstates /\ mstates[tags[q.tag]].alg = "VICTINI"
    BY <1>4, PipelineAssumption DEF Stored, Typed, ArchiveTyped, Tables
  <2> QED BY <1>2, <1>4, <2>1, <2>2
<1>5. CASE q.tag # NoTag /\ q.tag \notin DOMAIN tags
  <2>1. JobFails(c, "inject")
    BY <1>1, <1>5 DEF EncodeInject
  <2> QED BY <1>1, <1>5, <2>1, ChunkFails
<1> QED BY <1>3, <1>4, <1>5

-----------------------------------------------------------------------------
(* Steps that write to the archive *)
LEMMA PutIs ==
  ASSUME NEW f, NEW k, NEW v
  PROVE  /\ DOMAIN Put(f, k, v) = DOMAIN f \cup {k} /\ Put(f, k, v)[k] = v
         /\ \A x \in DOMAIN f : x # k => Put(f, k, v)[x] = f[x]
BY DEF Put

\* The blobs that files and sessions hold are there.
LEMMA HeldAreThere ==
  ASSUME Stored
  PROVE  /\ \A p \in DOMAIN files : \A i \in 1..Len(files[p].ids) : files[p].ids[i] \in DOMAIN blobs
         /\ \A e \in Clients : \A i \in 1..Len(req[e].ids) : req[e].ids[i] \in DOMAIN blobs
<1>1. \A p \in DOMAIN files : \A i \in 1..Len(files[p].ids) : files[p].ids[i] \in DOMAIN blobs
  BY DEF Stored, FilesHold, Holds
<1>2. ASSUME NEW e \in Clients, NEW i \in 1..Len(req[e].ids) PROVE req[e].ids[i] \in DOMAIN blobs
  <2>1. CASE Encodes(req[e])
    BY <2>1, RequestIs DEF EncodeHolds, Holds
  <2>2. CASE ~Encodes(req[e])
    BY <2>2, RequestIs
  <2> QED BY <2>1, <2>2
<1> QED BY <1>1, <1>2

\* The mstate a session has written for one blob is used by nobody else.
LEMMA MstateIsOwn ==
  ASSUME Stored, NEW e \in Clients, HasMstate(req[e])
  PROVE  /\ req[e].mid \in DOMAIN mstates /\ req[e].mid \in 1..lastId
         /\ \A t \in DOMAIN tags : tags[t] # req[e].mid
         /\ \A b \in DOMAIN blobs : blobs[b].mstate # req[e].mid
         /\ \A c \in Clients \ {e} : req[c].mid # req[e].mid
BY RequestIs DEF Encoded, Stored, Tables

\* A new mstate, tagged or not.
MstateAdded(ms) ==
  /\ lastId' = lastId + 1 /\ mstates' = Put(mstates, lastId', ms)
  /\ UNCHANGED <<files, blobs>>
  /\ \/ UNCHANGED tags
     \/ ms.alg = "VICTINI" /\ \E t \in Tags \ DOMAIN tags : tags' = Put(tags, t, lastId')

LEMMA AddedMstate ==
  ASSUME Stored, NEW ms \in Mstates, MstateAdded(ms)
  PROVE  ArchiveTyped' /\ Tables' /\ Aged /\ FilesHold'
<1> PICK m : m = lastId'
  OBVIOUS
<1>1. /\ m = lastId + 1 /\ m \in Nat /\ lastId \in Nat /\ lastId' = m /\ m \notin DOMAIN mstates
      /\ \A x \in 1..lastId : x \in 1..m /\ x <= lastId
      /\ m \in 1..m /\ ~(m <= lastId)
      /\ DOMAIN mstates \subseteq 1..lastId /\ DOMAIN blobs \subseteq 1..lastId
  BY DEF MstateAdded, Stored, Typed, ArchiveTyped, Tables
<1>2. /\ DOMAIN mstates' = DOMAIN mstates \cup {m} /\ mstates'[m] = ms
      /\ \A x \in DOMAIN mstates : mstates'[x] = mstates[x]
      /\ UNCHANGED <<files, blobs>>
  BY <1>1 DEF MstateAdded, Put
<1>3. mstates' \in [DOMAIN mstates' -> Mstates]
  <2>1. mstates \in [DOMAIN mstates -> Mstates]
    BY DEF Stored, Typed, ArchiveTyped
  <2> QED BY <1>1, <2>1 DEF MstateAdded, Put
<1>4. Aged
  BY <1>1, <1>2 DEF Aged
<1>5. \A b \in DOMAIN blobs : blobs[b].mstate \in DOMAIN mstates
                               /\ (RawUnderTag(blobs[b].chunk, blobs[b].tag) \/ Decodes(b))
  BY DEF Stored, Tables
<1>6. \A b \in DOMAIN blobs' : blobs'[b].mstate \in DOMAIN mstates'
                                /\ (RawUnderTag(blobs'[b].chunk, blobs'[b].tag) \/ Decodes(b)')
  BY <1>2, <1>5 DEF Decodes
<1>7. /\ DOMAIN tags \subseteq Tags /\ tags \in [DOMAIN tags -> Nat]
      /\ \A t \in DOMAIN tags : tags[t] \in DOMAIN mstates /\ mstates[tags[t]].alg = "VICTINI"
      /\ \A t, u \in DOMAIN tags : tags[t] = tags[u] => t = u
  BY DEF Stored, Typed, ArchiveTyped, Tables
<1>8. /\ DOMAIN tags' \subseteq Tags /\ tags' \in [DOMAIN tags' -> Nat]
      /\ \A t \in DOMAIN tags' : tags'[t] \in DOMAIN mstates' /\ mstates'[tags'[t]].alg = "VICTINI"
      /\ \A t, u \in DOMAIN tags' : tags'[t] = tags'[u] => t = u
  <2>1. CASE UNCHANGED tags
    BY <1>2, <1>7, <2>1
  <2>2. CASE tags' # tags
    <3>1. PICK t \in Tags \ DOMAIN tags : tags' = Put(tags, t, m) /\ ms.alg = "VICTINI"
      BY <1>1, <2>2 DEF MstateAdded
    <3>2. /\ DOMAIN tags' = DOMAIN tags \cup {t} /\ tags'[t] = m
          /\ \A u \in DOMAIN tags : tags'[u] = tags[u]
      BY <3>1 DEF Put
    <3>3. tags' \in [DOMAIN tags' -> Nat]
      BY <1>1, <1>7, <3>1 DEF Put
    <3> QED BY <1>1, <1>2, <1>7, <3>1, <3>2, <3>3
  <2> QED BY <2>1, <2>2
<1>9. ArchiveTyped'
  BY <1>1, <1>2, <1>3, <1>8 DEF Stored, Typed, ArchiveTyped
<1>10. Tables'
  BY <1>1, <1>2, <1>6, <1>8 DEF Tables
<1>11. FilesHold'
  BY <1>2, <1>4, FilesStay, HeldAreThere DEF Stored, Typed
<1> QED BY <1>4, <1>9, <1>10, <1>11

\* The session that adds an mstate goes on with r, which may own it.
LEMMA AddsMstate ==
  ASSUME Stored, NEW c \in Clients, NEW r \in Requests, NEW ms \in Mstates, MstateAdded(ms),
         req' = [req EXCEPT ![c] = r], requests' \in [Clients -> Nat],
         r.ids = req[c].ids \/ r.ids = <<>>, Serving(r)',
         \/ HasMstate(r) /\ UNCHANGED tags /\ r.mid = lastId'
         \/ ~HasMstate(r) /\ (r.mid = NoId \/ r.mid = req[c].mid)
  PROVE  Stored'
<1>1. ArchiveTyped' /\ Tables' /\ Aged /\ FilesHold'
  BY AddedMstate
<1>2. BlobsApart'
  BY ApartStays DEF MstateAdded
<1> PICK m : m = lastId'
  OBVIOUS
<1>3. /\ m = lastId + 1 /\ lastId \in Nat /\ m \notin 1..lastId /\ NoId \notin Nat
      /\ UNCHANGED blobs /\ req \in [Clients -> Requests]
      /\ m \in DOMAIN mstates' /\ \A x \in DOMAIN mstates : x \in DOMAIN mstates'
  <2>1. mstates' = Put(mstates, m, ms) /\ m = lastId + 1 /\ UNCHANGED blobs
    BY DEF MstateAdded
  <2>2. m \in DOMAIN mstates' /\ \A x \in DOMAIN mstates : x \in DOMAIN mstates'
    BY <2>1 DEF Put
  <2> QED BY <2>1, <2>2, PipelineAssumption DEF Stored, Typed, ArchiveTyped
<1>4. \A t \in DOMAIN tags' : (t \in DOMAIN tags /\ tags'[t] = tags[t]) \/ tags'[t] = m
  <2>1. ASSUME NEW t, tags' = Put(tags, t, m)
        PROVE  \A u \in DOMAIN tags' : (u \in DOMAIN tags /\ tags'[u] = tags[u]) \/ tags'[u] = m
    BY <2>1 DEF Put
  <2> QED BY <2>1 DEF MstateAdded
<1>5. ASSUME NEW e \in Clients, e # c, HasMstate(req[e])
      PROVE  /\ req[e].mid \in DOMAIN mstates'
             /\ \A t \in DOMAIN tags' : tags'[t] # req[e].mid
             /\ \A b \in DOMAIN blobs' : blobs'[b].mstate # req[e].mid
             /\ r.mid # req[e].mid
  <2>1. /\ req[e].mid \in DOMAIN mstates /\ req[e].mid \in 1..lastId
        /\ \A t \in DOMAIN tags : tags[t] # req[e].mid
        /\ \A b \in DOMAIN blobs : blobs[b].mstate # req[e].mid
        /\ req[c].mid # req[e].mid
    BY <1>5, MstateIsOwn
  <2> QED BY <1>3, <1>4, <2>1
<1>6. Spares(c, r)
  BY <1>1, <1>3, <1>5, HeldAreThere DEF Spares
<1>7. Encoded(c)'
  <2>1. req'[c] = r /\ \A e \in Clients \ {c} : req'[e] = req[e]
    BY <1>3
  <2> SUFFICES ASSUME HasMstate(r)
               PROVE  /\ r.mid \in DOMAIN mstates'
                      /\ \A t \in DOMAIN tags' : tags'[t] # r.mid
                      /\ \A b \in DOMAIN blobs' : blobs'[b].mstate # r.mid
                      /\ \A e \in Clients \ {c} : req[e].mid # r.mid
    BY <2>1 DEF Encoded
  <2>2. r.mid = m /\ UNCHANGED tags
    OBVIOUS
  <2>3. \A t \in DOMAIN tags : tags[t] \in 1..lastId
    BY DEF Stored, Tables
  <2>4. \A b \in DOMAIN blobs : blobs[b].mstate \in 1..lastId
    BY DEF Stored, Tables
  <2>5. \A e \in Clients : req[e].mid \in 1..lastId \cup {NoId}
    BY RequestIs
  <2> QED BY <1>3, <2>2, <2>3, <2>4, <2>5
<1> QED BY <1>1, <1>2, <1>6, <1>7, StepStored

LEMMA EncodeCompressKeeps ==
  ASSUME Stored, NEW c \in Clients, EncodeCompress(c)
  PROVE  Stored'
<1> PICK q : q = req[c]
  OBVIOUS
<1>1. /\ q \in Requests /\ Serving(q) /\ EncodeHolds(q) /\ EncodeInjected(q) /\ req \in [Clients -> Requests]
      /\ requests \in [Clients -> Nat] /\ q.kind = "encode" /\ q.at = "compress" /\ q.todo # <<>>
      /\ q.todo \in Seq(Chunks) /\ Encodes(q) /\ UNCHANGED <<files, tags, blobs, requests>>
  BY RequestIs DEF EncodeCompress, At, Encodes, EncodeInjected, EncodeHolds
<1> DEFINE d == Head(q.todo)
<1> PICK out : out = Compressed(d, q.mstate)
  OBVIOUS
<1>2. /\ d \in Chunks /\ q.mstate \in Mstates
      /\ out.payload \in Payloads /\ out.mstate \in Mstates /\ Decoded(out.payload, out.mstate) = d
      /\ q.mstate.alg = "VICTINI" => d \in Incompressible \/ Decoded(out.payload, q.mstate) = d
  BY <1>1, TailIs, CompressedIs DEF Requests
<1> HIDE DEF d
\* Without a tag the payload comes with an mstate of its own.
<1>3. CASE q.tag = NoTag
  <2> PICK m : m = lastId'
    OBVIOUS
  <2> PICK r : r = [q EXCEPT !.at = "write", !.payload = out.payload, !.mid = m]
    OBVIOUS
  <2>1. /\ lastId' = lastId + 1 /\ mstates' = Put(mstates, lastId', out.mstate)
        /\ req' = [req EXCEPT ![c] = r]
    BY <1>1, <1>3 DEF EncodeCompress, d
  <2>2. lastId \in Nat /\ m = lastId + 1 /\ m \in Nat /\ m \in 1..lastId' /\ m # NoId
    BY <2>1, PipelineAssumption DEF Stored, Typed, ArchiveTyped
  <2>3. r \in Requests
    BY <1>1, <1>2, <2>2 DEF Requests
  <2>4. /\ r.kind = "encode" /\ r.at = "write" /\ r.todo = q.todo /\ r.sent = q.sent /\ r.ids = q.ids
        /\ r.tag = NoTag /\ r.path = q.path /\ r.mid = m /\ r.payload = out.payload
    BY <1>1, <1>3 DEF Requests
  <2>5. MstateAdded(out.mstate)
    BY <1>1, <2>1 DEF MstateAdded
  <2>6. ArchiveTyped' /\ Tables' /\ Aged
    BY <1>2, <2>5, AddedMstate
  <2>7. EncodeHolds(r)'
    <3>1. Holds(q.ids, q.sent, Len(q.sent) - Len(q.todo), q.tag)'
      <4>1. Holds(q.ids, q.sent, Len(q.sent) - Len(q.todo), q.tag) /\ \A i \in 1..Len(q.ids) : q.ids[i] \in DOMAIN blobs'
        BY <1>1, HeldAreThere DEF EncodeHolds
      <4> QED BY <2>6, <4>1, HoldsStays DEF Stored, Typed
    <3>2. Holds(r.ids, r.sent, Len(r.sent) - Len(r.todo), r.tag)'
      BY <1>3, <2>4, <3>1
    <3>3. /\ r.path \in Files /\ r.todo \in Seq(Chunks) /\ Len(r.todo) <= Len(r.sent)
          /\ \A i \in 1..Len(r.todo) : r.todo[i] = r.sent[Len(r.sent) - Len(r.todo) + i]
      BY <1>1, <2>4 DEF EncodeHolds
    <3> QED BY <3>2, <3>3 DEF EncodeHolds
  <2>8. EncodePacked(r)'
    <3>1. mstates'[m] = out.mstate
      BY <2>1 DEF Put
    <3> QED BY <1>1, <1>2, <2>2, <2>4, <3>1 DEF EncodePacked, d
  <2>9. Serving(r)'
    BY <2>2, <2>4, <2>7, <2>8
    DEF Serving, Encoding, Encodes, EncodeInjected, DecodesOn, DecodeDone, TrainsOn, TrainReady
  <2>10. HasMstate(r)
    BY <2>4 DEF HasMstate
  <2> QED BY <1>1, <1>2, <2>1, <2>3, <2>4, <2>5, <2>9, <2>10, AddsMstate
\* Under a tag it goes with the mstate that was injected.
<1>4. CASE q.tag # NoTag
  <2> PICK r : r = [q EXCEPT !.at = "write", !.payload = out.payload]
    OBVIOUS
  <2>1. req' = [req EXCEPT ![c] = r] /\ UNCHANGED <<archive, lastId>>
    BY <1>1, <1>4 DEF EncodeCompress, archive, d
  <2>2. r \in Requests
    BY <1>1, <1>2 DEF Requests
  <2>3. /\ r.kind = "encode" /\ r.at = "write" /\ r.todo = q.todo /\ r.sent = q.sent /\ r.ids = q.ids
        /\ r.tag = q.tag /\ r.path = q.path /\ r.mid = q.mid /\ r.payload = out.payload
    BY <1>1 DEF Requests
  <2>4. EncodePacked(r)
    BY <1>1, <1>2, <1>4, <2>3 DEF EncodePacked, EncodeInjected, RawUnderTag, d
  <2>5. EncodeHolds(r)
    BY <1>1, <2>3 DEF EncodeHolds
  <2>6. Serving(r)
    BY <1>1, <2>3, <2>4, <2>5
    DEF Serving, Encoding, Encodes, EncodeInjected, DecodesOn, DecodeDone, TrainsOn, TrainReady
  <2>7. Goes(c, r)
    BY <1>4, <2>1, <2>3 DEF Goes, HasMstate
  <2> QED BY <1>1, <2>1, <2>2, <2>6, <2>7, GoesOn
<1> QED BY <1>3, <1>4

LEMMA EncodeWriteKeeps ==
  ASSUME Stored, NEW c \in Clients, EncodeWrite(c)
  PROVE  Stored'
<1> PICK q : q = req[c]
  OBVIOUS
<1>1. /\ q \in Requests /\ Serving(q) /\ EncodeHolds(q) /\ EncodePacked(q) /\ req \in [Clients -> Requests]
      /\ requests \in [Clients -> Nat] /\ q.kind = "encode" /\ q.at = "write" /\ q.todo # <<>>
      /\ q.todo \in Seq(Chunks) /\ q.sent \in Seq(Chunks) /\ q.ids \in Seq(Nat) /\ q.path \in Files
      /\ Encodes(q)
      /\ UNCHANGED <<files, tags, mstates, requests>>
  BY RequestIs DEF EncodeWrite, At, Encodes, EncodePacked, EncodeHolds, Requests
<1>2. CASE q.mid \notin DOMAIN mstates
  <2>1. JobFails(c, "inject") /\ UNCHANGED <<archive, lastId, requests>>
    BY <1>1, <1>2 DEF EncodeWrite, archive
  <2>2. q.tag # NoTag
    BY <1>1, <1>2, MstateIsOwn DEF HasMstate
  <2> QED BY <1>1, <2>1, <2>2, ChunkFails
<1>3. CASE q.mid \in DOMAIN mstates
  <2> PICK n : n = lastId'
    OBVIOUS
  <2> DEFINE d == Head(q.todo)
             rest == Tail(q.todo)
             k == Len(q.sent) - Len(q.todo)
  <2> PICK b : b = [mstate |-> q.mid, payload |-> q.payload, chunk |-> d, tag |-> q.tag]
    OBVIOUS
  <2> PICK r : r = [q EXCEPT !.at = "inject", !.ids = Append(@, n), !.todo = rest, !.mid = NoId]
    OBVIOUS
  <2>1. /\ lastId' = lastId + 1 /\ blobs' = Put(blobs, n, b) /\ req' = [req EXCEPT ![c] = r]
    BY <1>1, <1>3 DEF EncodeWrite
  <2>2. /\ lastId \in Nat /\ n = lastId + 1 /\ n \in Nat /\ n \in 1..lastId' /\ ~(n <= lastId)
        /\ \A x \in 1..lastId : x \in 1..lastId' /\ x <= lastId /\ x # n
        /\ DOMAIN mstates \subseteq 1..lastId /\ DOMAIN blobs \subseteq 1..lastId
    BY <2>1 DEF Stored, Typed, ArchiveTyped, Tables
  <2>3. /\ DOMAIN blobs' = DOMAIN blobs \cup {n} /\ blobs'[n] = b
        /\ \A x \in DOMAIN blobs : blobs'[x] = blobs[x]
    BY <2>1, <2>2 DEF Put
  <2>4. /\ rest \in Seq(Chunks) /\ Len(rest) <= Len(q.sent) /\ k \in Nat /\ Len(q.sent) - Len(rest) = k + 1
        /\ \A i \in 1..Len(rest) : rest[i] = q.sent[Len(q.sent) - Len(rest) + i]
        /\ d = q.sent[k + 1] /\ d \in Chunks
    BY <1>1, NextChunk DEF EncodeHolds
  <2>5. Holds(q.ids, q.sent, k, q.tag)
    BY <1>1 DEF EncodeHolds
  <2>6. RawUnderTag(d, q.tag) \/ Decoded(q.payload, mstates[q.mid]) = d
    BY <1>1, <1>3 DEF EncodePacked
  <2> HIDE DEF d, rest, k
  <2>7. b \in Blobs /\ b.mstate = q.mid /\ b.payload = q.payload /\ b.chunk = d /\ b.tag = q.tag
    BY <1>1, <1>3, <2>2, <2>4 DEF Requests, Blobs
  <2>8. ArchiveTyped'
    <3>1. blobs' \in [DOMAIN blobs' -> Blobs]
      BY <2>1, <2>3, <2>7 DEF Stored, Typed, ArchiveTyped, Put
    <3> QED BY <1>1, <2>1, <2>2, <3>1 DEF Stored, Typed, ArchiveTyped
  <2>9. Tables'
    <3>1. ASSUME NEW x \in DOMAIN blobs'
          PROVE  /\ blobs'[x].mstate \in DOMAIN mstates'
                 /\ RawUnderTag(blobs'[x].chunk, blobs'[x].tag) \/ Decodes(x)'
      <4>1. CASE x \in DOMAIN blobs
        BY <1>1, <2>3, <4>1 DEF Stored, Tables, Decodes
      <4>2. CASE x = n
        BY <1>1, <1>3, <2>3, <2>6, <2>7, <4>2 DEF Decodes
      <4> QED BY <2>3, <4>1, <4>2
    <3> QED BY <1>1, <2>2, <2>3, <3>1 DEF Stored, Tables
  <2>10. Aged
    BY <1>1, <2>2, <2>3 DEF Aged
  <2>11. FilesHold'
    BY <1>1, <2>3, <2>10, FilesStay, HeldAreThere DEF Stored, Typed
  <2>12. r \in Requests
    <3>1. rest \in Seq(Chunks \cup Nat) /\ Append(q.ids, n) \in Seq(Nat)
      BY <1>1, <2>2, <2>4
    <3> QED BY <1>1, <3>1 DEF Requests
  <2>13. /\ r.kind = "encode" /\ r.at = "inject" /\ r.todo = rest /\ r.sent = q.sent
         /\ r.ids = Append(q.ids, n) /\ r.tag = q.tag /\ r.path = q.path /\ r.mid = NoId
    BY <1>1 DEF Requests
  <2>14. BlobsApart'
    <3>1. r.ids = Append(req[c].ids, n) /\ n > lastId
      BY <2>2, <2>13
    <3> QED BY <1>1, <2>1, <2>2, <2>12, <3>1, ApartStays
  <2>15. Holds(r.ids, r.sent, Len(r.sent) - Len(r.todo), r.tag)'
    <3>1. Holds(q.ids, q.sent, k, q.tag)'
      <4>1. \A i \in 1..Len(q.ids) : q.ids[i] \in DOMAIN blobs'
        BY <2>3, HeldAreThere
      <4> QED BY <2>5, <2>10, <4>1, HoldsStays DEF Stored, Typed
    <3>2. Holds(Append(q.ids, n), q.sent, k + 1, q.tag)'
      <4>1. n \in DOMAIN blobs' /\ blobs'[n].tag = q.tag /\ blobs'[n].chunk = q.sent[k + 1]
        BY <2>3, <2>4, <2>7
      <4> QED BY <1>1, <2>2, <2>4, <3>1, <4>1, HoldsMore DEF HoldsGrows
    <3> QED BY <2>4, <2>13, <3>2
  <2>16. Serving(r)'
    BY <1>1, <2>4, <2>13, <2>15 DEF Serving, Encoding, Encodes, EncodeHolds, EncodeInjected, EncodePacked, DecodesOn,
                              DecodeDone, TrainsOn, TrainReady
  <2>17. ASSUME NEW e \in Clients, e # c, HasMstate(req[e])
         PROVE  /\ req[e].mid \in DOMAIN mstates'
                /\ \A t \in DOMAIN tags' : tags'[t] # req[e].mid
                /\ \A x \in DOMAIN blobs' : blobs'[x].mstate # req[e].mid
                /\ r.mid # req[e].mid
    <3>1. /\ req[e].mid \in DOMAIN mstates /\ req[e].mid \in 1..lastId
          /\ \A t \in DOMAIN tags : tags[t] # req[e].mid
          /\ \A x \in DOMAIN blobs : blobs[x].mstate # req[e].mid
          /\ req[c].mid # req[e].mid
      BY <2>17, MstateIsOwn
    <3> QED BY <1>1, <2>2, <2>3, <2>7, <2>13, <3>1, PipelineAssumption
  <2>18. Spares(c, r)
    BY <2>1, <2>3, <2>10, <2>17, HeldAreThere DEF Spares
  <2>19. Encoded(c)'
    <3>1. req'[c] = r
      BY <1>1, <2>1
    <3> QED BY <2>13, <3>1 DEF Encoded, HasMstate
  <2> QED BY <1>1, <2>8, <2>9, <2>11, <2>12, <2>14, <2>16, <2>18, <2>19, StepStored
<1> QED BY <1>2, <1>3

LEMMA EncodeFinishKeeps ==
  ASSUME Stored, NEW c \in Clients, EncodeFinish(c)
  PROVE  Stored'
<1> PICK q : q = req[c]
  OBVIOUS
<1>1. /\ q \in Requests /\ Serving(q) /\ EncodeHolds(q) /\ req \in [Clients -> Requests]
      /\ requests \in [Clients -> Nat] /\ q.kind = "encode" /\ q.at = "inject" /\ q.todo = <<>>
      /\ q.path \in Files /\ q.sent \in Seq(Chunks) /\ q.ids \in Seq(Nat) /\ Encodes(q)
      /\ UNCHANGED <<tags, mstates, blobs, lastId, requests>>
  BY RequestIs DEF EncodeFinish, At, Encodes, EncodeHolds, Requests
<1>2. CASE q.path \in DOMAIN files
  <2>1. Done(c, "error") /\ UNCHANGED <<archive, lastId, requests>>
    BY <1>1, <1>2 DEF EncodeFinish, archive
  <2> QED BY <1>1, <2>1, Answered
<1>3. CASE q.path \notin DOMAIN files
  <2> PICK r : r = [NoRequest EXCEPT !.kind = "encode", !.result = "success"]
    OBVIOUS
  <2> PICK f : f = [ids |-> q.ids, sent |-> q.sent, tag |-> q.tag]
    OBVIOUS
  <2>1. files' = Put(files, q.path, f) /\ req' = [req EXCEPT ![c] = r]
    BY <1>1, <1>3 DEF EncodeFinish, Done
  <2>2. /\ DOMAIN files' = DOMAIN files \cup {q.path} /\ files'[q.path] = f
        /\ \A p \in DOMAIN files : files'[p] = files[p]
    BY <1>3, <2>1 DEF Put
  <2>3. f \in Entries /\ f.ids = q.ids /\ f.sent = q.sent /\ f.tag = q.tag
    BY <1>1 DEF Entries, Requests
  <2>4. ArchiveTyped'
    <3>1. files' \in [DOMAIN files' -> Entries]
      BY <2>1, <2>2, <2>3 DEF Stored, Typed, ArchiveTyped, Put
    <3> QED BY <1>1, <2>2, <3>1 DEF Stored, Typed, ArchiveTyped
  <2>5. Tables'
    BY <1>1 DEF Stored, Tables, Decodes
  <2>6. Aged
    BY <1>1 DEF Aged, Stored, Typed, ArchiveTyped
  <2>7. Holds(f.ids, f.sent, Len(f.sent), f.tag)
    <3>1. Len(q.sent) \in Nat /\ Len(q.sent) - Len(q.todo) = Len(q.sent)
      BY <1>1
    <3> QED BY <1>1, <2>3, <3>1 DEF EncodeHolds
  <2>8. FilesHold'
    <3>1. \A p \in DOMAIN files' : Holds(files'[p].ids, files'[p].sent, Len(files'[p].sent), files'[p].tag)
      BY <2>2, <2>7 DEF Stored, FilesHold
    <3> QED BY <1>1, <3>1 DEF FilesHold, Holds
  <2>9. r \in Requests
    BY NewRequests, Relabelled DEF Kinds
  <2>10. r.kind = "encode" /\ r.at = "idle" /\ r.ids = <<>> /\ r.mid = NoId
    BY DEF NoRequest, Request
  <2>11. BlobsApart'
    <3>1. \A e \in Clients : req'[e] = IF e = c THEN r ELSE req[e]
      BY <1>1, <2>1
    <3>2. \A i \in 1..Len(r.ids) : FALSE
      BY <2>10
    <3>3. /\ \A p, x \in DOMAIN files : p # x => Apart(files[p].ids, files[x].ids)
          /\ \A p \in DOMAIN files : Apart(f.ids, files[p].ids) /\ Apart(files[p].ids, f.ids)
      BY <1>1, <2>3 DEF Stored, BlobsApart, Apart
    <3>4. \A p, x \in DOMAIN files' : p # x => Apart(files'[p].ids, files'[x].ids)
      BY <2>2, <3>3
    <3>5. ASSUME NEW e \in Clients, NEW p \in DOMAIN files' PROVE Apart(req'[e].ids, files'[p].ids)
      <4>1. CASE e = c
        BY <3>1, <3>2, <4>1 DEF Apart
      <4>2. CASE e # c
        BY <1>1, <2>2, <2>3, <3>1, <4>2 DEF Stored, BlobsApart
      <4> QED BY <4>1, <4>2
    <3>6. \A d, e \in Clients : d # e => Apart(req'[d].ids, req'[e].ids)
      <4> SUFFICES ASSUME NEW d \in Clients, NEW e \in Clients, d # e PROVE Apart(req'[d].ids, req'[e].ids)
        OBVIOUS
      <4>1. CASE d = c
        BY <3>1, <3>2, <4>1 DEF Apart
      <4>2. CASE e = c
        BY <3>1, <3>2, <4>2 DEF Apart
      <4>3. CASE d # c /\ e # c
        BY <3>1, <4>3 DEF Stored, BlobsApart
      <4> QED BY <4>1, <4>2, <4>3
    <3> QED BY <3>4, <3>5, <3>6 DEF BlobsApart, Apart
  <2>12. Serving(r)'
    BY <2>10 DEF Serving, Encoding, Encodes, DecodesOn, DecodeDone, TrainsOn, TrainReady
  <2>13. ASSUME NEW e \in Clients, e # c, HasMstate(req[e])
         PROVE  /\ req[e].mid \in DOMAIN mstates'
                /\ \A t \in DOMAIN tags' : tags'[t] # req[e].mid
                /\ \A b \in DOMAIN blobs' : blobs'[b].mstate # req[e].mid
                /\ r.mid # req[e].mid
    <3>1. req[e].mid # NoId
      BY <2>13, MstateIsOwn, PipelineAssumption DEF Stored, Typed, ArchiveTyped
    <3> QED BY <1>1, <2>10, <2>13, <3>1, MstateIsOwn
  <2>14. Spares(c, r)
    BY <1>1, <2>1, <2>6, <2>13, HeldAreThere DEF Spares
  <2>15. Encoded(c)'
    <3>1. req'[c] = r
      BY <1>1, <2>1
    <3> QED BY <2>10, <3>1 DEF Encoded, HasMstate
  <2> QED BY <1>1, <2>4, <2>5, <2>8, <2>9, <2>11, <2>12, <2>14, <2>15, StepStored
<1> QED BY <1>2, <1>3

-----------------------------------------------------------------------------
(* decode *)
LEMMA DecodeStartKeeps ==
  ASSUME Stored, NEW c \in Clients, NEW p \in Files, DecodeStart(c, p)
  PROVE  Stored'
<1> PICK f : f = files[p]
  OBVIOUS
<1>1. /\ f \in Entries /\ Holds(f.ids, f.sent, Len(f.sent), f.tag) /\ f.ids \in Seq(Nat) /\ f.tag \in Marks
      /\ DOMAIN f.ids = 1..Len(f.ids) /\ Len(f.ids) \in Nat
  BY DEF DecodeStart, Stored, Typed, ArchiveTyped, FilesHold, Entries
<1>2. \A i \in 1..Len(f.ids) : f.ids[i] \in DOMAIN blobs /\ blobs[f.ids[i]].tag = f.tag
  BY <1>1 DEF Holds
<1>a. PICK sent : sent = [i \in DOMAIN f.ids |-> blobs[f.ids[i]].chunk]
  OBVIOUS
<1>3. sent \in Seq(Chunks) /\ Len(sent) = Len(f.ids) /\ \A i \in 1..Len(f.ids) : sent[i] = blobs[f.ids[i]].chunk
  <2>1. \A i \in 1..Len(f.ids) : blobs[f.ids[i]].chunk \in Chunks
    BY <1>2 DEF Stored, Typed, ArchiveTyped, Blobs
  <2>2. sent = [i \in 1..Len(f.ids) |-> blobs[f.ids[i]].chunk]
    BY <1>1, <1>a
  <2> QED BY <1>1, <2>1, <2>2
<1>b. PICK r : r = [Request("decode", "read", p, f.tag, f.ids) EXCEPT !.sent = sent]
  OBVIOUS
<1>4. /\ r.kind = "decode" /\ r.at = "read" /\ r.ids = <<>> /\ r.mid = NoId /\ r.todo = f.ids /\ r.sent = sent
      /\ r.out = <<>> /\ r.tag = f.tag /\ r.result = "none"
  BY <1>b DEF Request
<1>5. r \in Requests
  <2>1. r = [kind |-> "decode", at |-> "read", path |-> p, tag |-> f.tag, todo |-> f.ids, sent |-> sent,
             ids |-> <<>>, out |-> <<>>, mid |-> NoId, mstate |-> EmptyMstate, payload |-> Raw(NoId),
             result |-> "none"]
    BY <1>b DEF Request
  <2>2. Raw(NoId) \in Payloads /\ f.ids \in Seq(Chunks \cup Nat)
    BY <1>1, SeqMonotonic DEF Raw, Payloads, Data
  <2> QED BY <1>1, <1>3, <2>1, <2>2, MstateTypes, NoneIn DEF Requests, Kinds
<1>6. req' = [req EXCEPT ![c] = r] /\ requests' \in [Clients -> Nat] /\ UNCHANGED <<archive, lastId>>
  BY <1>a, <1>b, RequestIs DEF DecodeStart, Begin
<1>7. DecodesOn(r)
  <2>1. \A i \in 1..Len(f.ids) : f.ids[i] \in 1..lastId
    BY <1>2 DEF Stored, Tables
  <2>2. Len(r.out) = 0 /\ Len(r.out) + Len(r.todo) = Len(r.sent) /\ \A i \in 1..Len(r.todo) : Len(r.out) + i = i
    BY <1>1, <1>3, <1>4
  <2>3. \A i \in 1..Len(r.todo) :
          /\ r.todo[i] \in 1..lastId
          /\ r.todo[i] \in DOMAIN blobs => /\ blobs[r.todo[i]].chunk = r.sent[Len(r.out) + i]
                                            /\ blobs[r.todo[i]].tag = r.tag
    BY <1>2, <1>3, <1>4, <2>1, <2>2
  <2>4. 1..Len(r.out) = {}
    BY <2>2
  <2> QED BY <1>1, <1>4, <2>2, <2>3, <2>4 DEF DecodesOn
<1>8. Serving(r)
  BY <1>4, <1>7 DEF Serving, Encoding, Encodes, DecodeDone, TrainsOn, TrainReady
<1>9. Goes(c, r)
  BY <1>4, <1>6 DEF Goes, HasMstate
<1> QED BY <1>5, <1>6, <1>8, <1>9, GoesOn

LEMMA DecodeBlobKeeps ==
  ASSUME Stored, NEW c \in Clients, DecodeBlob(c)
  PROVE  Stored'
<1> PICK q : q = req[c]
  OBVIOUS
<1>1. /\ q \in Requests /\ Serving(q) /\ req \in [Clients -> Requests] /\ requests \in [Clients -> Nat]
      /\ q.kind = "decode" /\ q.at = "read" /\ q.todo # <<>> /\ q.todo \in Seq(Nat) /\ q.out \in Seq(Data)
      /\ q.ids = <<>> /\ q.result = "none" /\ UNCHANGED <<archive, lastId, requests>>
  BY RequestIs DEF DecodeBlob, At, Encodes, Serving, DecodesOn, Requests
<1>2. CASE Head(q.todo) \notin DOMAIN blobs
  <2>1. Done(c, "error")
    BY <1>1, <1>2 DEF DecodeBlob
  <2> QED BY <1>1, <2>1, Answered
<1>3. CASE Head(q.todo) \in DOMAIN blobs
  <2>a. PICK b : b = Head(q.todo)
    OBVIOUS
  <2>b. PICK x : x = Decoded(blobs[b].payload, mstates[blobs[b].mstate])
    OBVIOUS
  <2>c. PICK rest : rest = Tail(q.todo)
    OBVIOUS
  <2>d. PICK out : out = Append(q.out, x)
    OBVIOUS
  <2>e. PICK r : r = [q EXCEPT !.todo = rest, !.out = out]
    OBVIOUS
  <2>1. req' = [req EXCEPT ![c] = r]
    BY <1>1, <1>3, <2>a, <2>b, <2>c, <2>d, <2>e DEF DecodeBlob
  <2>2. x \in Data /\ (RawUnderTag(blobs[b].chunk, blobs[b].tag) \/ x = blobs[b].chunk)
    <3>1. /\ blobs[b].payload \in Payloads /\ blobs[b].mstate \in DOMAIN mstates
          /\ mstates[blobs[b].mstate] \in Mstates
      BY <1>3, <2>a DEF Stored, Typed, ArchiveTyped, Tables, Blobs
    <3> QED BY <1>3, <2>a, <2>b, <3>1, DecodedTypes DEF Stored, Tables, Decodes
  <2>3. /\ rest \in Seq(Nat) /\ Len(q.todo) \in Nat /\ Len(q.todo) >= 1 /\ b = q.todo[1]
        /\ Len(rest) = Len(q.todo) - 1 /\ \A i \in 1..Len(rest) : rest[i] = q.todo[i + 1]
    BY <1>1, <2>a, <2>c, TailIs
  <2>4. /\ out \in Seq(Data) /\ Len(q.out) \in Nat /\ Len(out) = Len(q.out) + 1 /\ out[Len(q.out) + 1] = x
        /\ \A i \in 1..Len(q.out) : out[i] = q.out[i]
    BY <1>1, <2>2, <2>d, AppendProperties
  <2>5. r \in Requests
    <3>1. rest \in Seq(Chunks \cup Nat)
      BY <2>3, SeqMonotonic
    <3> QED BY <1>1, <2>4, <2>e, <3>1 DEF Requests
  <2>6. /\ r.kind = "decode" /\ r.at = "read" /\ r.ids = <<>> /\ r.mid = q.mid /\ r.todo = rest
        /\ r.sent = q.sent /\ r.out = out /\ r.tag = q.tag /\ r.result = "none"
    BY <1>1, <2>e DEF Requests
  <2>7. /\ Len(q.out) + Len(q.todo) = Len(q.sent)
        /\ \A i \in 1..Len(q.todo) :
             /\ q.todo[i] \in 1..lastId
             /\ q.todo[i] \in DOMAIN blobs => /\ blobs[q.todo[i]].chunk = q.sent[Len(q.out) + i]
                                              /\ blobs[q.todo[i]].tag = q.tag
        /\ \A i \in 1..Len(q.out) : RawUnderTag(q.sent[i], q.tag) \/ q.out[i] = q.sent[i]
    BY <1>1 DEF Serving, DecodesOn
  <2>f. PICK m \in Nat, n \in Nat :
          /\ n >= 1 /\ Len(q.todo) = n /\ Len(rest) = n - 1
          /\ Len(q.out) = m /\ Len(out) = m + 1 /\ m + n = Len(q.sent)
    BY <2>3, <2>4, <2>7
  <2>8. Len(out) + Len(rest) = Len(q.sent)
    <3>1. (m + 1) + (n - 1) = m + n
      OBVIOUS
    <3> QED BY <2>f, <3>1
  <2>9. ASSUME NEW i \in 1..Len(rest)
        PROVE  /\ rest[i] \in 1..lastId
               /\ rest[i] \in DOMAIN blobs => /\ blobs[rest[i]].chunk = q.sent[Len(out) + i]
                                              /\ blobs[rest[i]].tag = q.tag
    <3>1. i + 1 \in 1..Len(q.todo) /\ Len(q.out) + (i + 1) = Len(out) + i
      <4>1. i \in 1..(n - 1)
        BY <2>f, <2>9
      <4>2. i + 1 \in 1..n /\ m + (i + 1) = (m + 1) + i
        BY <4>1
      <4> QED BY <2>f, <4>2
    <3>2. rest[i] = q.todo[i + 1]
      BY <2>3
    <3> QED BY <2>7, <3>1, <3>2
  <2>10. ASSUME NEW i \in 1..Len(out) PROVE RawUnderTag(q.sent[i], q.tag) \/ out[i] = q.sent[i]
    <3>1. CASE i \in 1..Len(q.out)
      BY <2>4, <2>7, <3>1
    <3>2. CASE i = Len(q.out) + 1
      <4>1. blobs[b].chunk = q.sent[i] /\ blobs[b].tag = q.tag
        <5>1. b \in DOMAIN blobs /\ 1 \in 1..Len(q.todo)
          BY <1>3, <2>3, <2>a
        <5> QED BY <2>3, <2>7, <3>2, <5>1
      <4> QED BY <2>2, <2>4, <3>2, <4>1
    <3> QED BY <2>4, <3>1, <3>2
  <2>11. DecodesOn(r)
    BY <2>3, <2>6, <2>8, <2>9, <2>10 DEF DecodesOn
  <2>12. Serving(r)
    BY <1>1, <2>6, <2>11, RequestIs DEF Serving, Encoding, Encodes, DecodeDone, TrainsOn, TrainReady
  <2>13. Goes(c, r)
    BY <2>1, <2>6 DEF Goes, HasMstate
  <2> QED BY <1>1, <2>5, <2>12, <2>13, GoesOn
<1> QED BY <1>2, <1>3

LEMMA DecodeFinishKeeps ==
  ASSUME Stored, NEW c \in Clients, DecodeFinish(c)
  PROVE  Stored'
<1>1. /\ Done(c, "success") /\ req[c].kind = "decode" /\ req[c].at = "read" /\ req[c].todo = <<>>
      /\ UNCHANGED <<archive, lastId, requests>>
  BY DEF DecodeFinish, At
<1> QED BY <1>1, Answered

-----------------------------------------------------------------------------
(* train *)
LEMMA TrainStartKeeps ==
  ASSUME Stored, NEW c \in Clients, NEW t \in Tags, NEW chunks \in Streams, TrainStart(c, t, chunks)
  PROVE  Stored'
<1>1. chunks \in Seq(Chunks) /\ t \in Marks
  BY PipelineAssumption DEF Marks
<1>a. PICK r : r = Request("train", "check", NoId, t, chunks)
  OBVIOUS
<1>2. r \in Requests
  BY <1>1, <1>a, NewRequests
<1>3. r.kind = "train" /\ r.at = "check" /\ r.todo = chunks /\ r.ids = <<>> /\ r.mid = NoId /\ r.tag = t
  BY <1>a DEF Request
<1>4. req' = [req EXCEPT ![c] = r] /\ requests' \in [Clients -> Nat] /\ UNCHANGED <<archive, lastId>>
  BY <1>a, RequestIs DEF TrainStart, Begin
<1>5. Serving(r)
  BY <1>1, <1>3 DEF Serving, Encoding, Encodes, DecodesOn, DecodeDone, TrainsOn, TrainReady
<1>6. Goes(c, r)
  BY <1>3, <1>4 DEF Goes, HasMstate
<1> QED BY <1>2, <1>4, <1>5, <1>6, GoesOn

\* A training session, and where it may go on.
LEMMA TrainIs ==
  ASSUME Stored, NEW c \in Clients, req[c].kind = "train", req[c].at # "idle"
  PROVE  /\ req[c].todo \in Seq(Chunks) /\ req[c].tag \in Tags /\ req[c].ids = <<>>
         /\ req[c].mid \in 1..lastId \cup {NoId}
BY RequestIs DEF Serving, TrainsOn, Encodes

TrainStep(q, r) ==
  /\ r.kind = "train" /\ r.tag = q.tag /\ r.ids = q.ids
  /\ r.at \in {"check", "inject", "uninstall", "install"}
  /\ r.todo \in Seq(Chunks) /\ (r.at # "check" => r.todo # <<>>)

LEMMA TrainGoesOn ==
  ASSUME Stored, NEW c \in Clients, req[c].kind = "train", req[c].at # "idle", NEW r \in Requests,
         TrainStep(req[c], r), req' = [req EXCEPT ![c] = r],
         \/ r.mid = NoId \/ r.mid = req[c].mid
         \/ \E t \in DOMAIN tags : r.mid = tags[t],
         UNCHANGED <<archive, lastId, requests>>
  PROVE  Stored'
<1>1. req[c].tag \in Tags /\ req[c].ids = <<>> /\ req[c].mid \in 1..lastId \cup {NoId} /\ requests \in [Clients -> Nat]
  BY TrainIs, RequestIs
<1>2. r.mid \in 1..lastId \cup {NoId}
  BY <1>1 DEF Stored, Tables
<1>3. Serving(r)
  BY <1>1, <1>2 DEF TrainStep, Serving, Encoding, Encodes, DecodesOn, DecodeDone, TrainsOn, TrainReady
<1>4. Goes(c, r)
  BY DEF Goes, TrainStep, HasMstate
<1> QED BY <1>1, <1>3, <1>4, GoesOn

LEMMA TrainJobFails ==
  ASSUME Stored, NEW c \in Clients, req[c].kind = "train", req[c].at # "idle", req[c].todo # <<>>,
         JobFails(c, "check"), UNCHANGED <<archive, lastId, requests>>
  PROVE  Stored'
<1> PICK q : q = req[c]
  OBVIOUS
<1>1. q \in Requests /\ q.todo \in Seq(Chunks) /\ q.kind = "train"
  BY RequestIs, TrainIs
<1>2. Tail(q.todo) \in Seq(Chunks) /\ Tail(q.todo) \in Seq(Chunks \cup Nat)
  BY <1>1, TailIs, SeqMonotonic
<1>a. PICK r : r = [q EXCEPT !.at = "check", !.todo = Tail(@), !.mid = NoId]
  OBVIOUS
<1>3. req' = [req EXCEPT ![c] = r]
  BY <1>a, RequestIs DEF JobFails
<1>4. r \in Requests
  BY <1>1, <1>2, <1>a DEF Requests
<1>5. TrainStep(q, r) /\ r.mid = NoId
  BY <1>1, <1>2, <1>a DEF TrainStep, Requests
<1> QED BY <1>3, <1>4, <1>5, TrainGoesOn

LEMMA TrainCheckKeeps ==
  ASSUME Stored, NEW c \in Clients, TrainCheck(c)
  PROVE  Stored'
<1> PICK q : q = req[c]
  OBVIOUS
<1>1. /\ q \in Requests /\ q.todo \in Seq(Chunks) /\ q.kind = "train" /\ q.at = "check" /\ q.todo # <<>>
      /\ UNCHANGED <<archive, lastId, requests>>
  BY RequestIs, TrainIs DEF TrainCheck, At
<1>2. ASSUME NEW at \in {"inject", "install"},
             req' = [req EXCEPT ![c] = [q EXCEPT !.at = at, !.mstate = EmptyMstate]]
      PROVE  Stored'
  <2>a. PICK r : r = [q EXCEPT !.at = at, !.mstate = EmptyMstate]
    OBVIOUS
  <2>1. r \in Requests
    BY <1>1, <2>a, MstateTypes DEF Requests
  <2>2. TrainStep(q, r) /\ r.mid = q.mid
    BY <1>1, <2>a DEF TrainStep, Requests
  <2> QED BY <1>1, <1>2, <2>a, <2>1, <2>2, TrainGoesOn
<1>3. CASE q.tag \in DOMAIN tags
  <2>1. req' = [req EXCEPT ![c] = [q EXCEPT !.at = "inject", !.mstate = EmptyMstate]]
    BY <1>3, RequestIs DEF TrainCheck
  <2> QED BY <1>2, <2>1
<1>4. CASE q.tag \notin DOMAIN tags
  <2>1. req' = [req EXCEPT ![c] = [q EXCEPT !.at = "install", !.mstate = EmptyMstate]]
    BY <1>4, RequestIs DEF TrainCheck
  <2> QED BY <1>2, <2>1
<1> QED BY <1>3, <1>4

LEMMA TrainInjectKeeps ==
  ASSUME Stored, NEW c \in Clients, TrainInject(c)
  PROVE  Stored'
<1> PICK q : q = req[c]
  OBVIOUS
<1>1. /\ q \in Requests /\ q.todo \in Seq(Chunks) /\ q.kind = "train" /\ q.at = "inject" /\ q.todo # <<>>
      /\ UNCHANGED <<archive, lastId, requests>>
  BY RequestIs, TrainIs DEF TrainInject, At, Serving, TrainReady
<1>2. CASE q.tag \in DOMAIN tags
  <2>a. PICK r : r = [q EXCEPT !.at = "uninstall", !.mid = tags[q.tag], !.mstate = mstates[tags[q.tag]]]
    OBVIOUS
  <2>1. req' = [req EXCEPT ![c] = r]
    BY <1>2, <2>a, RequestIs DEF TrainInject
  <2>2. tags[q.tag] \in Nat /\ mstates[tags[q.tag]] \in Mstates
    BY <1>2 DEF Stored, Typed, ArchiveTyped, Tables
  <2>3. r \in Requests
    BY <1>1, <2>a, <2>2 DEF Requests
  <2>4. TrainStep(q, r) /\ r.mid = tags[q.tag]
    BY <1>1, <2>a DEF TrainStep, Requests
  <2> QED BY <1>1, <1>2, <2>1, <2>3, <2>4, TrainGoesOn
<1>3. CASE q.tag \notin DOMAIN tags
  <2>1. JobFails(c, "check")
    BY <1>3 DEF TrainInject
  <2> QED BY <1>1, <2>1, TrainJobFails
<1> QED BY <1>2, <1>3

LEMMA TrainFinishKeeps ==
  ASSUME Stored, NEW c \in Clients, TrainFinish(c)
  PROVE  Stored'
<1>1. /\ Done(c, "success") /\ req[c].kind = "train" /\ req[c].at = "check"
      /\ UNCHANGED <<archive, lastId, requests>>
  BY DEF TrainFinish, At
<1> QED BY <1>1, Answered

LEMMA TrainInstallKeeps ==
  ASSUME Stored, NEW c \in Clients, TrainInstall(c)
  PROVE  Stored'
<1> PICK q : q = req[c]
  OBVIOUS
<1>1. /\ q \in Requests /\ q.todo \in Seq(Chunks) /\ q.kind = "train" /\ q.at = "install" /\ q.todo # <<>>
      /\ q.tag \in Tags /\ q.ids = <<>> /\ q.mstate \in Mstates /\ UNCHANGED <<files, blobs, requests>>
      /\ requests \in [Clients -> Nat] /\ q.mid \in 1..lastId \cup {NoId}
  BY RequestIs, TrainIs DEF TrainInstall, At, Serving, TrainReady, Requests
<1>2. CASE q.tag \in DOMAIN tags
  <2>1. JobFails(c, "check") /\ UNCHANGED <<archive, lastId>>
    BY <1>1, <1>2 DEF TrainInstall, archive
  <2> QED BY <1>1, <2>1, TrainJobFails
<1>3. CASE q.tag \notin DOMAIN tags
  <2>a. PICK ms : ms = Trained(Head(q.todo), q.mstate)
    OBVIOUS
  <2>b. PICK r : r = [q EXCEPT !.at = "check", !.todo = Tail(@)]
    OBVIOUS
  <2>1. /\ InstallMstate(q.tag, ms) /\ req' = [req EXCEPT ![c] = r]
    BY <1>3, <2>a, <2>b, RequestIs DEF TrainInstall
  <2>2. ms \in Mstates /\ ms.alg = "VICTINI"
    BY <1>1, <2>a, TailIs, MstateTypes
  <2>3. MstateAdded(ms)
    BY <1>1, <1>3, <2>1, <2>2 DEF MstateAdded, InstallMstate
  <2>4. Tail(q.todo) \in Seq(Chunks) /\ Tail(q.todo) \in Seq(Chunks \cup Nat)
    BY <1>1, TailIs, SeqMonotonic
  <2>5. r \in Requests
    BY <1>1, <2>b, <2>4 DEF Requests
  <2>6. r.kind = "train" /\ r.at = "check" /\ r.todo = Tail(q.todo) /\ r.tag = q.tag /\ r.ids = <<>> /\ r.mid = q.mid
    BY <1>1, <2>b DEF Requests
  <2>7. r.mid \in 1..lastId' \cup {NoId}
    BY <1>1, <2>1, <2>6 DEF InstallMstate, Stored, Typed, ArchiveTyped
  <2>8. Serving(r)'
    BY <1>1, <2>4, <2>6, <2>7 DEF Serving, Encoding, Encodes, DecodesOn, DecodeDone, TrainsOn, TrainReady
  <2>9. ~HasMstate(r)
    BY <2>6 DEF HasMstate
  <2> QED BY <1>1, <2>1, <2>2, <2>3, <2>5, <2>6, <2>8, <2>9, AddsMstate
<1> QED BY <1>2, <1>3

-----------------------------------------------------------------------------
(* Steps that take things out of the archive *)
Within(g, f) == DOMAIN g \subseteq DOMAIN f /\ g = [x \in DOMAIN g |-> f[x]]

LEMMA WithinIs ==
  ASSUME NEW f, NEW g, Within(g, f)
  PROVE  /\ \A x \in DOMAIN g : x \in DOMAIN f /\ g[x] = f[x]
         /\ \A S : f \in [DOMAIN f -> S] => g \in [DOMAIN g -> S]
BY DEF Within

LEMMA WithinSelf ==
  /\ \A f, S : f \in [DOMAIN f -> S] => Within(f, f)
  /\ \A f, x : Within(Drop(f, x), f) /\ DOMAIN Drop(f, x) = DOMAIN f \ {x}
  /\ \A f, S : S \subseteq DOMAIN f => Within(Restricted(f, S), f) /\ DOMAIN Restricted(f, S) = S
BY DEF Within, Drop, Restricted

\* What is left of the archive refers only to what is left.
Shrinks(c) ==
  /\ Within(files', files) /\ Within(tags', tags) /\ Within(mstates', mstates) /\ Within(blobs', blobs)
  /\ lastId' = lastId
  /\ \A t \in DOMAIN tags' : tags[t] \in DOMAIN mstates'
  /\ \A b \in DOMAIN blobs' : blobs[b].mstate \in DOMAIN mstates'
  /\ \A p \in DOMAIN files' : \A i \in 1..Len(files[p].ids) : files[p].ids[i] \in DOMAIN blobs'
  /\ \A e \in Clients : \A i \in 1..Len(req[e].ids) : req[e].ids[i] \in DOMAIN blobs'
  /\ \A e \in Clients \ {c} : HasMstate(req[e]) => req[e].mid \in DOMAIN mstates'

LEMMA ShrinksKeeps ==
  ASSUME Stored, NEW c \in Clients, NEW r \in Requests, Shrinks(c), Goes(c, r), Serving(r)',
         r.mid = NoId \/ r.mid = req[c].mid, requests' \in [Clients -> Nat]
  PROVE  Stored'
<1>1. /\ \A p \in DOMAIN files' : p \in DOMAIN files /\ files'[p] = files[p]
      /\ \A t \in DOMAIN tags' : t \in DOMAIN tags /\ tags'[t] = tags[t]
      /\ \A m \in DOMAIN mstates' : m \in DOMAIN mstates /\ mstates'[m] = mstates[m]
      /\ \A b \in DOMAIN blobs' : b \in DOMAIN blobs /\ blobs'[b] = blobs[b]
      /\ lastId' = lastId /\ lastId \in Nat /\ NoId \notin Nat
  BY WithinIs, PipelineAssumption DEF Shrinks, Stored, Typed, ArchiveTyped
<1>2. ArchiveTyped'
  <2>1. /\ files' \in [DOMAIN files' -> Entries] /\ tags' \in [DOMAIN tags' -> Nat]
        /\ mstates' \in [DOMAIN mstates' -> Mstates] /\ blobs' \in [DOMAIN blobs' -> Blobs]
    BY WithinIs DEF Shrinks, Stored, Typed, ArchiveTyped
  <2> QED BY <1>1, <2>1 DEF Stored, Typed, ArchiveTyped
<1>3. Aged
  BY <1>1 DEF Aged
<1>4. Tables'
  <2>1. \A t \in DOMAIN tags' : tags'[t] \in DOMAIN mstates' /\ mstates'[tags'[t]].alg = "VICTINI"
    BY <1>1 DEF Shrinks, Stored, Tables
  <2>2. ASSUME NEW b \in DOMAIN blobs'
        PROVE  /\ blobs'[b].mstate \in DOMAIN mstates'
               /\ RawUnderTag(blobs'[b].chunk, blobs'[b].tag) \/ Decodes(b)'
    BY <1>1 DEF Shrinks, Stored, Tables, Decodes
  <2>3. \A t, u \in DOMAIN tags' : tags'[t] = tags'[u] => t = u
    BY <1>1 DEF Stored, Tables
  <2> QED BY <1>1, <2>1, <2>2, <2>3 DEF Stored, Tables
<1>5. FilesHold'
  BY <1>1, <1>3, FilesStay DEF Shrinks, Stored, Typed
<1>6. BlobsApart'
  BY <1>1, ApartStays DEF Goes
<1>7. ASSUME NEW e \in Clients, e # c, HasMstate(req[e])
      PROVE  /\ req[e].mid \in DOMAIN mstates'
             /\ \A t \in DOMAIN tags' : tags'[t] # req[e].mid
             /\ \A b \in DOMAIN blobs' : blobs'[b].mstate # req[e].mid
             /\ r.mid # req[e].mid
  <2>1. req[e].mid \in DOMAIN mstates'
    BY <1>7 DEF Shrinks
  <2> QED BY <1>1, <1>7, <2>1, MstateIsOwn
<1>8. Spares(c, r)
  BY <1>3, <1>7 DEF Spares, Shrinks, Goes
<1>9. Encoded(c)'
  <2>1. req'[c] = r
    BY RequestIs DEF Goes
  <2> QED BY <2>1 DEF Encoded, Goes
<1> QED BY <1>2, <1>4, <1>5, <1>6, <1>8, <1>9, StepStored

LEMMA UninstallShrinks ==
  ASSUME Stored, NEW c \in Clients, NEW t \in Tags, CanUninstall(t), UninstallMstate(t),
         UNCHANGED <<files, blobs, lastId>>
  PROVE  Shrinks(c)
<1> PICK m : m = tags[t]
  OBVIOUS
<1>1. t \in DOMAIN tags /\ tags' = Drop(tags, t) /\ mstates' = Drop(mstates, m)
  BY DEF CanUninstall, UninstallMstate
<1>2. /\ Within(tags', tags) /\ DOMAIN tags' = DOMAIN tags \ {t}
      /\ Within(mstates', mstates) /\ DOMAIN mstates' = DOMAIN mstates \ {m}
      /\ Within(files, files) /\ Within(blobs, blobs)
  BY <1>1, WithinSelf DEF Stored, Typed, ArchiveTyped
<1>3. \A b \in DOMAIN blobs : blobs[b].mstate # m
  BY DEF CanUninstall, Users
<1>4. /\ \A u \in DOMAIN tags' : tags[u] \in DOMAIN mstates'
      /\ \A b \in DOMAIN blobs : blobs[b].mstate \in DOMAIN mstates'
  BY <1>1, <1>2, <1>3 DEF Stored, Tables
<1>5. \A e \in Clients \ {c} : HasMstate(req[e]) => req[e].mid \in DOMAIN mstates'
  BY <1>1, <1>2, MstateIsOwn
<1> QED BY <1>2, <1>4, <1>5, HeldAreThere DEF Shrinks

LEMMA RemoveShrinks ==
  ASSUME Stored, NEW c \in Clients, NEW p \in DOMAIN files, RemoveFile(p), UNCHANGED <<tags, lastId>>
  PROVE  Shrinks(c)
<1> DEFINE gone  == {files[p].ids[i] : i \in DOMAIN files[p].ids}
           left  == DOMAIN blobs \ gone
           freed == {blobs[b].mstate : b \in gone} \ ({blobs[b].mstate : b \in left} \cup {tags[t] : t \in DOMAIN tags})
<1>1. /\ files' = Drop(files, p) /\ blobs' = Restricted(blobs, left)
      /\ mstates' = Restricted(mstates, DOMAIN mstates \ freed)
  BY DEF RemoveFile
<1>2. DOMAIN files[p].ids = 1..Len(files[p].ids)
  BY DEF Stored, Typed, ArchiveTyped, Entries
<1>3. /\ gone \subseteq DOMAIN blobs
      /\ \A i \in 1..Len(files[p].ids) : files[p].ids[i] \in gone
      /\ \A b \in gone : \E i \in 1..Len(files[p].ids) : b = files[p].ids[i]
  BY <1>2, HeldAreThere
<1>4. /\ \A m \in freed : \E b \in DOMAIN blobs : m = blobs[b].mstate
      /\ \A b \in left : blobs[b].mstate \notin freed
      /\ \A t \in DOMAIN tags : tags[t] \notin freed
  BY <1>3
<1>5. left \subseteq DOMAIN blobs /\ \A b \in DOMAIN blobs : b \notin gone => b \in left
  OBVIOUS
<1> HIDE DEF gone, left, freed
<1>6. /\ Within(files', files) /\ DOMAIN files' = DOMAIN files \ {p}
      /\ Within(blobs', blobs) /\ DOMAIN blobs' = left
      /\ Within(mstates', mstates) /\ DOMAIN mstates' = DOMAIN mstates \ freed
      /\ Within(tags', tags)
  <2>1. Within(files', files) /\ DOMAIN files' = DOMAIN files \ {p}
    BY <1>1, WithinSelf
  <2>2. Within(blobs', blobs) /\ DOMAIN blobs' = left
    BY <1>1, <1>5, WithinSelf
  <2>3. Within(mstates', mstates) /\ DOMAIN mstates' = DOMAIN mstates \ freed
    <3>1. DOMAIN mstates \ freed \subseteq DOMAIN mstates
      OBVIOUS
    <3> QED BY <1>1, <3>1, WithinSelf
  <2>4. Within(tags', tags)
    BY WithinSelf DEF Stored, Typed, ArchiveTyped
  <2> QED BY <2>1, <2>2, <2>3, <2>4
<1>7. \A t \in DOMAIN tags' : tags[t] \in DOMAIN mstates'
  BY <1>4, <1>6 DEF Stored, Tables
<1>8. \A b \in DOMAIN blobs' : blobs[b].mstate \in DOMAIN mstates'
  BY <1>4, <1>5, <1>6 DEF Stored, Tables
<1>9. ASSUME NEW q \in DOMAIN files', NEW i \in 1..Len(files[q].ids) PROVE files[q].ids[i] \in DOMAIN blobs'
  <2>1. q \in DOMAIN files /\ q # p
    BY <1>6
  <2>2. Apart(files[q].ids, files[p].ids)
    BY <2>1 DEF Stored, BlobsApart
  <2> QED BY <1>3, <1>5, <1>6, <2>1, <2>2, HeldAreThere DEF Apart
<1>10. ASSUME NEW e \in Clients, NEW i \in 1..Len(req[e].ids) PROVE req[e].ids[i] \in DOMAIN blobs'
  <2>1. Apart(req[e].ids, files[p].ids)
    BY DEF Stored, BlobsApart
  <2> QED BY <1>3, <1>5, <1>6, <2>1, HeldAreThere DEF Apart
<1>11. \A e \in Clients \ {c} : HasMstate(req[e]) => req[e].mid \in DOMAIN mstates'
  BY <1>4, <1>6, MstateIsOwn
<1> QED BY <1>6, <1>7, <1>8, <1>9, <1>10, <1>11 DEF Shrinks

LEMMA TrainUninstallKeeps ==
  ASSUME Stored, NEW c \in Clients, TrainUninstall(c)
  PROVE  Stored'
<1> PICK q : q = req[c]
  OBVIOUS
<1>1. /\ q \in Requests /\ q.todo \in Seq(Chunks) /\ q.kind = "train" /\ q.at = "uninstall" /\ q.todo # <<>>
      /\ q.tag \in Tags /\ q.ids = <<>> /\ UNCHANGED <<files, blobs, lastId, requests>>
      /\ requests \in [Clients -> Nat] /\ q.mid \in 1..lastId \cup {NoId}
  BY RequestIs, TrainIs DEF TrainUninstall, At, Serving, TrainReady, Requests
<1>2. CASE CanUninstall(q.tag)
  <2>a. PICK r : r = [q EXCEPT !.at = "install"]
    OBVIOUS
  <2>1. UninstallMstate(q.tag) /\ req' = [req EXCEPT ![c] = r]
    BY <1>2, <2>a, RequestIs DEF TrainUninstall
  <2>2. r \in Requests
    BY <1>1, <2>a DEF Requests
  <2>3. r.kind = "train" /\ r.at = "install" /\ r.todo = q.todo /\ r.tag = q.tag /\ r.ids = <<>> /\ r.mid = q.mid
    BY <1>1, <2>a DEF Requests
  <2>4. Serving(r)'
    BY <1>1, <2>3 DEF Serving, Encoding, Encodes, DecodesOn, DecodeDone, TrainsOn, TrainReady
  <2>5. Goes(c, r)
    BY <2>1, <2>3 DEF Goes, HasMstate
  <2>6. Shrinks(c)
    BY <1>1, <1>2, <2>1, UninstallShrinks
  <2> QED BY <1>1, <2>2, <2>3, <2>4, <2>5, <2>6, ShrinksKeeps
<1>3. CASE ~CanUninstall(q.tag)
  <2>1. JobFails(c, "check") /\ UNCHANGED archive
    BY <1>1, <1>3 DEF TrainUninstall, archive
  <2> QED BY <1>1, <2>1, TrainJobFails
<1> QED BY <1>2, <1>3

-----------------------------------------------------------------------------
(* Requests of one archive call *)
LEMMA OneCall ==
  ASSUME Stored, NEW c \in Clients, NEW kind \in {"delete", "write"},
         Begin(c, [NoRequest EXCEPT !.kind = kind])
  PROVE  \E r \in Requests : /\ Goes(c, r) /\ Serving(r)' /\ r.mid = NoId /\ r.ids = <<>> /\ ~HasMstate(r)
                             /\ req' = [req EXCEPT ![c] = r] /\ requests' \in [Clients -> Nat]
<1>a. PICK r : r = [NoRequest EXCEPT !.kind = kind]
  OBVIOUS
<1>1. r.kind = kind /\ r.at = "idle" /\ r.ids = <<>> /\ r.mid = NoId
  BY <1>a DEF NoRequest, Request
<1>2. r \in Requests
  <2>1. kind \in Kinds /\ "none" \in {"none", "success", "error"}
    BY DEF Kinds
  <2> QED BY <1>a, <2>1, NewRequests, Relabelled
<1>3. req' = [req EXCEPT ![c] = r] /\ requests' \in [Clients -> Nat]
  BY <1>a, RequestIs DEF Begin
<1>4. Serving(r)'
  BY <1>1 DEF Serving, Encoding, Encodes, DecodesOn, DecodeDone, TrainsOn, TrainReady
<1>5. Goes(c, r) /\ ~HasMstate(r)
  BY <1>1, <1>3 DEF Goes, HasMstate
<1> QED BY <1>1, <1>2, <1>3, <1>4, <1>5

LEMMA DeleteFileKeeps ==
  ASSUME Stored, NEW c \in Clients, NEW p \in Files, DeleteFile(c, p)
  PROVE  Stored'
<1>1. p \in DOMAIN files /\ RemoveFile(p) /\ UNCHANGED <<tags, lastId>>
      /\ Begin(c, [NoRequest EXCEPT !.kind = "delete"])
  BY DEF DeleteFile
<1>2. Shrinks(c)
  BY <1>1, RemoveShrinks
<1> QED BY <1>1, <1>2, OneCall, ShrinksKeeps

LEMMA DeleteMstateKeeps ==
  ASSUME Stored, NEW c \in Clients, NEW t \in Tags, DeleteMstate(c, t)
  PROVE  Stored'
<1>1. CanUninstall(t) /\ UninstallMstate(t) /\ UNCHANGED <<files, blobs, lastId>>
      /\ Begin(c, [NoRequest EXCEPT !.kind = "delete"])
  BY DEF DeleteMstate
<1>2. Shrinks(c)
  BY <1>1, UninstallShrinks
<1> QED BY <1>1, <1>2, OneCall, ShrinksKeeps

LEMMA WriteMstateKeeps ==
  ASSUME Stored, NEW c \in Clients, NEW t \in Tags, WriteMstate(c, t)
  PROVE  Stored'
<1>a. PICK ms : ms = Mstate("VICTINI", {c})
  OBVIOUS
<1>1. /\ t \notin DOMAIN tags /\ InstallMstate(t, ms) /\ UNCHANGED <<files, blobs>>
      /\ Begin(c, [NoRequest EXCEPT !.kind = "write"])
  BY <1>a DEF WriteMstate
<1>2. ms \in Mstates /\ ms.alg = "VICTINI"
  BY <1>a, MstateTypes
<1>3. MstateAdded(ms)
  BY <1>1, <1>2 DEF MstateAdded, InstallMstate
<1> QED BY <1>1, <1>2, <1>3, OneCall, AddsMstate

-----------------------------------------------------------------------------
(* The invariant *)
LEMMA InitStored == Init => Stored
<1> SUFFICES ASSUME Init PROVE Stored
  OBVIOUS
<1>1. /\ DOMAIN files = {} /\ DOMAIN tags = {} /\ DOMAIN mstates = {} /\ DOMAIN blobs = {} /\ lastId = 0
      /\ files = [x \in {} |-> x] /\ tags = [x \in {} |-> x]
      /\ mstates = [x \in {} |-> x] /\ blobs = [x \in {} |-> x]
  BY DEF Init, EmptyMap
<1>2. req = [c \in Clients |-> NoRequest] /\ requests = [c \in Clients |-> 0]
  BY DEF Init
<1>3. Typed
  BY <1>1, <1>2, NewRequests DEF Typed, ArchiveTyped
<1>4. Tables
  BY <1>1 DEF Tables
<1>5. FilesHold
  BY <1>1 DEF FilesHold
<1>6. NoRequest.ids = <<>> /\ NoRequest.mid = NoId /\ NoRequest.kind = "none"
  BY NewRequests
<1>7. BlobsApart
  <2>1. \A c \in Clients : \A i \in 1..Len(req[c].ids) : FALSE
    BY <1>2, <1>6
  <2> QED BY <1>1, <2>1 DEF BlobsApart, Apart
<1>8. Serving(NoRequest) /\ ~HasMstate(NoRequest)
  BY <1>6 DEF Serving, Encoding, Encodes, DecodesOn, DecodeDone, TrainsOn, TrainReady, HasMstate
<1>9. \A c \in Clients : Serving(req[c]) /\ Encoded(c)
  BY <1>2, <1>8 DEF Encoded
<1> QED BY <1>3, <1>4, <1>5, <1>7, <1>9 DEF Stored

LEMMA NextStored == Stored /\ [Next]_vars => Stored'
<1> SUFFICES ASSUME Stored, [Next]_vars PROVE Stored'
  OBVIOUS
<1>1. ASSUME NEW c \in Clients, Continue(c) PROVE Stored'
  BY <1>1, EncodeInjectKeeps, EncodeCompressKeeps, EncodeWriteKeeps, EncodeFinishKeeps,
     DecodeBlobKeeps, DecodeFinishKeeps, TrainCheckKeeps, TrainInjectKeeps, TrainUninstallKeeps,
     TrainInstallKeeps, TrainFinishKeeps DEF Continue
<1>2. ASSUME NEW c \in Clients, NewRequest(c) PROVE Stored'
  BY <1>2, EncodeStartKeeps, DecodeStartKeeps, TrainStartKeeps, DeleteFileKeeps, DeleteMstateKeeps,
     WriteMstateKeeps DEF NewRequest
<1>3. ASSUME UNCHANGED vars PROVE Stored'
  <2>1. UNCHANGED <<files, tags, mstates, blobs, lastId, req, requests>>
    BY <1>3 DEF vars, archive
  <2>2. Typed' /\ Tables' /\ FilesHold' /\ BlobsApart'
    <3>1. Typed'
      BY <2>1 DEF Stored, Typed, ArchiveTyped
    <3>2. Tables'
      BY <2>1 DEF Stored, Tables, Decodes
    <3>3. FilesHold'
      BY <2>1 DEF Stored, FilesHold, Holds
    <3>4. BlobsApart'
      BY <2>1 DEF Stored, BlobsApart, Apart
    <3> QED BY <3>1, <3>2, <3>3, <3>4
  <2>3. ASSUME NEW c \in Clients PROVE (Serving(req[c]) /\ Encoded(c))'
    <3>1. Serving(req[c])'
      BY <2>1 DEF Stored, Serving, Encoding, EncodeHolds, Holds, EncodeInjected, EncodePacked, DecodesOn,
                  DecodeDone, TrainsOn, TrainReady
    <3>2. Encoded(c)'
      BY <2>1 DEF Stored, Encoded
    <3> QED BY <3>1, <3>2
  <2> QED BY <2>2, <2>3 DEF Stored
<1> QED BY <1>1, <1>2, <1>3 DEF Next

LEMMA AlwaysStored == Spec => []Stored
BY InitStored, NextStored, PTL DEF Spec

\* Ids are handed out in order, and the tables refer to ids handed out (TypeOK).
THEOREM PipelineTyped == Spec => []TypeOK
<1>1. Stored => TypeOK
  <2> SUFFICES ASSUME Stored PROVE TypeOK
    OBVIOUS
  <2>1. \A p \in DOMAIN files : /\ files[p].sent \in Seq(Chunks)
                                /\ \A i \in DOMAIN files[p].ids : files[p].ids[i] \in 1..lastId
    <3>1. \A p \in DOMAIN files : files[p].sent \in Seq(Chunks) /\ DOMAIN files[p].ids = 1..Len(files[p].ids)
      BY DEF Stored, Typed, ArchiveTyped, Entries
    <3> QED BY <3>1, HeldAreThere DEF Stored, Tables
  <2>2. \A m \in DOMAIN mstates : mstates[m].alg \in {"UNCOMPRESSED", "VICTINI"}
    BY DEF Stored, Typed, ArchiveTyped, Mstates
  <2>3. \A c \in Clients : req[c].result \in {"none", "success", "error"}
    BY RequestIs DEF Requests
  <2> QED BY <2>1, <2>2, <2>3 DEF TypeOK, Stored, Typed, ArchiveTyped, Tables
<1> QED BY <1>1, AlwaysStored, PTL

\* For any sessions, tags and chunks: what was stored can be had back. The mstate
\* a blob names is in the archive and decodes it (processor.cpp, hzp_encode and
\* hzp_train; StoredBlobsDecode).
THEOREM EveryStoredBlobDecodes == Spec => []StoredBlobsDecode
<1>1. Stored => StoredBlobsDecode
  BY DEF Stored, Tables, StoredBlobsDecode
<1> QED BY <1>1, AlwaysStored, PTL

\* A file for which an encode stream answered success holds what was sent, or
\* under a tag what is left when failed chunks are taken out (FilesComplete).
THEOREM EncodedFilesComplete == Spec => []FilesComplete
<1>1. ASSUME Stored, NEW p \in DOMAIN files
      PROVE  LET held == [i \in DOMAIN files[p].ids |-> blobs[files[p].ids[i]].chunk]
             IN  /\ \A i \in DOMAIN files[p].ids : files[p].ids[i] \in DOMAIN blobs
                 /\ IF files[p].tag = NoTag THEN held = files[p].sent ELSE Among(held, files[p].sent)
  <2> PICK f : f = files[p]
    OBVIOUS
  <2> DEFINE held == [i \in DOMAIN f.ids |-> blobs[f.ids[i]].chunk]
  <2>1. /\ f.sent \in Seq(Chunks) /\ DOMAIN f.ids = 1..Len(f.ids) /\ DOMAIN f.sent = 1..Len(f.sent)
        /\ Len(f.sent) \in Nat /\ Holds(f.ids, f.sent, Len(f.sent), f.tag)
    BY <1>1 DEF Stored, Typed, ArchiveTyped, Entries, FilesHold
  <2>2. \A i \in DOMAIN f.ids : f.ids[i] \in DOMAIN blobs
    BY <2>1 DEF Holds
  <2>3. CASE f.tag = NoTag
    <3>1. Len(f.ids) = Len(f.sent) /\ \A i \in 1..Len(f.sent) : blobs[f.ids[i]].chunk = f.sent[i]
      BY <2>1, <2>3 DEF Holds
    <3>2. f.sent = [i \in 1..Len(f.sent) |-> f.sent[i]]
      BY <2>1
    <3>3. held = [i \in 1..Len(f.sent) |-> f.sent[i]]
      BY <2>1, <3>1
    <3> QED BY <2>2, <2>3, <3>2, <3>3
  <2>4. CASE f.tag # NoTag
    <3>1. PICK pick \in [1..Len(f.ids) -> 1..Len(f.sent)] :
            /\ \A i, j \in 1..Len(f.ids) : i < j => pick[i] < pick[j]
            /\ \A i \in 1..Len(f.ids) : blobs[f.ids[i]].chunk = f.sent[pick[i]]
      BY <2>1, <2>4 DEF Holds
    <3>2. DOMAIN held = 1..Len(f.ids) /\ \A i \in 1..Len(f.ids) : held[i] = blobs[f.ids[i]].chunk
      BY <2>1
    <3> HIDE DEF held
    <3>3. Among(held, f.sent)
      BY <2>1, <3>1, <3>2 DEF Among
    <3> QED BY <2>2, <2>4, <3>3 DEF held
  <2> QED BY <2>3, <2>4
<1>2. Stored => FilesComplete
  BY <1>1 DEF FilesComplete
<1> QED BY <1>2, AlwaysStored, PTL

\* A decode stream that succeeds sent the chunks of the file it started on,
\* whatever was removed, replaced or trained meanwhile (DecodeReturnsFile).
THEOREM DecodedFileReturned == Spec => []DecodeReturnsFile
<1>1. Stored => DecodeReturnsFile
  <2> SUFFICES ASSUME Stored, NEW c \in Clients, req[c].kind = "decode", req[c].result = "success"
               PROVE  /\ Len(req[c].out) = Len(req[c].sent)
                      /\ \A i \in DOMAIN req[c].out :
                           RawUnderTag(req[c].sent[i], req[c].tag) \/ req[c].out[i] = req[c].sent[i]
    BY DEF DecodeReturnsFile
  <2>1. DOMAIN req[c].out = 1..Len(req[c].out)
    BY RequestIs DEF Requests
  <2> QED BY <2>1, RequestIs DEF Serving, DecodeDone
<1> QED BY <1>1, AlwaysStored, PTL
=============================================================================
