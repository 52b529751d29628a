--------------------------- MODULE RegistryProofs ---------------------------
(***************************************************************************)
(* Proof that a manifest the registry accepted keeps its blobs unless its  *)
(* PUT met a collection that was taking one, and that the registry         *)
(* implements ImageStore, for any blobs, manifests, tags, requests and     *)
(* faults; and that without faults the row of a blob leads to the bytes of *)
(* its digest, if clients keep to one request of a session.                *)
(***************************************************************************)
EXTENDS Registry, SequenceTheorems, TLAPS

\* What a request holds where it needs it.
SoundAt(q, pc) ==
  /\ pc \in {"insertUpload", "loPut", "setReceived", "digest", "existing", "insertBlob",
             "unlink", "deleteUpload", "deleteBlob"} => q.o \in Object
  /\ pc = "loPut" => q.chunk \in Chunk
  /\ pc = "loPut" /\ q.op # "patch" => q.d \in Blob
  /\ pc \in {"digest", "existing", "insertBlob", "deleteBlob"} => q.d \in Blob
  /\ pc \in {"checkRef", "insertManifest", "upsertTag"} => q.m \in Manifest
  /\ pc = "checkRef" => q.n <= Len(Refs[q.m])
  /\ pc = "insertManifest" => q.n = Len(Refs[q.m])
  /\ pc \in {"upsertTag", "untag"} => q.t \in Tag
SoundRequest(q) == q \in Requests /\ SoundAt(q, q.pc)

RequestsSound == req \in [Request -> Requests] /\ \A r \in Request : SoundRequest(req[r])

\* A blob is there, or a client deleted it.
Kept(x) == x \in Blob => blobs[x] # 0 \/ x \in removed

\* It is, and no collection is about to take it.
Held(x) == x \in Blob => (blobs[x] # 0 \/ x \in removed) /\ ~Listed(x)

\* What a PUT has looked up is held, unless it met the collection.
PutsChecked ==
  \A r \in Putting \ met : \A i \in 1..req[r].n : Held(Refs[req[r].m][i])

\* What a manifest refers to is held, unless its PUT met the collection.
ManifestsHeld == \A m \in manifests \ met : \A d \in BlobRefs(m) : Held(d)

TablesTyped ==
  /\ created \in 0..MaxObjects
  /\ objects \in [Object -> SUBSET Seq(Chunk)]
  /\ uploads \in [Object -> [row : BOOLEAN, received : Nat, expired : BOOLEAN]]
  /\ blobs \in [Blob -> Object \cup {0}]
  /\ manifests \subseteq Manifest
  /\ tags \in [Tag -> Manifest \cup {None}]
  /\ removed \subseteq Blob /\ met \subseteq Request \cup Manifest

CollectionTyped ==
  /\ gc = [pc |-> gc.pc, todo |-> gc.todo, cur |-> gc.cur]
  /\ gc.pc \in {"idle", "uploads", "manifests", "blobs"}
  /\ gc.pc = "idle" => gc.todo = {}
  /\ gc.pc = "uploads" => gc.todo \subseteq Object
  /\ gc.pc = "manifests" => gc.todo \subseteq Manifest
  /\ gc.pc = "blobs" => gc.todo \subseteq Blob \X Object
  /\ gc.cur \subseteq gc.todo

Typed == TablesTyped /\ CollectionTyped /\ RequestsSound /\ faults \in 0..MaxFaults

\* The inductive invariant.
RegistryInv == Typed /\ PutsChecked /\ ManifestsHeld

-----------------------------------------------------------------------------
\* A step of a request replaces its record and no other.
LEMMA RequestStep ==
  ASSUME RequestsSound, NEW r \in Request, NEW rec, SoundRequest(rec),
         req' = [req EXCEPT ![r] = rec]
  PROVE  RequestsSound'
<1>1. rec \in Requests
  BY DEF SoundRequest
<1>2. req' \in [Request -> Requests]
  BY <1>1 DEF RequestsSound
<1>3. \A s \in Request : req'[s] = IF s = r THEN rec ELSE req[s]
  BY DEF RequestsSound
<1>4. \A s \in Request : SoundRequest(req'[s])
  BY <1>3 DEF RequestsSound
<1> QED
  BY <1>2, <1>4 DEF RequestsSound, SoundRequest, SoundAt, Requests, Places, Object

LEMMA IdleSound == SoundRequest(Idle)
  BY DEF SoundRequest, SoundAt, Idle, Requests, Places, Object

LEMMA DoneSound ==
  ASSUME RequestsSound, NEW r \in Request, Done(r)
  PROVE  RequestsSound'
  BY IdleSound, RequestStep DEF Done

\* A request that goes on needs what the next statement uses.
LEMMA GotoSound ==
  ASSUME RequestsSound, NEW r \in Request, NEW pc \in Places, Goto(r, pc),
         SoundAt(req[r], pc)
  PROVE  RequestsSound'
<1> DEFINE rec == [req[r] EXCEPT !.pc = pc]
<1>1. req' = [req EXCEPT ![r] = rec]
  BY DEF Goto
<1>2. req[r] \in Requests
  BY DEF RequestsSound
<1>3. rec \in Requests /\ rec.pc = pc
  BY <1>2 DEF Requests
<1>4. SoundAt(rec, pc)
  BY <1>2 DEF SoundAt, Requests
<1>5. SoundRequest(rec)
  BY <1>3, <1>4 DEF SoundRequest
<1> HIDE DEF rec
<1> QED
  BY <1>1, <1>5, RequestStep

\* A request that starts has the record its handler gives it.
LEMMA StartSound ==
  ASSUME RequestsSound, NEW r \in Request, NEW rec, Start(r, rec), SoundRequest(rec)
  PROVE  RequestsSound'
  BY RequestStep DEF Start

LEMMA UploadKeepsSound ==
  ASSUME Typed, NEW r \in Request, Upload(r)
  PROVE  RequestsSound'
<1>0. RequestsSound /\ req[r] \in Requests /\ SoundAt(req[r], req[r].pc)
  BY DEF Typed, RequestsSound, SoundRequest
<1>1. \A o \in Object : uploads[o].received \in Nat
  BY DEF Typed, TablesTyped
<1>2. ASSUME NEW o \in Object, UploadInit(r, o)
      PROVE  RequestsSound'
  <2> DEFINE rec == [Idle EXCEPT !.op = "init", !.pc = "insertUpload", !.o = o]
  <2>1. SoundRequest(rec)
    BY DEF SoundRequest, SoundAt, Idle, Requests, Places
  <2>2. Start(r, rec)
    BY <1>2 DEF UploadInit
  <2> HIDE DEF rec
  <2> QED
    BY <2>1, <2>2, <1>0, StartSound
<1>3. ASSUME NEW o \in Object, UploadCancel(r, o)
      PROVE  RequestsSound'
  <2> DEFINE rec == [Idle EXCEPT !.op = "cancel", !.pc = "unlink", !.o = o]
  <2>1. SoundRequest(rec)
    BY DEF SoundRequest, SoundAt, Idle, Requests, Places
  <2>2. Start(r, rec)
    BY <1>3 DEF UploadCancel
  <2> HIDE DEF rec
  <2> QED
    BY <2>1, <2>2, <1>0, StartSound
<1>4. ASSUME NEW o \in Object, NEW c \in Chunk, UploadPatch(r, o, c)
      PROVE  RequestsSound'
  <2> DEFINE rec == [Idle EXCEPT !.op = "patch", !.pc = "loPut", !.o = o, !.chunk = c,
                                 !.n = uploads[o].received]
  <2>1. SoundRequest(rec)
    BY <1>1 DEF SoundRequest, SoundAt, Idle, Requests, Places
  <2>2. Start(r, rec)
    BY <1>4 DEF UploadPatch
  <2> HIDE DEF rec
  <2> QED
    BY <2>1, <2>2, <1>0, StartSound
<1>5. ASSUME NEW o \in Object, NEW d \in Blob, NEW c \in Chunk, UploadMonolithic(r, o, d, c)
      PROVE  RequestsSound'
  <2> DEFINE rec == [Idle EXCEPT !.op = "monolithic", !.pc = "loPut", !.o = o, !.d = d,
                                 !.chunk = c]
  <2>1. SoundRequest(rec)
    BY DEF SoundRequest, SoundAt, Idle, Requests, Places
  <2>2. Start(r, rec)
    BY <1>5 DEF UploadMonolithic
  <2> HIDE DEF rec
  <2> QED
    BY <2>1, <2>2, <1>0, StartSound
<1>6. ASSUME NEW o \in Object, NEW d \in Blob, NEW c \in Chunk \cup {None},
             UploadComplete(r, o, d, c)
      PROVE  RequestsSound'
  <2> DEFINE rec == [Idle EXCEPT !.op = "complete",
                                 !.pc = IF c = None THEN "digest" ELSE "loPut",
                                 !.o = o, !.d = d, !.chunk = c, !.n = uploads[o].received]
  <2>1. SoundRequest(rec)
    BY <1>1 DEF SoundRequest, SoundAt, Idle, Requests, Places
  <2>2. Start(r, rec)
    BY <1>6 DEF UploadComplete
  <2> HIDE DEF rec
  <2> QED
    BY <2>1, <2>2, <1>0, StartSound
<1>7. CASE InsertRegistryUpload(r)
  BY <1>7, <1>0, DoneSound DEF InsertRegistryUpload
<1>8. CASE LoPut(r)
  <2> DEFINE rec == [req[r] EXCEPT !.n = req[r].n + 1,
                !.pc = IF req[r].op = "patch" THEN "setReceived" ELSE "digest"]
  <2>1. CASE Done(r)
    BY <2>1, <1>0, DoneSound
  <2>2. CASE ~Done(r)
    <3>1. req' = [req EXCEPT ![r] = rec]
      BY <1>8, <2>2 DEF LoPut
    <3>2. req[r].pc = "loPut"
      BY <1>8 DEF LoPut, At
    <3> DEFINE pc == IF req[r].op = "patch" THEN "setReceived" ELSE "digest"
    <3>3. rec \in Requests /\ rec.pc \in {"setReceived", "digest"} /\ rec.o = req[r].o
            /\ rec.d = req[r].d /\ (rec.pc = "digest" => req[r].op # "patch")
      <4>1. pc \in {"setReceived", "digest"} /\ pc \in Places
        BY DEF Places
      <4>2. req[r].n + 1 \in Nat
        BY <1>0 DEF Requests
      <4>3. pc = "digest" => req[r].op # "patch"
        OBVIOUS
      <4>4. rec = [req[r] EXCEPT !.n = req[r].n + 1, !.pc = pc]
        OBVIOUS
      <4> HIDE DEF pc, rec
      <4>5. rec \in Requests /\ rec.pc = pc
        BY <1>0, <4>1, <4>2, <4>4 DEF Requests
      <4>6. rec.o = req[r].o /\ rec.d = req[r].d
        BY <1>0, <4>4 DEF Requests
      <4> QED
        BY <4>1, <4>3, <4>5, <4>6
    <3> HIDE DEF rec
    <3>4. SoundRequest(rec)
      BY <1>0, <3>2, <3>3 DEF SoundRequest, SoundAt
    <3> QED
      BY <3>1, <3>4, <1>0, RequestStep
  <2> QED
    BY <2>1, <2>2
<1>9. CASE UpdateRegistryUploadReceived(r)
  BY <1>9, <1>0, DoneSound DEF UpdateRegistryUploadReceived
<1>10. CASE ComputeBlobDigest(r)
  <2>1. \A pc \in {"unlink", "insertBlob", "existing"} : SoundAt(req[r], pc) /\ pc \in Places
    BY <1>0, <1>10 DEF SoundAt, ComputeBlobDigest, At, Places
  <2>2. Done(r) \/ \E pc \in {"unlink", "insertBlob", "existing"} : Goto(r, pc)
    BY <1>10 DEF ComputeBlobDigest
  <2> QED
    BY <2>1, <2>2, <1>0, GotoSound, DoneSound
<1>11. CASE LookUpExisting(r)
  <2>1. \A pc \in {"unlink", "insertBlob"} : SoundAt(req[r], pc) /\ pc \in Places
    BY <1>0, <1>11 DEF SoundAt, LookUpExisting, At, Places
  <2>2. \E pc \in {"unlink", "insertBlob"} : Goto(r, pc)
    BY <1>11 DEF LookUpExisting
  <2> QED
    BY <2>1, <2>2, <1>0, GotoSound
<1>12. CASE InsertRegistryBlob(r)
  <2>1. SoundAt(req[r], "deleteUpload") /\ "deleteUpload" \in Places
    BY <1>0, <1>12 DEF SoundAt, InsertRegistryBlob, At, Places
  <2>2. Done(r) \/ Goto(r, "deleteUpload")
    BY <1>12 DEF InsertRegistryBlob
  <2> QED
    BY <2>1, <2>2, <1>0, GotoSound, DoneSound
<1>13. CASE UnlinkBlobOid(r)
  <2>1. SoundAt(req[r], "deleteUpload") /\ "deleteUpload" \in Places
    BY <1>0, <1>13 DEF SoundAt, UnlinkBlobOid, At, Places
  <2>2. Done(r) \/ Goto(r, "deleteUpload")
    BY <1>13 DEF UnlinkBlobOid
  <2> QED
    BY <2>1, <2>2, <1>0, GotoSound, DoneSound
<1>14. CASE DeleteRegistryUpload(r)
  BY <1>14, <1>0, DoneSound DEF DeleteRegistryUpload
<1> QED
  BY <1>2, <1>3, <1>4, <1>5, <1>6, <1>7, <1>8, <1>9, <1>10, <1>11, <1>12, <1>13, <1>14
     DEF Upload

LEMMA ContentKeepsSound ==
  ASSUME Typed, NEW r \in Request, Content(r)
  PROVE  RequestsSound'
<1>0. RequestsSound /\ req[r] \in Requests /\ SoundAt(req[r], req[r].pc)
  BY DEF Typed, RequestsSound, SoundRequest
<1>2. ASSUME NEW p \in Pushes, ManifestPut(r, p[1], p[2])
      PROVE  RequestsSound'
  <2> DEFINE rec == [Idle EXCEPT !.op = "put", !.pc = "checkRef", !.m = p[1], !.t = p[2]]
  <2>1. p[1] \in Manifest /\ p[2] \in Tag \cup {None} /\ Len(Refs[p[1]]) \in Nat
    BY RegistryAssumption, LenProperties
  <2>2. rec \in Requests /\ rec.pc = "checkRef" /\ rec.m = p[1] /\ rec.n = 0
    BY <2>1 DEF Idle, Requests, Places
  <2>3. Start(r, rec)
    BY <1>2 DEF ManifestPut
  <2> HIDE DEF rec
  <2>4. SoundRequest(rec)
    BY <2>1, <2>2 DEF SoundRequest, SoundAt
  <2> QED
    BY <2>3, <2>4, <1>0, StartSound
<1>3. CASE CheckRef(r)
  <2> DEFINE rec == [req[r] EXCEPT !.n = req[r].n + 1]
             len == Len(Refs[req[r].m])
  <2>0. req[r].pc = "checkRef" /\ req[r].m \in Manifest /\ req[r].n \in Nat
          /\ req[r].n <= len /\ len \in Nat
    <3>1. req[r].pc = "checkRef"
      BY <1>3 DEF CheckRef, At
    <3>2. req[r].m \in Manifest /\ req[r].n \in Nat /\ req[r].n <= len
      BY <1>0, <3>1 DEF SoundAt, Requests
    <3> QED
      BY <3>1, <3>2, LenProperties, RegistryAssumption
  <2>1. CASE Goto(r, "insertManifest") /\ req[r].n = len
    <3>1. SoundAt(req[r], "insertManifest") /\ "insertManifest" \in Places
      BY <2>1, <2>0 DEF SoundAt, Places
    <3> QED
      BY <3>1, <2>1, <1>0, GotoSound
  <2>2. CASE req' = [req EXCEPT ![r] = rec] /\ req[r].n # len
    <3>1. rec \in Requests /\ rec.pc = "checkRef" /\ rec.n <= len /\ rec.m = req[r].m
      BY <2>2, <2>0, <1>0 DEF Requests
    <3> HIDE DEF rec
    <3>2. SoundRequest(rec)
      BY <3>1, <2>0 DEF SoundRequest, SoundAt
    <3> QED
      BY <2>2, <3>2, <1>0, RequestStep
  <2> QED
    BY <2>1, <2>2, <1>0, <1>3, DoneSound DEF CheckRef
<1>4. CASE InsertRegistryManifest(r)
  <2>1. req[r].t # None => SoundAt(req[r], "upsertTag")
    BY <1>0, <1>4 DEF SoundAt, InsertRegistryManifest, At, Requests
  <2>2. Done(r) \/ (Goto(r, "upsertTag") /\ req[r].t # None)
    BY <1>4 DEF InsertRegistryManifest
  <2>3. "upsertTag" \in Places
    BY DEF Places
  <2> QED
    BY <2>1, <2>2, <2>3, <1>0, GotoSound, DoneSound
<1>5. CASE UpsertRegistryTag(r)
  BY <1>5, <1>0, DoneSound DEF UpsertRegistryTag
<1>6. ASSUME NEW t \in Tag, ManifestDelete(r, t)
      PROVE  RequestsSound'
  <2> DEFINE rec == [Idle EXCEPT !.op = "delete", !.pc = "listTags", !.m = tags[t], !.t = t]
  <2>1. tags[t] \in Manifest
    BY <1>6 DEF ManifestDelete, Typed, TablesTyped
  <2>2. SoundRequest(rec)
    BY <2>1 DEF SoundRequest, SoundAt, Idle, Requests, Places
  <2>3. Start(r, rec)
    BY <1>6 DEF ManifestDelete
  <2> HIDE DEF rec
  <2> QED
    BY <2>2, <2>3, <1>0, StartSound
<1>7. ASSUME NEW t \in Tag, DeleteRegistryTag(r, t)
      PROVE  RequestsSound'
  <2> DEFINE rec == [req[r] EXCEPT !.todo = req[r].todo \ {t}]
  <2>1. req' = [req EXCEPT ![r] = rec]
    BY <1>7 DEF DeleteRegistryTag
  <2>2. req[r].pc = "deleteTags"
    BY <1>7 DEF DeleteRegistryTag, At
  <2>3. rec \in Requests /\ rec.pc = req[r].pc
    BY <1>0 DEF Requests
  <2> HIDE DEF rec
  <2>4. SoundRequest(rec)
    BY <2>2, <2>3 DEF SoundRequest, SoundAt
  <2> QED
    BY <2>1, <2>4, <1>0, RequestStep
<1>8. ASSUME NEW t \in Tag, DeleteTag(r, t)
      PROVE  RequestsSound'
  <2> DEFINE rec == [Idle EXCEPT !.op = "untag", !.pc = "untag", !.m = tags[t], !.t = t]
  <2>1. tags[t] \in Manifest
    BY <1>8 DEF DeleteTag, Typed, TablesTyped
  <2>2. SoundRequest(rec)
    BY <2>1 DEF SoundRequest, SoundAt, Idle, Requests, Places
  <2>3. Start(r, rec)
    BY <1>8 DEF DeleteTag
  <2> HIDE DEF rec
  <2> QED
    BY <2>2, <2>3, <1>0, StartSound
<1>9. CASE ListRegistryTagsForRepo(r)
  <2> DEFINE rec == [req[r] EXCEPT !.pc = "deleteTags",
                !.todo = {t \in TagsOf(req[r].m) : RepoOf[t] = RepoOf[req[r].t]}]
  <2>1. req' = [req EXCEPT ![r] = rec]
    BY <1>9 DEF ListRegistryTagsForRepo
  <2>2. rec \in Requests /\ rec.pc = "deleteTags"
    BY <1>0 DEF Requests, TagsOf, Places
  <2> HIDE DEF rec
  <2>3. SoundRequest(rec)
    BY <2>2 DEF SoundRequest, SoundAt
  <2> QED
    BY <2>1, <2>3, <1>0, RequestStep
<1>10. CASE DeleteRegistryManifestIfUnreferenced(r)
  BY <1>10, <1>0, DoneSound DEF DeleteRegistryManifestIfUnreferenced
<1>11. CASE Untag(r)
  <2>1. Goto(r, "otherTags") /\ SoundAt(req[r], "otherTags") /\ "otherTags" \in Places
    BY <1>11 DEF Untag, SoundAt, Places
  <2> QED
    BY <2>1, <1>0, GotoSound
<1>12. CASE OtherTags(r)
  <2>1. SoundAt(req[r], "deleteManifest") /\ "deleteManifest" \in Places
    BY DEF SoundAt, Places
  <2>2. Done(r) \/ Goto(r, "deleteManifest")
    BY <1>12 DEF OtherTags
  <2> QED
    BY <2>1, <2>2, <1>0, GotoSound, DoneSound
<1>13. CASE DeleteManifest(r)
  BY <1>13, <1>0, DoneSound DEF DeleteManifest
<1>14. ASSUME NEW d \in Blob, BlobDelete(r, d)
       PROVE  RequestsSound'
  <2> DEFINE rec == [Idle EXCEPT !.op = "blob", !.pc = "deleteBlob", !.d = d, !.o = blobs[d]]
  <2>1. blobs[d] \in Object
    BY <1>14 DEF BlobDelete, Typed, TablesTyped
  <2>2. SoundRequest(rec)
    BY <2>1 DEF SoundRequest, SoundAt, Idle, Requests, Places
  <2>3. Start(r, rec)
    BY <1>14 DEF BlobDelete
  <2> HIDE DEF rec
  <2> QED
    BY <2>2, <2>3, <1>0, StartSound
<1>15. CASE DeleteRegistryBlob(r)
  <2>1. Goto(r, "unlink") /\ SoundAt(req[r], "unlink") /\ "unlink" \in Places
    BY <1>0, <1>15 DEF DeleteRegistryBlob, SoundAt, At, Places
  <2> QED
    BY <2>1, <1>0, GotoSound
<1> QED
  BY <1>2, <1>3, <1>4, <1>5, <1>6, <1>7, <1>8, <1>9, <1>10, <1>11, <1>12, <1>13,
     <1>14, <1>15 DEF Content

\* The requests stay sound, whatever step is taken.
LEMMA RequestsStaySound ==
  ASSUME Typed, Next
  PROVE  RequestsSound'
<1>0. RequestsSound
  BY DEF Typed
<1>1. ASSUME UNCHANGED req
      PROVE  RequestsSound'
  BY <1>0, <1>1 DEF RequestsSound, SoundRequest, SoundAt, Requests, Places, Object
<1>2. CASE \E o \in Object : UploadExpires(o)
  BY <1>2, <1>1 DEF UploadExpires
<1>3. CASE Collection
  BY <1>3, <1>1 DEF Collection, ListExpiredRegistryUploads, ListOrphanRegistryManifests,
     ListOrphanRegistryBlobs, UnlinkExpired, DeleteExpired, DeleteOrphanManifest,
     UnlinkOrphan, DeleteOrphan, CollectionEnds
<1>4. ASSUME NEW r \in Request, RequestFails(r)
      PROVE  RequestsSound'
  BY <1>4, <1>0, DoneSound DEF RequestFails
<1>5. ASSUME NEW r \in Request, StatementCaught(r)
      PROVE  RequestsSound'
  <2>1. \A pc \in {"deleteUpload", "unlink"} : SoundAt(req[r], pc) /\ pc \in Places
    BY <1>5, <1>0 DEF StatementCaught, At, RequestsSound, SoundRequest, SoundAt, Places
  <2>2. \E pc \in {"deleteUpload", "unlink"} : Goto(r, pc)
    BY <1>5 DEF StatementCaught
  <2> QED
    BY <2>1, <2>2, <1>0, GotoSound
<1>6. CASE (\E x \in gc.todo : CollectionItemFails(x)) \/ CollectionDies
  BY <1>6, <1>1 DEF CollectionItemFails, CollectionDies
<1> QED
  BY <1>2, <1>3, <1>4, <1>5, <1>6, UploadKeepsSound, ContentKeepsSound DEF Next, Failure

-----------------------------------------------------------------------------
\* An lo_put leaves a sequence of chunks.
LEMMA WrittenTyped ==
  ASSUME NEW b \in Seq(Chunk), NEW n \in Nat, NEW c \in Chunk
  PROVE  Written(b, n, c) \in Seq(Chunk)
<1>1. CASE n < Len(b)
  BY <1>1, ExceptSeq, LenProperties DEF Written
<1>2. CASE ~(n < Len(b))
  BY <1>2, AppendProperties DEF Written
<1> QED
  BY <1>1, <1>2

LEMMA UploadKeepsTables ==
  ASSUME Typed, NEW r \in Request, Upload(r)
  PROVE  TablesTyped'
<1>0. TablesTyped /\ req[r] \in Requests /\ SoundAt(req[r], req[r].pc)
  BY DEF Typed, RequestsSound, SoundRequest
<1>1. NoUpload \in [row : BOOLEAN, received : Nat, expired : BOOLEAN]
  BY DEF NoUpload
<1>2. ASSUME NEW o \in Object, CreateBlobOid(o),
             UNCHANGED <<uploads, blobs, manifests, tags, removed, met>>
      PROVE  TablesTyped'
  <2>1. created' \in 0..MaxObjects
    BY <1>2, RegistryAssumption DEF CreateBlobOid, Object
  <2>2. {<<>>} \in SUBSET Seq(Chunk)
    BY EmptySeq
  <2> QED
    BY <2>1, <2>2, <1>2, <1>0 DEF TablesTyped, CreateBlobOid, Object
<1>3. ASSUME UNCHANGED tables
      PROVE  TablesTyped'
  BY <1>3, <1>0 DEF TablesTyped, tables, Object
<1>4. CASE \E o \in Object : UploadCancel(r, o)
  BY <1>0, <1>1, <1>4 DEF UploadCancel, TablesTyped, Object
<1>5. CASE InsertRegistryUpload(r)
  <2>1. [NoUpload EXCEPT !.row = TRUE] \in [row : BOOLEAN, received : Nat, expired : BOOLEAN]
    BY DEF NoUpload
  <2> QED
    BY <2>1, <1>0, <1>5 DEF InsertRegistryUpload, TablesTyped, Object
<1>6. CASE LoPut(r)
  <2>1. req[r].o \in Object /\ req[r].n \in Nat /\ req[r].chunk \in Chunk
    BY <1>0, <1>6 DEF LoPut, At, SoundAt, Requests
  <2>2. objects' \in [Object -> SUBSET Seq(Chunk)]
    <3>1. CASE UNCHANGED objects
      BY <3>1, <1>0 DEF TablesTyped
    <3>2. CASE objects' = [objects EXCEPT ![req[r].o] =
                {Written(b, req[r].n, req[r].chunk) : b \in objects[req[r].o]}]
      <4>0. objects[req[r].o] \subseteq Seq(Chunk)
        BY <2>1, <1>0 DEF TablesTyped
      <4>1. {Written(b, req[r].n, req[r].chunk) : b \in objects[req[r].o]} \in SUBSET Seq(Chunk)
        BY <2>1, <4>0, WrittenTyped
      <4> QED
        BY <4>1, <3>2, <1>0 DEF TablesTyped
    <3> QED
      BY <3>1, <3>2, <1>6 DEF LoPut
  <2> QED
    BY <2>2, <1>0, <1>6 DEF LoPut, TablesTyped, Object
<1>7. CASE UpdateRegistryUploadReceived(r)
  <2>1. req[r].n \in Nat
    BY <1>0 DEF Requests
  <2> QED
    BY <2>1, <1>0, <1>7 DEF UpdateRegistryUploadReceived, TablesTyped, Object
<1>8. CASE InsertRegistryBlob(r)
  <2>1. req[r].o \in Object /\ req[r].d \in Blob
    BY <1>0, <1>8 DEF InsertRegistryBlob, At, SoundAt
  <2> QED
    BY <2>1, <1>0, <1>8 DEF InsertRegistryBlob, TablesTyped, Object
<1>9. CASE UnlinkBlobOid(r)
  BY <1>0, <1>9 DEF UnlinkBlobOid, TablesTyped, Object
<1>10. CASE DeleteRegistryUpload(r)
  BY <1>0, <1>1, <1>10 DEF DeleteRegistryUpload, TablesTyped, Object
<1> QED
  BY <1>2, <1>3, <1>4, <1>5, <1>6, <1>7, <1>8, <1>9, <1>10 DEF Upload, UploadInit,
     UploadPatch, UploadMonolithic, UploadComplete, ComputeBlobDigest, LookUpExisting

LEMMA ContentKeepsTables ==
  ASSUME Typed, NEW r \in Request, Content(r)
  PROVE  TablesTyped'
<1>0. TablesTyped /\ req[r] \in Requests /\ SoundAt(req[r], req[r].pc)
  BY DEF Typed, RequestsSound, SoundRequest
<1>1. ASSUME UNCHANGED tables
      PROVE  TablesTyped'
  BY <1>1, <1>0 DEF TablesTyped, tables, Object
<1>2. CASE InsertRegistryManifest(r)
  <2>1. req[r].m \in Manifest
    BY <1>0, <1>2 DEF InsertRegistryManifest, At, SoundAt
  <2> QED
    BY <2>1, <1>0, <1>2 DEF InsertRegistryManifest, TablesTyped, Object
<1>3. CASE UpsertRegistryTag(r)
  BY <1>0, <1>3 DEF UpsertRegistryTag, TablesTyped, Object
<1>4. CASE \E t \in Tag : DeleteRegistryTag(r, t)
  BY <1>0, <1>4 DEF DeleteRegistryTag, TablesTyped, Object
<1>5. CASE DeleteRegistryManifestIfUnreferenced(r)
  BY <1>0, <1>5 DEF DeleteRegistryManifestIfUnreferenced, TablesTyped, Object
<1>6. CASE Untag(r)
  BY <1>0, <1>6 DEF Untag, TablesTyped, Object
<1>7. CASE DeleteManifest(r)
  BY <1>0, <1>7 DEF DeleteManifest, TablesTyped, Object
<1>8. CASE DeleteRegistryBlob(r)
  <2>1. req[r].d \in Blob
    BY <1>0, <1>8 DEF DeleteRegistryBlob, At, SoundAt
  <2> QED
    BY <2>1, <1>0, <1>8 DEF DeleteRegistryBlob, TablesTyped, Object
<1>9. CASE CheckRef(r)
  BY <1>0, <1>9 DEF CheckRef, TablesTyped, Object
<1> QED
  BY <1>1, <1>2, <1>3, <1>4, <1>5, <1>6, <1>7, <1>8, <1>9 DEF Content, ManifestPut,
     ManifestDelete, ListRegistryTagsForRepo, DeleteTag, OtherTags, BlobDelete

LEMMA TablesStayTyped ==
  ASSUME Typed, Next
  PROVE  TablesTyped' /\ faults' \in 0..MaxFaults
<1>0. TablesTyped /\ faults \in 0..MaxFaults
  BY DEF Typed
<1>1. ASSUME UNCHANGED tables
      PROVE  TablesTyped'
  BY <1>1, <1>0 DEF TablesTyped, tables, Object
<1>2. CASE Failure
  <2>1. Fault
    BY <1>2 DEF Failure, RequestFails, StatementCaught, CollectionItemFails, CollectionDies
  <2>2. ASSUME NEW r \in Request, RequestFails(r)
        PROVE  TablesTyped'
    BY <1>0, <2>2 DEF RequestFails, TablesTyped, Object
  <2>3. TablesTyped'
    BY <1>1, <1>2, <2>2 DEF Failure, StatementCaught, CollectionItemFails, CollectionDies
  <2> QED
    BY <2>1, <2>3, <1>0, RegistryAssumption DEF Fault
<1>3. CASE \E o \in Object : UploadExpires(o)
  <2>1. PICK o \in Object : UploadExpires(o)
    BY <1>3
  <2>2. uploads' \in [Object -> [row : BOOLEAN, received : Nat, expired : BOOLEAN]]
    BY <1>0, <2>1 DEF UploadExpires, TablesTyped
  <2> QED
    BY <1>0, <2>1, <2>2 DEF UploadExpires, TablesTyped, Object
<1>4. CASE Collection
  <2>1. CASE \E o \in Object : UnlinkExpired(o) \/ DeleteExpired(o)
    <3>1. NoUpload \in [row : BOOLEAN, received : Nat, expired : BOOLEAN]
      BY DEF NoUpload
    <3> QED
      BY <3>1, <1>0, <2>1 DEF UnlinkExpired, DeleteExpired, TablesTyped, Object
  <2>2. CASE \E m \in Manifest : DeleteOrphanManifest(m)
    BY <1>0, <2>2 DEF DeleteOrphanManifest, TablesTyped, Object
  <2>3. CASE \E x \in Blob \X Object : UnlinkOrphan(x) \/ DeleteOrphan(x)
    BY <1>0, <2>3 DEF UnlinkOrphan, DeleteOrphan, TablesTyped, Object
  <2>4. CASE UNCHANGED tables /\ UNCHANGED faults
    BY <1>0, <1>1, <2>4
  <2>5. CASE ListOrphanRegistryBlobs
    BY <1>0, <2>5 DEF ListOrphanRegistryBlobs, Putting, TablesTyped, Object
  <2> QED
    BY <1>4, <2>1, <2>2, <2>3, <2>4, <2>5 DEF Collection, ListExpiredRegistryUploads,
       ListOrphanRegistryManifests, CollectionEnds
<1>5. ASSUME NEW r \in Request, Upload(r) \/ Content(r)
      PROVE  UNCHANGED faults
  BY <1>5 DEF Upload, Content, UploadInit, UploadCancel, UploadPatch, UploadMonolithic,
     UploadComplete, InsertRegistryUpload, LoPut, UpdateRegistryUploadReceived,
     ComputeBlobDigest, LookUpExisting, InsertRegistryBlob, UnlinkBlobOid,
     DeleteRegistryUpload, ManifestPut, CheckRef, InsertRegistryManifest,
     UpsertRegistryTag, ManifestDelete, DeleteRegistryTag, DeleteTag,
     ListRegistryTagsForRepo, DeleteRegistryManifestIfUnreferenced, Untag, OtherTags,
     DeleteManifest, BlobDelete, DeleteRegistryBlob
<1> QED
  BY <1>0, <1>2, <1>3, <1>4, <1>5, UploadKeepsTables, ContentKeepsTables DEF Next,
     UploadExpires

LEMMA CollectTyped ==
  ASSUME NEW pc \in {"idle", "uploads", "manifests", "blobs"}, NEW todo, Collect(pc, todo),
         pc = "idle" => todo = {}, pc = "uploads" => todo \subseteq Object,
         pc = "manifests" => todo \subseteq Manifest,
         pc = "blobs" => todo \subseteq Blob \X Object
  PROVE  CollectionTyped'
<1>1. gc'.pc = pc /\ gc'.todo = todo /\ gc'.cur = {}
  BY DEF Collect
<1>2. gc' = [pc |-> gc'.pc, todo |-> gc'.todo, cur |-> gc'.cur]
  BY DEF Collect
<1> QED
  BY <1>1, <1>2 DEF CollectionTyped, Object

\* What the collection has in hand is one of its items.
LEMMA ItemsTyped ==
  ASSUME CollectionTyped, NEW todo, todo \subseteq gc.todo, NEW cur, cur \subseteq todo,
         gc' = [gc EXCEPT !.todo = todo, !.cur = cur]
  PROVE  CollectionTyped'
<1>1. gc'.pc = gc.pc /\ gc'.todo = todo /\ gc'.cur = cur
  BY DEF CollectionTyped
<1>2. gc' = [pc |-> gc'.pc, todo |-> gc'.todo, cur |-> gc'.cur]
  BY DEF CollectionTyped
<1> QED
  BY <1>1, <1>2 DEF CollectionTyped, Object

LEMMA CollectionStaysTyped ==
  ASSUME Typed, Next
  PROVE  CollectionTyped'
<1>0. CollectionTyped /\ TablesTyped
  BY DEF Typed
<1>1. ASSUME UNCHANGED gc
      PROVE  CollectionTyped'
  BY <1>0, <1>1 DEF CollectionTyped, Object
<1>2. ASSUME NEW x, NextItem(x), gc.cur \subseteq {x}
      PROVE  CollectionTyped'
  <2>1. gc' = [gc EXCEPT !.todo = gc.todo \ {x}, !.cur = {}]
    BY <1>2 DEF NextItem
  <2> QED
    BY <2>1, <1>0, ItemsTyped
<1>3. ASSUME NEW x \in gc.todo, gc' = [gc EXCEPT !.cur = {x}]
      PROVE  CollectionTyped'
  <2>1. gc' = [gc EXCEPT !.todo = gc.todo, !.cur = {x}]
    BY <1>3, <1>0 DEF CollectionTyped
  <2> QED
    BY <2>1, <1>0, ItemsTyped
<1>4. ASSUME Collect("idle", {})
      PROVE  CollectionTyped'
  BY <1>4, CollectTyped
<1>5. CASE Collection
  <2>1. CASE ListExpiredRegistryUploads
    BY <2>1, CollectTyped DEF ListExpiredRegistryUploads
  <2>2. CASE ListOrphanRegistryManifests
    <3>1. {m \in manifests : IsOrphan(m)} \subseteq Manifest
      BY <1>0 DEF TablesTyped
    <3> QED
      BY <3>1, <2>2, CollectTyped DEF ListOrphanRegistryManifests
  <2>3. CASE ListOrphanRegistryBlobs
    <3> DEFINE todo == {<<d, blobs[d]>> : d \in Orphans}
    <3>1. todo \subseteq Blob \X Object
      BY <1>0 DEF TablesTyped, Orphans
    <3>2. Collect("blobs", todo)
      BY <2>3 DEF ListOrphanRegistryBlobs
    <3> HIDE DEF todo
    <3> QED
      BY <3>1, <3>2, CollectTyped
  <2>4. ASSUME NEW o \in Object, UnlinkExpired(o)
        PROVE  CollectionTyped'
    BY <2>4, <1>2, <1>3 DEF UnlinkExpired, Item
  <2>5. ASSUME NEW o \in Object, DeleteExpired(o)
        PROVE  CollectionTyped'
    BY <2>5, <1>2 DEF DeleteExpired, Item
  <2>6. ASSUME NEW m \in Manifest, DeleteOrphanManifest(m)
        PROVE  CollectionTyped'
    BY <2>6, <1>2 DEF DeleteOrphanManifest, Item
  <2>7. ASSUME NEW x \in Blob \X Object, UnlinkOrphan(x)
        PROVE  CollectionTyped'
    BY <2>7, <1>2, <1>3 DEF UnlinkOrphan, Item
  <2>8. ASSUME NEW x \in Blob \X Object, DeleteOrphan(x)
        PROVE  CollectionTyped'
    BY <2>8, <1>2 DEF DeleteOrphan, Item
  <2>9. CASE CollectionEnds
    BY <2>9, <1>4 DEF CollectionEnds
  <2> QED
    BY <1>5, <2>1, <2>2, <2>3, <2>4, <2>5, <2>6, <2>7, <2>8, <2>9 DEF Collection
<1>6. ASSUME NEW x \in gc.todo, CollectionItemFails(x)
      PROVE  CollectionTyped'
  BY <1>6, <1>2 DEF CollectionItemFails
<1>7. CASE CollectionDies
  BY <1>7, <1>4 DEF CollectionDies
<1>8. ASSUME NEW r \in Request, Upload(r)
      PROVE  UNCHANGED gc
  BY <1>8 DEF Upload, UploadInit, UploadCancel, UploadPatch, UploadMonolithic,
     UploadComplete, InsertRegistryUpload, LoPut, UpdateRegistryUploadReceived,
     ComputeBlobDigest, LookUpExisting, InsertRegistryBlob, UnlinkBlobOid,
     DeleteRegistryUpload
<1>9. ASSUME NEW r \in Request, Content(r)
      PROVE  UNCHANGED gc
  BY <1>9 DEF Content, ManifestPut, CheckRef, InsertRegistryManifest,
     UpsertRegistryTag, ManifestDelete, DeleteRegistryTag, DeleteTag,
     ListRegistryTagsForRepo, DeleteRegistryManifestIfUnreferenced, Untag, OtherTags,
     DeleteManifest, BlobDelete, DeleteRegistryBlob
<1> QED
  BY <1>1, <1>5, <1>6, <1>7, <1>8, <1>9 DEF Next, Failure, UploadExpires, RequestFails,
     StatementCaught

LEMMA TypedStep ==
  ASSUME Typed, [Next]_vars
  PROVE  Typed'
<1>1. CASE Next
  BY <1>1, TablesStayTyped, CollectionStaysTyped, RequestsStaySound DEF Typed
<1>2. CASE UNCHANGED vars
  BY <1>2 DEF vars, tables, Typed, TablesTyped, CollectionTyped, RequestsSound,
     SoundRequest, SoundAt, Requests, Places, Object
<1> QED
  BY <1>1, <1>2

LEMMA TypedInit ==
  ASSUME Init
  PROVE  Typed
<1>1. NoUpload \in [row : BOOLEAN, received : Nat, expired : BOOLEAN]
  BY DEF NoUpload
<1>2. TablesTyped
  BY <1>1, RegistryAssumption DEF Init, TablesTyped, Object
<1>3. CollectionTyped
  BY DEF Init, CollectionTyped
<1>4. Idle \in Requests
  BY DEF Idle, Requests, Places
<1>5. RequestsSound
  BY <1>4, IdleSound DEF Init, RequestsSound
<1> QED
  BY <1>2, <1>3, <1>5, RegistryAssumption DEF Init, Typed

LEMMA TypedIsTypeOK ==
  ASSUME Typed
  PROVE  TypeOK
  BY DEF Typed, TablesTyped, CollectionTyped, RequestsSound, TypeOK

\* Every variable keeps its type, whatever requests, collections and faults do.
THEOREM RegistryTypeCorrect == Spec => []TypeOK
<1>1. Init => Typed
  BY TypedInit
<1>2. Typed /\ [Next]_vars => Typed'
  BY TypedStep
<1>3. Typed => TypeOK
  BY TypedIsTypeOK
<1> QED
  BY <1>1, <1>2, <1>3, PTL DEF Spec

-----------------------------------------------------------------------------
(* Manifests and their blobs                                               *)

\* Only an insert adds a manifest, and its request has looked up every reference.
LEMMA ManifestsStep ==
  ASSUME Next
  PROVE  \/ manifests' \subseteq manifests
         \/ \E r \in Request : InsertRegistryManifest(r)
<1>1. ASSUME NEW r \in Request, Upload(r)
      PROVE  manifests' = manifests
  BY <1>1 DEF Upload, UploadInit, UploadCancel, UploadPatch, UploadMonolithic,
     UploadComplete, InsertRegistryUpload, LoPut, UpdateRegistryUploadReceived,
     ComputeBlobDigest, LookUpExisting, InsertRegistryBlob, UnlinkBlobOid,
     DeleteRegistryUpload, tables
<1>2. ASSUME NEW r \in Request, Content(r), ~InsertRegistryManifest(r)
      PROVE  manifests' \subseteq manifests
  BY <1>2 DEF Content, ManifestPut, CheckRef,
     UpsertRegistryTag, ManifestDelete, DeleteRegistryTag, DeleteTag,
     ListRegistryTagsForRepo, DeleteRegistryManifestIfUnreferenced, Untag, OtherTags,
     DeleteManifest, BlobDelete, DeleteRegistryBlob, tables
<1>3. CASE Collection
  BY <1>3 DEF Collection, ListExpiredRegistryUploads, ListOrphanRegistryManifests,
     ListOrphanRegistryBlobs, UnlinkExpired, DeleteExpired, DeleteOrphanManifest,
     UnlinkOrphan, DeleteOrphan, CollectionEnds, tables
<1>4. CASE Failure
  BY <1>4 DEF Failure, RequestFails, StatementCaught, CollectionItemFails, CollectionDies, tables
<1>5. CASE \E o \in Object : UploadExpires(o)
  BY <1>5 DEF UploadExpires
<1> QED
  BY <1>1, <1>2, <1>3, <1>4, <1>5 DEF Next

\* Only the collection takes the row of a blob no client deleted: one it has listed.
LEMMA KeptStep ==
  ASSUME Typed, Next, NEW d \in Blob, Kept(d), ~Kept(d)'
  PROVE  Listed(d)
<1>0. TablesTyped /\ RequestsSound
  BY DEF Typed
<1>1. ASSUME UNCHANGED <<blobs, removed>>
      PROVE  FALSE
  BY <1>1 DEF Kept
<1>2. ASSUME NEW r \in Request, Upload(r)
      PROVE  FALSE
  <2>1. CASE InsertRegistryBlob(r)
    <3>1. req[r].d \in Blob /\ req[r].o \in Object
      BY <1>0, <2>1 DEF RequestsSound, SoundRequest, SoundAt, InsertRegistryBlob, At
    <3>2. req[r].o # 0
      BY <3>1 DEF Object
    <3>3. \A b \in Blob : blobs'[b] = IF b = req[r].d /\ blobs[b] = 0 THEN req[r].o ELSE blobs[b]
      BY <1>0, <2>1, <3>1 DEF InsertRegistryBlob, TablesTyped
    <3>4. removed' = removed \ {req[r].d}
      BY <2>1 DEF InsertRegistryBlob
    <3> QED
      BY <3>2, <3>3, <3>4 DEF Kept
  <2>2. CASE ~InsertRegistryBlob(r)
    BY <1>1, <1>2, <2>2 DEF Upload, UploadInit, UploadCancel, UploadPatch, UploadMonolithic,
       UploadComplete, InsertRegistryUpload, LoPut, UpdateRegistryUploadReceived,
       ComputeBlobDigest, LookUpExisting, UnlinkBlobOid, DeleteRegistryUpload, tables
  <2> QED
    BY <2>1, <2>2
<1>3. ASSUME NEW r \in Request, Content(r)
      PROVE  FALSE
  <2>1. CASE DeleteRegistryBlob(r)
    <3>1. \A b \in Blob : b # req[r].d => blobs'[b] = blobs[b]
      BY <1>0, <2>1 DEF DeleteRegistryBlob, TablesTyped
    <3>2. removed' = removed \cup {req[r].d}
      BY <2>1 DEF DeleteRegistryBlob
    <3> QED
      BY <3>1, <3>2 DEF Kept
  <2>2. CASE ~DeleteRegistryBlob(r)
    BY <1>1, <1>3, <2>2 DEF Content, ManifestPut, CheckRef, InsertRegistryManifest,
       UpsertRegistryTag, ManifestDelete, DeleteRegistryTag, DeleteTag,
       ListRegistryTagsForRepo, DeleteRegistryManifestIfUnreferenced, Untag, OtherTags,
       DeleteManifest, BlobDelete, tables
  <2> QED
    BY <2>1, <2>2
<1>4. CASE Collection
  <2>1. ASSUME NEW x \in Blob \X Object, DeleteOrphan(x)
        PROVE  gc.pc = "blobs" /\ x \in gc.todo /\ x[1] = d
    <3>1. gc.pc = "blobs" /\ x \in gc.todo
      BY <2>1 DEF DeleteOrphan, Item
    <3>2. \A b \in Blob : b # x[1] => blobs'[b] = blobs[b]
      BY <1>0, <2>1 DEF DeleteOrphan, TablesTyped
    <3>3. removed' = removed
      BY <2>1 DEF DeleteOrphan
    <3> QED
      BY <3>1, <3>2, <3>3 DEF Kept
  <2>2. CASE ~\E x \in Blob \X Object : DeleteOrphan(x)
    BY <1>1, <1>4, <2>2 DEF Collection, ListExpiredRegistryUploads,
       ListOrphanRegistryManifests, ListOrphanRegistryBlobs, UnlinkExpired, DeleteExpired,
       DeleteOrphanManifest, UnlinkOrphan, CollectionEnds, tables
  <2> QED
    BY <2>1, <2>2 DEF Listed
<1>5. CASE Failure
  BY <1>1, <1>5 DEF Failure, RequestFails, StatementCaught, CollectionItemFails, CollectionDies,
     tables
<1>6. CASE \E o \in Object : UploadExpires(o)
  BY <1>1, <1>6 DEF UploadExpires
<1> QED
  BY <1>2, <1>3, <1>4, <1>5, <1>6 DEF Next

-----------------------------------------------------------------------------
(* Requests that put a manifest, beside the collection                     *)

\* The places a request passes while it puts a manifest.
PutPlaces == {"checkRef", "insertManifest", "upsertTag"}

\* A step leaves request s alone, or takes it to a place where it puts no manifest.
Elsewhere(s) == req'[s] = req[s] \/ req'[s].pc \notin PutPlaces

LEMMA DoneElsewhere ==
  ASSUME RequestsSound, NEW r \in Request, Done(r), NEW s \in Request
  PROVE  Elsewhere(s)
  BY DEF RequestsSound, Done, Elsewhere, Idle, PutPlaces

LEMMA GotoElsewhere ==
  ASSUME RequestsSound, NEW r \in Request, NEW pc, Goto(r, pc), pc \notin PutPlaces,
         NEW s \in Request
  PROVE  Elsewhere(s)
<1>1. req'[s] = IF s = r THEN [req[r] EXCEPT !.pc = pc] ELSE req[s]
  BY DEF RequestsSound, Goto
<1>2. req[r] \in Requests
  BY DEF RequestsSound
<1>3. [req[r] EXCEPT !.pc = pc].pc = pc
  BY <1>2 DEF Requests
<1> QED
  BY <1>1, <1>3 DEF Elsewhere

LEMMA StartElsewhere ==
  ASSUME RequestsSound, NEW r \in Request, NEW rec, Start(r, rec), rec.pc \notin PutPlaces,
         NEW s \in Request
  PROVE  Elsewhere(s)
  BY DEF RequestsSound, Start, Elsewhere

LEMMA UploadElsewhere ==
  ASSUME RequestsSound, NEW r \in Request, Upload(r), NEW s \in Request
  PROVE  Elsewhere(s)
<1>1. CASE Done(r)
  BY <1>1, DoneElsewhere
<1>2. ASSUME NEW pc \in {"unlink", "existing", "insertBlob", "deleteUpload"}, Goto(r, pc)
      PROVE  Elsewhere(s)
  BY <1>2, GotoElsewhere DEF PutPlaces
<1>3. ASSUME NEW o \in Object, UploadInit(r, o)
      PROVE  Elsewhere(s)
  BY <1>3, StartElsewhere DEF UploadInit, Idle, PutPlaces
<1>4. ASSUME NEW o \in Object, UploadCancel(r, o)
      PROVE  Elsewhere(s)
  BY <1>4, StartElsewhere DEF UploadCancel, Idle, PutPlaces
<1>5. ASSUME NEW o \in Object, NEW c \in Chunk, UploadPatch(r, o, c)
      PROVE  Elsewhere(s)
  BY <1>5, StartElsewhere DEF UploadPatch, Idle, PutPlaces
<1>6. ASSUME NEW o \in Object, NEW d \in Blob, NEW c \in Chunk, UploadMonolithic(r, o, d, c)
      PROVE  Elsewhere(s)
  BY <1>6, StartElsewhere DEF UploadMonolithic, Idle, PutPlaces
<1>7. ASSUME NEW o \in Object, NEW d \in Blob, NEW c \in Chunk \cup {None},
             UploadComplete(r, o, d, c)
      PROVE  Elsewhere(s)
  BY <1>7, StartElsewhere DEF UploadComplete, Idle, PutPlaces
<1>8. CASE LoPut(r)
  <2> DEFINE pc == IF req[r].op = "patch" THEN "setReceived" ELSE "digest"
             rec == [req[r] EXCEPT !.n = req[r].n + 1, !.pc = pc]
  <2>1. CASE req' = [req EXCEPT ![r] = rec]
    <3>1. req'[s] = IF s = r THEN rec ELSE req[s]
      BY <2>1 DEF RequestsSound
    <3>2. pc \notin PutPlaces
      BY DEF PutPlaces
    <3>3. req[r] \in Requests
      BY DEF RequestsSound
    <3> HIDE DEF pc
    <3>4. rec.pc = pc
      BY <3>3 DEF Requests
    <3> QED
      BY <3>1, <3>2, <3>4 DEF Elsewhere
  <2> QED
    BY <1>1, <1>8, <2>1 DEF LoPut
<1> QED
  BY <1>1, <1>2, <1>3, <1>4, <1>5, <1>6, <1>7, <1>8 DEF Upload, InsertRegistryUpload,
     UpdateRegistryUploadReceived, ComputeBlobDigest, LookUpExisting, InsertRegistryBlob,
     UnlinkBlobOid, DeleteRegistryUpload

\* A manifest starts to be put, or the next statement of its request runs.
LEMMA ContentElsewhere ==
  ASSUME RequestsSound, NEW r \in Request, Content(r), NEW s \in Request
  PROVE  \/ Elsewhere(s)
         \/ \E p \in Pushes : ManifestPut(s, p[1], p[2])
         \/ CheckRef(s) \/ InsertRegistryManifest(s)
<1>1. CASE Done(r)
  BY <1>1, DoneElsewhere
<1>2. ASSUME NEW pc \in {"unlink", "otherTags", "deleteManifest"}, Goto(r, pc)
      PROVE  Elsewhere(s)
  BY <1>2, GotoElsewhere DEF PutPlaces
<1>3. ASSUME NEW t \in Tag, ManifestDelete(r, t)
      PROVE  Elsewhere(s)
  BY <1>3, StartElsewhere DEF ManifestDelete, Idle, PutPlaces
<1>4. ASSUME NEW t \in Tag, DeleteTag(r, t)
      PROVE  Elsewhere(s)
  BY <1>4, StartElsewhere DEF DeleteTag, Idle, PutPlaces
<1>5. ASSUME NEW d \in Blob, BlobDelete(r, d)
      PROVE  Elsewhere(s)
  BY <1>5, StartElsewhere DEF BlobDelete, Idle, PutPlaces
<1>6. ASSUME NEW rec, req' = [req EXCEPT ![r] = rec], rec.pc = "deleteTags"
      PROVE  Elsewhere(s)
  BY <1>6 DEF RequestsSound, Elsewhere, PutPlaces
<1>7. CASE ListRegistryTagsForRepo(r)
  <2> DEFINE todo == {t \in TagsOf(req[r].m) : RepoOf[t] = RepoOf[req[r].t]}
             rec == [req[r] EXCEPT !.pc = "deleteTags", !.todo = todo]
  <2>1. req' = [req EXCEPT ![r] = rec]
    BY <1>7 DEF ListRegistryTagsForRepo
  <2>2. req[r] \in Requests
    BY DEF RequestsSound
  <2> HIDE DEF todo
  <2>3. rec.pc = "deleteTags"
    BY <2>2 DEF Requests
  <2> HIDE DEF rec
  <2> QED
    BY <2>1, <2>3, <1>6
<1>8. ASSUME NEW t \in Tag, DeleteRegistryTag(r, t)
      PROVE  Elsewhere(s)
  <2> DEFINE rec == [req[r] EXCEPT !.todo = req[r].todo \ {t}]
  <2>1. req' = [req EXCEPT ![r] = rec]
    BY <1>8 DEF DeleteRegistryTag
  <2>2. req[r] \in Requests /\ req[r].pc = "deleteTags"
    BY <1>8 DEF RequestsSound, DeleteRegistryTag, At
  <2>3. rec.pc = "deleteTags"
    BY <2>2 DEF Requests
  <2> HIDE DEF rec
  <2> QED
    BY <2>1, <2>3, <1>6
<1>9. CASE r # s /\ (CheckRef(r) \/ InsertRegistryManifest(r)
                      \/ \E p \in Pushes : ManifestPut(r, p[1], p[2]))
  <2>1. req'[s] = req[s]
    BY <1>9 DEF RequestsSound, CheckRef, InsertRegistryManifest, ManifestPut, Goto, Done, Start
  <2> QED
    BY <2>1 DEF Elsewhere
<1> QED
  BY <1>1, <1>2, <1>3, <1>4, <1>5, <1>7, <1>8, <1>9 DEF Content, UpsertRegistryTag,
     DeleteRegistryManifestIfUnreferenced, Untag, OtherTags, DeleteManifest,
     DeleteRegistryBlob

LEMMA PutStep ==
  ASSUME RequestsSound, Next, NEW s \in Request
  PROVE  \/ Elsewhere(s)
         \/ \E p \in Pushes : ManifestPut(s, p[1], p[2])
         \/ CheckRef(s) \/ InsertRegistryManifest(s)
<1>1. CASE UNCHANGED req
  BY <1>1 DEF Elsewhere
<1>2. ASSUME NEW r \in Request, RequestFails(r)
      PROVE  Elsewhere(s)
  BY <1>2, DoneElsewhere DEF RequestFails
<1>3. ASSUME NEW r \in Request, StatementCaught(r)
      PROVE  Elsewhere(s)
  BY <1>3, GotoElsewhere DEF StatementCaught, PutPlaces
<1>4. CASE Collection
  BY <1>1, <1>4 DEF Collection, ListExpiredRegistryUploads, ListOrphanRegistryManifests,
     ListOrphanRegistryBlobs, UnlinkExpired, DeleteExpired, DeleteOrphanManifest,
     UnlinkOrphan, DeleteOrphan, CollectionEnds
<1>5. CASE (\E x \in gc.todo : CollectionItemFails(x)) \/ CollectionDies
  BY <1>1, <1>5 DEF CollectionItemFails, CollectionDies
<1> QED
  BY <1>1, <1>2, <1>3, <1>4, <1>5, UploadElsewhere, ContentElsewhere
     DEF Next, Failure, UploadExpires

\* The collection starts, goes on with less, moves to its next list, or is left alone.
LEMMA GcStep ==
  ASSUME CollectionTyped, Next
  PROVE  \/ UNCHANGED gc
         \/ ListExpiredRegistryUploads
         \/ UNCHANGED req /\ gc.pc # "idle" /\ gc'.pc \in {"idle", "manifests"}
         \/ ListOrphanRegistryBlobs
         \/ UNCHANGED req /\ gc'.pc = gc.pc /\ gc'.todo \subseteq gc.todo
<1>1. ASSUME NEW x, NextItem(x)
      PROVE  gc'.pc = gc.pc /\ gc'.todo \subseteq gc.todo
  BY <1>1 DEF NextItem, CollectionTyped
<1>2. ASSUME NEW x, gc' = [gc EXCEPT !.cur = {x}]
      PROVE  gc'.pc = gc.pc /\ gc'.todo \subseteq gc.todo
  BY <1>2 DEF CollectionTyped
<1>3. CASE Collection
  <2>1. CASE ListOrphanRegistryManifests \/ CollectionEnds
    BY <2>1 DEF ListOrphanRegistryManifests, CollectionEnds, Collect
  <2> QED
    BY <1>1, <1>2, <1>3, <2>1 DEF Collection, UnlinkExpired, DeleteExpired,
       DeleteOrphanManifest, UnlinkOrphan, DeleteOrphan
<1>4. CASE (\E x \in gc.todo : CollectionItemFails(x)) \/ CollectionDies
  BY <1>1, <1>4 DEF CollectionItemFails, CollectionDies, Collect
<1>5. ASSUME NEW r \in Request, Upload(r)
      PROVE  UNCHANGED gc
  BY <1>5 DEF Upload, UploadInit, UploadCancel, UploadPatch, UploadMonolithic,
     UploadComplete, InsertRegistryUpload, LoPut, UpdateRegistryUploadReceived,
     ComputeBlobDigest, LookUpExisting, InsertRegistryBlob, UnlinkBlobOid,
     DeleteRegistryUpload
<1>6. ASSUME NEW r \in Request, Content(r)
      PROVE  UNCHANGED gc
  BY <1>6 DEF Content, ManifestPut, CheckRef, InsertRegistryManifest,
     UpsertRegistryTag, ManifestDelete, DeleteRegistryTag, DeleteTag,
     ListRegistryTagsForRepo, DeleteRegistryManifestIfUnreferenced, Untag, OtherTags,
     DeleteManifest, BlobDelete, DeleteRegistryBlob
<1> QED
  BY <1>3, <1>4, <1>5, <1>6 DEF Next, Failure, UploadExpires, RequestFails, StatementCaught

\* What is held stays: only the list of orphans threatens it.
LEMMA HeldStep ==
  ASSUME Typed, Next, NEW d \in Blob, Held(d)
  PROVE  /\ Kept(d)'
         /\ Listed(d)' => ListOrphanRegistryBlobs /\ d \in Orphans
<1>0. CollectionTyped
  BY DEF Typed
<1>1. Kept(d) /\ ~Listed(d)
  BY DEF Held, Kept
<1>2. Kept(d)'
  BY <1>1, KeptStep
<1>3. ASSUME gc'.pc = "blobs", NEW x \in gc'.todo, x[1] = d
      PROVE  ListOrphanRegistryBlobs /\ d \in Orphans
  <2>1. CASE ListOrphanRegistryBlobs
    <3>1. gc'.todo = {<<b, blobs[b]>> : b \in Orphans}
      BY <2>1 DEF ListOrphanRegistryBlobs, Collect
    <3> QED
      BY <3>1, <2>1, <1>3
  <2>2. CASE ListExpiredRegistryUploads
    BY <2>2, <1>3 DEF ListExpiredRegistryUploads, Collect
  <2> QED
    BY <2>1, <2>2, <1>0, <1>1, <1>3, GcStep DEF Listed
<1> QED
  BY <1>2, <1>3 DEF Listed

\* A PUT that met the collection is through or over before that is forgotten.
LEMMA MetStep ==
  ASSUME Next
  PROVE  \/ met \subseteq met'
         \/ \E r \in Request : InsertRegistryManifest(r)
         \/ \E r \in Request : Done(r) /\ met' = met \ {r}
<1>1. ASSUME NEW r \in Request, Upload(r)
      PROVE  met' = met
  BY <1>1 DEF Upload, UploadInit, UploadCancel, UploadPatch, UploadMonolithic,
     UploadComplete, InsertRegistryUpload, LoPut, UpdateRegistryUploadReceived,
     ComputeBlobDigest, LookUpExisting, InsertRegistryBlob, UnlinkBlobOid,
     DeleteRegistryUpload, tables
<1>2. ASSUME NEW r \in Request, CheckRef(r)
      PROVE  met \subseteq met' \/ (Done(r) /\ met' = met \ {r})
  BY <1>2 DEF CheckRef
<1>3. ASSUME NEW r \in Request, Content(r), ~CheckRef(r), ~InsertRegistryManifest(r)
      PROVE  met' = met
  BY <1>3 DEF Content, ManifestPut, UpsertRegistryTag, ManifestDelete, DeleteRegistryTag,
     DeleteTag, ListRegistryTagsForRepo, DeleteRegistryManifestIfUnreferenced, Untag,
     OtherTags, DeleteManifest, BlobDelete, DeleteRegistryBlob, tables
<1>4. CASE Collection
  BY <1>4 DEF Collection, ListExpiredRegistryUploads, ListOrphanRegistryManifests,
     ListOrphanRegistryBlobs, UnlinkExpired, DeleteExpired, DeleteOrphanManifest,
     UnlinkOrphan, DeleteOrphan, CollectionEnds, tables
<1>5. CASE Failure
  BY <1>5 DEF Failure, RequestFails, StatementCaught, CollectionItemFails, CollectionDies, tables
<1>6. CASE \E o \in Object : UploadExpires(o)
  BY <1>6 DEF UploadExpires
<1> QED
  BY <1>1, <1>2, <1>3, <1>4, <1>5, <1>6 DEF Next

\* A statement that is through leaves its request where it looks nothing up.
LEMMA InsertedElsewhere ==
  ASSUME RequestsSound, NEW r \in Request, InsertRegistryManifest(r)
  PROVE  r \notin Putting'
<1>1. Done(r) \/ Goto(r, "upsertTag")
  BY DEF InsertRegistryManifest
<1>2. req[r] \in Requests
  BY DEF RequestsSound
<1>3. req'[r].pc \in {"idle", "upsertTag"}
  BY <1>1, <1>2 DEF Done, Goto, Idle, RequestsSound, Requests
<1> QED
  BY <1>3 DEF Putting, At

LEMMA ManifestsHeldStep ==
  ASSUME RegistryInv, Next
  PROVE  ManifestsHeld'
<1> SUFFICES ASSUME NEW m \in manifests' \ met', NEW d \in BlobRefs(m)
             PROVE  Held(d)'
  BY DEF ManifestsHeld, BlobRefs
<1>0. d \in Blob /\ Typed /\ manifests \subseteq Manifest /\ RequestsSound
  BY DEF BlobRefs, RegistryInv, Typed, TablesTyped
<1>1. ASSUME NEW r \in Request, InsertRegistryManifest(r), m = req[r].m
      PROVE  Held(d)'
  <2>1. /\ r \in Putting \ met /\ req[r].pc = "insertManifest"
        /\ UNCHANGED <<blobs, removed, gc>>
    BY <1>1 DEF InsertRegistryManifest, At, Putting
  <2>2. m \in Manifest /\ req[r].n = Len(Refs[m])
    BY <1>0, <1>1, <2>1 DEF RequestsSound, SoundRequest, SoundAt
  <2>3. PICK i \in 1..Len(Refs[m]) : d = Refs[m][i]
    <3>1. Refs[m] \in Seq(Blob \cup Manifest)
      BY <2>2, RegistryAssumption
    <3>2. DOMAIN Refs[m] = 1..Len(Refs[m])
      BY <3>1, LenProperties
    <3> QED
      BY <3>2 DEF BlobRefs, Range
  <2>4. Held(d)
    BY <1>1, <2>1, <2>2, <2>3 DEF RegistryInv, PutsChecked
  <2> QED
    BY <2>1, <2>4 DEF Held, Listed
<1>2. ASSUME ~\E r \in Request : InsertRegistryManifest(r) /\ m = req[r].m
      PROVE  Held(d)'
  <2>1. m \in manifests
    BY <1>2, ManifestsStep DEF InsertRegistryManifest
  <2>2. m \notin met
    <3>1. m \notin Request
      BY <1>0, <2>1, RegistryAssumption
    <3> QED
      BY <1>2, <3>1, MetStep DEF InsertRegistryManifest
  <2>3. Held(d) /\ Referenced(d)
    BY <2>1, <2>2 DEF RegistryInv, ManifestsHeld, Referenced
  <2>4. d \notin Orphans
    BY <2>3 DEF Orphans
  <2>5. Kept(d)' /\ ~Listed(d)'
    BY <2>3, <2>4, <1>0, HeldStep
  <2> QED
    BY <2>5 DEF Held, Kept
<1> QED
  BY <1>1, <1>2

\* Held, after the step.
HeldNext(x) ==
  x \in Blob => /\ blobs'[x] # 0 \/ x \in removed'
                /\ ~(gc'.pc = "blobs" /\ \E y \in gc'.todo : y[1] = x)

LEMMA PutsCheckedStep ==
  ASSUME RegistryInv, Next
  PROVE  PutsChecked'
<1> SUFFICES ASSUME NEW s \in Putting' \ met', NEW i \in 1..req'[s].n
             PROVE  HeldNext(Refs[req'[s].m][i])
  BY DEF PutsChecked, Held, Listed, HeldNext
<1>0. Typed /\ RequestsSound /\ s \in Request /\ req[s] \in Requests
  BY DEF RegistryInv, Typed, RequestsSound, Putting
<1>1. ASSUME req'[s] = req[s]
      PROVE  HeldNext(Refs[req'[s].m][i])
  <2> DEFINE d == Refs[req[s].m][i]
  <2>1. s \in Putting
    BY <1>1 DEF Putting, At
  <2>2. s \notin met
    <3>1. ASSUME NEW r \in Request, InsertRegistryManifest(r)
          PROVE  s \notin met
      <4>1. s # r
        BY <3>1, <1>0, InsertedElsewhere
      <4>2. req[r].m \in Manifest
        BY <3>1, <1>0 DEF InsertRegistryManifest, At, RequestsSound, SoundRequest, SoundAt
      <4>3. s # req[r].m
        BY <4>2, <1>0, RegistryAssumption
      <4> QED
        BY <3>1, <4>1, <4>3 DEF InsertRegistryManifest
    <3>2. ASSUME NEW r \in Request, Done(r), met' = met \ {r}
          PROVE  s \notin met
      <4>1. req'[r].pc = "idle"
        BY <3>2, <1>0 DEF Done, Idle, RequestsSound
      <4>2. s # r
        BY <4>1, <1>1, <2>1 DEF Putting, At
      <4> QED
        BY <3>2, <4>2
    <3> QED
      BY <3>1, <3>2, MetStep
  <2>3. Held(d) /\ i \in 1..req[s].n
    BY <1>1, <2>1, <2>2 DEF RegistryInv, PutsChecked
  <2>4. ASSUME ListOrphanRegistryBlobs, d \in Orphans
        PROVE  FALSE
    <3>1. d \in Found(s)
      BY <2>3 DEF Found
    <3> QED
      BY <2>4, <2>1, <3>1 DEF ListOrphanRegistryBlobs
  <2>5. PICK x : x = d
    OBVIOUS
  <2>6. x \in Blob => Kept(x)' /\ ~Listed(x)'
    BY <1>0, <2>3, <2>4, <2>5, HeldStep
  <2> QED
    BY <1>1, <2>5, <2>6 DEF HeldNext, Kept, Listed
<1>2. ASSUME NEW p \in Pushes, ManifestPut(s, p[1], p[2])
      PROVE  FALSE
  <2>1. req'[s].n = 0
    BY <1>2, <1>0 DEF ManifestPut, Start, Idle, RequestsSound
  <2> QED
    BY <2>1
<1>3. CASE CheckRef(s)
  <2>1. s \in Putting /\ req[s].pc = "checkRef" /\ UNCHANGED <<blobs, removed, gc>>
    BY <1>3, <1>0 DEF CheckRef, At, Putting
  <2>2. req[s].m \in Manifest /\ req[s].n \in Nat
    BY <2>1, <1>0 DEF RequestsSound, SoundRequest, SoundAt, Requests
  <2>3. ASSUME i \in 1..req[s].n, req'[s].m = req[s].m, s \notin met
        PROVE  HeldNext(Refs[req'[s].m][i])
    BY <2>1, <2>3 DEF RegistryInv, PutsChecked, Held, HeldNext, Listed
  <2>4. CASE Goto(s, "insertManifest") /\ UNCHANGED met
    <3>1. req'[s] = [req[s] EXCEPT !.pc = "insertManifest"]
      BY <2>4, <1>0 DEF Goto, RequestsSound
    <3>2. req'[s].n = req[s].n /\ req'[s].m = req[s].m
      BY <3>1, <1>0 DEF Requests
    <3> QED
      BY <3>2, <2>3, <2>4
  <2>5. CASE /\ Stored(Refs[req[s].m][req[s].n + 1])
             /\ req' = [req EXCEPT ![s].n = req[s].n + 1]
             /\ met' = IF Listed(Refs[req[s].m][req[s].n + 1]) THEN met \cup {s} ELSE met
    <3>1. req'[s] = [req[s] EXCEPT !.n = req[s].n + 1]
      BY <2>5, <1>0 DEF RequestsSound
    <3>2. req'[s].n = req[s].n + 1 /\ req'[s].m = req[s].m
      BY <3>1, <1>0 DEF Requests
    <3>3. s \notin met /\ ~Listed(Refs[req[s].m][req[s].n + 1])
      BY <2>5
    <3>4. CASE i = req[s].n + 1
      BY <2>1, <2>5, <3>2, <3>3, <3>4 DEF Stored, HeldNext, Listed
    <3>5. i \in 1..req[s].n \/ i = req[s].n + 1
      BY <3>2, <2>2
    <3> QED
      BY <3>2, <3>3, <3>4, <3>5, <2>3
  <2>6. CASE Done(s)
    <3>1. req'[s].pc = "idle"
      BY <2>6, <1>0 DEF Done, Idle, RequestsSound
    <3> QED
      BY <3>1 DEF Putting, At
  <2> QED
    BY <2>4, <2>5, <2>6, <1>3 DEF CheckRef
<1>4. CASE InsertRegistryManifest(s)
  BY <1>0, <1>4, InsertedElsewhere
<1>5. CASE req'[s].pc \notin PutPlaces
  BY <1>5 DEF Putting, At, PutPlaces
<1> QED
  BY <1>0, <1>1, <1>2, <1>3, <1>4, <1>5, PutStep DEF Elsewhere

LEMMA RegistryInvInit ==
  ASSUME Init
  PROVE  RegistryInv
<1>1. Typed
  BY TypedInit
<1>2. PutsChecked
  BY DEF Init, PutsChecked, Putting, At, Idle
<1> QED
  BY <1>1, <1>2 DEF Init, RegistryInv, ManifestsHeld

LEMMA RegistryInvStep ==
  ASSUME RegistryInv, [Next]_vars
  PROVE  RegistryInv'
<1>1. CASE Next
  <2>1. Typed'
    BY TypedStep DEF RegistryInv
  <2> QED
    BY <1>1, <2>1, PutsCheckedStep, ManifestsHeldStep DEF RegistryInv
<1>2. CASE UNCHANGED vars
  <2>1. Typed'
    BY TypedStep DEF RegistryInv
  <2> QED
    BY <1>2, <2>1 DEF vars, tables, RegistryInv, PutsChecked, Held, Listed, Putting, At,
       ManifestsHeld
<1> QED
  BY <1>1, <1>2

LEMMA HeldHaveBlobs ==
  ASSUME RegistryInv
  PROVE  ManifestsHaveBlobs
  BY DEF RegistryInv, ManifestsHeld, Held, ManifestsHaveBlobs, Whole, BlobRefs

LEMMA HeldHaveBlobsNext ==
  ASSUME RegistryInv'
  PROVE  ManifestsHaveBlobs'
  BY DEF RegistryInv, ManifestsHeld, Held, ManifestsHaveBlobs, Whole, BlobRefs

\* A manifest keeps the rows of its blobs, but for the blobs a client deleted, unless its PUT
\* met a collection: a collection never takes what a manifest that was there needs, and a PUT
\* that found all its blobs off the list of orphans stays clear of the collection.
THEOREM ManifestsKeepBlobs == Spec => []ManifestsHaveBlobs
<1>1. Init => RegistryInv
  BY RegistryInvInit
<1>2. RegistryInv /\ [Next]_vars => RegistryInv'
  BY RegistryInvStep
<1>3. RegistryInv => ManifestsHaveBlobs
  BY HeldHaveBlobs
<1> QED
  BY <1>1, <1>2, <1>3, PTL DEF Spec

-----------------------------------------------------------------------------
(* The registry implements ImageStore                                      *)

Shown == {m \in manifests : Whole(m) \/ m \in met}

LEMMA AllShown ==
  ASSUME ManifestsHaveBlobs
  PROVE  Shown = manifests
  BY DEF Shown, ManifestsHaveBlobs

\* In ImageStore's terms a step stores, points, untags, forgets or does not show.
ImageStep == [Images!Next]_Images!vars

\* ImageStore sees the tables as they are.
SeesTables == Shown = manifests /\ Shown' = manifests'

LEMMA HiddenStep ==
  ASSUME SeesTables, UNCHANGED <<manifests, tags>>
  PROVE  ImageStep
  BY DEF ImageStep, SeesTables, Shown, Images!vars

\* A manifest goes only when no tag is on it.
LEMMA ForgetStep ==
  ASSUME Typed, SeesTables, NEW m \in Manifest \cup {None}, UNCHANGED tags,
         manifests' = IF TagsOf(m) = {} THEN manifests \ {m} ELSE manifests
  PROVE  ImageStep
<1>1. CASE m \in Manifest /\ TagsOf(m) = {}
  <2>1. \A t \in Tag : tags[t] # m
    BY <1>1 DEF TagsOf
  <2>2. Shown' = Shown \ {m}
    BY <1>1 DEF SeesTables
  <2>3. Images!Forget(m)
    BY <2>1, <2>2 DEF Images!Forget, Shown
  <2> QED
    BY <1>1, <2>3 DEF ImageStep, Images!Next
<1>2. CASE ~(m \in Manifest /\ TagsOf(m) = {})
  <2>1. manifests' = manifests
    BY <1>2, RegistryAssumption DEF Typed, TablesTyped
  <2> QED
    BY <2>1, HiddenStep
<1> QED
  BY <1>1, <1>2

LEMMA UntagStep ==
  ASSUME SeesTables, NEW t \in Tag, tags' = [tags EXCEPT ![t] = None], UNCHANGED manifests
  PROVE  ImageStep
<1>1. Images!Untag(t)
  BY DEF Images!Untag, SeesTables, Shown
<1> QED
  BY <1>1 DEF ImageStep, Images!Next

LEMMA ContentImages ==
  ASSUME Typed, SeesTables, NEW r \in Request, Content(r)
  PROVE  ImageStep
<1>0. req[r].m \in Manifest \cup {None} /\ SoundAt(req[r], req[r].pc)
  BY DEF Typed, RequestsSound, SoundRequest, Requests
<1>1. CASE InsertRegistryManifest(r)
  <2>1. PICK m \in Manifest : m = req[r].m
    BY <1>0, <1>1 DEF InsertRegistryManifest, At, SoundAt
  <2>2. Images!Store(m)
    <3>1. Shown' = Shown \cup {m} /\ UNCHANGED tags
      BY <1>1, <2>1 DEF InsertRegistryManifest, SeesTables
    <3> QED
      BY <3>1 DEF Images!Store, Shown
  <2> QED
    BY <2>2 DEF ImageStep, Images!Next
<1>2. CASE UpsertRegistryTag(r)
  <2>1. req[r].m \in Manifest /\ req[r].t \in Tag
    BY <1>0, <1>2 DEF UpsertRegistryTag, At, SoundAt
  <2>2. CASE req[r].m \in manifests
    <3>1. Images!Point(req[r].t, req[r].m)
      BY <1>2, <2>2 DEF UpsertRegistryTag, Images!Point, SeesTables, Shown
    <3> QED
      BY <2>1, <3>1 DEF ImageStep, Images!Next
  <2>3. CASE req[r].m \notin manifests
    BY <1>2, <2>3, HiddenStep DEF UpsertRegistryTag
  <2> QED
    BY <2>2, <2>3
<1>3. ASSUME NEW t \in Tag, DeleteRegistryTag(r, t)
      PROVE  ImageStep
  BY <1>3, UntagStep DEF DeleteRegistryTag
<1>4. CASE DeleteRegistryManifestIfUnreferenced(r)
  <2>1. CASE IsOrphan(req[r].m)
    BY <1>0, <1>4, <2>1, ForgetStep DEF DeleteRegistryManifestIfUnreferenced, IsOrphan
  <2>2. CASE ~IsOrphan(req[r].m)
    BY <1>4, <2>2, HiddenStep DEF DeleteRegistryManifestIfUnreferenced
  <2> QED
    BY <2>1, <2>2
<1>5. CASE Untag(r)
  <2>1. req[r].t \in Tag
    BY <1>0, <1>5 DEF Untag, At, SoundAt
  <2> QED
    BY <2>1, <1>5, UntagStep DEF Untag
<1>6. CASE DeleteManifest(r)
  BY <1>0, <1>6, ForgetStep DEF DeleteManifest
<1> QED
  BY <1>1, <1>2, <1>3, <1>4, <1>5, <1>6, HiddenStep DEF Content, ManifestPut, CheckRef,
     ManifestDelete, ListRegistryTagsForRepo, DeleteTag, OtherTags, BlobDelete,
     DeleteRegistryBlob, tables

LEMMA RegistryImages ==
  ASSUME RegistryInv, RegistryInv', [Next]_vars
  PROVE  ImageStep
<1>0. SeesTables
  <2>1. Shown = manifests
    BY AllShown, HeldHaveBlobs
  <2>2. Shown' = manifests'
    BY HeldHaveBlobsNext DEF ManifestsHaveBlobs, Shown, Whole
  <2> QED
    BY <2>1, <2>2 DEF SeesTables
<1>1. ASSUME NEW r \in Request, Upload(r)
      PROVE  ImageStep
  <2>1. UNCHANGED <<manifests, tags>>
    BY <1>1 DEF Upload, UploadInit, UploadCancel, UploadPatch, UploadMonolithic,
       UploadComplete, InsertRegistryUpload, LoPut, UpdateRegistryUploadReceived,
       ComputeBlobDigest, LookUpExisting, InsertRegistryBlob, UnlinkBlobOid,
       DeleteRegistryUpload, tables
  <2> QED
    BY <2>1, <1>0, HiddenStep
<1>2. ASSUME NEW m \in Manifest, DeleteOrphanManifest(m)
      PROVE  ImageStep
  BY <1>0, <1>2, ForgetStep DEF DeleteOrphanManifest, RegistryInv
<1>3. CASE Collection
  BY <1>0, <1>2, <1>3, HiddenStep DEF Collection, ListExpiredRegistryUploads,
     ListOrphanRegistryManifests, ListOrphanRegistryBlobs, UnlinkExpired, DeleteExpired,
     UnlinkOrphan, DeleteOrphan, CollectionEnds, tables
<1>4. CASE Failure
  BY <1>0, <1>4, HiddenStep DEF Failure, RequestFails, StatementCaught, CollectionItemFails,
     CollectionDies, tables
<1>5. CASE \E o \in Object : UploadExpires(o)
  BY <1>0, <1>5, HiddenStep DEF UploadExpires
<1>6. CASE UNCHANGED vars
  BY <1>0, <1>6, HiddenStep DEF vars, tables
<1>7. ASSUME NEW r \in Request, Content(r)
      PROVE  ImageStep
  BY <1>0, <1>7, ContentImages DEF RegistryInv
<1> QED
  BY <1>1, <1>3, <1>4, <1>5, <1>6, <1>7 DEF Next

LEMMA ImagesInit ==
  ASSUME Init
  PROVE  Images!Init
  BY DEF Init, Images!Init

\* The same for whoever pushes and pulls: the registry does what ImageStore allows, at every
\* interleaving and every fault. A tag only ever points at an image that is stored, whole
\* unless its PUT met a collection that was taking a blob of it, and an image goes only when
\* no tag is on it.
THEOREM RegistryServesImages == Spec => ServesImages
<1>1. Init => RegistryInv /\ Images!Init
  BY RegistryInvInit, ImagesInit
<1>2. RegistryInv /\ [Next]_vars => RegistryInv'
  BY RegistryInvStep
<1>3. RegistryInv /\ RegistryInv' /\ [Next]_vars => [Images!Next]_Images!vars
  BY RegistryImages DEF ImageStep
<1> QED
  BY <1>1, <1>2, <1>3, PTL DEF Spec, ServesImages, Images!Spec

-----------------------------------------------------------------------------
(***************************************************************************)
(* The bytes of a blob.  Without faults, and with clients that send the    *)
(* requests of a session one after the other, an object that a row leads   *)
(* to is closed: no request can write to it or drop it any more.           *)
(***************************************************************************)
SessionOps == {"init", "monolithic", "patch", "complete", "cancel"}
Sends(r, o) == req[r].op \in SessionOps /\ req[r].o = o

Closed(o) ==
  /\ o <= created
  /\ \A r \in Request : Sends(r, o) => At(r, "deleteUpload")
  /\ uploads[o].row => \E r \in Request : Sends(r, o)

\* The requests that reach a statement.
OpAt(q) ==
  /\ q.pc = "insertUpload" => q.op = "init"
  /\ q.pc = "loPut" => q.op \in {"patch", "complete", "monolithic"}
  /\ q.pc = "setReceived" => q.op = "patch"
  /\ q.pc \in {"digest", "insertBlob"} => q.op \in {"complete", "monolithic"}
  /\ q.pc \in {"existing", "deleteUpload"} => q.op = "complete"
  /\ q.pc = "unlink" => q.op \in {"complete", "monolithic", "cancel", "blob"}
  /\ q.pc = "deleteBlob" => q.op = "blob"
  /\ q.pc \in {"idle", "checkRef", "insertManifest", "upsertTag", "listTags", "deleteTags",
               "untag", "otherTags", "deleteManifest"} => q.op \notin SessionOps \cup {"blob"}
OpsSound == \A r \in Request : OpAt(req[r])

\* A session has one request at a time, and none after it has expired.
SenderOf(o) ==
  /\ \A r, s \in Request : Sends(r, o) /\ Sends(s, o) => r = s
  /\ \A r \in Request : Sends(r, o) => /\ o <= created
                                       /\ req[r].op = "monolithic" => ~uploads[o].row
  /\ uploads[o].row => o <= created
  /\ uploads[o].expired => uploads[o].row /\ \A r \in Request : ~Sends(r, o)
Senders == \A o \in Object : SenderOf(o)

ExpiredListed == gc.pc = "uploads" => \A o \in gc.todo : uploads[o].expired

\* What a row, a delete of a blob or the collection holds is closed, and it is
\* the object of no other row.
RowsClosed ==
  \A d \in Blob, o \in Object : blobs[d] = o =>
    Closed(o) /\ \A e \in Blob : blobs[e] = o => e = d
DeletesSound ==
  \A r \in Request, o \in Object : req[r].op = "blob" /\ req[r].o = o =>
    Closed(o) /\ \A e \in Blob : blobs[e] = o => e = req[r].d /\ At(r, "deleteBlob")
CollectsSound ==
  \A d \in Blob, o \in Object : gc.pc = "blobs" /\ <<d, o>> \in gc.todo =>
    Closed(o) /\ \A e \in Blob : blobs[e] = o => e = d

\* A request that is about to commit has compared the bytes.
Compared == {"existing", "insertBlob"}
Verified ==
  \A r \in Request : req[r].pc \in Compared => objects[req[r].o] = {Bytes[req[r].d]}

RowsLead ==
  \A d \in Blob : blobs[d] # 0 =>
    \/ objects[blobs[d]] = {Bytes[d]}
    \/ gc.pc = "blobs" /\ <<d, blobs[d]>> \in gc.cur

LeadInv ==
  /\ OpsSound /\ Senders /\ ExpiredListed
  /\ RowsClosed /\ DeletesSound /\ CollectsSound
  /\ Verified /\ RowsLead

\* The inductive invariant.
BytesInv == faults = 0 => LeadInv

\* Closed objects stay closed.
StaysClosed == \A o \in Object : Closed(o) => Closed(o)'

-----------------------------------------------------------------------------
LEMMA RequestIs ==
  ASSUME Typed, NEW r \in Request, NEW rec, req' = [req EXCEPT ![r] = rec]
  PROVE  \A s \in Request : req'[s] = IF s = r THEN rec ELSE req[s]
BY DEF Typed, RequestsSound

\* A request that goes on is the same but for its place.
LEMMA GotoIs ==
  ASSUME Typed, NEW r \in Request, NEW pc, Goto(r, pc)
  PROVE  \E rec : /\ req' = [req EXCEPT ![r] = rec]
                  /\ rec.pc = pc /\ rec.op = req[r].op /\ rec.o = req[r].o /\ rec.d = req[r].d
<1> DEFINE rec == [req[r] EXCEPT !.pc = pc]
<1>1. req' = [req EXCEPT ![r] = rec]
  BY DEF Goto
<1>2. req[r] \in Requests
  BY DEF Typed, RequestsSound
<1>3. rec.pc = pc /\ rec.op = req[r].op /\ rec.o = req[r].o /\ rec.d = req[r].d
  BY <1>2 DEF Requests
<1> QED
  BY <1>1, <1>3

LEMMA DoneIs ==
  ASSUME NEW r \in Request, Done(r)
  PROVE  /\ req' = [req EXCEPT ![r] = Idle]
         /\ Idle.op = "none" /\ Idle.pc = "idle" /\ OpAt(Idle)
BY DEF Done, Idle, OpAt, SessionOps

\* A request of a session that starts on a row, goes on or ends before its last
\* statement, or one that is of no session.
LEMMA SessionStep ==
  ASSUME Typed, Senders, NEW r \in Request, NEW rec, req' = [req EXCEPT ![r] = rec],
         UNCHANGED <<created, uploads>>,
         \/ rec.op \notin SessionOps
         \/ rec.op = req[r].op /\ rec.o = req[r].o
         \/ /\ rec.op \in {"patch", "complete"} /\ rec.o \in Object
            /\ uploads[rec.o].row /\ ~uploads[rec.o].expired
            /\ \A s \in Request : ~Sends(s, rec.o),
         ~At(r, "deleteUpload")
  PROVE  Senders' /\ StaysClosed
<1>1. \A s \in Request : req'[s] = IF s = r THEN rec ELSE req[s]
  BY DEF Typed, RequestsSound
<1>2. ASSUME NEW o \in Object PROVE SenderOf(o)'
  <2>1. SenderOf(o)
    BY DEF Senders
  <2> QED
    BY <1>1, <2>1 DEF SenderOf, Sends, SessionOps
<1>3. ASSUME NEW o \in Object, Closed(o) PROVE Closed(o)'
  <2>1. ASSUME NEW s \in Request, Sends(s, o)' PROVE At(s, "deleteUpload")' /\ Sends(s, o)
    <3>1. s # r
      BY <1>1, <1>3, <2>1 DEF Closed, Sends, At
    <3> QED
      BY <1>1, <1>3, <2>1, <3>1 DEF Closed, Sends, At
  <2>2. ASSUME uploads'[o].row PROVE \E s \in Request : Sends(s, o)'
    <3>1. PICK s \in Request : Sends(s, o)
      BY <1>3, <2>2 DEF Closed
    <3>2. s # r
      BY <1>3, <3>1 DEF Closed, At
    <3> QED
      BY <1>1, <3>1, <3>2 DEF Sends
  <2> QED
    BY <1>3, <2>1, <2>2 DEF Closed
<1> QED
  BY <1>2, <1>3 DEF Senders, StaysClosed, Object

\* What a step does to the rows: at most one is new, and its object closes.
RowsStep ==
  \/ \A d \in Blob : blobs'[d] \in {blobs[d], 0}
  \/ \E d \in Blob, o \in Object :
       /\ blobs'[d] = o /\ ~Closed(o) /\ Closed(o)'
       /\ \A e \in Blob \ {d} : blobs'[e] = blobs[e]

\* An object that no row had has none, unless it closes.
LEMMA RowsKept ==
  ASSUME RowsStep, StaysClosed, NEW o \in Object, NEW e \in Blob, Closed(o), blobs'[e] = o
  PROVE  blobs[e] = o
<1>1. o # 0
  BY DEF Object
<1> QED
  BY <1>1 DEF RowsStep

LEMMA RowsClosedStep ==
  ASSUME RowsClosed, RowsStep, StaysClosed
  PROVE  RowsClosed'
<1> SUFFICES ASSUME NEW d \in Blob, NEW o \in Object, blobs'[d] = o
             PROVE  Closed(o)' /\ \A e \in Blob : blobs'[e] = o => e = d
  BY DEF RowsClosed, Object
<1>1. CASE Closed(o)
  <2>1. blobs[d] = o /\ Closed(o)'
    BY <1>1, RowsKept DEF StaysClosed
  <2>2. ASSUME NEW e \in Blob, blobs'[e] = o PROVE e = d
    BY <1>1, <2>1, <2>2, RowsKept DEF RowsClosed
  <2> QED
    BY <2>1, <2>2
<1>2. CASE ~Closed(o)
  <2>1. 0 \notin Object /\ \A e \in Blob : blobs[e] # o
    BY <1>2 DEF RowsClosed, Object
  <2> QED
    BY <1>2, <2>1 DEF RowsStep
<1> QED
  BY <1>1, <1>2

\* What the collection holds stays its own.
LEMMA CollectsStep ==
  ASSUME CollectsSound, RowsStep, StaysClosed,
         \A d \in Blob, o \in Object : gc'.pc = "blobs" /\ <<d, o>> \in gc'.todo =>
           \/ gc.pc = "blobs" /\ <<d, o>> \in gc.todo
           \/ Closed(o) /\ \A e \in Blob : blobs[e] = o => e = d
  PROVE  CollectsSound'
<1> SUFFICES ASSUME NEW d \in Blob, NEW o \in Object, gc'.pc = "blobs", <<d, o>> \in gc'.todo
             PROVE  Closed(o)' /\ \A e \in Blob : blobs'[e] = o => e = d
  BY DEF CollectsSound, Object
<1>1. Closed(o) /\ \A e \in Blob : blobs[e] = o => e = d
  BY DEF CollectsSound
<1> QED
  BY <1>1, RowsKept DEF StaysClosed

\* A request that deletes a blob keeps to the object it read.
LEMMA DeletesStep ==
  ASSUME Typed, DeletesSound, RowsStep, StaysClosed, NEW r \in Request, NEW rec,
         req' = [req EXCEPT ![r] = rec],
         \A o \in Object : rec.op = "blob" /\ rec.o = o =>
           Closed(o)' /\ \A e \in Blob : blobs'[e] = o => e = rec.d /\ rec.pc = "deleteBlob"
  PROVE  DeletesSound'
<1> SUFFICES ASSUME NEW s \in Request, NEW o \in Object, req'[s].op = "blob", req'[s].o = o
             PROVE  /\ Closed(o)'
                    /\ \A e \in Blob : blobs'[e] = o => e = req'[s].d /\ At(s, "deleteBlob")'
  BY DEF DeletesSound, Object
<1>1. \A q \in Request : req'[q] = IF q = r THEN rec ELSE req[q]
  BY DEF Typed, RequestsSound
<1>2. CASE s = r
  BY <1>1, <1>2 DEF At
<1>3. CASE s # r
  <2>1. Closed(o) /\ \A e \in Blob : blobs[e] = o => e = req[s].d /\ At(s, "deleteBlob")
    BY <1>1, <1>3 DEF DeletesSound
  <2> QED
    BY <1>1, <1>3, <2>1, RowsKept DEF StaysClosed, At
<1> QED
  BY <1>2, <1>3

LEMMA VerifiedStep ==
  ASSUME Typed, Verified, NEW r \in Request, NEW rec, req' = [req EXCEPT ![r] = rec],
         \A s \in Request \ {r} : req[s].pc \in Compared =>
           objects'[req[s].o] = objects[req[s].o],
         rec.pc \in Compared => objects'[rec.o] = {Bytes[rec.d]}
  PROVE  Verified'
<1>1. \A q \in Request : req'[q] = IF q = r THEN rec ELSE req[q]
  BY DEF Typed, RequestsSound
<1> QED
  BY <1>1 DEF Verified, Compared

LEMMA OpsStep ==
  ASSUME Typed, OpsSound, NEW r \in Request, NEW rec, req' = [req EXCEPT ![r] = rec], OpAt(rec)
  PROVE  OpsSound'
<1>1. \A q \in Request : req'[q] = IF q = r THEN rec ELSE req[q]
  BY DEF Typed, RequestsSound
<1> QED
  BY <1>1 DEF OpsSound, OpAt, SessionOps

\* The bytes of a row are written by nobody, and its object does not close.
LEMMA LeadsStep ==
  ASSUME Typed, RowsLead, RowsClosed,
         \A d \in Blob, o \in Object : blobs'[d] = o =>
           \/ /\ blobs[d] = o /\ objects'[o] = objects[o]
              /\ gc.pc = "blobs" /\ <<d, o>> \in gc.cur => gc'.pc = "blobs" /\ <<d, o>> \in gc'.cur
           \/ objects'[o] = {Bytes[d]}
           \/ gc'.pc = "blobs" /\ <<d, o>> \in gc'.cur,
         TablesTyped'
  PROVE  RowsLead'
<1> SUFFICES ASSUME NEW d \in Blob, NEW o \in Object, blobs'[d] = o
             PROVE  objects'[o] = {Bytes[d]} \/ (gc'.pc = "blobs" /\ <<d, o>> \in gc'.cur)
  <2>1. \A d \in Blob : blobs'[d] # 0 => blobs'[d] \in Object
    BY DEF TablesTyped, Object
  <2> QED
    BY <2>1 DEF RowsLead
<1>1. blobs[d] = o => objects[o] = {Bytes[d]} \/ (gc.pc = "blobs" /\ <<d, o>> \in gc.cur)
  BY DEF RowsLead, Object
<1> QED
  BY <1>1

\* The parts of the invariant after a step of a request.
LEMMA RequestBytes ==
  ASSUME Typed, LeadInv, Typed', NEW r \in Request, NEW rec, req' = [req EXCEPT ![r] = rec],
         OpAt(rec), Senders', StaysClosed, ExpiredListed', gc' = gc, RowsStep,
         \A o \in Object : rec.op = "blob" /\ rec.o = o =>
           Closed(o)' /\ \A e \in Blob : blobs'[e] = o => e = rec.d /\ rec.pc = "deleteBlob",
         \A s \in Request \ {r} : req[s].pc \in Compared =>
           objects'[req[s].o] = objects[req[s].o],
         rec.pc \in Compared => objects'[rec.o] = {Bytes[rec.d]},
         \A d \in Blob, o \in Object : blobs'[d] = o =>
           \/ blobs[d] = o /\ objects'[o] = objects[o]
           \/ objects'[o] = {Bytes[d]}
  PROVE  LeadInv'
<1>1. OpsSound' /\ Verified'
  BY OpsStep, VerifiedStep DEF LeadInv
<1>2. RowsClosed' /\ DeletesSound'
  BY RowsClosedStep, DeletesStep DEF LeadInv
<1>3. CollectsSound'
  BY CollectsStep DEF LeadInv
<1>4. RowsLead'
  BY LeadsStep DEF LeadInv, Typed
<1> QED
  BY <1>1, <1>2, <1>3, <1>4 DEF LeadInv

\* A request that moves without touching objects, sessions or rows.
LEMMA QuietRequest ==
  ASSUME Typed, LeadInv, Typed', NEW r \in Request, NEW rec, req' = [req EXCEPT ![r] = rec],
         OpAt(rec), UNCHANGED <<created, objects, uploads, blobs, gc>>,
         \/ rec.op \notin SessionOps
         \/ rec.op = req[r].op /\ rec.o = req[r].o
         \/ /\ rec.op \in {"patch", "complete"} /\ rec.o \in Object
            /\ uploads[rec.o].row /\ ~uploads[rec.o].expired
            /\ \A s \in Request : ~Sends(s, rec.o),
         ~At(r, "deleteUpload"), rec.op # "blob",
         rec.pc \in Compared => objects[rec.o] = {Bytes[rec.d]}
  PROVE  LeadInv'
<1>1. Senders' /\ StaysClosed
  BY SessionStep DEF LeadInv
<1>2. ExpiredListed' /\ RowsStep
  BY DEF LeadInv, ExpiredListed, RowsStep
<1> QED
  BY <1>1, <1>2, RequestBytes

\* A request of a session that is at one of its statements.
LEMMA SenderFacts ==
  ASSUME Typed, LeadInv, NEW r \in Request,
         \/ req[r].pc \in {"insertUpload", "loPut", "setReceived", "digest", "existing",
                           "insertBlob", "deleteUpload"}
         \/ req[r].pc = "unlink" /\ req[r].op # "blob"
  PROVE  /\ req[r].o \in Object /\ req[r].op \in SessionOps /\ req[r].o <= created
         /\ req[r].op = "monolithic" => ~uploads[req[r].o].row
         /\ ~uploads[req[r].o].expired
         /\ \A s \in Request : Sends(s, req[r].o) => s = r
         /\ \A s \in Request \ {r} : req[s].pc \in Compared => req[s].o # req[r].o
         /\ req[r].pc # "deleteUpload" =>
              /\ \A o \in Object : Closed(o) => o # req[r].o
              /\ \A d \in Blob : blobs[d] # req[r].o
<1>1. req[r].o \in Object /\ req[r].op \in SessionOps
  BY DEF Typed, RequestsSound, SoundRequest, SoundAt, LeadInv, OpsSound, OpAt, SessionOps
<1>2. Sends(r, req[r].o) /\ SenderOf(req[r].o)
  BY <1>1 DEF Sends, LeadInv, Senders
<1>3. \A s \in Request : Sends(s, req[r].o) => s = r
  BY <1>2 DEF SenderOf
<1>4. \A s \in Request : req[s].pc \in Compared => Sends(s, req[s].o)
  BY DEF Compared, LeadInv, OpsSound, OpAt, Sends, SessionOps
<1>5. req[r].pc # "deleteUpload" => \A o \in Object : Closed(o) => o # req[r].o
  BY <1>2 DEF Closed, At
<1>6. req[r].pc # "deleteUpload" => \A d \in Blob : blobs[d] # req[r].o
  BY <1>1, <1>5 DEF LeadInv, RowsClosed
<1> QED
  BY <1>1, <1>2, <1>3, <1>4, <1>5, <1>6 DEF SenderOf, Sends

-----------------------------------------------------------------------------
(* Requests that only move.                                                *)

LEMMA StartOnSession ==
  ASSUME Typed, LeadInv, Typed', Orderly, NEW r \in Request, NEW o \in Object,
         uploads[o].row, MaySend(o), NEW rec, Start(r, rec),
         rec.op \in {"patch", "complete"}, rec.o = o, OpAt(rec), rec.pc \notin Compared,
         UNCHANGED <<tables, gc>>
  PROVE  LeadInv'
<1>1. ~uploads[o].expired /\ \A s \in Request : ~Sends(s, o)
  BY DEF MaySend, OnSession, Sends
<1>2. ~At(r, "deleteUpload") /\ req' = [req EXCEPT ![r] = rec]
  BY DEF Start, Idle, At
<1> QED
  BY <1>1, <1>2, QuietRequest DEF tables

LEMMA UploadPatchBytes ==
  ASSUME Typed, LeadInv, Typed', Orderly, NEW r \in Request, NEW o \in Object, NEW c \in Chunk,
         UploadPatch(r, o, c)
  PROVE  LeadInv'
<1> DEFINE rec == [Idle EXCEPT !.op = "patch", !.pc = "loPut", !.o = o, !.chunk = c,
                               !.n = uploads[o].received]
<1>1. rec.op = "patch" /\ rec.pc = "loPut" /\ rec.o = o
  BY DEF Idle
<1>2. Start(r, rec) /\ uploads[o].row /\ MaySend(o) /\ UNCHANGED <<tables, gc>>
  BY DEF UploadPatch
<1> HIDE DEF rec
<1>3. OpAt(rec) /\ rec.pc \notin Compared
  BY <1>1 DEF OpAt, Compared, SessionOps
<1> QED
  BY <1>1, <1>2, <1>3, StartOnSession

LEMMA UploadCompleteBytes ==
  ASSUME Typed, LeadInv, Typed', Orderly, NEW r \in Request, NEW o \in Object, NEW d \in Blob,
         NEW c \in Chunk \cup {None}, UploadComplete(r, o, d, c)
  PROVE  LeadInv'
<1> DEFINE rec == [Idle EXCEPT !.op = "complete",
                               !.pc = IF c = None THEN "digest" ELSE "loPut",
                               !.o = o, !.d = d, !.chunk = c, !.n = uploads[o].received]
<1>1. rec.op = "complete" /\ rec.pc \in {"digest", "loPut"} /\ rec.o = o
  BY DEF Idle
<1>2. Start(r, rec) /\ uploads[o].row /\ MaySend(o) /\ UNCHANGED <<tables, gc>>
  BY DEF UploadComplete
<1> HIDE DEF rec
<1>3. OpAt(rec) /\ rec.pc \notin Compared
  BY <1>1 DEF OpAt, Compared, SessionOps
<1> QED
  BY <1>1, <1>2, <1>3, StartOnSession

\* A request that has compared the bytes, or not yet, goes on or ends.
LEMMA MovesOn ==
  ASSUME Typed, LeadInv, Typed', NEW r \in Request, NEW pc, Goto(r, pc),
         ~At(r, "deleteUpload"), req[r].op # "blob",
         \A q : q.op = req[r].op /\ q.pc = pc => OpAt(q),
         pc \in Compared => objects[req[r].o] = {Bytes[req[r].d]},
         UNCHANGED <<created, objects, uploads, blobs, gc>>
  PROVE  LeadInv'
<1>1. PICK rec : /\ req' = [req EXCEPT ![r] = rec]
                 /\ rec.pc = pc /\ rec.op = req[r].op /\ rec.o = req[r].o /\ rec.d = req[r].d
  BY GotoIs
<1>2. OpAt(rec)
  BY <1>1
<1> QED
  BY <1>1, <1>2, QuietRequest

LEMMA EndsQuietly ==
  ASSUME Typed, LeadInv, Typed', NEW r \in Request, Done(r), ~At(r, "deleteUpload"),
         UNCHANGED <<created, objects, uploads, blobs, gc>>
  PROVE  LeadInv'
<1>1. "none" \notin SessionOps /\ "idle" \notin Compared
  BY DEF SessionOps, Compared
<1> QED
  BY <1>1, DoneIs, QuietRequest

LEMMA ComputeBlobDigestBytes ==
  ASSUME Typed, LeadInv, Typed', NEW r \in Request, ComputeBlobDigest(r)
  PROVE  LeadInv'
<1>1. /\ UNCHANGED <<created, objects, uploads, blobs, gc>>
      /\ req[r].pc = "digest" /\ ~At(r, "deleteUpload")
      /\ req[r].op \in {"complete", "monolithic"}
  BY DEF ComputeBlobDigest, At, tables, LeadInv, OpsSound, OpAt
<1>2. CASE Done(r)
  BY <1>1, <1>2, EndsQuietly
<1>3. CASE Goto(r, "unlink")
  <2>1. \A q : q.op = req[r].op /\ q.pc = "unlink" => OpAt(q)
    BY <1>1 DEF OpAt
  <2> QED
    BY <1>1, <1>3, <2>1, MovesOn DEF Compared
<1>4. CASE /\ ~Mismatch(req[r])
           /\ Goto(r, IF req[r].op = "monolithic" THEN "insertBlob" ELSE "existing")
  <2>1. objects[req[r].o] = {Bytes[req[r].d]}
    BY <1>4 DEF Mismatch
  <2>2. PICK pc : /\ Goto(r, pc)
                  /\ \/ pc = "insertBlob" /\ req[r].op = "monolithic"
                     \/ pc = "existing" /\ req[r].op = "complete"
    BY <1>1, <1>4
  <2>3. \A q : q.op = req[r].op /\ q.pc = pc => OpAt(q)
    BY <2>2 DEF OpAt
  <2>4. req[r].op # "blob"
    BY <1>1
  <2> QED
    BY <1>1, <2>1, <2>2, <2>3, <2>4, MovesOn
<1> QED
  BY <1>2, <1>3, <1>4 DEF ComputeBlobDigest

LEMMA LookUpExistingBytes ==
  ASSUME Typed, LeadInv, Typed', NEW r \in Request, LookUpExisting(r)
  PROVE  LeadInv'
<1>1. /\ UNCHANGED <<created, objects, uploads, blobs, gc>>
      /\ req[r].pc = "existing" /\ ~At(r, "deleteUpload") /\ req[r].op = "complete"
      /\ objects[req[r].o] = {Bytes[req[r].d]}
  BY DEF LookUpExisting, At, tables, LeadInv, OpsSound, OpAt, Verified, Compared
<1>2. PICK pc \in {"unlink", "insertBlob"} : Goto(r, pc)
  BY DEF LookUpExisting
<1>3. \A q : q.op = req[r].op /\ q.pc = pc => OpAt(q)
  BY <1>1, <1>2 DEF OpAt
<1> QED
  BY <1>1, <1>2, <1>3, MovesOn

\* Requests on manifests and tags.
ContentOps == {"put", "delete", "untag"}
ContentPlaces == {"checkRef", "insertManifest", "upsertTag", "listTags", "deleteTags", "untag",
                  "otherTags", "deleteManifest"}

LEMMA OnContent ==
  ASSUME Typed, LeadInv, Typed', NEW r \in Request, req[r].pc \in ContentPlaces \cup {"idle"},
         NEW rec, req' = [req EXCEPT ![r] = rec],
         \/ rec.op \in ContentOps \/ rec.op = req[r].op \/ rec = Idle,
         rec.pc \in ContentPlaces \cup {"idle"},
         UNCHANGED <<created, objects, uploads, blobs, gc>>
  PROVE  LeadInv'
<1>1. rec.op \notin SessionOps \cup {"blob"}
  BY DEF LeadInv, OpsSound, OpAt, ContentOps, ContentPlaces, SessionOps, Idle
<1>2. OpAt(rec) /\ rec.pc \notin Compared /\ ~At(r, "deleteUpload")
  BY <1>1 DEF OpAt, ContentPlaces, Compared, At
<1> QED
  BY <1>1, <1>2, QuietRequest

LEMMA ContentBytes ==
  ASSUME Typed, LeadInv, Typed', NEW r \in Request, Content(r),
         ~ DeleteRegistryBlob(r), \A d \in Blob : ~ BlobDelete(r, d)
  PROVE  LeadInv'
<1>0. req[r] \in Requests
  BY DEF Typed, RequestsSound
<1>1. UNCHANGED <<created, objects, uploads, blobs, gc>>
  BY DEF Content, ManifestPut, CheckRef, InsertRegistryManifest, UpsertRegistryTag,
     ManifestDelete, DeleteRegistryTag, DeleteTag, ListRegistryTagsForRepo,
     DeleteRegistryManifestIfUnreferenced, Untag, OtherTags, DeleteManifest, tables
<1>2. ASSUME Done(r), req[r].pc \in ContentPlaces PROVE LeadInv'
  <2>1. Idle.pc = "idle"
    BY DEF Idle
  <2> QED
    BY <1>1, <1>2, <2>1, OnContent DEF Done
<1>3. ASSUME NEW pc \in ContentPlaces, Goto(r, pc), req[r].pc \in ContentPlaces PROVE LeadInv'
  <2>1. PICK rec : req' = [req EXCEPT ![r] = rec] /\ rec.pc = pc /\ rec.op = req[r].op
    BY <1>3, GotoIs
  <2> QED
    BY <1>1, <1>3, <2>1, OnContent
<1>4. ASSUME NEW rec, Start(r, rec), rec.op \in ContentOps, rec.pc \in ContentPlaces
      PROVE  LeadInv'
  <2>1. req[r].pc = "idle" /\ req' = [req EXCEPT ![r] = rec]
    BY <1>4 DEF Start, Idle
  <2> QED
    BY <1>1, <1>4, <2>1, OnContent
<1>5. ASSUME NEW m, NEW t, ManifestPut(r, m, t) PROVE LeadInv'
  <2> DEFINE rec == [Idle EXCEPT !.op = "put", !.pc = "checkRef", !.m = m, !.t = t]
  <2>1. rec.op \in ContentOps /\ rec.pc \in ContentPlaces
    BY DEF Idle, ContentOps, ContentPlaces
  <2>2. Start(r, rec)
    BY <1>5 DEF ManifestPut
  <2> HIDE DEF rec
  <2> QED
    BY <2>1, <2>2, <1>4
<1>6. ASSUME NEW t, ManifestDelete(r, t) PROVE LeadInv'
  <2> DEFINE rec == [Idle EXCEPT !.op = "delete", !.pc = "listTags", !.m = tags[t], !.t = t]
  <2>1. rec.op \in ContentOps /\ rec.pc \in ContentPlaces
    BY DEF Idle, ContentOps, ContentPlaces
  <2>2. Start(r, rec)
    BY <1>6 DEF ManifestDelete
  <2> HIDE DEF rec
  <2> QED
    BY <2>1, <2>2, <1>4
<1>7. ASSUME NEW t, DeleteTag(r, t) PROVE LeadInv'
  <2> DEFINE rec == [Idle EXCEPT !.op = "untag", !.pc = "untag", !.m = tags[t], !.t = t]
  <2>1. rec.op \in ContentOps /\ rec.pc \in ContentPlaces
    BY DEF Idle, ContentOps, ContentPlaces
  <2>2. Start(r, rec)
    BY <1>7 DEF DeleteTag
  <2> HIDE DEF rec
  <2> QED
    BY <2>1, <2>2, <1>4
<1>8. CASE CheckRef(r)
  <2>1. CASE Goto(r, "insertManifest") \/ Done(r)
    BY <1>2, <1>3, <1>8, <2>1 DEF CheckRef, At, ContentPlaces
  <2>2. CASE req' = [req EXCEPT ![r].n = @ + 1]
    <3> DEFINE rec == [req[r] EXCEPT !.n = @ + 1]
    <3>1. rec.pc = "checkRef" /\ rec.op = req[r].op /\ req[r].pc = "checkRef"
      BY <1>0, <1>8 DEF CheckRef, At, Requests
    <3>2. req' = [req EXCEPT ![r] = rec]
      BY <2>2
    <3> HIDE DEF rec
    <3> QED
      BY <1>1, <3>1, <3>2, OnContent DEF ContentPlaces
  <2> QED
    BY <1>8, <2>1, <2>2 DEF CheckRef
<1>9. CASE InsertRegistryManifest(r) \/ UpsertRegistryTag(r)
  BY <1>2, <1>3, <1>9 DEF InsertRegistryManifest, UpsertRegistryTag, At, ContentPlaces
<1>10. CASE ListRegistryTagsForRepo(r)
  <2> DEFINE rec == [req[r] EXCEPT !.pc = "deleteTags",
                       !.todo = {t \in TagsOf(req[r].m) : RepoOf[t] = RepoOf[req[r].t]}]
  <2>1. rec.pc = "deleteTags" /\ rec.op = req[r].op /\ req[r].pc = "listTags"
    BY <1>0, <1>10 DEF ListRegistryTagsForRepo, At, Requests
  <2>2. req' = [req EXCEPT ![r] = rec]
    BY <1>10 DEF ListRegistryTagsForRepo
  <2> HIDE DEF rec
  <2> QED
    BY <1>1, <2>1, <2>2, OnContent DEF ContentPlaces
<1>11. ASSUME NEW t, DeleteRegistryTag(r, t) PROVE LeadInv'
  <2> DEFINE rec == [req[r] EXCEPT !.todo = @ \ {t}]
  <2>1. rec.pc = "deleteTags" /\ rec.op = req[r].op /\ req[r].pc = "deleteTags"
    BY <1>0, <1>11 DEF DeleteRegistryTag, At, Requests
  <2>2. req' = [req EXCEPT ![r] = rec]
    BY <1>11 DEF DeleteRegistryTag
  <2> HIDE DEF rec
  <2> QED
    BY <1>1, <2>1, <2>2, OnContent DEF ContentPlaces
<1>12. CASE DeleteRegistryManifestIfUnreferenced(r) \/ DeleteManifest(r)
  BY <1>2, <1>12 DEF DeleteRegistryManifestIfUnreferenced, DeleteManifest, At, ContentPlaces
<1>13. CASE Untag(r) \/ OtherTags(r)
  BY <1>2, <1>3, <1>13 DEF Untag, OtherTags, At, ContentPlaces
<1> QED
  BY <1>5, <1>6, <1>7, <1>8, <1>9, <1>10, <1>11, <1>12, <1>13 DEF Content


-----------------------------------------------------------------------------
(* Requests that create or drop an object, or write a session or a row.    *)

\* A new object has no request and no session yet.
LEMMA CreateStep ==
  ASSUME Typed, Senders, NEW r \in Request, NEW rec, req' = [req EXCEPT ![r] = rec],
         req[r] = Idle, rec.op \in SessionOps, NEW u \in Object, rec.o = u,
         u = created + 1, created' = u, UNCHANGED uploads
  PROVE  Senders' /\ StaysClosed
<1>1. \A s \in Request : req'[s] = IF s = r THEN rec ELSE req[s]
  BY DEF Typed, RequestsSound
<1>2. created \in Nat /\ ~(u <= created) /\ \A o \in Object : o <= created => o <= created'
  BY DEF Typed, TablesTyped, Object
<1>3. req[r].op \notin SessionOps
  BY DEF Idle, SessionOps
<1>4. SenderOf(u) /\ ~uploads[u].row /\ ~uploads[u].expired /\ \A s \in Request : ~Sends(s, u)
  BY <1>2 DEF Senders, SenderOf
<1>5. SenderOf(u)'
  <2>1. \A s \in Request : Sends(s, u)' => s = r
    BY <1>1, <1>4 DEF Sends
  <2>2. u <= created'
    BY DEF Object
  <2> QED
    BY <1>4, <2>1, <2>2 DEF SenderOf
<1>6. \A s \in Request, o \in Object : o # u => (Sends(s, o)' <=> Sends(s, o))
  BY <1>1, <1>3 DEF Sends
<1>7. ASSUME NEW o \in Object, o # u PROVE SenderOf(o)'
  <2>1. SenderOf(o) /\ \A s \in Request : Sends(s, o)' <=> Sends(s, o)
    BY <1>6, <1>7 DEF Senders
  <2>2. \A s \in Request : Sends(s, o) => req'[s].op = req[s].op
    BY <1>1, <1>3 DEF Sends
  <2> QED
    BY <1>2, <2>1, <2>2 DEF SenderOf
<1>8. ASSUME NEW o \in Object, Closed(o) PROVE Closed(o)'
  <2>1. o # u /\ o <= created'
    BY <1>2, <1>8 DEF Closed
  <2>2. \A s \in Request : Sends(s, o)' <=> Sends(s, o)
    BY <1>6, <2>1
  <2>3. \A s \in Request : Sends(s, o) => req'[s] = req[s]
    BY <1>1, <1>3 DEF Sends
  <2> QED
    BY <1>8, <2>1, <2>2, <2>3 DEF Closed, At
<1> QED
  BY <1>5, <1>7, <1>8 DEF Senders, StaysClosed, Object

\* The last request of session u, or a new one, writes its row.
LEMMA UploadStep ==
  ASSUME Typed, Senders, NEW r \in Request, NEW rec, req' = [req EXCEPT ![r] = rec],
         NEW u \in Object, u <= created, UNCHANGED created,
         \A o \in Object \ {u} : uploads'[o] = uploads[o],
         \A s \in Request : Sends(s, u) => s = r,
         req[r].op \in SessionOps => req[r].o = u,
         rec.op \in SessionOps =>
           rec.o = u /\ rec.op # "monolithic" /\ ~uploads'[u].expired,
         uploads'[u].expired => uploads'[u].row,
         Closed(u) => rec.op \notin SessionOps /\ ~uploads'[u].row
  PROVE  Senders' /\ StaysClosed
<1>1. \A s \in Request : req'[s] = IF s = r THEN rec ELSE req[s]
  BY DEF Typed, RequestsSound
<1>2. \A s \in Request, o \in Object : o # u => (Sends(s, o)' <=> Sends(s, o))
  BY <1>1 DEF Sends
<1>3. \A s \in Request, o \in Object : o # u /\ Sends(s, o) => req'[s] = req[s]
  BY <1>1 DEF Sends
<1>4. \A s \in Request : Sends(s, u)' => s = r /\ rec.op \in SessionOps
  BY <1>1 DEF Sends
<1>5. SenderOf(u)'
  BY <1>1, <1>4 DEF SenderOf
<1>6. ASSUME NEW o \in Object, o # u PROVE SenderOf(o)'
  <2>1. SenderOf(o) /\ \A s \in Request : Sends(s, o)' <=> Sends(s, o)
    BY <1>2, <1>6 DEF Senders
  <2>2. \A s \in Request : Sends(s, o) => req'[s] = req[s]
    BY <1>3, <1>6
  <2>3. uploads'[o] = uploads[o]
    BY <1>6
  <2> QED
    BY <2>1, <2>2, <2>3 DEF SenderOf
<1>7. ASSUME Closed(u) PROVE Closed(u)'
  BY <1>4, <1>7 DEF Closed
<1>8. ASSUME NEW o \in Object, o # u, Closed(o) PROVE Closed(o)'
  <2>1. \A s \in Request : Sends(s, o)' <=> Sends(s, o)
    BY <1>2, <1>8
  <2>2. \A s \in Request : Sends(s, o) => req'[s] = req[s]
    BY <1>3, <1>8
  <2>3. uploads'[o] = uploads[o]
    BY <1>8
  <2> QED
    BY <1>8, <2>1, <2>2, <2>3 DEF Closed, At
<1> QED
  BY <1>5, <1>6, <1>7, <1>8 DEF Senders, StaysClosed, Object

\* What no request compares and no row leads to may be written.
LEMMA ComparedOpen ==
  ASSUME Typed, LeadInv, NEW s \in Request, req[s].pc \in Compared
  PROVE  Sends(s, req[s].o) /\ req[s].o \in Object /\ ~Closed(req[s].o)
<1>1. req[s].o \in Object /\ Sends(s, req[s].o) /\ ~At(s, "deleteUpload")
  BY DEF Typed, RequestsSound, SoundRequest, SoundAt, Compared, LeadInv, OpsSound, OpAt,
     Sends, SessionOps, At
<1> QED
  BY <1>1 DEF Closed

LEMMA CreateBytes ==
  ASSUME Typed, LeadInv, Typed', NEW r \in Request, NEW o \in Object, CreateBlobOid(o),
         NEW rec, Start(r, rec), rec.op \in SessionOps, rec.o = o, OpAt(rec),
         rec.pc \notin Compared, UNCHANGED <<uploads, blobs, gc>>
  PROVE  LeadInv'
<1>1. /\ o = created + 1 /\ created' = o /\ req[r] = Idle /\ req' = [req EXCEPT ![r] = rec]
      /\ \A p \in Object : p # o => objects'[p] = objects[p]
  BY DEF CreateBlobOid, Start, Typed, TablesTyped
<1>2. Senders' /\ StaysClosed
  BY <1>1, CreateStep DEF LeadInv
<1>3. ~(o <= created) /\ ~Closed(o) /\ \A s \in Request : ~Sends(s, o)
  BY <1>1 DEF Closed, Typed, TablesTyped, Object, LeadInv, Senders, SenderOf
<1>4. \A d \in Blob : blobs[d] # o
  BY <1>3 DEF LeadInv, RowsClosed
<1>5. \A s \in Request : req[s].pc \in Compared => objects'[req[s].o] = objects[req[s].o]
  BY <1>1, <1>3, ComparedOpen
<1>6. ExpiredListed' /\ RowsStep
  BY DEF LeadInv, ExpiredListed, RowsStep
<1>7. rec.op # "blob"
  BY DEF SessionOps
<1> QED
  BY <1>1, <1>2, <1>4, <1>5, <1>6, <1>7, RequestBytes

LEMMA UploadInitBytes ==
  ASSUME Typed, LeadInv, Typed', NEW r \in Request, NEW o \in Object, UploadInit(r, o)
  PROVE  LeadInv'
<1> DEFINE rec == [Idle EXCEPT !.op = "init", !.pc = "insertUpload", !.o = o]
<1>1. rec.op = "init" /\ rec.pc = "insertUpload" /\ rec.o = o
  BY DEF Idle
<1>2. CreateBlobOid(o) /\ Start(r, rec) /\ UNCHANGED <<uploads, blobs, gc>>
  BY DEF UploadInit
<1> HIDE DEF rec
<1>3. OpAt(rec) /\ rec.pc \notin Compared /\ rec.op \in SessionOps
  BY <1>1 DEF OpAt, Compared, SessionOps
<1> QED
  BY <1>1, <1>2, <1>3, CreateBytes

LEMMA UploadMonolithicBytes ==
  ASSUME Typed, LeadInv, Typed', NEW r \in Request, NEW o \in Object, NEW d \in Blob,
         NEW c \in Chunk, UploadMonolithic(r, o, d, c)
  PROVE  LeadInv'
<1> DEFINE rec == [Idle EXCEPT !.op = "monolithic", !.pc = "loPut", !.o = o, !.d = d,
                               !.chunk = c]
<1>1. rec.op = "monolithic" /\ rec.pc = "loPut" /\ rec.o = o
  BY DEF Idle
<1>2. CreateBlobOid(o) /\ Start(r, rec) /\ UNCHANGED <<uploads, blobs, gc>>
  BY DEF UploadMonolithic
<1> HIDE DEF rec
<1>3. OpAt(rec) /\ rec.pc \notin Compared /\ rec.op \in SessionOps
  BY <1>1 DEF OpAt, Compared, SessionOps
<1> QED
  BY <1>1, <1>2, <1>3, CreateBytes

\* A statement on the row of a session.
LEMMA SessionRowBytes ==
  ASSUME Typed, LeadInv, Typed', NEW r \in Request, NEW rec, req' = [req EXCEPT ![r] = rec],
         OpAt(rec), rec.pc \notin Compared, rec.op # "blob",
         UNCHANGED <<created, objects, blobs, gc>>,
         NEW u \in Object, u <= created,
         \A o \in Object \ {u} : uploads'[o] = uploads[o],
         ~uploads[u].expired,
         \A s \in Request : Sends(s, u) => s = r,
         req[r].op \in SessionOps => req[r].o = u,
         rec.op \in SessionOps => rec.o = u /\ rec.op # "monolithic",
         ~uploads'[u].expired,
         Closed(u) => rec.op \notin SessionOps /\ ~uploads'[u].row
  PROVE  LeadInv'
<1>1. Senders' /\ StaysClosed
  BY UploadStep DEF LeadInv
<1>2. ExpiredListed'
  BY DEF LeadInv, ExpiredListed, Typed, CollectionTyped
<1>3. RowsStep
  BY DEF RowsStep
<1> QED
  BY <1>1, <1>2, <1>3, RequestBytes

LEMMA InsertRegistryUploadBytes ==
  ASSUME Typed, LeadInv, Typed', NEW r \in Request, InsertRegistryUpload(r)
  PROVE  LeadInv'
<1>1. /\ Done(r) /\ req[r].pc = "insertUpload"
      /\ uploads' = [uploads EXCEPT ![req[r].o] = [NoUpload EXCEPT !.row = TRUE]]
      /\ UNCHANGED <<created, objects, blobs, gc>>
  BY DEF InsertRegistryUpload, At
<1>2. PICK u \in Object : u = req[r].o
  BY <1>1, SenderFacts
<1>3. /\ u <= created /\ ~uploads[u].expired /\ ~Closed(u)
      /\ \A s \in Request : Sends(s, u) => s = r
  BY <1>1, <1>2, SenderFacts
<1>4. uploads' = [uploads EXCEPT ![u] = [NoUpload EXCEPT !.row = TRUE]]
  BY <1>1, <1>2
<1>5. /\ \A o \in Object \ {u} : uploads'[o] = uploads[o]
      /\ ~uploads'[u].expired
  BY <1>4 DEF Typed, TablesTyped, NoUpload
<1>6. Idle.pc \notin Compared /\ Idle.op \notin SessionOps /\ Idle.op # "blob"
  BY DEF Idle, Compared, SessionOps
<1> QED
  BY <1>1, <1>2, <1>3, <1>5, <1>6, DoneIs, SessionRowBytes

LEMMA UpdateReceivedBytes ==
  ASSUME Typed, LeadInv, Typed', NEW r \in Request, UpdateRegistryUploadReceived(r)
  PROVE  LeadInv'
<1>1. /\ Done(r) /\ req[r].pc = "setReceived"
      /\ uploads' = [uploads EXCEPT ![req[r].o].received =
                       IF uploads[req[r].o].row THEN req[r].n ELSE @]
      /\ UNCHANGED <<created, objects, blobs, gc>>
  BY DEF UpdateRegistryUploadReceived, At
<1>2. PICK u \in Object : u = req[r].o
  BY <1>1, SenderFacts
<1>3. /\ u <= created /\ ~uploads[u].expired /\ ~Closed(u)
      /\ \A s \in Request : Sends(s, u) => s = r
  BY <1>1, <1>2, SenderFacts
<1>4. /\ \A o \in Object \ {u} : uploads'[o] = uploads[o]
      /\ ~uploads'[u].expired
  BY <1>1, <1>2, <1>3 DEF Typed, TablesTyped
<1>6. Idle.pc \notin Compared /\ Idle.op \notin SessionOps /\ Idle.op # "blob"
  BY DEF Idle, Compared, SessionOps
<1> QED
  BY <1>1, <1>2, <1>3, <1>4, <1>6, DoneIs, SessionRowBytes

LEMMA DeleteUploadBytes ==
  ASSUME Typed, LeadInv, Typed', NEW r \in Request, DeleteRegistryUpload(r)
  PROVE  LeadInv'
<1>1. /\ Done(r) /\ req[r].pc = "deleteUpload"
      /\ uploads' = [uploads EXCEPT ![req[r].o] = NoUpload]
      /\ UNCHANGED <<created, objects, blobs, gc>>
  BY DEF DeleteRegistryUpload, At
<1>2. PICK u \in Object : u = req[r].o
  BY <1>1, SenderFacts
<1>3. /\ u <= created /\ ~uploads[u].expired
      /\ \A s \in Request : Sends(s, u) => s = r
  BY <1>1, <1>2, SenderFacts
<1>4. uploads' = [uploads EXCEPT ![u] = NoUpload]
  BY <1>1, <1>2
<1>5. /\ \A o \in Object \ {u} : uploads'[o] = uploads[o]
      /\ ~uploads'[u].expired /\ ~uploads'[u].row
  BY <1>4 DEF Typed, TablesTyped, NoUpload
<1>6. Idle.pc \notin Compared /\ Idle.op \notin SessionOps /\ Idle.op # "blob"
  BY DEF Idle, Compared, SessionOps
<1> QED
  BY <1>1, <1>2, <1>3, <1>5, <1>6, DoneIs, SessionRowBytes

LEMMA UploadCancelBytes ==
  ASSUME Typed, LeadInv, Typed', Orderly, NEW r \in Request, NEW o \in Object,
         UploadCancel(r, o)
  PROVE  LeadInv'
<1> DEFINE rec == [Idle EXCEPT !.op = "cancel", !.pc = "unlink", !.o = o]
<1>1. rec.op = "cancel" /\ rec.pc = "unlink" /\ rec.o = o
  BY DEF Idle
<1>2. /\ Start(r, rec) /\ uploads[o].row /\ MaySend(o)
      /\ uploads' = [uploads EXCEPT ![o] = NoUpload]
      /\ UNCHANGED <<created, objects, blobs, gc>>
  BY DEF UploadCancel
<1> HIDE DEF rec
<1>3. ~uploads[o].expired /\ \A s \in Request : ~Sends(s, o)
  BY <1>2 DEF MaySend, OnSession, Sends
<1>4. req' = [req EXCEPT ![r] = rec] /\ req[r].op \notin SessionOps
  BY <1>2 DEF Start, Idle, SessionOps
<1>5. OpAt(rec) /\ rec.pc \notin Compared
  BY <1>1 DEF OpAt, Compared, SessionOps
<1>6. o <= created /\ ~Closed(o)
  BY <1>2, <1>3 DEF LeadInv, Senders, SenderOf, Closed
<1>7. /\ \A p \in Object \ {o} : uploads'[p] = uploads[p]
      /\ ~uploads'[o].expired
  BY <1>2 DEF Typed, TablesTyped, NoUpload
<1> QED
  BY <1>1, <1>2, <1>3, <1>4, <1>5, <1>6, <1>7, SessionRowBytes

LEMMA LoPutBytes ==
  ASSUME Typed, LeadInv, Typed', NEW r \in Request, LoPut(r)
  PROVE  LeadInv'
<1>1. /\ UNCHANGED <<created, uploads, blobs, gc>>
      /\ req[r].pc = "loPut" /\ ~At(r, "deleteUpload")
      /\ req[r] \in Requests /\ req[r].op \in {"patch", "complete", "monolithic"}
  BY DEF LoPut, At, LeadInv, OpsSound, OpAt, Typed, RequestsSound
<1>2. CASE Done(r) /\ UNCHANGED objects
  BY <1>1, <1>2, EndsQuietly
<1>3. ASSUME objects' = [objects EXCEPT ![req[r].o] =
                           {Written(b, req[r].n, req[r].chunk) : b \in @}],
             req' = [req EXCEPT ![r].n = @ + 1,
                       ![r].pc = IF req[r].op = "patch" THEN "setReceived" ELSE "digest"]
      PROVE  LeadInv'
  <2> DEFINE rec == [req[r] EXCEPT !.n = @ + 1,
                       !.pc = IF req[r].op = "patch" THEN "setReceived" ELSE "digest"]
  <2>1. /\ rec.op = req[r].op /\ rec.o = req[r].o /\ rec.d = req[r].d
        /\ rec.pc = IF req[r].op = "patch" THEN "setReceived" ELSE "digest"
    BY <1>1 DEF Requests
  <2>2. req' = [req EXCEPT ![r] = rec]
    BY <1>3 DEF Typed, RequestsSound
  <2> HIDE DEF rec
  <2>3. OpAt(rec) /\ rec.pc \notin Compared /\ rec.op # "blob"
    BY <1>1, <2>1 DEF OpAt, Compared, SessionOps
  <2>4. \A o \in Object : o # req[r].o => objects'[o] = objects[o]
    BY <1>3 DEF Typed, TablesTyped
  <2>5. Senders' /\ StaysClosed
    BY <1>1, <2>1, <2>2, SessionStep DEF LeadInv
  <2>6. ExpiredListed' /\ RowsStep
    BY <1>1 DEF LeadInv, ExpiredListed, RowsStep
  <2>7. /\ \A s \in Request \ {r} : req[s].pc \in Compared => req[s].o # req[r].o
        /\ \A d \in Blob : blobs[d] # req[r].o
    BY <1>1, SenderFacts
  <2>8. \A s \in Request \ {r} : req[s].pc \in Compared =>
          objects'[req[s].o] = objects[req[s].o]
    BY <2>4, <2>7, ComparedOpen
  <2> QED
    BY <1>1, <2>2, <2>3, <2>4, <2>5, <2>6, <2>7, <2>8, RequestBytes
<1> QED
  BY <1>2, <1>3 DEF LoPut

\* The row of a blob is written: its object closes.
LEMMA InsertRegistryBlobBytes ==
  ASSUME Typed, LeadInv, Typed', NEW r \in Request, InsertRegistryBlob(r)
  PROVE  LeadInv'
<1>1. /\ UNCHANGED <<created, objects, uploads, gc>>
      /\ req[r].pc = "insertBlob" /\ ~At(r, "deleteUpload")
      /\ req[r].op \in {"complete", "monolithic"}
      /\ objects[req[r].o] = {Bytes[req[r].d]}
      /\ blobs' = [blobs EXCEPT ![req[r].d] = IF @ = 0 THEN req[r].o ELSE @]
      /\ req[r].d \in Blob
  BY DEF InsertRegistryBlob, At, LeadInv, OpsSound, OpAt, Verified, Compared,
     Typed, RequestsSound, SoundRequest, SoundAt
<1>2. PICK o \in Object : o = req[r].o
  BY <1>1, SenderFacts
<1>3. /\ o <= created /\ ~Closed(o) /\ \A s \in Request : Sends(s, o) => s = r
      /\ req[r].op = "monolithic" => ~uploads[o].row
  BY <1>1, <1>2, SenderFacts
<1>4. PICK rec : /\ req' = [req EXCEPT ![r] = rec] /\ OpAt(rec)
                 /\ rec.pc \notin Compared /\ rec.op # "blob"
                 /\ \/ req[r].op = "monolithic" /\ rec.op \notin SessionOps
                    \/ /\ req[r].op = "complete" /\ rec.op = "complete"
                       /\ rec.pc = "deleteUpload" /\ rec.o = o
  <2>1. CASE req[r].op = "monolithic"
    <3>1. Done(r) /\ Idle.op \notin SessionOps /\ Idle.pc \notin Compared /\ Idle.op # "blob"
      BY <2>1 DEF InsertRegistryBlob, SessionOps, Idle, Compared
    <3> QED
      BY <2>1, <3>1, DoneIs
  <2>2. CASE req[r].op = "complete"
    <3>1. Goto(r, "deleteUpload")
      BY <2>2 DEF InsertRegistryBlob
    <3>2. PICK rec : /\ req' = [req EXCEPT ![r] = rec]
                     /\ rec.pc = "deleteUpload" /\ rec.op = req[r].op /\ rec.o = req[r].o
      BY <3>1, GotoIs
    <3>3. OpAt(rec) /\ rec.pc \notin Compared /\ rec.op # "blob"
      BY <2>2, <3>2 DEF OpAt, Compared
    <3> QED
      BY <1>2, <2>2, <3>2, <3>3
  <2> QED
    BY <1>1, <2>1, <2>2
<1>5. Senders' /\ StaysClosed
  BY <1>1, <1>2, <1>4, SessionStep DEF LeadInv
<1>6. \A s \in Request : req'[s] = IF s = r THEN rec ELSE req[s]
  BY <1>4 DEF Typed, RequestsSound
<1>7. Closed(o)'
  <2>1. ASSUME NEW s \in Request, Sends(s, o)' PROVE At(s, "deleteUpload")'
    BY <1>3, <1>4, <1>6, <2>1 DEF Sends, At
  <2>2. uploads'[o].row => Sends(r, o)'
    BY <1>1, <1>3, <1>4, <1>6 DEF Sends, SessionOps
  <2> QED
    BY <1>1, <1>3, <2>1, <2>2 DEF Closed
<1>8. \A d \in Blob : \/ blobs'[d] = blobs[d]
                      \/ d = req[r].d /\ blobs'[d] = o
  BY <1>1, <1>2 DEF Typed, TablesTyped
<1>9. RowsStep
  <2>1. CASE blobs'[req[r].d] = blobs[req[r].d]
    BY <1>8, <2>1 DEF RowsStep
  <2>2. CASE blobs'[req[r].d] = o
    <3>1. \A e \in Blob \ {req[r].d} : blobs'[e] = blobs[e]
      BY <1>8
    <3> QED
      BY <1>1, <1>3, <1>7, <2>2, <3>1 DEF RowsStep
  <2> QED
    BY <1>1, <1>8, <2>1, <2>2
<1>10. ExpiredListed'
  BY <1>1 DEF LeadInv, ExpiredListed
<1>11. \A d \in Blob, p \in Object : blobs'[d] = p =>
         \/ blobs[d] = p /\ objects'[p] = objects[p]
         \/ objects'[p] = {Bytes[d]}
  BY <1>1, <1>2, <1>8
<1> QED
  BY <1>1, <1>4, <1>5, <1>9, <1>10, <1>11, RequestBytes

\* The object that is dropped is the one of no row.
LEMMA UnlinkBlobOidBytes ==
  ASSUME Typed, LeadInv, Typed', NEW r \in Request, UnlinkBlobOid(r)
  PROVE  LeadInv'
<1>1. /\ UNCHANGED <<created, uploads, blobs, gc>>
      /\ req[r].pc = "unlink" /\ ~At(r, "deleteUpload") /\ ~At(r, "deleteBlob")
      /\ req[r].op \in {"complete", "monolithic", "cancel", "blob"}
      /\ objects' = [objects EXCEPT ![req[r].o] = {}]
      /\ req[r].o \in Object
  BY DEF UnlinkBlobOid, At, LeadInv, OpsSound, OpAt, Typed, RequestsSound, SoundRequest, SoundAt
<1>2. /\ \A s \in Request \ {r} : req[s].pc \in Compared => req[s].o # req[r].o
      /\ \A d \in Blob : blobs[d] # req[r].o
  <2>1. CASE req[r].op # "blob"
    BY <1>1, <2>1, SenderFacts
  <2>2. CASE req[r].op = "blob"
    <3>1. Closed(req[r].o) /\ \A d \in Blob : blobs[d] # req[r].o
      BY <1>1, <2>2 DEF LeadInv, DeletesSound
    <3> QED
      BY <3>1, ComparedOpen
  <2> QED
    BY <2>1, <2>2
<1>3. \A o \in Object : o # req[r].o => objects'[o] = objects[o]
  BY <1>1 DEF Typed, TablesTyped
<1>4. PICK rec : /\ req' = [req EXCEPT ![r] = rec] /\ OpAt(rec)
                 /\ rec.pc \notin Compared /\ rec.op # "blob"
                 /\ rec.op \notin SessionOps \/ (rec.op = req[r].op /\ rec.o = req[r].o)
  <2>1. CASE Done(r)
    <3>1. Idle.op \notin SessionOps /\ Idle.pc \notin Compared /\ Idle.op # "blob"
      BY DEF SessionOps, Idle, Compared
    <3> QED
      BY <2>1, <3>1, DoneIs
  <2>2. CASE req[r].op = "complete" /\ Goto(r, "deleteUpload")
    <3>1. PICK rec : /\ req' = [req EXCEPT ![r] = rec]
                     /\ rec.pc = "deleteUpload" /\ rec.op = req[r].op /\ rec.o = req[r].o
      BY <2>2, GotoIs
    <3>2. OpAt(rec) /\ rec.pc \notin Compared /\ rec.op # "blob"
      BY <2>2, <3>1 DEF OpAt, Compared
    <3> QED
      BY <3>1, <3>2
  <2> QED
    BY <2>1, <2>2 DEF UnlinkBlobOid
<1>5. Senders' /\ StaysClosed
  BY <1>1, <1>4, SessionStep DEF LeadInv
<1>6. ExpiredListed' /\ RowsStep
  BY <1>1 DEF LeadInv, ExpiredListed, RowsStep
<1>7. \A s \in Request \ {r} : req[s].pc \in Compared =>
        objects'[req[s].o] = objects[req[s].o]
  BY <1>2, <1>3, ComparedOpen
<1>8. \A d \in Blob, o \in Object : blobs'[d] = o =>
        \/ blobs[d] = o /\ objects'[o] = objects[o]
        \/ objects'[o] = {Bytes[d]}
  BY <1>1, <1>2, <1>3
<1>9. /\ req' = [req EXCEPT ![r] = rec] /\ OpAt(rec) /\ gc' = gc
      /\ rec.pc \in Compared => objects'[rec.o] = {Bytes[rec.d]}
      /\ \A o \in Object : rec.op = "blob" /\ rec.o = o =>
           Closed(o)' /\ \A e \in Blob : blobs'[e] = o => e = rec.d /\ rec.pc = "deleteBlob"
  BY <1>1, <1>4
<1> QED
  BY <1>5, <1>6, <1>7, <1>8, <1>9, RequestBytes, Zenon

LEMMA BlobDeleteBytes ==
  ASSUME Typed, LeadInv, Typed', NEW r \in Request, NEW d \in Blob, BlobDelete(r, d)
  PROVE  LeadInv'
<1> DEFINE rec == [Idle EXCEPT !.op = "blob", !.pc = "deleteBlob", !.d = d, !.o = blobs[d]]
<1>1. rec.op = "blob" /\ rec.pc = "deleteBlob" /\ rec.d = d /\ rec.o = blobs[d]
  BY DEF Idle
<1>2. /\ req' = [req EXCEPT ![r] = rec] /\ req[r] = Idle
      /\ UNCHANGED <<created, objects, uploads, blobs, gc>>
  BY DEF BlobDelete, Start, tables
<1> HIDE DEF rec
<1>3. OpAt(rec) /\ rec.pc \notin Compared /\ rec.op \notin SessionOps /\ ~At(r, "deleteUpload")
  BY <1>1, <1>2 DEF OpAt, Compared, SessionOps, Idle, At
<1>4. Senders' /\ StaysClosed
  BY <1>2, <1>3, SessionStep DEF LeadInv
<1>5. ExpiredListed' /\ RowsStep
  BY <1>2 DEF LeadInv, ExpiredListed, RowsStep
<1>6. \A o \in Object : rec.o = o =>
        Closed(o)' /\ \A e \in Blob : blobs'[e] = o => e = rec.d /\ rec.pc = "deleteBlob"
  BY <1>1, <1>2, <1>4 DEF LeadInv, RowsClosed, StaysClosed
<1> QED
  BY <1>2, <1>3, <1>4, <1>5, <1>6, RequestBytes

LEMMA DeleteRegistryBlobBytes ==
  ASSUME Typed, LeadInv, Typed', NEW r \in Request, DeleteRegistryBlob(r)
  PROVE  LeadInv'
<1>1. /\ req[r].pc = "deleteBlob" /\ req[r].op = "blob" /\ req[r].d \in Blob
      /\ blobs' = [blobs EXCEPT ![req[r].d] = 0] /\ Goto(r, "unlink")
      /\ UNCHANGED <<created, objects, uploads, gc>>
  BY DEF DeleteRegistryBlob, At, LeadInv, OpsSound, OpAt, Typed, RequestsSound, SoundRequest,
     SoundAt
<1>2. PICK rec : /\ req' = [req EXCEPT ![r] = rec]
                 /\ rec.pc = "unlink" /\ rec.op = "blob" /\ rec.o = req[r].o
  BY <1>1, GotoIs
<1>3. OpAt(rec) /\ rec.pc \notin Compared /\ rec.op \notin SessionOps /\ ~At(r, "deleteUpload")
  BY <1>1, <1>2 DEF OpAt, Compared, SessionOps, At
<1>4. Senders' /\ StaysClosed
  BY <1>1, <1>2, <1>3, SessionStep DEF LeadInv
<1>5. \A d \in Blob : blobs'[d] = IF d = req[r].d THEN 0 ELSE blobs[d]
  BY <1>1 DEF Typed, TablesTyped
<1>6. ExpiredListed' /\ RowsStep
  BY <1>1, <1>5 DEF LeadInv, ExpiredListed, RowsStep
<1>7. ASSUME NEW o \in Object, rec.o = o
      PROVE  Closed(o)' /\ \A e \in Blob : blobs'[e] # o
  <2>1. Closed(o) /\ \A e \in Blob : blobs[e] = o => e = req[r].d
    BY <1>1, <1>2, <1>7 DEF LeadInv, DeletesSound
  <2> QED
    BY <1>4, <1>5, <2>1 DEF StaysClosed, Object
<1>8. \A d \in Blob, o \in Object : blobs'[d] = o =>
        \/ blobs[d] = o /\ objects'[o] = objects[o]
        \/ objects'[o] = {Bytes[d]}
  BY <1>1, <1>5 DEF Object
<1>9. /\ req' = [req EXCEPT ![r] = rec] /\ gc' = gc
      /\ rec.pc \in Compared => objects'[rec.o] = {Bytes[rec.d]}
      /\ \A s \in Request \ {r} : req[s].pc \in Compared =>
           objects'[req[s].o] = objects[req[s].o]
      /\ \A o \in Object : rec.op = "blob" /\ rec.o = o =>
           Closed(o)' /\ \A e \in Blob : blobs'[e] = o => e = rec.d /\ rec.pc = "deleteBlob"
  BY <1>1, <1>2, <1>3, <1>7
<1> QED
  BY <1>3, <1>4, <1>6, <1>8, <1>9, RequestBytes, Zenon

-----------------------------------------------------------------------------
(* The day that passes and the collection.                                 *)

LEMMA DeletesStay ==
  ASSUME DeletesSound, RowsStep, StaysClosed, UNCHANGED req
  PROVE  DeletesSound'
<1> SUFFICES ASSUME NEW s \in Request, NEW o \in Object, req[s].op = "blob", req[s].o = o
             PROVE  /\ Closed(o)'
                    /\ \A e \in Blob : blobs'[e] = o => e = req[s].d /\ At(s, "deleteBlob")
  BY DEF DeletesSound, Object, At
<1>1. Closed(o) /\ \A e \in Blob : blobs[e] = o => e = req[s].d /\ At(s, "deleteBlob")
  BY DEF DeletesSound
<1> QED
  BY <1>1, RowsKept DEF StaysClosed

\* The parts of the invariant after a step of no request.
LEMMA CollectionBytes ==
  ASSUME Typed, LeadInv, Typed', UNCHANGED <<created, req>>,
         Senders', StaysClosed, ExpiredListed', RowsStep,
         \A d \in Blob, o \in Object : gc'.pc = "blobs" /\ <<d, o>> \in gc'.todo =>
           \/ gc.pc = "blobs" /\ <<d, o>> \in gc.todo
           \/ Closed(o) /\ \A e \in Blob : blobs[e] = o => e = d,
         \A s \in Request : req[s].pc \in Compared => objects'[req[s].o] = objects[req[s].o],
         \A d \in Blob, o \in Object : blobs'[d] = o =>
           \/ /\ blobs[d] = o /\ objects'[o] = objects[o]
              /\ gc.pc = "blobs" /\ <<d, o>> \in gc.cur => gc'.pc = "blobs" /\ <<d, o>> \in gc'.cur
           \/ gc'.pc = "blobs" /\ <<d, o>> \in gc'.cur
  PROVE  LeadInv'
<1>1. OpsSound'
  BY DEF LeadInv, OpsSound, OpAt, SessionOps
<1>2. Verified'
  BY DEF LeadInv, Verified, Compared
<1>3. RowsClosed' /\ CollectsSound' /\ DeletesSound'
  BY RowsClosedStep, CollectsStep, DeletesStay DEF LeadInv
<1>4. RowsLead'
  BY LeadsStep DEF LeadInv, Typed
<1> QED
  BY <1>1, <1>2, <1>3, <1>4 DEF LeadInv

\* A step that changes only the list of the collection.
LEMMA QuietCollection ==
  ASSUME Typed, LeadInv, Typed', UNCHANGED <<created, objects, uploads, blobs, req>>,
         ExpiredListed', gc.pc = "blobs" => gc.cur = {},
         \A d \in Blob, o \in Object : gc'.pc = "blobs" /\ <<d, o>> \in gc'.todo =>
           \/ gc.pc = "blobs" /\ <<d, o>> \in gc.todo
           \/ Closed(o) /\ \A e \in Blob : blobs[e] = o => e = d
  PROVE  LeadInv'
<1>1. Senders'
  BY DEF LeadInv, Senders, SenderOf, Sends, SessionOps, Object
<1>2. StaysClosed
  BY DEF StaysClosed, Closed, Sends, SessionOps, At
<1>3. RowsStep
  BY DEF RowsStep
<1> QED
  BY <1>1, <1>2, <1>3, CollectionBytes

\* A session without a request is expired, or its row goes.
LEMMA SessionEnds ==
  ASSUME Typed, Senders, UNCHANGED <<created, req>>, NEW u \in Object,
         uploads[u].row, \A s \in Request : ~Sends(s, u),
         \A o \in Object \ {u} : uploads'[o] = uploads[o],
         uploads'[u].expired => uploads'[u].row
  PROVE  Senders' /\ StaysClosed /\ ~Closed(u)
<1>1. ~Closed(u)
  BY DEF Closed
<1>2. ASSUME NEW o \in Object PROVE SenderOf(o)'
  <2>1. SenderOf(o)
    BY DEF Senders
  <2>2. CASE o # u
    BY <2>1, <2>2 DEF SenderOf, Sends, SessionOps
  <2>3. CASE o = u
    <3>1. \A s \in Request : ~Sends(s, u)'
      BY DEF Sends, SessionOps
    <3> QED
      BY <2>1, <2>3, <3>1 DEF SenderOf
  <2> QED
    BY <2>2, <2>3
<1>3. ASSUME NEW o \in Object, Closed(o) PROVE Closed(o)'
  <2>1. o # u
    BY <1>1, <1>3
  <2> QED
    BY <1>3, <2>1 DEF Closed, Sends, SessionOps, At
<1> QED
  BY <1>1, <1>2, <1>3 DEF Senders, StaysClosed, Object

LEMMA UploadExpiresBytes ==
  ASSUME Typed, LeadInv, Typed', Orderly, NEW u \in Object, UploadExpires(u)
  PROVE  LeadInv'
<1>1. /\ UNCHANGED <<created, objects, blobs, req, gc>>
      /\ uploads[u].row /\ \A s \in Request : ~Sends(s, u)
      /\ uploads' = [uploads EXCEPT ![u].expired = TRUE]
  BY DEF UploadExpires, OnSession, Sends
<1>2. /\ \A o \in Object \ {u} : uploads'[o] = uploads[o]
      /\ uploads'[u].row /\ uploads'[u].expired
  BY <1>1 DEF Typed, TablesTyped
<1>3. Senders' /\ StaysClosed
  BY <1>1, <1>2, SessionEnds DEF LeadInv
<1>4. ExpiredListed'
  BY <1>1, <1>2 DEF LeadInv, ExpiredListed, Typed, CollectionTyped
<1>5. RowsStep
  BY <1>1 DEF RowsStep
<1> QED
  BY <1>1, <1>3, <1>4, <1>5, CollectionBytes

\* The collection takes sessions no request is on.
LEMMA ExpiredFree ==
  ASSUME Typed, LeadInv, gc.pc = "uploads", NEW u \in gc.todo
  PROVE  /\ u \in Object /\ uploads[u].row /\ ~Closed(u)
         /\ \A s \in Request : ~Sends(s, u)
         /\ \A s \in Request : req[s].pc \in Compared => req[s].o # u
         /\ \A d \in Blob : blobs[d] # u
<1>1. u \in Object /\ uploads[u].row /\ \A s \in Request : ~Sends(s, u)
  BY DEF LeadInv, ExpiredListed, Senders, SenderOf, Typed, CollectionTyped
<1>2. ~Closed(u)
  BY <1>1 DEF Closed
<1> QED
  BY <1>1, <1>2, ComparedOpen DEF LeadInv, RowsClosed

LEMMA UnlinkExpiredBytes ==
  ASSUME Typed, LeadInv, Typed', NEW u \in Object, UnlinkExpired(u)
  PROVE  LeadInv'
<1>1. /\ UNCHANGED <<created, uploads, blobs, req>> /\ gc.pc = "uploads" /\ u \in gc.todo
      /\ gc'.pc = "uploads" /\ gc'.todo \subseteq gc.todo
      /\ \A o \in Object : o # u => objects'[o] = objects[o]
  BY DEF UnlinkExpired, Item, NextItem, Typed, TablesTyped, CollectionTyped
<1>2. /\ \A s \in Request : req[s].pc \in Compared => req[s].o # u
      /\ \A d \in Blob : blobs[d] # u
  BY <1>1, ExpiredFree
<1>3. Senders'
  BY <1>1 DEF LeadInv, Senders, SenderOf, Sends, SessionOps, Object
<1>4. StaysClosed
  BY <1>1 DEF StaysClosed, Closed, Sends, SessionOps, At
<1>5. ExpiredListed' /\ RowsStep
  BY <1>1 DEF LeadInv, ExpiredListed, RowsStep
<1>6. \A s \in Request : req[s].pc \in Compared => objects'[req[s].o] = objects[req[s].o]
  BY <1>1, <1>2, ComparedOpen
<1>7. \A d \in Blob, o \in Object : blobs'[d] = o => blobs[d] = o /\ objects'[o] = objects[o]
  BY <1>1, <1>2
<1> QED
  BY <1>1, <1>3, <1>4, <1>5, <1>6, <1>7, CollectionBytes

LEMMA DeleteExpiredBytes ==
  ASSUME Typed, LeadInv, Typed', NEW u \in Object, DeleteExpired(u)
  PROVE  LeadInv'
<1>1. /\ UNCHANGED <<created, objects, blobs, req>> /\ gc.pc = "uploads" /\ u \in gc.todo
      /\ gc'.pc = "uploads" /\ gc'.todo = gc.todo \ {u}
      /\ uploads' = [uploads EXCEPT ![u] = NoUpload]
  BY DEF DeleteExpired, Item, NextItem, Typed, CollectionTyped
<1>2. /\ \A o \in Object \ {u} : uploads'[o] = uploads[o]
      /\ ~uploads'[u].expired
  BY <1>1 DEF Typed, TablesTyped, NoUpload
<1>3. Senders' /\ StaysClosed
  BY <1>1, <1>2, ExpiredFree, SessionEnds DEF LeadInv
<1>4. ExpiredListed'
  BY <1>1, <1>2 DEF LeadInv, ExpiredListed, Typed, CollectionTyped
<1>5. RowsStep
  BY <1>1 DEF RowsStep
<1> QED
  BY <1>1, <1>3, <1>4, <1>5, CollectionBytes

\* What the collection is about to unlink is closed: no request compares it.
LEMMA UnlinkOrphanBytes ==
  ASSUME Typed, LeadInv, Typed', NEW d \in Blob, NEW u \in Object, UnlinkOrphan(<<d, u>>)
  PROVE  LeadInv'
<1>1. /\ UNCHANGED <<created, uploads, blobs, req>>
      /\ gc.pc = "blobs" /\ <<d, u>> \in gc.todo /\ gc.cur = {}
      /\ gc'.pc = "blobs" /\ gc'.todo \subseteq gc.todo
  BY DEF UnlinkOrphan, Item, NextItem, Typed, CollectionTyped
<1>2. /\ \A o \in Object : o # u => objects'[o] = objects[o]
      /\ objects' = objects \/ gc'.cur = {<<d, u>>}
  BY DEF UnlinkOrphan, NextItem, Typed, TablesTyped, CollectionTyped
<1>3. Closed(u) /\ \A e \in Blob : blobs[e] = u => e = d
  BY <1>1 DEF LeadInv, CollectsSound
<1>4. Senders'
  BY <1>1 DEF LeadInv, Senders, SenderOf, Sends, SessionOps, Object
<1>5. StaysClosed
  BY <1>1 DEF StaysClosed, Closed, Sends, SessionOps, At
<1>6. ExpiredListed' /\ RowsStep
  BY <1>1 DEF LeadInv, ExpiredListed, RowsStep
<1>7. \A s \in Request : req[s].pc \in Compared => objects'[req[s].o] = objects[req[s].o]
  BY <1>2, <1>3, ComparedOpen
<1>8. ASSUME NEW e \in Blob, NEW o \in Object, blobs'[e] = o
      PROVE  \/ blobs[e] = o /\ objects'[o] = objects[o]
             \/ <<e, o>> \in gc'.cur
  BY <1>1, <1>2, <1>3, <1>8
<1> QED
  BY <1>1, <1>4, <1>5, <1>6, <1>7, <1>8, CollectionBytes

LEMMA DeleteOrphanBytes ==
  ASSUME Typed, LeadInv, Typed', NEW d \in Blob, NEW u \in Object, DeleteOrphan(<<d, u>>)
  PROVE  LeadInv'
<1>1. /\ UNCHANGED <<created, objects, uploads, req>>
      /\ gc.pc = "blobs" /\ gc.cur = {<<d, u>>}
      /\ gc'.pc = "blobs" /\ gc'.todo \subseteq gc.todo
      /\ blobs' = [blobs EXCEPT ![d] = 0]
  BY DEF DeleteOrphan, Item, NextItem, Typed, CollectionTyped
<1>2. \A e \in Blob : blobs'[e] = IF e = d THEN 0 ELSE blobs[e]
  BY <1>1 DEF Typed, TablesTyped
<1>3. Senders'
  BY <1>1 DEF LeadInv, Senders, SenderOf, Sends, SessionOps, Object
<1>4. StaysClosed
  BY <1>1 DEF StaysClosed, Closed, Sends, SessionOps, At
<1>5. ExpiredListed' /\ RowsStep
  BY <1>1, <1>2 DEF LeadInv, ExpiredListed, RowsStep
<1>6. \A e \in Blob, o \in Object : blobs'[e] = o =>
        blobs[e] = o /\ objects'[o] = objects[o] /\ <<e, o>> \notin gc.cur
  BY <1>1, <1>2 DEF Object
<1> QED
  BY <1>1, <1>3, <1>4, <1>5, <1>6, CollectionBytes

LEMMA CollectionStepBytes ==
  ASSUME Typed, LeadInv, Typed', Collection
  PROVE  LeadInv'
<1>1. CASE ListExpiredRegistryUploads
  <2>1. /\ UNCHANGED <<created, objects, uploads, blobs, req>> /\ gc.pc = "idle"
        /\ gc'.pc = "uploads" /\ gc'.todo = {o \in Object : uploads[o].expired}
    BY <1>1 DEF ListExpiredRegistryUploads, Collect, tables
  <2>2. ExpiredListed'
    BY <2>1 DEF ExpiredListed
  <2> QED
    BY <2>1, <2>2, QuietCollection
<1>2. CASE ListOrphanRegistryManifests
  <2>1. /\ UNCHANGED <<created, objects, uploads, blobs, req>> /\ gc.pc = "uploads"
        /\ gc'.pc = "manifests"
    BY <1>2 DEF ListOrphanRegistryManifests, Collect, tables
  <2>2. ExpiredListed'
    BY <2>1 DEF ExpiredListed
  <2> QED
    BY <2>1, <2>2, QuietCollection
<1>3. CASE ListOrphanRegistryBlobs
  <2>1. /\ UNCHANGED <<created, objects, uploads, blobs, req>> /\ gc.pc = "manifests"
        /\ gc'.pc = "blobs"
        /\ gc'.todo = {<<d, blobs[d]>> : d \in {b \in Blob : blobs[b] # 0 /\ ~Referenced(b)}}
    BY <1>3 DEF ListOrphanRegistryBlobs, Collect, Orphans, tables
  <2>2. ExpiredListed'
    BY <2>1 DEF ExpiredListed
  <2>3. ASSUME NEW d \in Blob, NEW o \in Object, <<d, o>> \in gc'.todo
        PROVE  Closed(o) /\ \A e \in Blob : blobs[e] = o => e = d
    <3>1. blobs[d] = o
      BY <2>1, <2>3
    <3> QED
      BY <3>1 DEF LeadInv, RowsClosed
  <2> QED
    BY <2>1, <2>2, <2>3, QuietCollection
<1>4. ASSUME NEW m \in Manifest, DeleteOrphanManifest(m) PROVE LeadInv'
  <2>1. /\ UNCHANGED <<created, objects, uploads, blobs, req>> /\ gc.pc = "manifests"
        /\ gc'.pc = "manifests"
    BY <1>4 DEF DeleteOrphanManifest, Item, NextItem, Typed, CollectionTyped
  <2>2. ExpiredListed'
    BY <2>1 DEF ExpiredListed
  <2> QED
    BY <2>1, <2>2, QuietCollection
<1>5. CASE CollectionEnds
  <2>1. /\ UNCHANGED <<created, objects, uploads, blobs, req>> /\ gc.cur = {}
        /\ gc'.pc = "idle"
    BY <1>5 DEF CollectionEnds, Collect, tables, Typed, CollectionTyped
  <2>2. ExpiredListed'
    BY <2>1 DEF ExpiredListed
  <2> QED
    BY <2>1, <2>2, QuietCollection
<1> QED
  BY <1>1, <1>2, <1>3, <1>4, <1>5, UnlinkExpiredBytes, DeleteExpiredBytes, UnlinkOrphanBytes,
     DeleteOrphanBytes DEF Collection

-----------------------------------------------------------------------------
LEMMA UploadBytes ==
  ASSUME Typed, LeadInv, Typed', Orderly, NEW r \in Request, Upload(r)
  PROVE  LeadInv'
BY UploadInitBytes, UploadCancelBytes, UploadPatchBytes, UploadMonolithicBytes,
   UploadCompleteBytes, InsertRegistryUploadBytes, LoPutBytes, UpdateReceivedBytes,
   ComputeBlobDigestBytes, LookUpExistingBytes, InsertRegistryBlobBytes, UnlinkBlobOidBytes,
   DeleteUploadBytes DEF Upload

LEMMA BytesInvInit ==
  ASSUME Init
  PROVE  BytesInv
<1> USE DEF Init
<1>1. OpsSound
  BY DEF OpsSound, OpAt, Idle, SessionOps
<1>2. Senders /\ ExpiredListed
  BY DEF Senders, SenderOf, Sends, Idle, SessionOps, NoUpload, ExpiredListed
<1>3. RowsClosed /\ RowsLead
  BY DEF RowsClosed, RowsLead, Object
<1>4. DeletesSound /\ CollectsSound /\ Verified
  BY DEF DeletesSound, CollectsSound, Verified, Idle, Compared
<1> QED
  BY <1>1, <1>2, <1>3, <1>4 DEF BytesInv, LeadInv

LEMMA BytesInvStep ==
  ASSUME Orderly, Typed, BytesInv, Typed', [Next]_vars
  PROVE  BytesInv'
<1> SUFFICES ASSUME faults' = 0 PROVE LeadInv'
  BY DEF BytesInv
<1>1. CASE Failure
  <2>1. faults \in Nat /\ faults' = faults + 1
    BY <1>1 DEF Failure, RequestFails, StatementCaught, CollectionItemFails, CollectionDies,
       Fault, Typed
  <2> QED
    BY <2>1
<1>2. ASSUME ~Failure PROVE LeadInv'
  <2>1. faults = 0
    <3>1. ASSUME NEW r \in Request, Upload(r) PROVE faults' = faults
      BY <3>1 DEF Upload, UploadInit, UploadCancel, UploadPatch, UploadMonolithic,
         UploadComplete, InsertRegistryUpload, LoPut, UpdateRegistryUploadReceived,
         ComputeBlobDigest, LookUpExisting, InsertRegistryBlob, UnlinkBlobOid,
         DeleteRegistryUpload
    <3>2. ASSUME NEW r \in Request, Content(r) PROVE faults' = faults
      BY <3>2 DEF Content, ManifestPut, CheckRef, InsertRegistryManifest, UpsertRegistryTag,
         ManifestDelete, DeleteRegistryTag, DeleteTag, ListRegistryTagsForRepo,
         DeleteRegistryManifestIfUnreferenced, Untag, OtherTags, DeleteManifest, BlobDelete,
         DeleteRegistryBlob
    <3>3. ASSUME Collection PROVE faults' = faults
      BY <3>3 DEF Collection, ListExpiredRegistryUploads, UnlinkExpired, DeleteExpired,
         ListOrphanRegistryManifests, DeleteOrphanManifest, ListOrphanRegistryBlobs,
         UnlinkOrphan, DeleteOrphan, CollectionEnds
    <3> QED
      BY <1>2, <3>1, <3>2, <3>3 DEF Next, UploadExpires, vars
  <2>2. LeadInv
    BY <2>1 DEF BytesInv
  <2>3. ASSUME NEW r \in Request, Content(r) PROVE LeadInv'
    BY <2>2, <2>3, ContentBytes, BlobDeleteBytes, DeleteRegistryBlobBytes
  <2>4. CASE UNCHANGED vars
    <3>1. UNCHANGED <<created, objects, uploads, blobs, req, gc>>
      BY <2>4 DEF vars, tables
    <3>2. Senders' /\ ExpiredListed'
      BY <2>2, <3>1 DEF LeadInv, ExpiredListed, Senders, SenderOf, Sends, SessionOps, Object
    <3>3. StaysClosed
      BY <3>1 DEF StaysClosed, Closed, Sends, SessionOps, At
    <3>4. RowsStep
      BY <3>1 DEF RowsStep
    <3> QED
      BY <2>2, <3>1, <3>2, <3>3, <3>4, CollectionBytes
  <2> QED
    BY <1>2, <2>2, <2>3, <2>4, UploadBytes, UploadExpiresBytes, CollectionStepBytes DEF Next
<1> QED
  BY <1>1, <1>2

\* Without a fault, and with clients that send the requests of a session one after the
\* other, the row of a blob leads to the bytes of its digest, whatever uploads, deletes,
\* expiries and collections run (blobs.ts, gc.ts).
THEOREM BlobsLead == Orderly => (Spec => []CommittedBytes)
<1> SUFFICES ASSUME Orderly PROVE Spec => []CommittedBytes
  OBVIOUS
<1>1. Init => Typed /\ BytesInv
  BY TypedInit, BytesInvInit
<1>2. Typed /\ BytesInv /\ [Next]_vars => (Typed /\ BytesInv)'
  <2> SUFFICES ASSUME Typed, BytesInv, [Next]_vars PROVE Typed' /\ BytesInv'
    OBVIOUS
  <2>1. Typed'
    BY TypedStep
  <2> QED
    BY <2>1, BytesInvStep
<1>3. Typed /\ BytesInv => CommittedBytes
  BY DEF BytesInv, LeadInv, RowsLead, CommittedBytes, BlobsHaveBytes, BytesOf
<1> QED
  BY <1>1, <1>2, <1>3, PTL DEF Spec

=============================================================================
