------------------------------ MODULE Registry ------------------------------
(***************************************************************************)
(* The OCI registry the API serves: upload sessions, blobs, manifests and  *)
(* tags in Postgres, the bytes of a blob in a large object of its own, and *)
(* the garbage collection an operator starts beside the running server.    *)
(* Every statement of a handler commits on its own, so every statement is  *)
(* an action; between two of them other requests and the collection run.   *)
(***************************************************************************)
EXTENDS Naturals, Sequences, FiniteSets, SequencesExt

CONSTANTS
  Blob,       \* digests of blobs
  Manifest,   \* digests of manifests
  Tag,        \* (repository, tag name) pairs
  Chunk,      \* pieces a client sends
  Bytes,      \* the bytes with a digest: a sequence of chunks per blob
  Refs,       \* config, layers and children of a manifest, in this order
  RepoOf,     \* the repository of a tag
  None,       \* no tag, no manifest
  Pushes,     \* what clients push: a manifest, and a tag or (None) its digest
  Request,    \* slots for requests in progress
  Orderly,    \* clients send the requests of a session one after the other
  MaxObjects, \* large objects ever created
  MaxLength,  \* chunks in a large object
  MaxFaults   \* failing statements and processes

ASSUME RegistryAssumption ==
  /\ Bytes \in [Blob -> Seq(Chunk)]
  /\ Refs \in [Manifest -> Seq(Blob \cup Manifest)]
  /\ DOMAIN RepoOf = Tag
  /\ Pushes \subseteq Manifest \X (Tag \cup {None})
  /\ None \notin Blob \cup Manifest \cup Tag
  /\ Blob \cap Manifest = {}
  /\ Request \cap Manifest = {} /\ Orderly \in BOOLEAN
  /\ MaxObjects \in Nat /\ MaxLength \in Nat /\ MaxFaults \in Nat

VARIABLES
  created,   \* large objects created so far
  objects,   \* pg_largeobject: what an object holds, {} when it is not there
  uploads,   \* registry_uploads, by the object of the session
  blobs,     \* registry_blobs: the object of a digest, 0 without a row
  manifests, \* registry_manifests
  tags,      \* registry_tags
  removed,   \* digests a client deleted and nobody stored again
  met,       \* history: the PUTs that found a blob a collection is taking, and what they stored
  req,       \* the requests in progress
  gc,        \* the collection
  faults     \* faults so far

tables == <<created, objects, uploads, blobs, manifests, tags, removed, met>>
vars == <<tables, req, gc, faults>>

Object == 1..MaxObjects
Exists(o) == objects[o] # {}
NoUpload == [row |-> FALSE, received |-> 0, expired |-> FALSE]

Idle == [op |-> "none", pc |-> "idle", o |-> 0, d |-> None, m |-> None, t |-> None,
         n |-> 0, chunk |-> None, todo |-> {}]
Start(r, rec) == req[r] = Idle /\ req' = [req EXCEPT ![r] = rec]
At(r, pc) == req[r].pc = pc
Goto(r, pc) == req' = [req EXCEPT ![r].pc = pc]
Done(r) == req' = [req EXCEPT ![r] = Idle]

\* The requests on the session of object o.
OnSession(o) == {r \in Request : req[r].o = o}
\* An orderly client sends a request on a session when its last one is answered,
\* and none once the session has expired.
MaySend(o) == Orderly => OnSession(o) = {} /\ ~uploads[o].expired

BlobRefs(m) == Range(Refs[m]) \cap Blob
Parents(m) == {p \in manifests : m \in Range(Refs[p])}
TagsOf(m) == {t \in Tag : tags[t] = m}
IsOrphan(m) == TagsOf(m) = {} /\ Parents(m) = {}
\* Mutant: only what a tagged manifest refers to is kept.
TagReferenced(d) == \E m \in manifests : TagsOf(m) # {} /\ d \in BlobRefs(m)
Referenced(d) == \E m \in manifests : d \in BlobRefs(m)

-----------------------------------------------------------------------------
(* Upload sessions                                                         *)

\* lo_create, in a transaction of its own.
CreateBlobOid(o) ==
  /\ o = created + 1 /\ created' = o
  /\ objects' = [objects EXCEPT ![o] = {<<>>}]

\* POST of a new session: the object, then the row.
UploadInit(r, o) ==
  /\ CreateBlobOid(o)
  /\ Start(r, [Idle EXCEPT !.op = "init", !.pc = "insertUpload", !.o = o])
  /\ UNCHANGED <<uploads, blobs, manifests, tags, removed, met, gc, faults>>

InsertRegistryUpload(r) ==
  /\ At(r, "insertUpload")
  /\ uploads' = [uploads EXCEPT ![req[r].o] = [NoUpload EXCEPT !.row = TRUE]]
  /\ Done(r)
  /\ UNCHANGED <<created, objects, blobs, manifests, tags, removed, met, gc, faults>>

\* POST with ?digest= : an object that never has a session.
UploadMonolithic(r, o, d, c) ==
  /\ CreateBlobOid(o)
  /\ Start(r, [Idle EXCEPT !.op = "monolithic", !.pc = "loPut", !.o = o, !.d = d, !.chunk = c])
  /\ UNCHANGED <<uploads, blobs, manifests, tags, removed, met, gc, faults>>

\* PATCH and PUT of a session read its row first: the chunk goes to what
\* received_bytes was then. A Content-Range that does not fit ends the request here.
UploadPatch(r, o, c) ==
  /\ uploads[o].row /\ MaySend(o) /\ uploads[o].received < MaxLength
  /\ Start(r, [Idle EXCEPT !.op = "patch", !.pc = "loPut", !.o = o, !.chunk = c,
                           !.n = uploads[o].received])
  /\ UNCHANGED <<tables, gc, faults>>

\* The PUT has a last chunk, or (c = None) none.
UploadComplete(r, o, d, c) ==
  /\ uploads[o].row /\ MaySend(o) /\ (c # None => uploads[o].received < MaxLength)
  /\ Start(r, [Idle EXCEPT !.op = "complete", !.pc = IF c = None THEN "digest" ELSE "loPut",
                           !.o = o, !.d = d, !.chunk = c, !.n = uploads[o].received])
  /\ UNCHANGED <<tables, gc, faults>>

Written(bytes, n, c) ==
  IF n < Len(bytes) THEN [bytes EXCEPT ![n + 1] = c] ELSE Append(bytes, c)

\* lo_put throws when the object is gone.
LoPut(r) ==
  LET o == req[r].o
  IN /\ At(r, "loPut")
     /\ \/ /\ Exists(o)
           /\ objects' = [objects EXCEPT ![o] = {Written(b, req[r].n, req[r].chunk) : b \in @}]
           /\ req' = [req EXCEPT ![r].n = @ + 1,
                        ![r].pc = IF req[r].op = "patch" THEN "setReceived" ELSE "digest"]
        \/ ~Exists(o) /\ Done(r) /\ UNCHANGED objects
     /\ UNCHANGED <<created, uploads, blobs, manifests, tags, removed, met, gc, faults>>

\* received_bytes becomes a total that was computed before, it is not increased.
UpdateRegistryUploadReceived(r) ==
  /\ At(r, "setReceived")
  /\ uploads' = [uploads EXCEPT ![req[r].o].received = IF uploads[req[r].o].row THEN req[r].n ELSE @]
  /\ Done(r)
  /\ UNCHANGED <<created, objects, blobs, manifests, tags, removed, met, gc, faults>>

\* What the object holds is not what was sent, or not what the client named.
\* Mutant: only the size is compared.
SizeMismatch(q) == \A b \in objects[q.o] : Len(b) # q.n
Mismatch(q) == objects[q.o] # {Bytes[q.d]} \/ Len(Bytes[q.d]) # q.n

ComputeBlobDigest(r) ==
  LET q == req[r]
  IN /\ At(r, "digest")
     /\ \/ ~Exists(q.o) /\ Done(r)
        \/ Exists(q.o) /\ Mismatch(q) /\ Goto(r, "unlink")
        \/ /\ Exists(q.o) /\ ~Mismatch(q)
           /\ Goto(r, IF q.op = "monolithic" THEN "insertBlob" ELSE "existing")
     /\ UNCHANGED <<tables, gc, faults>>

\* A digest that is there already: the object of this session is dropped.
LookUpExisting(r) ==
  /\ At(r, "existing")
  /\ Goto(r, IF blobs[req[r].d] # 0 THEN "unlink" ELSE "insertBlob")
  /\ UNCHANGED <<tables, gc, faults>>

\* ON CONFLICT DO NOTHING: the object of the loser stays, owned by nobody.
InsertRegistryBlob(r) ==
  LET q == req[r]
  IN /\ At(r, "insertBlob")
     /\ blobs' = [blobs EXCEPT ![q.d] = IF @ = 0 THEN q.o ELSE @]
     /\ removed' = removed \ {q.d}
     /\ IF q.op = "monolithic" THEN Done(r) ELSE Goto(r, "deleteUpload")
     /\ UNCHANGED <<created, objects, uploads, manifests, tags, met, gc, faults>>

\* The handlers catch and forget an unlink that fails.
UnlinkBlobOid(r) ==
  LET q == req[r]
  IN /\ At(r, "unlink")
     /\ objects' = [objects EXCEPT ![q.o] = {}]
     /\ IF q.op = "complete" THEN Goto(r, "deleteUpload") ELSE Done(r)
     /\ UNCHANGED <<created, uploads, blobs, manifests, tags, removed, met, gc, faults>>

DeleteRegistryUpload(r) ==
  /\ At(r, "deleteUpload")
  /\ uploads' = [uploads EXCEPT ![req[r].o] = NoUpload]
  /\ Done(r)
  /\ UNCHANGED <<created, objects, blobs, manifests, tags, removed, met, gc, faults>>

\* DELETE of a session: the row, then the object.
UploadCancel(r, o) ==
  /\ uploads[o].row /\ MaySend(o)
  /\ uploads' = [uploads EXCEPT ![o] = NoUpload]
  /\ Start(r, [Idle EXCEPT !.op = "cancel", !.pc = "unlink", !.o = o])
  /\ UNCHANGED <<created, objects, blobs, manifests, tags, removed, met, gc, faults>>

\* A day passes.
UploadExpires(o) ==
  /\ uploads[o].row /\ ~uploads[o].expired
  /\ Orderly => OnSession(o) = {}
  /\ uploads' = [uploads EXCEPT ![o].expired = TRUE]
  /\ UNCHANGED <<created, objects, blobs, manifests, tags, removed, met, req, gc, faults>>

-----------------------------------------------------------------------------
(* Manifests, tags and blobs                                               *)

\* PUT of manifest m, by its digest (t = None) or under a tag.
ManifestPut(r, m, t) ==
  /\ Start(r, [Idle EXCEPT !.op = "put", !.pc = "checkRef", !.m = m, !.t = t])
  /\ UNCHANGED <<tables, gc, faults>>

\* Blob d is on the list of orphans that the collection is going through.
Listed(d) == gc.pc = "blobs" /\ \E x \in gc.todo : x[1] = d
\* The references the PUT in hand has found.
Found(r) == {Refs[req[r].m][i] : i \in 1..req[r].n}
Putting == {r \in Request : At(r, "checkRef") \/ At(r, "insertManifest")}

Stored(x) == IF x \in Blob THEN blobs[x] # 0 ELSE x \in manifests

\* One query per reference; the first that is missing ends the request with a 400.
CheckRef(r) ==
  LET q == req[r]  last == q.n = Len(Refs[q.m])
  IN /\ At(r, "checkRef")
     /\ \/ last /\ Goto(r, "insertManifest") /\ UNCHANGED met
        \/ /\ ~last /\ Stored(Refs[q.m][q.n + 1])
           /\ req' = [req EXCEPT ![r].n = @ + 1]
           /\ met' = IF Listed(Refs[q.m][q.n + 1]) THEN met \cup {r} ELSE met
        \/ ~last /\ ~Stored(Refs[q.m][q.n + 1]) /\ Done(r) /\ met' = met \ {r}
     /\ UNCHANGED <<created, objects, uploads, blobs, manifests, tags, removed, gc, faults>>

InsertRegistryManifest(r) ==
  /\ At(r, "insertManifest")
  /\ manifests' = manifests \cup {req[r].m}
  /\ met' = IF r \in met THEN (met \ {r}) \cup {req[r].m} ELSE met \ {req[r].m}
  /\ IF req[r].t = None THEN Done(r) ELSE Goto(r, "upsertTag")
  /\ UNCHANGED <<created, objects, uploads, blobs, tags, removed, gc, faults>>

\* Mutant: no foreign key.
UpsertAnyTag(r) ==
  /\ At(r, "upsertTag")
  /\ tags' = [tags EXCEPT ![req[r].t] = req[r].m]
  /\ Done(r)
  /\ UNCHANGED <<created, objects, uploads, blobs, manifests, removed, met, gc, faults>>

\* The foreign key refuses a tag on a manifest that went meanwhile.
UpsertRegistryTag(r) ==
  /\ At(r, "upsertTag")
  /\ tags' = IF req[r].m \in manifests THEN [tags EXCEPT ![req[r].t] = req[r].m] ELSE tags
  /\ Done(r)
  /\ UNCHANGED <<created, objects, uploads, blobs, manifests, removed, met, gc, faults>>

\* DELETE of a manifest in the repository of t, which has a tag on it.
ManifestDelete(r, t) ==
  /\ tags[t] # None
  /\ Start(r, [Idle EXCEPT !.op = "delete", !.pc = "listTags", !.m = tags[t], !.t = t])
  /\ UNCHANGED <<tables, gc, faults>>

ListRegistryTagsForRepo(r) ==
  /\ At(r, "listTags")
  /\ req' = [req EXCEPT ![r].pc = "deleteTags",
       ![r].todo = {t \in TagsOf(req[r].m) : RepoOf[t] = RepoOf[req[r].t]}]
  /\ UNCHANGED <<tables, gc, faults>>

\* By repository and name: what the tag points at now is not looked at.
DeleteRegistryTag(r, t) ==
  /\ At(r, "deleteTags") /\ t \in req[r].todo
  /\ tags' = [tags EXCEPT ![t] = None]
  /\ req' = [req EXCEPT ![r].todo = @ \ {t}]
  /\ UNCHANGED <<created, objects, uploads, blobs, manifests, removed, met, gc, faults>>

DeleteRegistryManifestIfUnreferenced(r) ==
  /\ At(r, "deleteTags") /\ req[r].todo = {}
  /\ manifests' = IF IsOrphan(req[r].m) THEN manifests \ {req[r].m} ELSE manifests
  /\ Done(r)
  /\ UNCHANGED <<created, objects, uploads, blobs, tags, removed, met, gc, faults>>

\* The administrator's delete of a tag: list, delete, look for other tags, delete.
DeleteTag(r, t) ==
  /\ tags[t] # None
  /\ Start(r, [Idle EXCEPT !.op = "untag", !.pc = "untag", !.m = tags[t], !.t = t])
  /\ UNCHANGED <<tables, gc, faults>>

Untag(r) ==
  /\ At(r, "untag")
  /\ tags' = [tags EXCEPT ![req[r].t] = None]
  /\ Goto(r, "otherTags")
  /\ UNCHANGED <<created, objects, uploads, blobs, manifests, removed, met, gc, faults>>

OtherTags(r) ==
  /\ At(r, "otherTags")
  /\ IF TagsOf(req[r].m) = {} THEN Goto(r, "deleteManifest") ELSE Done(r)
  /\ UNCHANGED <<tables, gc, faults>>

\* Manifests that list m are not looked at; a tag that came meanwhile makes it fail.
DeleteManifest(r) ==
  /\ At(r, "deleteManifest")
  /\ manifests' = IF TagsOf(req[r].m) = {} THEN manifests \ {req[r].m} ELSE manifests
  /\ Done(r)
  /\ UNCHANGED <<created, objects, uploads, blobs, tags, removed, met, gc, faults>>

\* DELETE of a blob: its row as it was read, the row, the object. Manifests are not looked at.
BlobDelete(r, d) ==
  /\ blobs[d] # 0
  /\ Start(r, [Idle EXCEPT !.op = "blob", !.pc = "deleteBlob", !.d = d, !.o = blobs[d]])
  /\ UNCHANGED <<tables, gc, faults>>

DeleteRegistryBlob(r) ==
  /\ At(r, "deleteBlob")
  /\ blobs' = [blobs EXCEPT ![req[r].d] = 0]
  /\ removed' = removed \cup {req[r].d}
  /\ Goto(r, "unlink")
  /\ UNCHANGED <<created, objects, uploads, manifests, tags, met, gc, faults>>

-----------------------------------------------------------------------------
(* Garbage collection                                                      *)

Collect(pc, todo) == gc' = [pc |-> pc, todo |-> todo, cur |-> {}]
\* Item x of list pc, before (cur = {}) or after its object was dropped.
Item(pc, x, cur) == gc.pc = pc /\ x \in gc.todo /\ gc.cur = cur
\* Mutant: the item in hand is not reset.
KeepItem(x) == gc' = [gc EXCEPT !.todo = @ \ {x}]
NextItem(x) == gc' = [gc EXCEPT !.todo = @ \ {x}, !.cur = {}]

ListExpiredRegistryUploads ==
  /\ gc.pc = "idle"
  /\ Collect("uploads", {o \in Object : uploads[o].expired})
  /\ UNCHANGED <<tables, req, faults>>

\* Unlink, then the row. An object that is gone throws, and the row stays.
UnlinkExpired(o) ==
  /\ Item("uploads", o, {})
  /\ \/ /\ Exists(o) /\ objects' = [objects EXCEPT ![o] = {}]
        /\ gc' = [gc EXCEPT !.cur = {o}]
     \/ ~Exists(o) /\ NextItem(o) /\ UNCHANGED objects
  /\ UNCHANGED <<created, uploads, blobs, manifests, tags, removed, met, req, faults>>

DeleteExpired(o) ==
  /\ Item("uploads", o, {o})
  /\ uploads' = [uploads EXCEPT ![o] = NoUpload]
  /\ NextItem(o)
  /\ UNCHANGED <<created, objects, blobs, manifests, tags, removed, met, req, faults>>

ListOrphanRegistryManifests ==
  /\ gc.pc = "uploads" /\ gc.todo = {}
  /\ Collect("manifests", {m \in manifests : IsOrphan(m)})
  /\ UNCHANGED <<tables, req, faults>>

\* Whether m still is an orphan is not looked at; the foreign key keeps a tagged one.
DeleteOrphanManifest(m) ==
  /\ Item("manifests", m, {})
  /\ manifests' = IF TagsOf(m) = {} THEN manifests \ {m} ELSE manifests
  /\ NextItem(m)
  /\ UNCHANGED <<created, objects, uploads, blobs, tags, removed, met, req, faults>>

Orphans == {d \in Blob : blobs[d] # 0 /\ ~Referenced(d)}
\* A manifest whose PUT is not through yet refers to nothing, its blobs are on the list.
ListOrphanRegistryBlobs ==
  /\ gc.pc = "manifests" /\ gc.todo = {}
  /\ Collect("blobs", {<<d, blobs[d]>> : d \in Orphans})
  /\ met' = met \cup {r \in Putting : Found(r) \cap Orphans # {}}
  /\ UNCHANGED <<created, objects, uploads, blobs, manifests, tags, removed, req, faults>>

UnlinkOrphan(x) ==
  /\ Item("blobs", x, {})
  /\ \/ /\ Exists(x[2]) /\ objects' = [objects EXCEPT ![x[2]] = {}]
        /\ gc' = [gc EXCEPT !.cur = {x}]
     \/ ~Exists(x[2]) /\ NextItem(x) /\ UNCHANGED objects
  /\ UNCHANGED <<created, uploads, blobs, manifests, tags, removed, met, req, faults>>

DeleteOrphan(x) ==
  /\ Item("blobs", x, {x})
  /\ blobs' = [blobs EXCEPT ![x[1]] = 0]
  /\ NextItem(x)
  /\ UNCHANGED <<created, objects, uploads, manifests, tags, removed, met, req, faults>>

CollectionEnds ==
  /\ gc.pc = "blobs" /\ gc.todo = {}
  /\ Collect("idle", {})
  /\ UNCHANGED <<tables, req, faults>>

-----------------------------------------------------------------------------
(* Faults                                                                  *)

Fault == faults < MaxFaults /\ faults' = faults + 1

\* A statement throws, or the server goes down: the request ends where it is.
RequestFails(r) ==
  /\ Fault /\ req[r] # Idle
  /\ Done(r)
  /\ met' = met \ {r}
  /\ UNCHANGED <<created, objects, uploads, blobs, manifests, tags, removed, gc>>

\* The handler catches what throws: an unlink is forgotten, and a monolithic upload that
\* could not be written is unlinked.
StatementCaught(r) ==
  /\ Fault
  /\ \/ At(r, "unlink") /\ req[r].op = "complete" /\ Goto(r, "deleteUpload")
     \/ At(r, "loPut") /\ req[r].op = "monolithic" /\ Goto(r, "unlink")
  /\ UNCHANGED <<tables, gc>>

\* A statement of the collection throws: it goes on with the next item.
CollectionItemFails(x) ==
  /\ Fault /\ x \in gc.todo /\ gc.cur \subseteq {x}
  /\ NextItem(x)
  /\ UNCHANGED <<tables, req>>

\* The process of the collection ends.
CollectionDies ==
  /\ Fault /\ gc.pc # "idle"
  /\ Collect("idle", {})
  /\ UNCHANGED <<tables, req>>

-----------------------------------------------------------------------------
Init ==
  /\ created = 0 /\ objects = [o \in Object |-> {}]
  /\ uploads = [o \in Object |-> NoUpload]
  /\ blobs = [d \in Blob |-> 0]
  /\ manifests = {} /\ tags = [t \in Tag |-> None] /\ removed = {} /\ met = {}
  /\ req = [r \in Request |-> Idle]
  /\ gc = [pc |-> "idle", todo |-> {}, cur |-> {}]
  /\ faults = 0

Upload(r) ==
  \/ \E o \in Object :
       \/ UploadInit(r, o) \/ UploadCancel(r, o)
       \/ \E c \in Chunk : UploadPatch(r, o, c)
       \/ \E d \in Blob : \/ \E c \in Chunk : UploadMonolithic(r, o, d, c)
                         \/ \E c \in Chunk \cup {None} : UploadComplete(r, o, d, c)
  \/ InsertRegistryUpload(r) \/ LoPut(r) \/ UpdateRegistryUploadReceived(r)
  \/ ComputeBlobDigest(r) \/ LookUpExisting(r) \/ InsertRegistryBlob(r)
  \/ UnlinkBlobOid(r) \/ DeleteRegistryUpload(r)

Content(r) ==
  \/ \E p \in Pushes : ManifestPut(r, p[1], p[2])
  \/ CheckRef(r) \/ InsertRegistryManifest(r) \/ UpsertRegistryTag(r)
  \/ \E t \in Tag : ManifestDelete(r, t) \/ DeleteRegistryTag(r, t) \/ DeleteTag(r, t)
  \/ ListRegistryTagsForRepo(r) \/ DeleteRegistryManifestIfUnreferenced(r)
  \/ Untag(r) \/ OtherTags(r) \/ DeleteManifest(r)
  \/ \E d \in Blob : BlobDelete(r, d)
  \/ DeleteRegistryBlob(r)

Collection ==
  \/ ListExpiredRegistryUploads \/ ListOrphanRegistryManifests \/ ListOrphanRegistryBlobs
  \/ \E o \in Object : UnlinkExpired(o) \/ DeleteExpired(o)
  \/ \E m \in Manifest : DeleteOrphanManifest(m)
  \/ \E x \in Blob \X Object : UnlinkOrphan(x) \/ DeleteOrphan(x)
  \/ CollectionEnds

Failure ==
  \/ \E r \in Request : RequestFails(r) \/ StatementCaught(r)
  \/ \E x \in gc.todo : CollectionItemFails(x)
  \/ CollectionDies

Next ==
  \/ \E r \in Request : Upload(r) \/ Content(r)
  \/ \E o \in Object : UploadExpires(o)
  \/ Collection
  \/ Failure

Spec == Init /\ [][Next]_vars

-----------------------------------------------------------------------------
(* Properties                                                              *)

Places == {"idle", "insertUpload", "loPut", "setReceived", "digest", "existing", "insertBlob",
           "unlink", "deleteUpload", "checkRef", "insertManifest", "upsertTag", "listTags",
           "deleteTags", "untag", "otherTags", "deleteManifest", "deleteBlob"}
Requests == [op : {"none", "init", "monolithic", "patch", "complete", "cancel",
                   "put", "delete", "untag", "blob"},
             pc : Places,
             o : Object \cup {0}, d : Blob \cup {None}, m : Manifest \cup {None},
             t : Tag \cup {None}, n : Nat, chunk : Chunk \cup {None}, todo : SUBSET Tag]

\* Every variable has its type.
TypeOK ==
  /\ created \in 0..MaxObjects
  /\ objects \in [Object -> SUBSET Seq(Chunk)]
  /\ uploads \in [Object -> [row : BOOLEAN, received : Nat, expired : BOOLEAN]]
  /\ blobs \in [Blob -> Object \cup {0}]
  /\ manifests \subseteq Manifest
  /\ tags \in [Tag -> Manifest \cup {None}]
  /\ removed \subseteq Blob /\ met \subseteq Request \cup Manifest
  /\ req \in [Request -> Requests]
  /\ gc = [pc |-> gc.pc, todo |-> gc.todo, cur |-> gc.cur]
  /\ gc.pc \in {"idle", "uploads", "manifests", "blobs"}
  /\ gc.pc = "idle" => gc.todo = {}
  /\ gc.pc = "uploads" => gc.todo \subseteq Object
  /\ gc.pc = "manifests" => gc.todo \subseteq Manifest
  /\ gc.pc = "blobs" => gc.todo \subseteq Blob \X Object
  /\ gc.cur \subseteq gc.todo
  /\ faults \in 0..MaxFaults

Whole(m) == \A d \in BlobRefs(m) : blobs[d] # 0 \/ d \in removed

\* A manifest that was accepted keeps the rows of its blobs, whatever uploads, deletes,
\* expiries and collections run and fail beside it, but for a blob a client deleted itself,
\* and if its PUT found none of them on the collection's list of orphans (it is not in met).
\* The collection looks at its list only once: a manifest that came meanwhile loses its
\* blob, though the comment of runGc calls it safe to race with live traffic.
ManifestsHaveBlobs == \A m \in manifests \ met : Whole(m)

\* The row of a digest leads to the bytes of that digest, until the collection has
\* unlinked them and is about to delete the row.
BytesOf(d) == blobs[d] # 0 => objects[blobs[d]] = {Bytes[d]} \/ <<d, blobs[d]>> \in gc.cur
BlobsHaveBytes == \A d \in Blob : BytesOf(d)

\* While no statement failed and no process died, uploads, cancels, deletes and
\* collections never leave a row without its bytes, or with others, if the client of a
\* session sends its requests one after another (Orderly).  A failed statement can leave
\* such a row (DropsNoCommitted), and so can two chunks of a session at once.
CommittedBytes == faults = 0 => BlobsHaveBytes

\* "Idempotent commit: if the same digest already exists, we drop this upload's oid and
\* reuse the existing blob row": the object that is dropped is not the one of the row.
DropsNoCommitted ==
  [][\A r \in Request : At(r, "unlink") /\ req[r].op = "complete" /\ UnlinkBlobOid(r)
                         => \A d \in Blob : blobs[d] # req[r].o]_vars
\* The registry, at every step also of a fault, does what ImageStore allows: a tag never
\* points at a manifest that is not there or whose blobs are not, and none is lost under a
\* tag. A manifest that was put while a collection was taking its blobs (it is in met)
\* counts as there whatever becomes of them: of it only the row is promised.
Images == INSTANCE ImageStore
            WITH stored <- {m \in manifests : Whole(m) \/ m \in met}, image <- tags
ServesImages == Images!Spec

=============================================================================
