----------------------------- MODULE MediaStore -----------------------------
(***************************************************************************)
(* media-service: uploads, the references that messages hold, the usage of *)
(* an account, and the cleanup (app/service.py), over a database that each *)
(* operation reads in full and writes back in full (app/durable.py), and a *)
(* private store whose effects no transaction undoes (app/storage.py).     *)
(*                                                                         *)
(* One account, whose row of usage is there, and one uploader.  The        *)
(* workers are requests, the consumer of references and the cleanup        *)
(* runner, each of which is a process of its own: no lock and no version   *)
(* keeps their READ COMMITTED transactions apart.                          *)
(***************************************************************************)
EXTENDS Integers, FiniteSets

CONSTANTS
    Media,      \* ids that uuid4 will give
    Strategy,   \* [Media -> {"SIMPLE", "MULTIPART"}]
    Size,       \* [Media -> size_bytes]
    Parts,      \* parts of a multipart upload
    NoUpload,   \* the store has no upload
    Messages,   \* messages that carry a media
    MediaOf,    \* [Messages -> Media]
    Workers,    \* transactions that may be open at once
    NoTx,       \* a worker is idle
    MaxTransactions
                \* bound on the transactions

VARIABLES
    db,         \* what is committed
    tx,         \* a worker's MediaService: its copy of everything
    objects,    \* the store: no object, one as declared, or another
    uploads,    \* its open multipart uploads, with what it has of each part
    expired,    \* media older than pending_ttl_seconds: its URLs are dead
    swept,      \* history: media whose object the retention cleanup removed
    opened      \* transactions so far

mediaVars == <<db, tx, objects, uploads, expired, swept, opened>>

MediaStatus == {"PENDING", "UPLOADING", "UPLOADED", "READY", "FAILED", "DELETING",
                "DELETED"}

Event == ({"created", "deleted"} \X Messages) \union ({"left", "reactivated"} \X {"member"})

\* What the tables hold, and every copy of them.  delete subtracts without a look.
Tables ==
    [row : [Media -> MediaStatus \union {"none"}], refs : SUBSET Messages,
     processed : SUBSET Event, revoked : BOOLEAN,
     outbox : SUBSET ({"ready", "failed", "deleted"} \X Media),
     used : [stored : Int, count : Int, reserved : Nat]]

Columns == {"stored", "count", "reserved"}

\* A copy, the media and columns of usage that were as in the tables when the session
\* merged them, and whether another transaction has changed the tables meanwhile.
Transaction ==
    [stage : {"reading", "open", "done"}, copy : Tables, same : SUBSET Media,
     sameUsed : SUBSET Columns, overtaken : BOOLEAN]
Content == {"none", "declared", "other"}

ASSUME MediaAssumption ==
    /\ Strategy \in [Media -> {"SIMPLE", "MULTIPART"}]
    /\ Size \in [Media -> Nat \ {0}]
    /\ MediaOf \in [Messages -> Media]
    /\ IsFiniteSet(Media) /\ Parts # {} /\ MaxTransactions \in Nat
    /\ NoTx \notin Transaction
    /\ NoUpload \notin [Parts -> Content]

MediaInit ==
    /\ db = [row |-> [m \in Media |-> "none"], refs |-> {}, processed |-> {},
             revoked |-> FALSE, outbox |-> {},
             used |-> [stored |-> 0, count |-> 0, reserved |-> 0]]
    /\ tx = [w \in Workers |-> NoTx]
    /\ objects = [m \in Media |-> "none"]
    /\ uploads = [m \in Media |-> NoUpload]
    /\ expired = {}
    /\ swept = {}
    /\ opened = 0

-----------------------------------------------------------------------------
(* The store, S3PrivateStorage: what a request to it does at once.         *)

CreateUpload(m) == uploads' = [uploads EXCEPT ![m] = [n \in Parts |-> "none"]]
AbortUploads(ms) == uploads' = [m \in Media |-> IF m \in ms THEN NoUpload ELSE uploads[m]]
DeleteObjects(ms) == objects' = [m \in Media |-> IF m \in ms THEN "none" ELSE objects[m]]
ListParts(m) == {n \in Parts : uploads[m][n] # "none"}

\* Of the parts that the client lists by their etags: another put of one, and the store
\* refuses.
CompleteUpload(m, listed) ==
    /\ uploads[m] = listed
    /\ objects' = [objects EXCEPT ![m] = IF \A n \in Parts : listed[n] = "declared"
                                        THEN "declared" ELSE "other"]
    /\ AbortUploads({m})

\* _verify_object: size, type and checksum of the head of the object.
Verified(content) == content = "declared"

\* The client puts an object to its presigned URL, as often as it likes.
Put(m) ==
    /\ Strategy[m] = "SIMPLE" /\ db.row[m] # "none" /\ m \notin expired
    /\ \E content \in {"declared", "other"} : objects' = [objects EXCEPT ![m] = content]
    /\ UNCHANGED <<db, tx, uploads, expired, swept, opened>>

\* ... or a part to that of a part.
PutPart(m, n) ==
    /\ uploads[m] # NoUpload /\ db.row[m] # "none" /\ m \notin expired
    /\ \E content \in {"declared", "other"} : uploads' = [uploads EXCEPT ![m][n] = content]
    /\ UNCHANGED <<db, tx, objects, expired, swept, opened>>

-----------------------------------------------------------------------------
(* DurableMediaService: hydrate, one method, persist, in one transaction.  *)

\* _hydrate reads one table after the other, each as it then is: the media, references
\* and revoked members ...
Hydrate(w) ==
    /\ tx[w] = NoTx /\ opened < MaxTransactions
    /\ tx' = [tx EXCEPT ![w] = [stage |-> "reading", copy |-> db, same |-> {},
                                sameUsed |-> {}, overtaken |-> FALSE]]
    /\ opened' = opened + 1
    /\ UNCHANGED <<db, objects, uploads, expired, swept>>

\* ... and then the processed events and the usage.
HydrateRest(w) ==
    /\ tx[w] # NoTx /\ tx[w].stage = "reading"
    /\ tx' = [tx EXCEPT ![w].stage = "open", ![w].copy.processed = db.processed,
                        ![w].copy.used = db.used]
    /\ UNCHANGED <<db, objects, uploads, expired, swept, opened>>

Open(w) == tx[w] # NoTx /\ tx[w].stage = "open"
Ended(w) == tx[w] # NoTx /\ tx[w].stage = "done"
Copy(w) == tx[w].copy
Return(w, copy) == tx' = [tx EXCEPT ![w].stage = "done", ![w].copy = copy]

\* _persist: session.merge reads a medium's row again.  If that is when the row is as in
\* the copy, nothing will be written to it, whatever another transaction does next.
MergeMedia(w, m) ==
    /\ Ended(w)
    /\ Copy(w).row[m] # "none" /\ Copy(w).row[m] = db.row[m]
    /\ tx' = [tx EXCEPT ![w].same = @ \union {m}]
    /\ UNCHANGED <<db, objects, uploads, expired, swept, opened>>

\* ... and the row of the usage, whose columns are written one by one likewise.
MergeUsage(w) ==
    /\ Ended(w) /\ tx[w].sameUsed = {}
    /\ tx' = [tx EXCEPT ![w].sameUsed = {c \in Columns : Copy(w).used[c] = db.used[c]}]
    /\ UNCHANGED <<db, objects, uploads, expired, swept, opened>>

UsageWritten(w, c) ==
    IF c \in tx[w].sameUsed THEN db.used[c] ELSE Copy(w).used[c]

\* The rest of _persist and the commit: what differed is written, processed events and
\* the outbox grow, and the references and revoked members are deleted and inserted again.
\* The deletion does not see what another transaction commits while it runs; what both
\* insert meets the unique index, and Rollback.
Persist(w) ==
    /\ Ended(w)
    /\ \E unseen \in SUBSET (db.refs \ Copy(w).refs), still \in {FALSE, db.revoked} :
        /\ ~tx[w].overtaken => unseen = {} /\ ~still
        /\ db' = [row |-> [m \in Media |-> IF m \in tx[w].same \/ Copy(w).row[m] = "none"
                                            THEN db.row[m] ELSE Copy(w).row[m]],
                  refs |-> Copy(w).refs \union unseen,
                  processed |-> Copy(w).processed \union db.processed,
                  revoked |-> Copy(w).revoked \/ still,
                  outbox |-> Copy(w).outbox \union db.outbox,
                  used |-> [stored |-> UsageWritten(w, "stored"),
                            count |-> UsageWritten(w, "count"),
                            reserved |-> UsageWritten(w, "reserved")]]
    /\ tx' = [v \in Workers |->
                 IF v = w \/ tx[v] = NoTx THEN NoTx
                 ELSE [tx[v] EXCEPT !.overtaken = @ \/ db' # db]]
    /\ UNCHANGED <<objects, uploads, expired, swept, opened>>

\* The method raises, the database fails or the process dies, before or after the
\* method spoke to the store.
Rollback(w) ==
    /\ tx[w] # NoTx
    /\ tx' = [tx EXCEPT ![w] = NoTx]
    /\ UNCHANGED <<db, objects, uploads, expired, swept, opened>>

-----------------------------------------------------------------------------
(* Uploads.                                                                *)

Less(a, b) == IF a > b THEN a - b ELSE 0

\* The bytes of some media, counted one by one.
Octets(ms) == UNION {{m} \X (1 .. Size[m]) : m \in ms}
Bytes(ms) == Cardinality(Octets(ms))

\* _authorized: the uploader's membership, in this worker's copy.
Owned(w, m) == Copy(w).row[m] # "none" /\ ~Copy(w).revoked

\* initiate: a row and a URL, nothing is reserved.
Initiate(w, m) ==
    /\ Open(w) /\ ~Copy(w).revoked
    /\ Strategy[m] = "SIMPLE"
    /\ db.row[m] = "none" /\ \A v \in Workers : tx[v] # NoTx => Copy(v).row[m] = "none"
    /\ Return(w, [Copy(w) EXCEPT !.row[m] = "PENDING"])
    /\ UNCHANGED <<db, objects, uploads, expired, swept, opened>>

Reserving(copy, m) ==
    [copy EXCEPT !.row[m] = "UPLOADING", !.used.reserved = @ + Size[m]]

\* initiate_multipart: the store opens an upload before the row is committed.
InitiateMultipart(w, m) ==
    /\ Open(w) /\ ~Copy(w).revoked
    /\ Strategy[m] = "MULTIPART"
    /\ db.row[m] = "none" /\ uploads[m] = NoUpload
    /\ CreateUpload(m)
    /\ Return(w, Reserving(Copy(w), m))
    /\ UNCHANGED <<db, objects, expired, swept, opened>>

Expire(m) ==
    /\ db.row[m] # "none" /\ m \notin expired
    /\ expired' = expired \union {m}
    /\ UNCHANGED <<db, tx, objects, uploads, swept, opened>>

\* _event: it goes to the outbox with the rest of the copy.
Told(outbox, kind, m) == outbox \union {<<kind, m>>}

\* _mark_ready: it releases what a multipart upload reserved, and a simple upload,
\* which has reserved nothing, releases as much.
MarkReady(copy, m) ==
    [copy EXCEPT !.row[m] = "READY",
                 !.used = [stored |-> @.stored + Size[m], count |-> @.count + 1,
                           reserved |-> Less(@.reserved, Size[m])],
                 !.outbox = Told(@, "ready", m)]

\* complete: head, _verify_object, _mark_ready.  An object that is not what was declared
\* raises, and Rollback takes the FAILED it set with it.
Complete(w, m) ==
    /\ Open(w) /\ Owned(w, m)
    /\ Copy(w).row[m] \in {"PENDING", "UPLOADING", "UPLOADED"}
    /\ Verified(objects[m])
    /\ Return(w, MarkReady(Copy(w), m))
    /\ UNCHANGED <<db, objects, uploads, expired, swept, opened>>

\* complete_multipart, of all parts: the store assembles the object and forgets the upload,
\* whatever becomes of the transaction.  A second try finds no upload and raises.
CompleteMultipart(w, m) ==
    /\ Open(w) /\ Owned(w, m)
    /\ Strategy[m] = "MULTIPART" /\ Copy(w).row[m] = "UPLOADING"
    /\ uploads[m] # NoUpload /\ ListParts(m) = Parts
    /\ CompleteUpload(m, uploads[m])
    /\ IF Verified(objects'[m]) THEN Return(w, MarkReady(Copy(w), m))
                                ELSE tx' = [tx EXCEPT ![w] = NoTx]
    /\ UNCHANGED <<db, expired, swept, opened>>

\* Mutant: an abort that the store refuses counts as one.
AbortableAnyhow(copy, m) ==
    /\ Strategy[m] = "MULTIPART"
    /\ copy.row[m] \notin {"none", "FAILED", "DELETED"}
    /\ ~copy.revoked

Abortable(copy, m) ==
    /\ Strategy[m] = "MULTIPART" /\ uploads[m] # NoUpload
    /\ copy.row[m] \notin {"none", "FAILED", "DELETED"}
    /\ ~copy.revoked

Aborted(copy, m) ==
    [copy EXCEPT !.row[m] = "FAILED", !.used.reserved = Less(@, Size[m]),
                 !.outbox = Told(@, "failed", m)]

\* abort_multipart.
AbortMultipart(w, m) ==
    /\ Open(w) /\ Abortable(Copy(w), m)
    /\ AbortUploads({m})
    /\ Return(w, Aborted(Copy(w), m))
    /\ UNCHANGED <<db, objects, expired, swept, opened>>

Gone(copy, m, stored, count) ==
    [copy EXCEPT !.row[m] = "DELETED", !.used.stored = stored, !.used.count = count,
                 !.outbox = Told(@, "deleted", m)]

\* delete: by the uploader, referenced or not.
Delete(w, m) ==
    /\ Open(w) /\ Owned(w, m)
    /\ Copy(w).row[m] = "READY"
    /\ DeleteObjects({m})
    /\ LET used == Copy(w).used IN
          Return(w, Gone(Copy(w), m, used.stored - Size[m], used.count - 1))
    /\ UNCHANGED <<db, uploads, expired, swept, opened>>

\* multipart_part_urls: nothing changes, and everything is written back.
PartUrls(w, m) ==
    /\ Open(w) /\ Owned(w, m)
    /\ Strategy[m] = "MULTIPART" /\ Copy(w).row[m] = "UPLOADING"
    /\ Return(w, Copy(w))
    /\ UNCHANGED <<db, objects, uploads, expired, swept, opened>>

\* multipart_status, likewise.
MultipartStatus(w, m) ==
    /\ Open(w) /\ Owned(w, m)
    /\ Strategy[m] = "MULTIPART" /\ uploads[m] # NoUpload
    /\ Return(w, Copy(w))
    /\ UNCHANGED <<db, objects, uploads, expired, swept, opened>>

\* _authorize_media_read: the uploader, and whoever is in a conversation where a message
\* carries the media.
Readable(w, m) == Copy(w).row[m] # "none" /\ ~Copy(w).revoked

\* download, likewise.
Download(w, m) ==
    /\ Open(w) /\ Readable(w, m)
    /\ Copy(w).row[m] = "READY"
    /\ Return(w, Copy(w))
    /\ UNCHANGED <<db, objects, uploads, expired, swept, opened>>

-----------------------------------------------------------------------------
(* Events and cleanup.                                                     *)

\* messaging-service lets a message carry a media whose media.ready.v1 it has seen, and
\* the consumer has the event before it opens the transaction.
Arrived(copy, e) ==
    e[1] \in {"created", "deleted"} => <<"ready", MediaOf[e[2]]>> \in copy.outbox

Applied(copy, e) ==
    [copy EXCEPT
        !.refs = CASE e[1] = "created" -> @ \union {e[2]}
                   [] e[1] = "deleted" -> @ \ {e[2]}
                   [] OTHER -> @,
        !.revoked = CASE e[1] = "left" -> TRUE
                      [] e[1] = "reactivated" -> FALSE
                      [] OTHER -> @,
        !.processed = @ \union {e}]

\* consume_inbound_event, in any order and as often as the broker delivers.
Consume(w, e) ==
    /\ Open(w)
    /\ Arrived(Copy(w), e)
    /\ Return(w, IF e \in Copy(w).processed THEN Copy(w) ELSE Applied(Copy(w), e))
    /\ UNCHANGED <<db, objects, uploads, expired, swept, opened>>

Referenced(copy, m) == \E g \in copy.refs : MediaOf[g] = m

\* cleanup_orphans: old uploads that were never completed, one by one; the store may
\* fail for any of them.
Orphans(copy) ==
    {m \in expired : \/ copy.row[m] = "UPLOADING" /\ Abortable(copy, m)
                     \/ copy.row[m] = "PENDING" /\ ~Referenced(copy, m)}

CleanOrphans(copy, ms) ==
    [copy EXCEPT !.row = [m \in Media |-> IF m \in ms THEN "FAILED" ELSE @[m]],
                 !.used.reserved = Less(@, Bytes({m \in ms : Strategy[m] = "MULTIPART"})),
                 !.outbox = @ \union ({"failed"} \X ms)]

\* Mutant: whether a message holds the media is not asked.
RetiredAll(copy) == {m \in expired : copy.row[m] = "READY"}

\* cleanup_unreferenced_ready: READY for longer than the retention.
Retired(copy) == {m \in expired : copy.row[m] = "READY" /\ ~Referenced(copy, m)}

\* _purge_media of each: DELETED, or DELETING if the store failed, and nothing tries again.
Purge(copy, ms, failing) ==
    LET gone == ms \ failing IN
    [copy EXCEPT !.row = [m \in Media |-> IF m \in gone THEN "DELETED"
                                         ELSE IF m \in failing THEN "DELETING" ELSE @[m]],
                 !.used.stored = Less(@, Bytes(gone)),
                 !.used.count = Less(@, Cardinality(gone)),
                 !.outbox = @ \union ({"deleted"} \X gone)]

\* run_cleanup.
RunCleanup(w) ==
    /\ Open(w)
    /\ \E O \in SUBSET Orphans(Copy(w)), R \in SUBSET Retired(Copy(w)) :
        \E F \in SUBSET R :
          /\ AbortUploads(O)
          /\ DeleteObjects((R \ F) \union {m \in O : Strategy[m] = "SIMPLE"})
          /\ swept' = swept \union (R \ F)
          /\ Return(w, Purge(CleanOrphans(Copy(w), O), R, F))
    /\ UNCHANGED <<db, expired, opened>>

-----------------------------------------------------------------------------

MediaNext ==
    \/ \E w \in Workers :
        \/ Hydrate(w) \/ HydrateRest(w) \/ MergeUsage(w) \/ Persist(w) \/ Rollback(w)
        \/ RunCleanup(w)
        \/ \E m \in Media :
            \/ MergeMedia(w, m)
            \/ Initiate(w, m) \/ InitiateMultipart(w, m) \/ Complete(w, m)
            \/ CompleteMultipart(w, m) \/ AbortMultipart(w, m) \/ Delete(w, m)
            \/ PartUrls(w, m) \/ MultipartStatus(w, m) \/ Download(w, m)
        \/ \E e \in Event : Consume(w, e)
    \/ \E m \in Media : Put(m) \/ Expire(m) \/ \E n \in Parts : PutPart(m, n)

MediaSpec == MediaInit /\ [][MediaNext]_mediaVars

-----------------------------------------------------------------------------
(* Properties.                                                             *)

\* What the tables, their copies and the store hold.
MediaTypeOK ==
    /\ db \in Tables
    /\ tx \in [Workers -> {NoTx} \union Transaction]
    /\ objects \in [Media -> Content]
    /\ uploads \in [Media -> {NoUpload} \union [Parts -> Content]]
    /\ expired \subseteq Media /\ swept \subseteq Media /\ opened \in Nat

Empty(m) == objects[m] = "none" /\ uploads[m] = NoUpload

\* What the others are told of a media holds in the store, however the operations of any
\* number of workers overlap: an upload in parts does not both succeed and fail, what was
\* reported failed or was swept has left nothing behind, and neither has what was deleted,
\* unless its upload URL still lives and the client put it again.
OutcomesHold ==
    \A m \in Media :
        /\ Strategy[m] = "MULTIPART" /\ <<"ready", m>> \in db.outbox =>
              <<"failed", m>> \notin db.outbox /\ objects[m] # "other"
        /\ <<"failed", m>> \in db.outbox \/ m \in swept => Empty(m)
        /\ Strategy[m] = "MULTIPART" /\ <<"deleted", m>> \in db.outbox => Empty(m)

Having(copy, statuses) == {m \in Media : copy.row[m] \in statuses}
Kept(copy) == Having(copy, {"READY", "DELETING"})

\* The usage of an account is the bytes and the number of the media it keeps, and nothing
\* stays reserved for an upload that has ended.
Agrees(copy) ==
    /\ copy.used.stored = Bytes(Kept(copy))
    /\ copy.used.count = Cardinality(Kept(copy))
    /\ copy.used.reserved <= Bytes(Having(copy, {"UPLOADING"}))

\* A message holds the media, as far as the consumed events say.
Holds(copy, g) ==
    <<"created", g>> \in copy.processed /\ <<"deleted", g>> \notin copy.processed
InUse(m) == \E g \in Messages : MediaOf[g] = m /\ Holds(db, g)

Remembers(copy) == \A g \in Messages : Holds(copy, g) => g \in copy.refs

\* The service's docs/OPERATIONS.md:25: the cleanup job runs "GC for unreferenced READY media past
\* retention".  It takes the object of a media that a message holds, and a usage or a
\* reference goes wrong, only where a transaction goes on after another one has changed
\* the tables under it: failures, retries, repeated and swapped events never do it alone.
\* With such an overlap all three do go wrong, whatever the operations were.
OnlyOverlapsHarm ==
    [][/\ Agrees(db) /\ Remembers(db)
       /\ ~(Agrees(db)' /\ Remembers(db)') \/ \E m \in swept' \ swept : InUse(m)
       => \E w \in Workers : tx[w] # NoTx /\ tx[w].overtaken /\ tx'[w] # tx[w]]_mediaVars
=============================================================================
