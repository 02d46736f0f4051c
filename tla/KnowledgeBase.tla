---------------------------- MODULE KnowledgeBase ----------------------------
(***************************************************************************)
(* The knowledge base (convex/kb.ts, convex/kbMutations.ts): a client asks *)
(* for an upload ticket, uploads a file, claims it with the ticket, and    *)
(* ingests it as the chunks of a document of its organisation; a deletion  *)
(* retires the chunks a batch at a time.                                   *)
(*                                                                         *)
(* An ingest and an export are actions: each of their mutations is a step  *)
(* and they may die before any of them.  What a batch leaves is scheduled  *)
(* and runs exactly once, at any later time.                               *)
(***************************************************************************)
EXTENDS Integers, Sequences, FiniteSets, SequencesExt, Absence

CONSTANTS
  Tenant, Doc, Content,
  Blob,                   \* storage IDs
  Master,                 \* the fleet master, who resolves no organisation
  Parts,                  \* into how many chunks a file is cut
  UPLOAD_TICKET_TTL,
  UPLOAD_TICKET_PURGE_BATCH,
  MARK_DOC_BATCH_SIZE,
  MaxTickets,             \* bound: tickets issued
  MaxIngests,             \* bound: ingests begun
  MaxClock                \* bound: readings of the clock

VARIABLES
  clock,
  storage,                \* the blobs uploaded so far, Nothing elsewhere
  uploadTickets,          \* every ticket issued, purged ones included
  kbUploads,              \* to which organisation a blob is bound
  exports,                \* exports under way, and bundles to delete
  exported,               \* who made the bundle a blob holds
  ingests,                \* running storeDocumentChunked
  begun,                  \* ingests begun so far
  chunks,                 \* memories rows of type "reference"
  continuations,          \* scheduled markDocSoftDeleted, by document
  doomed                  \* chunks a deletion set out to retire

kbVars == <<clock, storage, uploadTickets, kbUploads, exports, exported, ingests, begun,
            chunks, continuations, doomed>>

uploadVars == <<clock, storage, uploadTickets, kbUploads, exports, exported>>
documentVars == <<ingests, begun, chunks, continuations, doomed>>

Namespace == Tenant \X Doc

\* held: until it is deleted.
File == [content : Content, createdAt : 0 .. MaxClock, held : BOOLEAN]

ASSUME KnowledgeAssumption ==
  /\ MARK_DOC_BATCH_SIZE \in Nat \ {0} /\ MaxIngests \in Nat /\ MaxClock \in Nat
  /\ Nothing \notin Tenant \cup File

\* A bundle, until the run is over and, once bound, until it is deleted.
Export == [org : Tenant, blob : Blob, bound : BOOLEAN]

Ticket == [org : Tenant, content : Content, createdAt : 0 .. MaxClock,
           state : {"issued", "used", "purged"}]

\* alone: nobody else has touched the document since this ingest began.
Ingest == [id : 1 .. MaxIngests, ns : Namespace, blob : Blob,
           pc : {"claim", "list", "supersede", "insert"}, prior : SUBSET Nat, next : Nat,
           alone : BOOLEAN]

Chunk == [ns : Namespace, blob : Blob, part : Nat, by : 1 .. MaxIngests, isLatest : BOOLEAN]

KnowledgeTyped ==
  /\ clock \in 0 .. MaxClock
  /\ storage \in [Blob -> File \cup {Nothing}]
  /\ uploadTickets \in Seq(Ticket) /\ kbUploads \in [Blob -> Tenant \cup {Nothing}]
  /\ exports \subseteq Export /\ exported \in [Blob -> Tenant \cup {Nothing}]
  /\ ingests \subseteq Ingest /\ begun \in 0 .. MaxIngests
  /\ chunks \in Seq(Chunk)
  /\ continuations \in [Namespace -> Nat] /\ doomed \subseteq DOMAIN chunks
  /\ \A b \in Blob : kbUploads[b] # Nothing => storage[b] # Nothing

KnowledgeInit ==
  /\ clock = 0 /\ storage = [b \in Blob |-> Nothing]
  /\ uploadTickets = <<>> /\ kbUploads = [b \in Blob |-> Nothing]
  /\ exports = {} /\ exported = [b \in Blob |-> Nothing]
  /\ ingests = {} /\ begun = 0 /\ chunks = <<>>
  /\ continuations = [ns \in Namespace |-> 0] /\ doomed = {}

-----------------------------------------------------------------------------
(* Tickets and uploads.                                                    *)

\* For a member its own organisation, for the fleet any.
GenerateUploadUrlWithTicket(o, x) ==
  /\ Len(uploadTickets) < MaxTickets
  /\ uploadTickets' = Append(uploadTickets,
       [org |-> o, content |-> x, createdAt |-> clock, state |-> "issued"])
  /\ UNCHANGED <<clock, storage, kbUploads, exports, exported, documentVars>>

\* Whoever holds an upload URL posts what they like.
Upload(b, x) ==
  /\ storage[b] = Nothing
  /\ storage' = [storage EXCEPT ![b] = [content |-> x, createdAt |-> clock, held |-> TRUE]]
  /\ UNCHANGED <<clock, uploadTickets, kbUploads, exports, exported, documentVars>>

\* Variant: any blob newer than the ticket.
Newer(ticket, blob) == blob # Nothing /\ blob.held /\ blob.createdAt >= ticket.createdAt

Covers(ticket, blob) ==
  /\ blob # Nothing /\ blob.held
  /\ blob.createdAt >= ticket.createdAt /\ blob.content = ticket.content

Usable(ticket, who) ==
  /\ who \in {Master, ticket.org} /\ ticket.state = "issued"
  /\ clock <= ticket.createdAt + UPLOAD_TICKET_TTL

ClaimUpload(who, b, k) ==
  LET ticket == uploadTickets[k] IN
  /\ Usable(ticket, who) /\ Covers(ticket, storage[b])
  /\ kbUploads[b] \in {Nothing, ticket.org}
  /\ kbUploads' = [kbUploads EXCEPT ![b] = ticket.org]
  /\ uploadTickets' = [uploadTickets EXCEPT ![k].state = "used"]
  /\ UNCHANGED <<clock, storage, exports, exported, documentVars>>

\* The first rows of a set of row numbers.
FirstRows(rows, n) == {r \in rows : Cardinality({q \in rows : q < r}) < n}

PurgeUploadTickets ==
  LET left == {k \in DOMAIN uploadTickets : uploadTickets[k].state # "purged"}
      expired == {k \in left : uploadTickets[k].createdAt + UPLOAD_TICKET_TTL < clock}
      used == {k \in left : uploadTickets[k].state = "used"}
      gone == FirstRows(expired, UPLOAD_TICKET_PURGE_BATCH) \cup FirstRows(used, UPLOAD_TICKET_PURGE_BATCH) IN
  /\ gone # {}
  /\ uploadTickets' = [k \in DOMAIN uploadTickets |->
       IF k \in gone THEN [uploadTickets[k] EXCEPT !.state = "purged"] ELSE uploadTickets[k]]
  /\ UNCHANGED <<clock, storage, kbUploads, exports, exported, documentVars>>

\* A bundle is stored, then bound to the organisation that exports it, and
\* deleted later.
StoreBundle(o, b, x) ==
  /\ storage[b] = Nothing
  /\ storage' = [storage EXCEPT ![b] = [content |-> x, createdAt |-> clock, held |-> TRUE]]
  /\ exports' = exports \cup {[org |-> o, blob |-> b, bound |-> FALSE]}
  /\ exported' = [exported EXCEPT ![b] = o]
  /\ UNCHANGED <<clock, uploadTickets, kbUploads, documentVars>>

BindBundle(e) ==
  /\ ~e.bound
  /\ IF kbUploads[e.blob] \in {Nothing, e.org}
     THEN /\ kbUploads' = [kbUploads EXCEPT ![e.blob] = e.org]
          /\ exports' = (exports \ {e}) \cup {[e EXCEPT !.bound = TRUE]}
     ELSE exports' = exports \ {e} /\ UNCHANGED kbUploads
  /\ UNCHANGED <<clock, storage, uploadTickets, exported, documentVars>>

DeleteBundle(e) ==
  /\ e.bound /\ exports' = exports \ {e}
  /\ storage' = [storage EXCEPT ![e.blob].held = FALSE]
  /\ UNCHANGED <<clock, uploadTickets, kbUploads, exported, documentVars>>

ExportDies(e) ==
  /\ ~e.bound /\ exports' = exports \ {e}
  /\ UNCHANGED <<clock, storage, uploadTickets, kbUploads, exported, documentVars>>

Later ==
  /\ clock < MaxClock /\ clock' = clock + 1
  /\ UNCHANGED <<storage, uploadTickets, kbUploads, exports, exported, documentVars>>

-----------------------------------------------------------------------------
(* An ingest.                                                              *)

LiveChunks(ns) == {c \in DOMAIN chunks : chunks[c].ns = ns /\ chunks[c].isLatest}

Retired(rows) ==
  [c \in DOMAIN chunks |->
     IF c \in rows THEN [chunks[c] EXCEPT !.isLatest = FALSE] ELSE chunks[c]]

\* Somebody else is at the document from now on.
Disturbed(ns) == {IF i.ns = ns THEN [i EXCEPT !.alone = FALSE] ELSE i : i \in ingests}

StoreDocument(ns, b) ==
  /\ begun < MaxIngests /\ begun' = begun + 1
  /\ ingests' = Disturbed(ns) \cup
       {[id |-> begun + 1, ns |-> ns, blob |-> b, pc |-> "claim", prior |-> {}, next |-> 1,
         alone |-> continuations[ns] = 0 /\ \A i \in ingests : i.ns # ns]}
  /\ UNCHANGED <<uploadVars, chunks, continuations, doomed>>

Step(i, changed) == ingests' = (ingests \ {i}) \cup {changed}

\* Variant: a blob nobody has claimed is good enough.
ClaimedByNoOther(i) == kbUploads[i.blob] \in {Nothing, i.ns[1]}

ClaimedByOwn(i) == kbUploads[i.blob] = i.ns[1]

AssertStorageClaimedBy(i) ==
  /\ i.pc = "claim"
  /\ IF ClaimedByOwn(i) /\ storage[i.blob] # Nothing /\ storage[i.blob].held
     THEN Step(i, [i EXCEPT !.pc = "list"])
     ELSE ingests' = ingests \ {i}
  /\ UNCHANGED <<uploadVars, begun, chunks, continuations, doomed>>

\* Variant: the chunks of one batch.
FirstOfDoc(ns) == FirstRows(LiveChunks(ns), MARK_DOC_BATCH_SIZE)

ChunkIdsForDoc(ns) == LiveChunks(ns)

ListChunkIdsForDoc(i) ==
  /\ i.pc = "list"
  /\ LET prior == ChunkIdsForDoc(i.ns) IN
     Step(i, [i EXCEPT !.prior = prior, !.pc = IF prior = {} THEN "insert" ELSE "supersede"])
  /\ UNCHANGED <<uploadVars, begun, chunks, continuations, doomed>>

SupersedePriorChunks(i) ==
  /\ i.pc = "supersede"
  /\ chunks' = Retired(i.prior) /\ doomed' = doomed \ i.prior
  /\ Step(i, [i EXCEPT !.pc = "insert", !.prior = {}])
  /\ UNCHANGED <<uploadVars, begun, continuations>>

InsertChunk(i) ==
  /\ i.pc = "insert"
  /\ chunks' = Append(chunks,
       [ns |-> i.ns, blob |-> i.blob, part |-> i.next, by |-> i.id, isLatest |-> TRUE])
  /\ IF i.next < Parts THEN Step(i, [i EXCEPT !.next = @ + 1]) ELSE ingests' = ingests \ {i}
  /\ UNCHANGED <<uploadVars, begun, continuations, doomed>>

IngestDies(i) ==
  /\ ingests' = ingests \ {i}
  /\ UNCHANGED <<uploadVars, begun, chunks, continuations, doomed>>

-----------------------------------------------------------------------------
(* A deletion.                                                             *)

\* Variant: a batch that is exactly full is taken for the last one.
MoreThanFull(rows) == Cardinality(rows) > MARK_DOC_BATCH_SIZE

FullBatch(rows) == Cardinality(rows) = MARK_DOC_BATCH_SIZE

\* pending: continuations of this document but this one.
MarkDocSoftDeleted(ns, pending) ==
  LET rows == FirstRows(LiveChunks(ns), MARK_DOC_BATCH_SIZE) IN
  /\ chunks' = Retired(rows)
  /\ continuations' = [continuations EXCEPT ![ns] = IF FullBatch(rows) THEN pending + 1 ELSE pending]
  /\ ingests' = Disturbed(ns)

SoftDeleteDocument(ns) ==
  /\ LiveChunks(ns) # {}
  /\ MarkDocSoftDeleted(ns, continuations[ns])
  /\ doomed' = (doomed \cup LiveChunks(ns)) \ FirstRows(LiveChunks(ns), MARK_DOC_BATCH_SIZE)
  /\ UNCHANGED <<uploadVars, begun>>

ContinueDeletion(ns) ==
  /\ continuations[ns] > 0
  /\ MarkDocSoftDeleted(ns, continuations[ns] - 1)
  /\ doomed' = doomed \ FirstRows(LiveChunks(ns), MARK_DOC_BATCH_SIZE)
  /\ UNCHANGED <<uploadVars, begun>>

-----------------------------------------------------------------------------
UploadNext ==
  \/ \E o \in Tenant, x \in Content :
       \/ GenerateUploadUrlWithTicket(o, x)
       \/ \E b \in Blob : StoreBundle(o, b, x)
  \/ \E b \in Blob, x \in Content : Upload(b, x)
  \/ \E who \in Tenant \cup {Master}, b \in Blob, k \in DOMAIN uploadTickets : ClaimUpload(who, b, k)
  \/ \E e \in exports : BindBundle(e) \/ DeleteBundle(e) \/ ExportDies(e)
  \/ PurgeUploadTickets \/ Later

DocumentNext ==
  \/ \E ns \in Namespace, b \in Blob : StoreDocument(ns, b)
  \/ \E i \in ingests :
       \/ AssertStorageClaimedBy(i) \/ ListChunkIdsForDoc(i)
       \/ SupersedePriorChunks(i) \/ InsertChunk(i) \/ IngestDies(i)
  \/ \E ns \in Namespace : SoftDeleteDocument(ns) \/ ContinueDeletion(ns)

KnowledgeSpec == KnowledgeInit /\ [][UploadNext \/ DocumentNext]_kbVars

-----------------------------------------------------------------------------
(* Properties.                                                             *)

\* What an organisation has claimed, of its uploads.
Claims(o) == {b \in Blob : kbUploads[b] = o /\ exported[b] # o}

OfContent(o, x) == {b \in Claims(o) : storage[b].content = x}

\* Its tickets for a content that are used, or were purged.
Spent(o, x) ==
  {k \in DOMAIN uploadTickets :
     uploadTickets[k].org = o /\ uploadTickets[k].content = x /\ uploadTickets[k].state # "issued"}

\* An organisation claims no more uploads of a content than it spent tickets on
\* it, each issued before the upload; and a document has chunks only of blobs
\* its organisation claimed or made, whenever its ingest looked
\* (claimUpload, bindOrAssertStorageOwnership, assertStorageClaimedBy).
OnlyProvenContent ==
  /\ \A o \in Tenant, x \in Content :
       /\ Cardinality(OfContent(o, x)) <= Cardinality(Spent(o, x))
       /\ \A b \in OfContent(o, x) :
            \E k \in Spent(o, x) : uploadTickets[k].createdAt <= storage[b].createdAt
  /\ \A c \in DOMAIN chunks : kbUploads[chunks[c].blob] = chunks[c].ns[1]

\* The tables as they should be, and OnlyProvenContent.
LibrarySound == KnowledgeTyped /\ OnlyProvenContent

\* An ingest that nobody disturbs leaves the document with its own chunks, all
\* of them and no others, whatever ingests before it died half way
\* (storeDocumentChunked: the writes converge on a re-ingest).
ReingestConverges ==
  [][\A i \in ingests : i.alone /\ i.next = Parts /\ InsertChunk(i) =>
       LET live == {c \in DOMAIN chunks' : chunks'[c].ns = i.ns /\ chunks'[c].isLatest} IN
       /\ \A c \in live : chunks'[c].by = i.id
       /\ {chunks'[c].part : c \in live} = 1 .. Parts]_kbVars

\* What a document had when it was deleted and is not retired yet has a
\* continuation of the deletion to come: a batch takes a part of it only, and
\* the last one is no batch too early, whatever is ingested or deleted between
\* (markDocSoftDeleted).
DeletionStaysScheduled == \A c \in doomed : chunks[c].isLatest /\ continuations[chunks[c].ns] > 0
=============================================================================
