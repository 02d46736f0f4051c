---------------------------- MODULE MCBulkDrain ----------------------------
(***************************************************************************)
(* Two runs over three rows of two organisations, whose agents share a     *)
(* label; a cap of one row, so that a run takes up to three batches.  Apart *)
(* from them the files and documents of two organisations, deleted in      *)
(* batches of one chunk.                                                   *)
(***************************************************************************)
EXTENDS BulkDrain, KnowledgeBase

CONSTANTS eta, pi, etaB, orgA, orgB

VARIABLE scene

MCvars == <<vars, scene, kbVars>>

TwoOrgs == [a \in {eta, pi, etaB} |-> IF a = etaB THEN orgB ELSE orgA]
SharedLabel == [a \in {eta, pi, etaB} |-> IF a = pi THEN "pi" ELSE "eta"]

\* Rows of orgA made by pi, or by eta for itself, and a row of orgB.
SomeRows ==
  {x \in Row : /\ x.note = Nothing /\ x.status = "todo"
               /\ x.autoGenerated /\ x.closable
               /\ OrgOf[x.assignedTo] = x.org
               /\ x.createdBy = IF x.org = orgA THEN pi ELSE etaB}

RowsInit ==
  /\ row \in [Task -> SomeRows]
  /\ run = [r \in Run |-> NoRun]
  /\ scheduled = [r \in Run |-> Nothing]
  /\ changes = 0

\* The filters that tell the rows apart.
SomeArgs ==
  {args \in Args :
     args.filter \in {[autoGeneratedOnly |-> FALSE, assignedTo |-> "eta", status |-> Nothing],
                      [autoGeneratedOnly |-> TRUE, assignedTo |-> Nothing, status |-> "todo"]}}

RowsNext ==
  \/ \E r \in Run : \/ \E args \in SomeArgs : BulkComplete(r, args)
                    \/ Continue(r)
  \/ \E t \in Task : Change(t)

ADoc == CHOOSE d \in Doc : TRUE
ABlob == CHOOSE b \in Blob : TRUE
AFile == [content |-> CHOOSE x \in Content : TRUE, createdAt |-> 0, held |-> TRUE]
Manual == <<orgA, ADoc>>

\* Tickets, uploads and bundles of two organisations, one document ingested.
ClaimNext ==
  \/ \E o \in Tenant, x \in Content : GenerateUploadUrlWithTicket(o, x)
  \/ \E b \in Blob, x \in Content :
       Upload(b, x) \/ (b # ABlob /\ StoreBundle(orgA, b, x))
  \/ \E e \in exports : BindBundle(e) \/ DeleteBundle(e) \/ ExportDies(e)
  \/ \E w \in Tenant \cup {Master}, b \in Blob, k \in DOMAIN uploadTickets : ClaimUpload(w, b, k)
  \/ PurgeUploadTickets \/ Later
  \/ \E o \in Tenant, b \in Blob : begun = 0 /\ StoreDocument(<<o, ADoc>>, b)
  \/ \E i \in ingests :
       \/ AssertStorageClaimedBy(i) \/ ListChunkIdsForDoc(i)
       \/ i.next = 1 /\ InsertChunk(i)

\* One document of a claimed file, ingested and deleted over and over.
ManualNext ==
  \/ StoreDocument(Manual, ABlob)
  \/ \E i \in ingests :
       \/ AssertStorageClaimedBy(i) \/ ListChunkIdsForDoc(i)
       \/ SupersedePriorChunks(i) \/ InsertChunk(i) \/ IngestDies(i)
  \/ SoftDeleteDocument(Manual) \/ ContinueDeletion(Manual)

NoRows ==
  /\ row = [t \in Task |-> CHOOSE x \in SomeRows : TRUE] /\ run = [r \in Run |-> NoRun]
  /\ scheduled = [r \in Run |-> Nothing] /\ changes = 0

MCInit ==
  \/ scene = "rows" /\ RowsInit /\ KnowledgeInit
  \/ scene = "claims" /\ NoRows /\ KnowledgeInit
  \/ /\ scene = "manual" /\ NoRows
     /\ clock = 0 /\ storage = [b \in Blob |-> IF b = ABlob THEN AFile ELSE Nothing]
     /\ uploadTickets =
          <<[org |-> orgA, content |-> AFile.content, createdAt |-> 0, state |-> "used"]>>
     /\ kbUploads = [b \in Blob |-> IF b = ABlob THEN orgA ELSE Nothing]
     /\ exports = {} /\ exported = [b \in Blob |-> Nothing]
     /\ ingests = {} /\ begun = 0 /\ chunks = <<>>
     /\ continuations = [ns \in Tenant \X Doc |-> 0] /\ doomed = {}

MCNext ==
  /\ UNCHANGED scene
  /\ \/ scene = "rows" /\ RowsNext /\ UNCHANGED kbVars
     \/ /\ \/ scene = "claims" /\ ClaimNext
           \/ scene = "manual" /\ ManualNext
        /\ UNCHANGED vars

MCSpec ==
  /\ MCInit /\ [][MCNext]_MCvars
  /\ \A r \in Run : WF_vars(Continue(r))
=============================================================================
