-------------------------- MODULE SequentialIngest --------------------------
(***************************************************************************)
(* The service while a document has one upload under way at a time: a file *)
(* is sent when no request is ingesting its bytes into its workspace.      *)
(* scripts/run_proof.py (_ingest_corpus) does so as long as the service    *)
(* answers it in time, for it sends the next file when the last request is *)
(* over; after a timeout of its client the request it gave up may still be *)
(* running when it, or its next run, sends a file (see Scripts).  Uploads  *)
(* of different documents, queries, collection requests, failures and      *)
(* crashes interleave freely.                                              *)
(***************************************************************************)
EXTENDS KnowledgeService

CONSTANT Nowhere

DocOf(r) == <<upload[r].ws, ShaOf(r)>>

\* A file is sent when no request is ingesting it into the same workspace.
MaySend(r) ==
  ipc[r] = "idle" =>
    \A o \in Ingests : DocOf(o) = DocOf(r) => ipc[o] \notin IngestActive

SeqNext ==
  \/ \E r \in Ingests : ServeIngest(r) /\ MaySend(r)
  \/ Meanwhile

SeqSpec == Init /\ [][SeqNext]_vars

-----------------------------------------------------------------------------
Docs == Workspace \X Digest

RowsOf(d) ==
  LET ids == {row.id : row \in DocumentsOf(d[1], d[2])}
  IN  {c \in chunks : c.document_id \in ids}

\* Every piece of d once, read as content, all of them in collection b.
CompleteAs(d, content, b) ==
  /\ Cardinality(RowsOf(d)) = Pieces[content]
  /\ {c.ordinal : c \in RowsOf(d)} = 0 .. Pieces[content] - 1
  /\ \A c \in RowsOf(d) : c.collection_id = b /\ c.content = content

CompleteIn(d, b) ==
  /\ RowsOf(d) # {}
  /\ \E content \in Content : Sha[content] = d[2] /\ CompleteAs(d, content, b)

Rebuilds(r, d) == ipc[r] = "insert" /\ DocOf(r) = d

rebuildingDocs == {d \in Docs : \E r \in Ingests : Rebuilds(r, d)}

Homes(d) == {b \in {c.collection_id : c \in RowsOf(d)} : CompleteIn(d, b)}

homeOf ==
  [d \in Docs |-> IF d \in rebuildingDocs \/ Homes(d) = {}
                    THEN Nowhere ELSE CHOOSE b \in Homes(d) : TRUE]

succeeded == {r \in Ingests : ipc[r] = "done"}

Index == INSTANCE DocumentIndex WITH
  Doc <- Docs, Bucket <- Id, Request <- Ingests, Nowhere <- Nowhere,
  home <- homeOf, rebuilding <- rebuildingDocs, succeeded <- succeeded

\* Ingestion one upload per document implements the abstract index: a document
\* becomes visible only completely and in one collection by the end of its
\* own request, and nothing but its next re-ingest takes it out.
ImplementsIndex == Index!IndexSpec

\* A successful request leaves its document complete, as its own format
\* reads it, in the collection it resolved, until the next request for the
\* same bytes starts replacing it: "Replace chunks for this document - idempotent re-ingest".
SuccessMeansComplete ==
  [][\A r \in Ingests :
       ipc[r] = "insert" /\ ipc'[r] = "done" =>
         /\ RowsOf(DocOf(r)) # {}
         /\ CompleteAs(DocOf(r), upload[r].content, task[r].col)]_vars

\* The chunks of a document are at every instant its first pieces, each
\* once: what a failure or a crash leaves behind half-way through the
\* INSERTs is the beginning of the document, and the next request for it
\* starts over.
ChunksArePrefix ==
  \A c \in chunks :
    /\ \A e \in chunks :
         e.document_id = c.document_id /\ e.ordinal = c.ordinal => e = c
    /\ \A i \in 0 .. c.ordinal :
         \E e \in chunks : e.document_id = c.document_id /\ e.ordinal = i
=============================================================================
