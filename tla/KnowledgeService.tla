-------------------------- MODULE KnowledgeService --------------------------
(***************************************************************************)
(* The API process: ingest, query and collection requests interleaved over *)
(* one database, with statements and providers that fail and a process     *)
(* that may die.  The database survives the process.                       *)
(*                                                                         *)
(* The service is taken after its readiness probe succeeded (see           *)
(* Readiness); pool connections are interchangeable here.                  *)
(***************************************************************************)
EXTENDS Ingest, Query

CONSTANT MaxSeq  (* bound on the upserts of POST /v1/collections           *)

vars == <<storeVars, ingestVars, queryVars>>

TypeOK == StoreTypeOK /\ IngestTypeOK /\ QueryTypeOK

Init == StoreInit /\ IngestInit /\ QueryInit

\* POST /v1/collections: one upsert.
CreateCollection(ws, name, desc) ==
  /\ seq.collections < MaxSeq
  /\ UpsertCollection(ws, name, desc)
  /\ UNCHANGED <<ingestVars, queryVars>>

ServeIngest(r) == IngestStep(r) /\ UNCHANGED queryVars
ServeQuery(q)  == QueryStep(q) /\ UNCHANGED ingestVars

Fail ==
  \/ (\E r \in Ingests : FailIngest(r)) /\ UNCHANGED queryVars
  \/ (\E q \in Queries : FailQuery(q)) /\ UNCHANGED ingestVars

Crash ==
  /\ \/ \E r \in Ingests : ipc[r] \in IngestActive
     \/ \E q \in Queries : qpc[q] \in QueryActive
  /\ LoseIngests
  /\ LoseQueries
  /\ UNCHANGED <<storeVars, upload, task, ask, hits, cited>>

\* Every step but those of an ingest.
Meanwhile ==
  \/ \E q \in Queries : ServeQuery(q)
  \/ \E ws \in Workspace, name \in Name,
        desc \in Description \cup {NoDescription} :
       CreateCollection(ws, name, desc)
  \/ Fail
  \/ Crash

Next == (\E r \in Ingests : ServeIngest(r)) \/ Meanwhile

Spec == Init /\ [][Next]_vars

-----------------------------------------------------------------------------
(* Safety *)

\* Every chunk belongs to a document and to a collection, all three in one
\* workspace, and is a piece of a file with that document's bytes.  chunks has no
\* foreign key on collection_id and repeats the workspace: only the order
\* of the pipeline's statements keeps the three tables in agreement.
WorkspaceConsistent ==
  \A c \in chunks :
    /\ \E d \in documents : /\ d.id = c.document_id
                            /\ d.workspace = c.workspace
                            /\ d.content_sha = Sha[c.content]
    /\ \E k \in collections : /\ k.id = c.collection_id
                              /\ k.workspace = c.workspace

\* A citation may stop resolving, but an id handed to a client never comes
\* to name another chunk, whatever re-ingests happened in between
\* (GET /v1/citations/{chunk_id} after a query).
CitationFidelity ==
  \A q \in Queries : \A cite \in cited[q] :
    \A row \in CitationRows(cite.id) : row = cite

\* Whatever an answer cites was uploaded by some request into the workspace
\* and the collection the question named (post_query, WHERE clause of the
\* retrieval, and the collection ids the ingests resolved).
AnswersComeFromUploads ==
  \A q \in Queries : \A c \in cited[q] :
    /\ c.workspace = ask[q].ws
    /\ \E r \in Ingests :
         /\ upload[r].ws = ask[q].ws
         /\ upload[r].content = c.content
         /\ \E k \in collections : /\ k.id = ask[q].col
                                   /\ k.workspace = upload[r].ws
                                   /\ k.name = upload[r].name

\* An answer cites something, and only passages that clear both relevance
\* gates, the cosine one and, with the stub embedder, the shared token
\* (REQ-004: no evidence, no answer).
AnswersAreGrounded ==
  \A q \in Queries :
    /\ qpc[q] = "answered" <=> cited[q] # {}
    /\ \A c \in cited[q] :
         /\ Reaches(ScoreOf(q, c))
         /\ EmbeddingStub => Overlaps(ask[q].question, Piece(c))

\* A document whose requests all succeeded holds every piece that one of
\* them got a vector for (zip drops the others), read as that request read
\* it, however their DELETEs and INSERTs interleaved: the request that
\* deleted last inserts afterwards.
NoLostChunk ==
  \A d \in documents :
    LET mine == {r \in Ingests : /\ upload[r].ws = d.workspace
                                 /\ ShaOf(r) = d.content_sha
                                 /\ ipc[r] # "idle"}
    IN (\A r \in mine : ipc[r] = "done") =>
         \E r \in mine : \A i \in 0 .. task[r].nvec - 1 :
           \E c \in ChunksOf(d.id) :
             c.ordinal = i /\ c.content = upload[r].content

\* A step removes chunks only of the document its own upload names: never
\* another workspace's copy of the same bytes, nor the collection's other
\* documents.
DeletesStayInTheirDocument ==
  [][\A c \in chunks \ chunks' :
       \E r \in Ingests : /\ ipc[r] = "delete" /\ ipc'[r] = "insert"
                          /\ upload[r].ws = c.workspace
                          /\ ShaOf(r) = Sha[c.content]]_vars

\* A collection keeps its id, and once described it stays described: an
\* ingest or a create without description never wipes it (COALESCE).
DescriptionsSurvive ==
  [][\A k \in collections :
       \E n \in collections' :
         /\ n.id = k.id /\ n.workspace = k.workspace /\ n.name = k.name
         /\ k.description # NoDescription => n.description # NoDescription]_vars

\* The requests for the document c is a piece of, sent so far.
RequestsFor(c) ==
  {r \in Ingests : /\ upload[r].ws = c.workspace
                   /\ ShaOf(r) = Sha[c.content]
                   /\ ipc[r] # "idle"}

\* What a query has read or cited still resolves as long as nobody uploads
\* the same bytes into the workspace again: chunks are read before the chat
\* provider is awaited and cited after it (GET /v1/citations/{chunk_id}).
CitationsResolve ==
  \A q \in Queries : \A c \in hits[q] \cup cited[q] :
    (\A r, s \in RequestsFor(c) : r = s) => CitationRows(c.id) # {}

\* top_k passages that the token gate cuts rank before c: the gate runs
\* after the LIMIT.
CrowdedOut(q, c) ==
  /\ EmbeddingStub
  /\ Cardinality({o \in Candidates(q) :
                    /\ ~Overlaps(ask[q].question, Piece(o))
                    /\ Precedes(ScoreOf(q, o), ScoreOf(q, c))}) >= TopK

\* A question refused without asking the chat provider had, at its SELECT,
\* no relevant passage in its collection, but for those crowded out of the
\* top_k by passages that share no token with it (post_query).  That is so
\* as long as the SELECT scans the table: an IVFFlat index, which is built
\* from 1000 rows on, may miss a relevant passage.
RefusedForLackOfEvidence ==
  [][\A q \in Queries :
       qpc[q] = "search" /\ qpc'[q] = "refused" /\ ~MayBeIndexed =>
         \A c \in FilterRelevant(q, Candidates(q)) : CrowdedOut(q, c)]_vars

\* A document keeps its id, key and source through every re-upload; it is
\* renamed only by an upload of the same bytes into the same workspace,
\* when that request upserts it.
DocumentsKeepTheirIdentity ==
  [][\A d \in documents : \E n \in documents' :
       /\ n.id = d.id /\ n.workspace = d.workspace
       /\ n.content_sha = d.content_sha /\ n.source = d.source
       /\ n.file_name # d.file_name =>
            \E r \in Ingests : /\ ipc[r] = "document" /\ ipc'[r] = "embed"
                               /\ upload[r].ws = d.workspace
                               /\ ShaOf(r) = d.content_sha
                               /\ upload[r].file = n.file_name]_vars

\* The chunks of a collection change only in the step of a request for a
\* file that some request has for this collection: an ingest into a
\* collection that shares no file with it leaves it alone.
CollectionsShareOnlyFiles ==
  [][\A k \in collections :
       CollectionChunks(k) # {c \in chunks' : c.collection_id = k.id} =>
         \E r, s \in Ingests :
           /\ ipc[r] \in {"delete", "insert"}
           /\ task'[r] # task[r] \/ ipc'[r] # ipc[r]
           /\ upload[r].ws = k.workspace
           /\ upload[s].ws = k.workspace /\ upload[s].name = k.name
           /\ ShaOf(s) = ShaOf(r)]_vars

-----------------------------------------------------------------------------
(* What the repository says and the service does not keep. *)

\* "Replace chunks for this document - idempotent re-ingest": once every
\* request for a document has succeeded, each piece is stored once.
ReingestIsIdempotent ==
  \A d \in documents :
    (\A r \in Ingests :
       (upload[r].ws = d.workspace /\ ShaOf(r) = d.content_sha)
         => ipc[r] \in {"idle", "done"})
    => \A a, b \in ChunksOf(d.id) : a.ordinal = b.ordinal => a = b

\* "two collections in the same workspace are isolated": an ingest changes
\* the chunks of no collection but the one it names.
CollectionsAreIsolated ==
  [][\A k \in collections :
       {c \in chunks : c.collection_id = k.id}
         # {c \in chunks' : c.collection_id = k.id}
       => \E r \in Ingests : /\ task'[r] # task[r] \/ ipc'[r] # ipc[r]
                             /\ task[r].col = k.id]_vars

\* "Answers must cite a real chunk": when the answer leaves, each citation
\* resolves.
AnswersCiteRealChunks ==
  [][\A q \in Queries :
       qpc[q] = "chat" /\ qpc'[q] = "answered" =>
         \A c \in cited'[q] : CitationRows(c.id) # {}]_vars

\* "Original filename + size for traceability": a document keeps the name
\* it was first uploaded under.
OriginalFileNameKept ==
  [][\A d \in documents : \E n \in documents' :
       n.id = d.id /\ n.file_name = d.file_name]_vars

\* "<name> (<chunk_count> chunks)": the count is the number of chunks.
ChunkCountIsExact ==
  \A k \in collections : ChunkCount(k) = Cardinality(CollectionChunks(k))

\* "assert qbody[best_score] < qbody[threshold]" of a refusal.
RefusalsScoreBelowThreshold ==
  \A q \in Queries : qpc[q] = "refused" => BestScore(q) < Threshold

\* "REQ-004: explicit refusal. HTTP 200": a question whose hits are all
\* irrelevant is refused, also one without a single token.
RefusalsAreAnswers ==
  \A q \in Queries :
    hits[q] # {} /\ Relevant(q) = {} => qpc[q] # "failed"

\* "Returns ... the number of chunks created": what a response reports is
\* in the table when nobody else touches the document.
ChunksCreatedAreStored ==
  \A r \in Ingests :
    /\ ipc[r] = "done"
    /\ \A o \in Ingests \ {r} : ipc[o] = "idle"
    => Cardinality(ChunksOf(task[r].doc)) = ChunksCreated(r)
=============================================================================
