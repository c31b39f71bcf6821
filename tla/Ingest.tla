------------------------------- MODULE Ingest -------------------------------
(***************************************************************************)
(* POST /v1/ingest (api/app/main.py, ingest; api/app/ingest.py,            *)
(* ingest_bytes) served by concurrent coroutines over the shared tables.   *)
(*                                                                         *)
(* A member of Ingests is one request.  Its upload is the client's input,  *)
(* fixed from the start; its task holds the coroutine's local variables.   *)
(* Between two awaits anything may happen in the other requests, so each   *)
(* step below is what runs up to the next await.                           *)
(***************************************************************************)
EXTENDS KnowledgeStore

CONSTANTS
  Ingests,      (* ingest requests                                         *)
  ShortReplies  (* TRUE when the embedding provider may return fewer       *)
                (* vectors than it was sent texts; the client never checks *)

ASSUME IngestAssumption == ShortReplies \in BOOLEAN

VARIABLES
  upload,  (* upload[r]: what r sends                                      *)
  ipc,     (* ipc[r]: where r stands                                       *)
  task     (* task[r]: collection_id, document_id, number of vectors and   *)
           (* ordinal of the next chunk to insert                          *)

ingestVars == <<upload, ipc, task>>

\* The states in which the coroutine is alive and awaiting something.
IngestActive ==
  {"admitted", "collection", "document", "embed", "delete", "insert"}

\* 200, 400 and 500 responses, and a request whose process died.
IngestOver == {"done", "rejected", "failed", "lost"}

Upload == [ws: Workspace, name: Name, content: Content, file: FileName]
Task   == [col: Nat, doc: Nat, nvec: Nat, next: Nat]

IngestTypeOK ==
  /\ upload \in [Ingests -> Upload]
  /\ ipc \in [Ingests -> {"idle"} \cup IngestActive \cup IngestOver]
  /\ task \in [Ingests -> Task]

IngestInit ==
  /\ upload \in [Ingests -> Upload]
  /\ ipc = [r \in Ingests |-> "idle"]
  /\ task = [r \in Ingests |-> [col |-> 0, doc |-> 0, nvec |-> 0, next |-> 0]]

\* content_sha = sha256_bytes(data)
ShaOf(r) == Sha[upload[r].content]

Goto(r, from, to) ==
  /\ ipc[r] = from
  /\ ipc' = [ipc EXCEPT ![r] = to]

-----------------------------------------------------------------------------
\* The route lets the request in; its first await registers the codec.
Admit(r) ==
  /\ Goto(r, "idle", "admitted")
  /\ UNCHANGED <<storeVars, upload, task>>

\* Size, format, parser and splitter run with no await between them; an
\* IngestError is a 400 before any table is touched.
Validate(r) ==
  /\ \/ Pieces[upload[r].content] > 0 /\ Goto(r, "admitted", "collection")
     \/ Pieces[upload[r].content] = 0 /\ Goto(r, "admitted", "rejected")
  /\ UNCHANGED <<storeVars, upload, task>>

\* Mutant: the id the upsert returns is not kept.
ResolveCollection_ForgetsId(r) ==
  /\ Goto(r, "collection", "document")
  /\ UpsertCollection(upload[r].ws, upload[r].name, NoDescription)
  /\ UNCHANGED <<upload, task>>

ResolveCollection(r) ==
  /\ Goto(r, "collection", "document")
  /\ UpsertCollection(upload[r].ws, upload[r].name, NoDescription)
  /\ task' = [task EXCEPT ![r].col =
                CollectionIdFor(upload[r].ws, upload[r].name)]
  /\ UNCHANGED upload

ResolveDocument(r) ==
  /\ Goto(r, "document", "embed")
  /\ UpsertDocument(upload[r].ws, ShaOf(r), upload[r].file)
  /\ task' = [task EXCEPT ![r].doc =
                DocumentIdFor(upload[r].ws, ShaOf(r))]
  /\ UNCHANGED upload

\* How many of the n chunk texts come back with a vector that
\* zip(raw_chunks, vectors) will pair up.
VectorCounts(n) == IF ShortReplies THEN 0 .. n ELSE {n}

Embed(r) ==
  /\ Goto(r, "embed", "delete")
  /\ \E k \in VectorCounts(Pieces[upload[r].content]) :
       task' = [task EXCEPT ![r].nvec = k]
  /\ UNCHANGED <<storeVars, upload>>

\* Mutant: the DELETE names the collection.
DeleteOld_WholeCollection(r) ==
  /\ Goto(r, "delete", "insert")
  /\ chunks' = {c \in chunks : c.collection_id # task[r].col}
  /\ UNCHANGED <<collections, documents, seq, upload, task>>

\* Replace chunks for this document.
DeleteOld(r) ==
  /\ Goto(r, "delete", "insert")
  /\ DeleteChunks(task[r].doc)
  /\ UNCHANGED <<upload, task>>

\* Mutant: ordinals count from 1.
InsertNext_FromOne(r) ==
  /\ ipc[r] = "insert"
  /\ task[r].next < task[r].nvec
  /\ InsertChunk(task[r].doc, upload[r].ws, task[r].col,
                 upload[r].content, task[r].next + 1)
  /\ task' = [task EXCEPT ![r].next = @ + 1]
  /\ UNCHANGED <<upload, ipc>>

InsertNext(r) ==
  /\ ipc[r] = "insert"
  /\ task[r].next < task[r].nvec
  /\ InsertChunk(task[r].doc, upload[r].ws, task[r].col,
                 upload[r].content, task[r].next)
  /\ task' = [task EXCEPT ![r].next = @ + 1]
  /\ UNCHANGED <<upload, ipc>>

\* Mutant: the loop stops before its last piece.
Respond_OneShort(r) ==
  /\ task[r].next >= task[r].nvec - 1
  /\ Goto(r, "insert", "done")
  /\ UNCHANGED <<storeVars, upload, task>>

Respond(r) ==
  /\ task[r].next = task[r].nvec
  /\ Goto(r, "insert", "done")
  /\ UNCHANGED <<storeVars, upload, task>>

\* Any await may raise: the database, the provider or the 30 s command
\* timeout.  A statement that committed before its answer was lost is the
\* statement's own step followed by this one.
FailIngest(r) ==
  /\ ipc[r] \in IngestActive
  /\ ipc' = [ipc EXCEPT ![r] = "failed"]
  /\ UNCHANGED <<storeVars, upload, task>>

IngestStep(r) ==
  \/ Admit(r)
  \/ Validate(r)
  \/ ResolveCollection(r)
  \/ ResolveDocument(r)
  \/ Embed(r)
  \/ DeleteOld(r)
  \/ InsertNext(r)
  \/ Respond(r)

\* The process dies: every coroutine in flight is gone, the tables stay.
LoseIngests ==
  ipc' = [r \in Ingests |-> IF ipc[r] \in IngestActive THEN "lost" ELSE ipc[r]]

-----------------------------------------------------------------------------
\* chunks_created of the 200 response: len(raw_chunks), whatever was stored.
ChunksCreated(r) == Pieces[upload[r].content]
=============================================================================
