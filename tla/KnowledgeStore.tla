--------------------------- MODULE KnowledgeStore ---------------------------
(***************************************************************************)
(* The three Postgres tables the API keeps (db/init.sql, api/app/db.py)    *)
(* and the SQL statements it runs on them.  No statement runs inside an    *)
(* explicit transaction, so each one commits on its own: one statement is  *)
(* one atomic step.                                                        *)
(*                                                                         *)
(* A row is a record.  BIGSERIAL columns take their value from a sequence  *)
(* that only grows; an INSERT ... ON CONFLICT takes a value from the       *)
(* sequence even when the conflict turns it into an UPDATE.                *)
(*                                                                         *)
(* A Content is a file as the parser reads it: its bytes, in the format    *)
(* that the extension of its name gives (ingest.py, _detect_format).  The  *)
(* same bytes under two extensions are two contents with one SHA-256, and  *)
(* may be split differently or rejected under one of them.                 *)
(***************************************************************************)
EXTENDS Integers, FiniteSets

CONSTANTS
  Workspace,    (* workspace names                                         *)
  Name,         (* collection names                                        *)
  Content,      (* the files clients upload, as their format reads them    *)
  Sha,          (* Sha[c]: the SHA-256 of the bytes of c                   *)
  FileName,     (* the names they upload them under, less the extension    *)
  Description,  (* collection descriptions                                 *)
  NoDescription,(* SQL NULL in collections.description                     *)
  Pieces        (* Pieces[c]: how many chunks the splitter cuts c into; 0  *)
                (* when the parser or a size check rejects c               *)

ASSUME StoreAssumption ==
  /\ Sha = [c \in Content |-> Sha[c]]
  /\ Pieces \in [Content -> Nat]
  /\ NoDescription \notin Description

VARIABLES
  collections,  (* rows of collections                                     *)
  documents,    (* rows of documents                                       *)
  chunks,       (* rows of chunks                                          *)
  seq           (* last value each table's id sequence handed out          *)

storeVars == <<collections, documents, chunks, seq>>

Id == Nat \ {0}

Digest == {Sha[c] : c \in Content}

CollectionRow ==
  [id: Id, workspace: Workspace, name: Name,
   description: Description \cup {NoDescription}]

DocumentRow ==
  [id: Id, workspace: Workspace, content_sha: Digest,
   source: FileName, file_name: FileName]

ChunkRow ==
  [id: Id, document_id: Id, workspace: Workspace, collection_id: Id,
   ordinal: Nat, content: Content]

StoreTypeOK ==
  /\ collections \subseteq CollectionRow
  /\ documents \subseteq DocumentRow
  /\ chunks \subseteq ChunkRow
  /\ seq \in [collections: Nat, documents: Nat, chunks: Nat]

StoreInit ==
  /\ collections = {}
  /\ documents = {}
  /\ chunks = {}
  /\ seq = [collections |-> 0, documents |-> 0, chunks |-> 0]

-----------------------------------------------------------------------------
(* collections *)

\* Mutant: ON CONFLICT (name).
CollectionsNamed_AnyWorkspace(ws, name) == {c \in collections : c.name = name}

CollectionsNamed(ws, name) ==
  {c \in collections : c.workspace = ws /\ c.name = name}

\* RETURNING id of the upsert: the row in conflict, else the new row.
CollectionIdFor(ws, name) ==
  IF CollectionsNamed(ws, name) = {}
    THEN seq.collections + 1
    ELSE (CHOOSE c \in CollectionsNamed(ws, name) : TRUE).id

\* COALESCE(EXCLUDED.description, collections.description); the ingest
\* upsert has no description and leaves the column alone.
Coalesce(new, old) == IF new = NoDescription THEN old ELSE new

UpsertCollection(ws, name, desc) ==
  /\ seq' = [seq EXCEPT !.collections = @ + 1]
  /\ \/ /\ CollectionsNamed(ws, name) = {}
        /\ collections' = collections \cup
             {[id |-> seq.collections + 1, workspace |-> ws, name |-> name,
               description |-> desc]}
     \/ \E c \in CollectionsNamed(ws, name) :
          collections' = (collections \ {c}) \cup
             {[c EXCEPT !.description = Coalesce(desc, @)]}
  /\ UNCHANGED <<documents, chunks>>

-----------------------------------------------------------------------------
(* documents *)

\* Mutant: ON CONFLICT (content_sha).
DocumentsOf_AnyWorkspace(ws, sha) ==
  {d \in documents : d.content_sha = sha}

DocumentsOf(ws, sha) ==
  {d \in documents : d.workspace = ws /\ d.content_sha = sha}

DocumentIdFor(ws, sha) ==
  IF DocumentsOf(ws, sha) = {}
    THEN seq.documents + 1
    ELSE (CHOOSE d \in DocumentsOf(ws, sha) : TRUE).id

UpsertDocument(ws, sha, file) ==
  /\ seq' = [seq EXCEPT !.documents = @ + 1]
  /\ \/ /\ DocumentsOf(ws, sha) = {}
        /\ documents' = documents \cup
             {[id |-> seq.documents + 1, workspace |-> ws,
               content_sha |-> sha, source |-> file, file_name |-> file]}
     \/ \E d \in DocumentsOf(ws, sha) :
          documents' = (documents \ {d}) \cup {[d EXCEPT !.file_name = file]}
  /\ UNCHANGED <<collections, chunks>>

-----------------------------------------------------------------------------
(* chunks *)

ChunksOf(doc) == {c \in chunks : c.document_id = doc}

DeleteChunks(doc) ==
  /\ chunks' = chunks \ ChunksOf(doc)
  /\ UNCHANGED <<collections, documents, seq>>

\* Mutant: the id is the number of rows plus one, so that the ids of deleted
\* chunks come back.
InsertChunk_ReusesIds(doc, ws, col, content, ordinal) ==
  /\ chunks' = chunks \cup
       {[id |-> Cardinality(chunks) + 1, document_id |-> doc, workspace |-> ws,
         collection_id |-> col, ordinal |-> ordinal, content |-> content]}
  /\ UNCHANGED <<collections, documents, seq>>

\* document_id REFERENCES documents(id); collection_id references nothing.
InsertChunk(doc, ws, col, content, ordinal) ==
  /\ \E d \in documents : d.id = doc
  /\ seq' = [seq EXCEPT !.chunks = @ + 1]
  /\ chunks' = chunks \cup
       {[id |-> seq.chunks + 1, document_id |-> doc, workspace |-> ws,
         collection_id |-> col, ordinal |-> ordinal, content |-> content]}
  /\ UNCHANGED <<collections, documents>>

-----------------------------------------------------------------------------
(* What the read routes compute. *)

\* GET /v1/citations/{chunk_id}: the chunk, when the join with documents
\* finds its document; 404 when there is none.
CitationRows(chunk_id) ==
  {c \in chunks : /\ c.id = chunk_id
                  /\ \E d \in documents : d.id = c.document_id}

\* GET /v1/collections: the two LEFT JOINs of one collection row.
CountedDocuments(col) ==
  {d \in documents : /\ d.workspace = col.workspace
                     /\ \E c \in chunks : /\ c.collection_id = col.id
                                          /\ c.document_id = d.id}

CollectionChunks(col) == {c \in chunks : c.collection_id = col.id}

DocumentCount(col) == Cardinality(CountedDocuments(col))

\* COUNT(ch.id) counts the rows of the join, not distinct chunks; a LEFT
\* JOIN that finds no document still keeps one row per chunk.
ChunkCount(col) ==
  Cardinality(CollectionChunks(col))
    * (IF CountedDocuments(col) = {} THEN 1 ELSE DocumentCount(col))
=============================================================================
