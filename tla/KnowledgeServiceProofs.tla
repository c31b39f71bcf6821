----------------------- MODULE KnowledgeServiceProofs -----------------------
(***************************************************************************)
(* Proofs about KnowledgeService, for every set of requests, workspaces,   *)
(* names and contents, any splitter and any score.                         *)
(***************************************************************************)
EXTENDS KnowledgeService, FiniteSetTheorems, TLAPS

USE DEF ShaOf

-----------------------------------------------------------------------------
(* The inductive invariant *)

\* No id in use is above what its sequence handed out.
IdsAreIssued ==
  /\ \A k \in collections : k.id <= seq.collections
  /\ \A d \in documents : d.id <= seq.documents
  /\ \A c \in chunks : c.id <= seq.chunks
  /\ \A q \in Queries : \A c \in hits[q] \cup cited[q] : c.id <= seq.chunks

\* An id names one document (up to its file name) and one chunk.
IdsAreUnique ==
  /\ \A d, e \in documents : d.id = e.id =>
       d.workspace = e.workspace /\ d.content_sha = e.content_sha
  /\ \A b, c \in chunks : b.id = c.id => b = c

\* What a request's coroutine remembers of the tables stays true of them:
\* no step deletes or moves a collection or a document.
HasCollection(r, k) ==
  k.id = task[r].col /\ k.workspace = upload[r].ws /\ k.name = upload[r].name

HasDocument(r, d) ==
  /\ d.id = task[r].doc
  /\ d.workspace = upload[r].ws
  /\ d.content_sha = ShaOf(r)

TasksAreCurrent ==
  \A r \in Ingests :
    /\ ipc[r] \in {"document", "embed", "delete", "insert"} =>
         \E k \in collections : HasCollection(r, k)
    /\ ipc[r] \in {"embed", "delete", "insert"} =>
         \E d \in documents : HasDocument(r, d)

\* c is a piece of what some request uploaded into c's collection.
Uploaded(c) ==
  \E r \in Ingests :
    /\ upload[r].ws = c.workspace
    /\ upload[r].content = c.content
    /\ \E k \in collections : /\ k.id = c.collection_id
                              /\ k.workspace = upload[r].ws
                              /\ k.name = upload[r].name

\* What a query has read: rows of its own scope, uploaded, whose ids name
\* no other chunk.
ReadsAreFaithful ==
  \A q \in Queries : \A c \in hits[q] \cup cited[q] :
    /\ c.workspace = ask[q].ws
    /\ c.collection_id = ask[q].col
    /\ Uploaded(c)
    /\ \A row \in chunks : row.id = c.id => row = c

IInv ==
  /\ TypeOK
  /\ IdsAreIssued
  /\ IdsAreUnique
  /\ TasksAreCurrent
  /\ WorkspaceConsistent
  /\ \A c \in chunks : Uploaded(c)
  /\ ReadsAreFaithful

-----------------------------------------------------------------------------
(* The statements *)

\* Rows of collections and documents keep id, workspace and key.
CollectionsStay ==
  \A k \in collections : \E n \in collections' :
    n.id = k.id /\ n.workspace = k.workspace /\ n.name = k.name

DocumentsStay ==
  \A d \in documents : \E n \in documents' :
    /\ n.id = d.id
    /\ n.workspace = d.workspace
    /\ n.content_sha = d.content_sha

\* The collections upsert is well typed, keeps every row's key, and its
\* RETURNING id is the id of a row with the workspace and name asked for.
LEMMA UpsertCollectionStep ==
  ASSUME StoreTypeOK, \A k \in collections : k.id <= seq.collections,
         NEW ws \in Workspace, NEW name \in Name,
         NEW desc \in Description \cup {NoDescription},
         UpsertCollection(ws, name, desc)
  PROVE  /\ StoreTypeOK'
         /\ CollectionsStay
         /\ \A k \in collections' : k.id <= seq'.collections
         /\ seq'.documents = seq.documents /\ seq'.chunks = seq.chunks
         /\ CollectionIdFor(ws, name) \in Id
         /\ \E k \in collections' : /\ k.id = CollectionIdFor(ws, name)
                                    /\ k.workspace = ws
                                    /\ k.name = name
<1> DEFINE old == CollectionsNamed(ws, name)
           fresh == [id |-> seq.collections + 1, workspace |-> ws,
                     name |-> name, description |-> desc]
<1>1. /\ seq' \in [collections: Nat, documents: Nat, chunks: Nat]
      /\ seq'.collections = seq.collections + 1
      /\ seq'.documents = seq.documents /\ seq'.chunks = seq.chunks
  BY DEF UpsertCollection, StoreTypeOK
<1>2. documents' = documents /\ chunks' = chunks
  BY DEF UpsertCollection
<1>3. old \subseteq collections /\ collections \subseteq CollectionRow
  BY DEF StoreTypeOK, CollectionsNamed
<1>4. CASE old = {} /\ collections' = collections \cup {fresh}
  <2>1. fresh \in CollectionRow
    BY <1>1 DEF CollectionRow, StoreTypeOK, Id
  <2>2. CollectionIdFor(ws, name) = fresh.id
    BY <1>4 DEF CollectionIdFor
  <2>3. \A k \in collections' : k.id <= seq'.collections
    BY <1>1, <1>3, <1>4 DEF CollectionRow, StoreTypeOK, Id
  <2>4. CollectionsStay
    BY <1>4 DEF CollectionsStay
  <2>5. StoreTypeOK'
    BY <1>1, <1>2, <1>3, <1>4, <2>1 DEF StoreTypeOK
  <2>6. fresh \in collections' /\ fresh.id \in Id
    BY <1>4, <2>1 DEF CollectionRow
  <2> QED
    BY <1>1, <2>2, <2>3, <2>4, <2>5, <2>6
<1>5. CASE \E c \in old :
             collections' = (collections \ {c}) \cup
               {[c EXCEPT !.description = Coalesce(desc, @)]}
  <2>1. PICK c \in old :
             collections' = (collections \ {c}) \cup
               {[c EXCEPT !.description = Coalesce(desc, @)]}
    BY <1>5
  <2> DEFINE upd == [c EXCEPT !.description = Coalesce(desc, @)]
  <2>2. c \in CollectionRow
    BY <1>3
  <2>3. /\ upd \in CollectionRow
        /\ upd.id = c.id /\ upd.workspace = c.workspace /\ upd.name = c.name
    BY <2>2 DEF CollectionRow, Coalesce
  <2>4. CollectionsStay
    BY <2>1, <2>3 DEF CollectionsStay
  <2>5. \A k \in collections' : k.id <= seq'.collections
    BY <1>1, <1>3, <2>1, <2>3 DEF CollectionRow, StoreTypeOK, Id
  <2>6. PICK k \in old : CollectionIdFor(ws, name) = k.id
    BY <2>1 DEF CollectionIdFor
  <2>7. /\ k \in collections /\ k \in CollectionRow
        /\ k.workspace = ws /\ k.name = name
    BY <1>3 DEF CollectionsNamed
  <2>8. StoreTypeOK'
    BY <1>1, <1>2, <1>3, <2>1, <2>3 DEF StoreTypeOK
  <2>9. CollectionIdFor(ws, name) \in Id
    BY <2>6, <2>7 DEF CollectionRow
  <2> QED
    BY <1>1, <2>4, <2>5, <2>6, <2>7, <2>8, <2>9 DEF CollectionsStay
<1> QED
  BY <1>4, <1>5 DEF UpsertCollection

\* The documents upsert is well typed, keeps every row's key, and its
\* RETURNING id is the id of a row with the workspace and hash asked for.
LEMMA UpsertDocumentStep ==
  ASSUME StoreTypeOK,
         \A d \in documents : d.id <= seq.documents,
         \A d, e \in documents : d.id = e.id =>
           d.workspace = e.workspace /\ d.content_sha = e.content_sha,
         NEW ws \in Workspace, NEW sha \in Digest, NEW file \in FileName,
         UpsertDocument(ws, sha, file)
  PROVE  /\ StoreTypeOK'
         /\ DocumentsStay
         /\ \A d \in documents' : d.id <= seq'.documents
         /\ \A d, e \in documents' : d.id = e.id =>
              d.workspace = e.workspace /\ d.content_sha = e.content_sha
         /\ seq'.collections = seq.collections /\ seq'.chunks = seq.chunks
         /\ DocumentIdFor(ws, sha) \in Id
         /\ \E d \in documents' : /\ d.id = DocumentIdFor(ws, sha)
                                  /\ d.workspace = ws
                                  /\ d.content_sha = sha
<1> DEFINE old == DocumentsOf(ws, sha)
           fresh == [id |-> seq.documents + 1, workspace |-> ws,
                     content_sha |-> sha, source |-> file,
                     file_name |-> file]
<1>1. /\ seq' \in [collections: Nat, documents: Nat, chunks: Nat]
      /\ seq'.documents = seq.documents + 1
      /\ seq'.collections = seq.collections /\ seq'.chunks = seq.chunks
  BY DEF UpsertDocument, StoreTypeOK
<1>2. collections' = collections /\ chunks' = chunks
  BY DEF UpsertDocument
<1>3. old \subseteq documents /\ documents \subseteq DocumentRow
  BY DEF StoreTypeOK, DocumentsOf
<1>4. CASE old = {} /\ documents' = documents \cup {fresh}
  <2>1. fresh \in DocumentRow
    BY <1>1 DEF DocumentRow, StoreTypeOK, Id
  <2>2. DocumentIdFor(ws, sha) = fresh.id
    BY <1>4 DEF DocumentIdFor
  <2>3. \A d \in documents : d.id # fresh.id /\ d.id <= seq'.documents
    BY <1>1, <1>3 DEF DocumentRow, StoreTypeOK, Id
  <2>4. DocumentsStay
    BY <1>4 DEF DocumentsStay
  <2>5. fresh.id <= seq'.documents
    BY <1>1 DEF StoreTypeOK
  <2>6. StoreTypeOK'
    BY <1>1, <1>2, <1>3, <1>4, <2>1 DEF StoreTypeOK
  <2>7. fresh \in documents' /\ fresh.id \in Id
    BY <1>4, <2>1 DEF DocumentRow
  <2>8. \A d \in documents' : d.id <= seq'.documents
    BY <1>4, <2>3, <2>5
  <2>9. \A d, e \in documents' : d.id = e.id =>
          d.workspace = e.workspace /\ d.content_sha = e.content_sha
    BY <1>4, <2>3
  <2> QED
    BY <1>1, <2>2, <2>4, <2>6, <2>7, <2>8, <2>9
<1>5. CASE \E d \in old :
             documents' = (documents \ {d}) \cup {[d EXCEPT !.file_name = file]}
  <2>1. PICK d \in old :
             documents' = (documents \ {d}) \cup {[d EXCEPT !.file_name = file]}
    BY <1>5
  <2> DEFINE upd == [d EXCEPT !.file_name = file]
  <2>2. d \in DocumentRow
    BY <1>3
  <2>3. /\ upd \in DocumentRow
        /\ upd.id = d.id /\ upd.workspace = d.workspace
        /\ upd.content_sha = d.content_sha
    BY <2>2 DEF DocumentRow
  <2>4. DocumentsStay
    BY <2>1, <2>3 DEF DocumentsStay
  <2>5. \A e \in documents' : e.id <= seq'.documents
    BY <1>1, <1>3, <2>1, <2>3 DEF DocumentRow, StoreTypeOK, Id
  <2>6. \A e, f \in documents' : e.id = f.id =>
          e.workspace = f.workspace /\ e.content_sha = f.content_sha
    <3>1. \A e \in documents' : \E g \in documents :
            /\ g.id = e.id /\ g.workspace = e.workspace
            /\ g.content_sha = e.content_sha
      BY <1>3, <2>1, <2>3
    <3> HIDE DEF upd
    <3> QED
      BY <3>1
  <2>7. PICK e \in old : DocumentIdFor(ws, sha) = e.id
    BY <2>1 DEF DocumentIdFor
  <2>8. /\ e \in documents /\ e \in DocumentRow
        /\ e.workspace = ws /\ e.content_sha = sha
    BY <1>3 DEF DocumentsOf
  <2>9. StoreTypeOK'
    BY <1>1, <1>2, <1>3, <2>1, <2>3 DEF StoreTypeOK
  <2>10. DocumentIdFor(ws, sha) \in Id
    BY <2>7, <2>8 DEF DocumentRow
  <2> QED
    BY <1>1, <2>4, <2>5, <2>6, <2>7, <2>8, <2>9, <2>10 DEF DocumentsStay
<1> QED
  BY <1>4, <1>5 DEF UpsertDocument

-----------------------------------------------------------------------------
(* Steps that leave the tables alone *)

\* Most steps only move a request: they keep the tables, the citations and
\* everything the invariant says of them.
LEMMA QuietStep ==
  ASSUME IInv, UNCHANGED <<storeVars, upload, ask, hits, cited>>,
         TypeOK',
         \A r \in Ingests :
           /\ task'[r].col = task[r].col /\ task'[r].doc = task[r].doc
           /\ ipc'[r] # ipc[r] =>
                \/ ipc'[r] \in {"admitted", "collection", "rejected", "done",
                               "failed", "lost"}
                \/ ipc[r] = "embed" /\ ipc'[r] = "delete"
  PROVE  IInv'
<1> USE DEF IInv, storeVars
<1>1. IdsAreIssued' /\ IdsAreUnique'
  BY DEF IdsAreIssued, IdsAreUnique
<1>2. TasksAreCurrent'
  BY DEF TasksAreCurrent, HasCollection, HasDocument
<1>3. WorkspaceConsistent'
  BY DEF WorkspaceConsistent
<1>4. (\A c \in chunks : Uploaded(c))' /\ ReadsAreFaithful'
  BY DEF Uploaded, ReadsAreFaithful
<1> QED
  BY <1>1, <1>2, <1>3, <1>4

-----------------------------------------------------------------------------
(* Steps that write the tables *)

\* Keeping every collection's key keeps what was uploaded uploaded.
LEMMA UploadedStays ==
  ASSUME CollectionsStay, UNCHANGED upload, NEW c, Uploaded(c)
  PROVE  Uploaded(c)'
BY DEF CollectionsStay, Uploaded

LEMMA ResolveCollectionInv ==
  ASSUME IInv, NEW r \in Ingests, ResolveCollection(r), UNCHANGED queryVars
  PROVE  IInv'
<1> USE DEF IInv, queryVars
<1> DEFINE ws == upload[r].ws
           name == upload[r].name
<1>1. ws \in Workspace /\ name \in Name
  BY DEF TypeOK, IngestTypeOK, Upload
<1>2. StoreTypeOK /\ \A k \in collections : k.id <= seq.collections
  BY DEF TypeOK, IdsAreIssued
<1>3. UpsertCollection(ws, name, NoDescription)
  BY DEF ResolveCollection
<1>4. /\ StoreTypeOK'
      /\ CollectionsStay
      /\ \A k \in collections' : k.id <= seq'.collections
      /\ seq'.documents = seq.documents /\ seq'.chunks = seq.chunks
      /\ CollectionIdFor(ws, name) \in Id
      /\ \E k \in collections' : /\ k.id = CollectionIdFor(ws, name)
                                 /\ k.workspace = ws
                                 /\ k.name = name
  BY <1>1, <1>2, <1>3, UpsertCollectionStep
<1>5. /\ documents' = documents /\ chunks' = chunks
      /\ UNCHANGED <<upload, ask, qpc, hits, cited>>
      /\ ipc[r] = "collection" /\ ipc' = [ipc EXCEPT ![r] = "document"]
      /\ task' = [task EXCEPT ![r].col = CollectionIdFor(ws, name)]
  BY <1>3 DEF ResolveCollection, UpsertCollection, Goto
<1>6. TypeOK'
  BY <1>4, <1>5 DEF TypeOK, IngestTypeOK, QueryTypeOK, IngestActive, Task, Id
<1>7. IdsAreIssued' /\ IdsAreUnique'
  BY <1>4, <1>5 DEF IdsAreIssued, IdsAreUnique
<1>8. TasksAreCurrent'
  <2> SUFFICES ASSUME NEW o \in Ingests
               PROVE  /\ ipc'[o] \in {"document", "embed", "delete", "insert"} =>
                           \E k \in collections' : HasCollection(o, k)'
                      /\ ipc'[o] \in {"embed", "delete", "insert"} =>
                           \E d \in documents' : HasDocument(o, d)'
    BY DEF TasksAreCurrent
  <2>1. CASE o = r
    <3>1. task'[r].col = CollectionIdFor(ws, name) /\ ipc'[r] = "document"
      BY <1>5 DEF TypeOK, IngestTypeOK, Task
    <3> QED
      BY <1>4, <1>5, <2>1, <3>1 DEF HasCollection
  <2>2. CASE o # r
    <3>1. task'[o] = task[o] /\ ipc'[o] = ipc[o]
      BY <1>5, <2>2 DEF TypeOK, IngestTypeOK
    <3> QED
      BY <1>4, <1>5, <3>1
         DEF TasksAreCurrent, HasCollection, HasDocument, CollectionsStay
  <2> QED
    BY <2>1, <2>2
<1>9. WorkspaceConsistent'
  BY <1>4, <1>5 DEF WorkspaceConsistent, CollectionsStay
<1>10. (\A c \in chunks : Uploaded(c))'
  BY <1>4, <1>5, UploadedStays
<1>11. ReadsAreFaithful'
  BY <1>4, <1>5, UploadedStays DEF ReadsAreFaithful
<1> QED
  BY <1>6, <1>7, <1>8, <1>9, <1>10, <1>11

LEMMA CreateCollectionInv ==
  ASSUME IInv,
         NEW ws \in Workspace, NEW name \in Name,
         NEW desc \in Description \cup {NoDescription},
         CreateCollection(ws, name, desc)
  PROVE  IInv'
<1> USE DEF IInv, queryVars, ingestVars
<1>1. /\ UpsertCollection(ws, name, desc)
      /\ documents' = documents /\ chunks' = chunks
      /\ UNCHANGED <<upload, ipc, task, ask, qpc, hits, cited>>
  BY DEF CreateCollection, UpsertCollection
<1>2. /\ StoreTypeOK'
      /\ CollectionsStay
      /\ \A k \in collections' : k.id <= seq'.collections
      /\ seq'.documents = seq.documents /\ seq'.chunks = seq.chunks
  BY <1>1, UpsertCollectionStep DEF TypeOK, IdsAreIssued
<1>3. TypeOK'
  BY <1>1, <1>2 DEF TypeOK, IngestTypeOK, QueryTypeOK
<1>4. IdsAreIssued' /\ IdsAreUnique'
  BY <1>1, <1>2 DEF IdsAreIssued, IdsAreUnique
<1>5. TasksAreCurrent'
  BY <1>1, <1>2
     DEF TasksAreCurrent, HasCollection, HasDocument, CollectionsStay
<1>6. WorkspaceConsistent'
  BY <1>1, <1>2 DEF WorkspaceConsistent, CollectionsStay
<1>7. (\A c \in chunks : Uploaded(c))' /\ ReadsAreFaithful'
  BY <1>1, <1>2, UploadedStays DEF ReadsAreFaithful
<1> QED
  BY <1>3, <1>4, <1>5, <1>6, <1>7

LEMMA ResolveDocumentInv ==
  ASSUME IInv, NEW r \in Ingests, ResolveDocument(r), UNCHANGED queryVars
  PROVE  IInv'
<1> USE DEF IInv, queryVars
<1> DEFINE ws == upload[r].ws
           sha == Sha[upload[r].content]
           file == upload[r].file
<1>1. ws \in Workspace /\ sha \in Digest /\ file \in FileName
  BY DEF TypeOK, IngestTypeOK, Upload, Digest
<1>2. /\ StoreTypeOK
      /\ \A d \in documents : d.id <= seq.documents
      /\ \A d, e \in documents : d.id = e.id =>
           d.workspace = e.workspace /\ d.content_sha = e.content_sha
  BY DEF TypeOK, IdsAreIssued, IdsAreUnique
<1>3. UpsertDocument(ws, sha, file)
  BY DEF ResolveDocument
<1>4. /\ StoreTypeOK'
      /\ DocumentsStay
      /\ \A d \in documents' : d.id <= seq'.documents
      /\ \A d, e \in documents' : d.id = e.id =>
           d.workspace = e.workspace /\ d.content_sha = e.content_sha
      /\ seq'.collections = seq.collections /\ seq'.chunks = seq.chunks
      /\ DocumentIdFor(ws, sha) \in Id
      /\ \E d \in documents' : /\ d.id = DocumentIdFor(ws, sha)
                               /\ d.workspace = ws
                               /\ d.content_sha = sha
  BY <1>1, <1>2, <1>3, UpsertDocumentStep
<1>5. /\ collections' = collections /\ chunks' = chunks
      /\ UNCHANGED <<upload, ask, qpc, hits, cited>>
      /\ ipc[r] = "document" /\ ipc' = [ipc EXCEPT ![r] = "embed"]
      /\ task' = [task EXCEPT ![r].doc = DocumentIdFor(ws, sha)]
  BY <1>3 DEF ResolveDocument, UpsertDocument, Goto
<1>6. TypeOK'
  BY <1>4, <1>5 DEF TypeOK, IngestTypeOK, QueryTypeOK, IngestActive, Task, Id
<1>7. IdsAreIssued' /\ IdsAreUnique'
  BY <1>4, <1>5 DEF IdsAreIssued, IdsAreUnique
<1>8. TasksAreCurrent'
  <2> SUFFICES ASSUME NEW o \in Ingests
               PROVE  /\ ipc'[o] \in {"document", "embed", "delete", "insert"} =>
                           \E k \in collections' : HasCollection(o, k)'
                      /\ ipc'[o] \in {"embed", "delete", "insert"} =>
                           \E d \in documents' : HasDocument(o, d)'
    BY DEF TasksAreCurrent
  <2>1. CASE o = r
    <3>1. /\ task'[r].doc = DocumentIdFor(ws, sha)
          /\ task'[r].col = task[r].col
      BY <1>5 DEF TypeOK, IngestTypeOK, Task
    <3> QED
      BY <1>4, <1>5, <2>1, <3>1
         DEF TasksAreCurrent, HasCollection, HasDocument
  <2>2. CASE o # r
    <3>1. task'[o] = task[o] /\ ipc'[o] = ipc[o]
      BY <1>5, <2>2 DEF TypeOK, IngestTypeOK
    <3> QED
      BY <1>4, <1>5, <3>1
         DEF TasksAreCurrent, HasCollection, HasDocument, DocumentsStay
  <2> QED
    BY <2>1, <2>2
<1>9. WorkspaceConsistent'
  BY <1>4, <1>5 DEF WorkspaceConsistent, DocumentsStay
<1>10. (\A c \in chunks : Uploaded(c))' /\ ReadsAreFaithful'
  BY <1>5 DEF Uploaded, ReadsAreFaithful
<1> QED
  BY <1>6, <1>7, <1>8, <1>9, <1>10

LEMMA DeleteOldInv ==
  ASSUME IInv, NEW r \in Ingests, DeleteOld(r), UNCHANGED queryVars
  PROVE  IInv'
<1> USE DEF IInv, queryVars
<1>1. /\ chunks' \subseteq chunks
      /\ UNCHANGED <<collections, documents, seq, upload, task>>
      /\ UNCHANGED <<ask, qpc, hits, cited>>
      /\ ipc[r] = "delete" /\ ipc' = [ipc EXCEPT ![r] = "insert"]
  BY DEF DeleteOld, DeleteChunks, Goto
<1>2. TypeOK'
  BY <1>1 DEF TypeOK, StoreTypeOK, IngestTypeOK, QueryTypeOK, IngestActive
<1>3. IdsAreIssued' /\ IdsAreUnique'
  BY <1>1 DEF IdsAreIssued, IdsAreUnique
<1>4. TasksAreCurrent'
  BY <1>1 DEF TypeOK, IngestTypeOK, TasksAreCurrent, HasCollection, HasDocument
<1>5. WorkspaceConsistent' /\ (\A c \in chunks : Uploaded(c))'
  BY <1>1 DEF WorkspaceConsistent, Uploaded
<1>6. ReadsAreFaithful'
  BY <1>1 DEF ReadsAreFaithful, Uploaded
<1> QED
  BY <1>2, <1>3, <1>4, <1>5, <1>6

LEMMA InsertNextInv ==
  ASSUME IInv, NEW r \in Ingests, InsertNext(r), UNCHANGED queryVars
  PROVE  IInv'
<1> USE DEF IInv, queryVars
<1> DEFINE row == [id |-> seq.chunks + 1, document_id |-> task[r].doc,
                   workspace |-> upload[r].ws, collection_id |-> task[r].col,
                   ordinal |-> task[r].next, content |-> upload[r].content]
<1>1. /\ seq' = [seq EXCEPT !.chunks = @ + 1]
      /\ chunks' = chunks \cup {row}
      /\ task' = [task EXCEPT ![r].next = @ + 1]
      /\ ipc[r] = "insert"
      /\ UNCHANGED <<collections, documents, upload, ipc, ask, qpc, hits, cited>>
  BY DEF InsertNext, InsertChunk
<1>2. PICK k \in collections : HasCollection(r, k)
  BY <1>1 DEF TasksAreCurrent
<1>3. PICK d \in documents : HasDocument(r, d)
  BY <1>1 DEF TasksAreCurrent
<1>4. /\ seq' \in [collections: Nat, documents: Nat, chunks: Nat]
      /\ seq.chunks \in Nat /\ seq'.chunks = seq.chunks + 1
      /\ seq'.collections = seq.collections /\ seq'.documents = seq.documents
  BY <1>1 DEF TypeOK, StoreTypeOK
<1>5. row \in ChunkRow
  <2>1. task[r].doc \in Id /\ task[r].col \in Id
    BY <1>2, <1>3
       DEF TypeOK, StoreTypeOK, CollectionRow, DocumentRow, HasCollection,
           HasDocument
  <2>2. task[r].next \in Nat /\ upload[r] \in Upload
    BY DEF TypeOK, IngestTypeOK, Task
  <2> QED
    BY <1>4, <2>1, <2>2 DEF ChunkRow, Upload, Id
<1>6. TypeOK'
  <2>1. task' \in [Ingests -> Task]
    BY <1>1 DEF TypeOK, IngestTypeOK, Task
  <2> QED
    BY <1>1, <1>4, <1>5, <2>1
       DEF TypeOK, StoreTypeOK, IngestTypeOK, QueryTypeOK
<1>7. \A c \in chunks : c.id \in Nat /\ c.id <= seq.chunks /\ c.id # row.id
  BY <1>4 DEF TypeOK, StoreTypeOK, ChunkRow, Id, IdsAreIssued
<1>8. \A q \in Queries : \A c \in hits[q] \cup cited[q] :
        c.id \in Nat /\ c.id <= seq.chunks /\ c.id # row.id
  <2>1. \A q \in Queries : hits[q] \subseteq ChunkRow /\ cited[q] \subseteq ChunkRow
    BY DEF TypeOK, QueryTypeOK
  <2> QED
    BY <1>4, <2>1 DEF ChunkRow, Id, IdsAreIssued
<1>9. IdsAreIssued'
  <2>1. \A c \in chunks' : c.id <= seq'.chunks
    BY <1>1, <1>4, <1>7
  <2>2. \A q \in Queries : \A c \in hits'[q] \cup cited'[q] : c.id <= seq'.chunks
    BY <1>1, <1>4, <1>8
  <2> QED
    BY <1>1, <1>4, <2>1, <2>2 DEF IdsAreIssued
<1>10. IdsAreUnique'
  <2> HIDE DEF row
  <2> QED
    BY <1>1, <1>7 DEF IdsAreUnique
<1>11. TasksAreCurrent'
  <2>1. \A o \in Ingests : task'[o].col = task[o].col /\ task'[o].doc = task[o].doc
    BY <1>1 DEF TypeOK, IngestTypeOK, Task
  <2> QED
    BY <1>1, <2>1 DEF TasksAreCurrent, HasCollection, HasDocument
<1>12. WorkspaceConsistent'
  BY <1>1, <1>2, <1>3 DEF WorkspaceConsistent, HasCollection, HasDocument
<1>13. Uploaded(row)
  BY <1>2 DEF Uploaded, HasCollection
<1>14. (\A c \in chunks : Uploaded(c))'
  BY <1>1, <1>13 DEF Uploaded
<1>15. ReadsAreFaithful'
  <2> HIDE DEF row
  <2> QED
    BY <1>1, <1>8 DEF ReadsAreFaithful, Uploaded
<1> QED
  BY <1>6, <1>9, <1>10, <1>11, <1>12, <1>14, <1>15

LEMMA RetrieveInv ==
  ASSUME IInv, NEW q \in Queries, Retrieve(q), UNCHANGED ingestVars
  PROVE  IInv'
<1> USE DEF IInv, ingestVars
<1>1. PICK rows \in SUBSET Candidates(q) :
        /\ hits' = [hits EXCEPT ![q] = rows]
        /\ Move(q, "search", Verdict(q, rows))
  BY DEF Retrieve
<1>2. UNCHANGED <<collections, documents, chunks, seq, upload, ipc, task, ask, cited>>
  BY DEF Retrieve, storeVars
<1>3. rows \subseteq chunks
      /\ \A c \in rows : c.workspace = ask[q].ws /\ c.collection_id = ask[q].col
  BY DEF Candidates
<1>4. TypeOK'
  BY <1>1, <1>2, <1>3
     DEF TypeOK, StoreTypeOK, IngestTypeOK, QueryTypeOK, Move, QueryActive,
         QueryOver, Verdict
<1>5. \A p \in Queries : \A c \in hits'[p] :
         c \in hits[p] \/ (p = q /\ c \in rows)
  BY <1>1 DEF TypeOK, QueryTypeOK
<1>6. IdsAreIssued' /\ IdsAreUnique'
  BY <1>2, <1>3, <1>5 DEF IdsAreIssued, IdsAreUnique
<1>7. TasksAreCurrent' /\ WorkspaceConsistent'
  BY <1>2 DEF TasksAreCurrent, HasCollection, HasDocument, WorkspaceConsistent
<1>8. (\A c \in chunks : Uploaded(c))'
  BY <1>2 DEF Uploaded
<1>9. ReadsAreFaithful'
  <2>1. \A c : Uploaded(c)' <=> Uploaded(c)
    BY <1>2 DEF Uploaded
  <2> QED
    BY <1>2, <1>3, <1>5, <2>1 DEF ReadsAreFaithful, IdsAreUnique
<1> QED
  BY <1>4, <1>6, <1>7, <1>8, <1>9

LEMMA ChatAnswersInv ==
  ASSUME IInv, NEW q \in Queries, NEW text, ChatAnswers(q, text),
         UNCHANGED ingestVars
  PROVE  IInv'
<1> USE DEF IInv, ingestVars
<1>1. /\ cited' = [cited EXCEPT ![q] = Relevant(q)]
      /\ qpc' = [qpc EXCEPT ![q] = "answered"]
      /\ UNCHANGED <<collections, documents, chunks, seq, upload, ipc, task,
                     ask, hits>>
  BY DEF ChatAnswers, Move, storeVars
<1>2. Relevant(q) \subseteq hits[q]
  BY DEF Relevant, FilterRelevant
<1>3. TypeOK'
  BY <1>1, <1>2
     DEF TypeOK, StoreTypeOK, IngestTypeOK, QueryTypeOK, QueryOver
<1>4. \A p \in Queries : \A c \in cited'[p] : c \in cited[p] \/ c \in hits[p]
  BY <1>1, <1>2 DEF TypeOK, QueryTypeOK
<1>5. IdsAreIssued' /\ IdsAreUnique'
  BY <1>1, <1>4 DEF IdsAreIssued, IdsAreUnique
<1>6. TasksAreCurrent' /\ WorkspaceConsistent'
  BY <1>1 DEF TasksAreCurrent, HasCollection, HasDocument, WorkspaceConsistent
<1>7. (\A c \in chunks : Uploaded(c))'
  BY <1>1 DEF Uploaded
<1>8. ReadsAreFaithful'
  <2>1. \A c : Uploaded(c)' <=> Uploaded(c)
    BY <1>1 DEF Uploaded
  <2> QED
    BY <1>1, <1>4, <2>1 DEF ReadsAreFaithful
<1> QED
  BY <1>3, <1>5, <1>6, <1>7, <1>8

-----------------------------------------------------------------------------
(* The invariant is inductive *)

LEMMA IInvInit == Init => IInv
BY DEF Init, StoreInit, IngestInit, QueryInit, IInv, TypeOK, StoreTypeOK,
       IngestTypeOK, QueryTypeOK, Task, IdsAreIssued, IdsAreUnique,
       TasksAreCurrent, WorkspaceConsistent, ReadsAreFaithful

LEMMA IInvNext == IInv /\ [Next]_vars => IInv'
<1> SUFFICES ASSUME IInv, [Next]_vars
             PROVE  IInv'
  OBVIOUS
<1> USE DEF IngestActive, IngestOver, QueryActive, QueryOver
<1>1. ASSUME NEW r \in Ingests, ServeIngest(r)
      PROVE  IInv'
  <2> USE DEF IInv, TypeOK, IngestTypeOK, ingestVars, queryVars, storeVars
  <2>1. CASE Admit(r)
    BY <1>1, <2>1, QuietStep
       DEF ServeIngest, Admit, Goto, StoreTypeOK, QueryTypeOK
  <2>2. CASE Validate(r)
    BY <1>1, <2>2, QuietStep
       DEF ServeIngest, Validate, Goto, StoreTypeOK, QueryTypeOK
  <2>3. CASE ResolveCollection(r)
    BY <1>1, <2>3, ResolveCollectionInv DEF ServeIngest
  <2>4. CASE ResolveDocument(r)
    BY <1>1, <2>4, ResolveDocumentInv DEF ServeIngest
  <2>5. CASE Embed(r)
    <3>1. PICK k \in VectorCounts(Pieces[upload[r].content]) :
            task' = [task EXCEPT ![r].nvec = k]
      BY <2>5 DEF Embed
    <3>2. k \in Nat
      BY <3>1, StoreAssumption DEF VectorCounts, Upload
    <3>3. /\ task' \in [Ingests -> Task]
          /\ \A o \in Ingests : /\ task'[o].col = task[o].col
                                /\ task'[o].doc = task[o].doc
      BY <3>1, <3>2 DEF Task
    <3> QED
      BY <1>1, <2>5, <3>3, QuietStep
         DEF ServeIngest, Embed, Goto, StoreTypeOK, QueryTypeOK
  <2>6. CASE DeleteOld(r)
    BY <1>1, <2>6, DeleteOldInv DEF ServeIngest
  <2>7. CASE InsertNext(r)
    BY <1>1, <2>7, InsertNextInv DEF ServeIngest
  <2>8. CASE Respond(r)
    BY <1>1, <2>8, QuietStep
       DEF ServeIngest, Respond, Goto, StoreTypeOK, QueryTypeOK
  <2> QED
    BY <1>1, <2>1, <2>2, <2>3, <2>4, <2>5, <2>6, <2>7, <2>8
       DEF ServeIngest, IngestStep
<1>2. ASSUME NEW q \in Queries, ServeQuery(q)
      PROVE  IInv'
  <2> USE DEF ingestVars, queryVars, storeVars
  <2>1. CASE \/ AdmitQuery(q) \/ EmbedQuestion(q)
             \/ \E text \in Completions : ChatRefuses(q, text)
    BY <1>2, <2>1, QuietStep
       DEF ServeQuery, AdmitQuery, EmbedQuestion, ChatRefuses, Move,
           IInv, TypeOK, StoreTypeOK, IngestTypeOK, QueryTypeOK
  <2>2. CASE Retrieve(q)
    BY <1>2, <2>2, RetrieveInv DEF ServeQuery
  <2>3. CASE \E text \in Completions : ChatAnswers(q, text)
    BY <1>2, <2>3, ChatAnswersInv DEF ServeQuery
  <2> QED
    BY <1>2, <2>1, <2>2, <2>3 DEF ServeQuery, QueryStep
<1>3. ASSUME NEW ws \in Workspace, NEW name \in Name,
             NEW desc \in Description \cup {NoDescription},
             CreateCollection(ws, name, desc)
      PROVE  IInv'
  BY <1>3, CreateCollectionInv
<1>4. CASE Fail
  <2> USE DEF ingestVars, queryVars, storeVars
  <2>1. ASSUME NEW r \in Ingests, FailIngest(r), UNCHANGED queryVars
        PROVE  IInv'
    BY <2>1, QuietStep
       DEF FailIngest, IInv, TypeOK, StoreTypeOK, IngestTypeOK, QueryTypeOK
  <2>2. ASSUME NEW q \in Queries, FailQuery(q), UNCHANGED ingestVars
        PROVE  IInv'
    BY <2>2, QuietStep
       DEF FailQuery, IInv, TypeOK, StoreTypeOK, IngestTypeOK, QueryTypeOK
  <2> QED
    BY <1>4, <2>1, <2>2 DEF Fail
<1>5. CASE Crash
  <2>1. /\ UNCHANGED <<storeVars, upload, task, ask, hits, cited>>
        /\ ipc' = [r \in Ingests |->
                     IF ipc[r] \in IngestActive THEN "lost" ELSE ipc[r]]
        /\ qpc' = [q \in Queries |->
                     IF qpc[q] \in QueryActive THEN "lost" ELSE qpc[q]]
    BY <1>5 DEF Crash, LoseIngests, LoseQueries
  <2>2. TypeOK'
    BY <2>1
       DEF IInv, TypeOK, StoreTypeOK, IngestTypeOK, QueryTypeOK, storeVars
  <2> QED
    BY <2>1, <2>2, QuietStep DEF IInv, TypeOK, IngestTypeOK
<1>6. CASE UNCHANGED vars
  <2> USE DEF vars, ingestVars, queryVars, storeVars
  <2>1. TypeOK'
    BY <1>6 DEF IInv, TypeOK, StoreTypeOK, IngestTypeOK, QueryTypeOK
  <2> QED
    BY <1>6, <2>1, QuietStep
<1> QED
  BY <1>1, <1>2, <1>3, <1>4, <1>5, <1>6 DEF Next, Meanwhile

THEOREM Invariance == Spec => []IInv
BY IInvInit, IInvNext, PTL DEF Spec

-----------------------------------------------------------------------------
(* The results *)

\* Every variable keeps its type in every reachable state.
THEOREM TypeCorrect == Spec => []TypeOK
<1>1. IInv => TypeOK
  BY DEF IInv
<1> QED
  BY <1>1, Invariance, PTL

\* The tables agree on the workspace of every chunk, whatever statements,
\* failures and crashes interleave, with no transaction and no foreign key
\* on chunks.collection_id.
THEOREM TablesAgree == Spec => []WorkspaceConsistent
<1>1. IInv => WorkspaceConsistent
  BY DEF IInv
<1> QED
  BY <1>1, Invariance, PTL

\* An id that an answer cites never comes to name another chunk.
THEOREM CitationsKeepTheirMeaning == Spec => []CitationFidelity
<1>1. IInv => CitationFidelity
  BY DEF IInv, ReadsAreFaithful, CitationFidelity, CitationRows
<1> QED
  BY <1>1, Invariance, PTL

\* Whatever an answer cites was uploaded into the workspace and the
\* collection the question named.
THEOREM AnswersHaveProvenance == Spec => []AnswersComeFromUploads
<1>1. IInv => AnswersComeFromUploads
  BY DEF IInv, ReadsAreFaithful, Uploaded, AnswersComeFromUploads
<1> QED
  BY <1>1, Invariance, PTL

\* A step deletes chunks of its own request's document only.
THEOREM DeletesAreScoped == Spec => DeletesStayInTheirDocument
<1> DEFINE Scoped ==
      \A c \in chunks \ chunks' :
        \E r \in Ingests : /\ ipc[r] = "delete" /\ ipc'[r] = "insert"
                           /\ upload[r].ws = c.workspace
                           /\ ShaOf(r) = Sha[c.content]
<1>1. IInv /\ [Next]_vars => [Scoped]_vars
  <2> SUFFICES ASSUME IInv, Next, NEW c \in chunks \ chunks'
               PROVE  \E r \in Ingests :
                        /\ ipc[r] = "delete" /\ ipc'[r] = "insert"
                        /\ upload[r].ws = c.workspace
                        /\ ShaOf(r) = Sha[c.content]
    OBVIOUS
  <2>1. PICK r \in Ingests : DeleteOld(r)
    BY DEF Next, Meanwhile, ServeIngest, IngestStep, ServeQuery, QueryStep, Fail, Crash,
           CreateCollection, UpsertCollection, Admit, Validate,
           ResolveCollection, ResolveDocument, UpsertDocument, Embed,
           InsertNext, InsertChunk, Respond, FailIngest, AdmitQuery,
           EmbedQuestion, Retrieve, ChatAnswers, ChatRefuses, FailQuery,
           storeVars
  <2>2. ipc[r] = "delete" /\ ipc'[r] = "insert"
    BY <2>1 DEF DeleteOld, Goto, IInv, TypeOK, IngestTypeOK
  <2>3. c.document_id = task[r].doc
    BY <2>1 DEF DeleteOld, DeleteChunks, ChunksOf
  <2>4. PICK d \in documents : HasDocument(r, d)
    BY <2>2 DEF IInv, TasksAreCurrent
  <2>5. PICK e \in documents : /\ e.id = c.document_id
                               /\ e.workspace = c.workspace
                               /\ e.content_sha = Sha[c.content]
    BY DEF IInv, WorkspaceConsistent
  <2> QED
    BY <2>2, <2>3, <2>4, <2>5 DEF IInv, IdsAreUnique, HasDocument
<1> QED
  BY <1>1, Invariance, PTL DEF Spec, DeletesStayInTheirDocument

-----------------------------------------------------------------------------
(* No answer without evidence *)

\* A query that reached the chat provider has relevant rows; an answered
\* one cites exactly its relevant rows and nothing else cites.
QueryEvidence ==
  \A q \in Queries :
    /\ qpc[q] \in {"chat", "answered"} => Relevant(q) # {}
    /\ cited[q] = IF qpc[q] = "answered" THEN Relevant(q) ELSE {}

LEMMA QueryEvidenceNext ==
  ASSUME TypeOK, QueryEvidence, [Next]_vars
  PROVE  QueryEvidence'
<1> USE DEF TypeOK, QueryTypeOK, QueryActive, QueryOver
<1>1. CASE UNCHANGED queryVars
  BY <1>1 DEF QueryEvidence, queryVars, Relevant, FilterRelevant, ScoreOf
<1>2. ASSUME NEW q \in Queries, QueryStep(q) \/ FailQuery(q)
      PROVE  QueryEvidence'
  <2> SUFFICES ASSUME NEW p \in Queries
               PROVE  /\ qpc'[p] \in {"chat", "answered"} => Relevant(p)' # {}
                      /\ cited'[p] = IF qpc'[p] = "answered"
                                       THEN Relevant(p)' ELSE {}
    BY DEF QueryEvidence
  <2>1. ask' = ask
    BY <1>2 DEF QueryStep, AdmitQuery, EmbedQuestion, Retrieve, ChatAnswers,
                ChatRefuses, FailQuery
  <2>2. CASE p # q
    <3>1. qpc'[p] = qpc[p] /\ hits'[p] = hits[p] /\ cited'[p] = cited[p]
      BY <1>2, <2>2 DEF QueryStep, AdmitQuery, EmbedQuestion, Retrieve,
                        ChatAnswers, ChatRefuses, FailQuery, Move
    <3> QED
      BY <2>1, <3>1 DEF QueryEvidence, Relevant, FilterRelevant, ScoreOf
  <2>3. CASE p = q /\ Retrieve(q)
    <3>1. PICK rows \in SUBSET Candidates(q) :
            /\ hits' = [hits EXCEPT ![q] = rows]
            /\ Move(q, "search", Verdict(q, rows))
      BY <2>3 DEF Retrieve
    <3>2. /\ hits'[q] = rows /\ qpc[q] = "search"
          /\ qpc'[q] = Verdict(q, rows)
          /\ cited' = cited
      BY <2>3, <3>1 DEF Retrieve, Move
    <3>3. Relevant(q)' = FilterRelevant(q, rows)
      BY <2>1, <3>2 DEF Relevant, FilterRelevant, ScoreOf
    <3>4. /\ Verdict(q, rows) \in {"chat", "refused", "failed"}
          /\ Verdict(q, rows) = "chat" => FilterRelevant(q, rows) # {}
      BY DEF Verdict
    <3> QED
      BY <2>3, <3>2, <3>3, <3>4 DEF QueryEvidence
  <2>4. CASE p = q /\ \E text \in Completions : ChatAnswers(q, text)
    <3>1. /\ hits' = hits /\ qpc[q] = "chat" /\ qpc'[q] = "answered"
          /\ cited'[q] = Relevant(q)
      BY <2>4 DEF ChatAnswers, Move
    <3>2. Relevant(q)' = Relevant(q)
      BY <2>1, <3>1 DEF Relevant, FilterRelevant, ScoreOf
    <3> QED
      BY <2>4, <3>1, <3>2 DEF QueryEvidence
  <2>5. CASE /\ p = q
             /\ \/ AdmitQuery(q) \/ EmbedQuestion(q)
                \/ \E text \in Completions : ChatRefuses(q, text)
                \/ FailQuery(q)
    <3>1. /\ qpc[q] # "answered" /\ qpc'[q] \notin {"chat", "answered"}
          /\ cited' = cited
      BY <2>5 DEF AdmitQuery, EmbedQuestion, ChatRefuses, FailQuery, Move
    <3>2. cited[q] = {}
      BY <3>1 DEF QueryEvidence
    <3> QED
      BY <2>5, <3>1, <3>2
  <2> QED
    BY <1>2, <2>2, <2>3, <2>4, <2>5 DEF QueryStep
<1>3. CASE Crash
  <2>1. /\ UNCHANGED <<ask, hits, cited>>
        /\ qpc' = [q \in Queries |->
                     IF qpc[q] \in QueryActive THEN "lost" ELSE qpc[q]]
    BY <1>3 DEF Crash, LoseQueries
  <2>2. \A q \in Queries : Relevant(q)' = Relevant(q)
    BY <2>1 DEF Relevant, FilterRelevant, ScoreOf
  <2>3. \A q \in Queries : /\ qpc'[q] = "chat" => qpc[q] = "chat"
                            /\ qpc'[q] = "answered" <=> qpc[q] = "answered"
    BY <2>1
  <2> QED
    BY <2>1, <2>2, <2>3 DEF QueryEvidence
<1> QED
  BY <1>1, <1>2, <1>3
     DEF Next, Meanwhile, ServeIngest, ServeQuery, Fail, CreateCollection, vars

\* An answer cites something, and only passages that clear the gates.
THEOREM NoAnswerWithoutEvidence == Spec => []AnswersAreGrounded
<1>1. Init => QueryEvidence
  BY DEF Init, QueryInit, QueryEvidence
<1>2. TypeOK /\ QueryEvidence /\ [Next]_vars => QueryEvidence'
  BY QueryEvidenceNext
<1>3. QueryEvidence => AnswersAreGrounded
  <2> SUFFICES ASSUME QueryEvidence, NEW q \in Queries
               PROVE  /\ qpc[q] = "answered" <=> cited[q] # {}
                      /\ \A c \in cited[q] :
                           /\ Reaches(ScoreOf(q, c))
                           /\ EmbeddingStub =>
                                Overlaps(ask[q].question, Piece(c))
    BY DEF AnswersAreGrounded
  <2>1. \A c \in Relevant(q) :
          /\ Reaches(ScoreOf(q, c))
          /\ EmbeddingStub => Overlaps(ask[q].question, Piece(c))
    BY DEF Relevant, FilterRelevant
  <2> QED
    BY <2>1 DEF QueryEvidence
<1> QED
  BY <1>1, <1>2, <1>3, TypeCorrect, PTL DEF Spec

-----------------------------------------------------------------------------
(* What a document holds, however its requests interleave. *)

\* A workspace has one document for a content's bytes.
KeysAreUnique ==
  \A d, e \in documents :
    d.workspace = e.workspace /\ d.content_sha = e.content_sha => d.id = e.id

LEMMA UpsertKeepsKeys ==
  ASSUME KeysAreUnique, documents \subseteq DocumentRow,
         NEW ws, NEW sha, NEW file, UpsertDocument(ws, sha, file)
  PROVE  /\ KeysAreUnique'
         /\ \A e \in documents' :
              \/ \E d \in documents : /\ d.id = e.id
                                      /\ d.workspace = e.workspace
                                      /\ d.content_sha = e.content_sha
              \/ DocumentsOf(ws, sha) = {} /\ e.workspace = ws /\ e.content_sha = sha
         /\ \A d \in documents : \E e \in documents' :
              e.workspace = d.workspace /\ e.content_sha = d.content_sha
<1> DEFINE old == DocumentsOf(ws, sha)
           fresh == [id |-> seq.documents + 1, workspace |-> ws,
                     content_sha |-> sha, source |-> file, file_name |-> file]
<1>1. CASE old = {} /\ documents' = documents \cup {fresh}
  <2>1. \A d \in documents : ~(d.workspace = fresh.workspace
                               /\ d.content_sha = fresh.content_sha)
    BY <1>1 DEF DocumentsOf
  <2>2. fresh.workspace = ws /\ fresh.content_sha = sha
    OBVIOUS
  <2> HIDE DEF fresh
  <2> QED
    BY <1>1, <2>1, <2>2 DEF KeysAreUnique
<1>2. CASE \E d \in old : documents' = (documents \ {d}) \cup {[d EXCEPT !.file_name = file]}
  <2>1. PICK d \in old : documents' = (documents \ {d}) \cup {[d EXCEPT !.file_name = file]}
    BY <1>2
  <2> DEFINE upd == [d EXCEPT !.file_name = file]
  <2>2. d \in documents /\ d \in DocumentRow
    BY DEF DocumentsOf
  <2>3. upd.id = d.id /\ upd.workspace = d.workspace /\ upd.content_sha = d.content_sha
    BY <2>2 DEF DocumentRow
  <2>4. documents' = (documents \ {d}) \cup {upd}
    BY <2>1
  <2> HIDE DEF upd
  <2> QED
    BY <2>2, <2>3, <2>4 DEF KeysAreUnique
<1> QED
  BY <1>1, <1>2 DEF UpsertDocument

\* r is a request for document d, sent.
IsFor(r, d) ==
  /\ upload[r].ws = d.workspace
  /\ ShaOf(r) = d.content_sha
  /\ ipc[r] # "idle"

\* c is piece i, as content is read, of the document with this id.
IsPiece(c, id, i, content) ==
  c.document_id = id /\ c.ordinal = i /\ c.content = content

\* d's requests: one has failed, or none has deleted yet, or one of those
\* that have is whole so far: the one that deleted last.
Kept(d) ==
  /\ \E r \in Ingests : IsFor(r, d)
  /\ \/ \E r \in Ingests : IsFor(r, d) /\ ipc[r] \in {"rejected", "failed", "lost"}
     \/ \A r \in Ingests : IsFor(r, d) => ipc[r] \notin {"insert", "done"}
     \/ \E r \in Ingests :
          /\ IsFor(r, d) /\ ipc[r] \in {"insert", "done"}
          /\ \A i \in 0 .. task[r].next - 1 :
               \E c \in chunks : IsPiece(c, d.id, i, upload[r].content)

\* A request counts from 0 after its DELETE and is done when its vectors
\* are used up.
Counts(r) ==
  /\ ipc[r] \in {"idle", "admitted", "collection", "document", "embed", "delete"} =>
       task[r].next = 0
  /\ ipc[r] = "done" => task[r].next = task[r].nvec

\* A request past its DELETE has its document.
HasRow(r) ==
  ipc[r] \in {"insert", "done"} => \E d \in documents : IsFor(r, d)

KeepInv ==
  /\ IInv /\ KeysAreUnique
  /\ \A r \in Ingests : Counts(r) /\ HasRow(r)
  /\ \A d \in documents : Kept(d)

\* r goes on without beginning its INSERTs, ends or fails.
Proceeds(r) ==
  \/ ipc'[r] = ipc[r]
  \/ ipc[r] # "idle" /\ ipc'[r] \in {"rejected", "failed", "lost"}
  \/ /\ ipc[r] \notin {"insert", "done", "rejected", "failed", "lost"}
     /\ ipc'[r] \notin {"idle", "insert", "done"}
  \/ ipc[r] = "insert" /\ ipc'[r] = "done"

LEMMA KeptStays ==
  ASSUME NEW d, NEW e, e.id = d.id, e.workspace = d.workspace,
         e.content_sha = d.content_sha, Kept(d),
         UNCHANGED upload, chunks \subseteq chunks',
         \A r \in Ingests : Proceeds(r) /\ task'[r].next = task[r].next
  PROVE  Kept(e)'
<1>1. \A r \in Ingests : IsFor(r, d) => IsFor(r, e)'
  BY DEF IsFor, Proceeds
<1>2. \E r \in Ingests : IsFor(r, e)'
  BY <1>1 DEF Kept
<1>3. CASE \E r \in Ingests : IsFor(r, d) /\ ipc[r] \in {"rejected", "failed", "lost"}
  <2>1. PICK r \in Ingests : IsFor(r, d) /\ ipc[r] \in {"rejected", "failed", "lost"}
    BY <1>3
  <2>2. ipc'[r] \in {"rejected", "failed", "lost"}
    BY <2>1 DEF Proceeds
  <2> QED
    BY <1>1, <1>2, <2>1, <2>2 DEF Kept
<1>4. CASE \A r \in Ingests : IsFor(r, d) => ipc[r] \notin {"insert", "done"}
  <2>1. ASSUME NEW r \in Ingests, IsFor(r, e)' PROVE ipc'[r] \notin {"insert", "done"}
    BY <1>4, <2>1 DEF IsFor, Proceeds
  <2> QED
    BY <1>2, <2>1 DEF Kept
<1>5. CASE \E r \in Ingests :
             /\ IsFor(r, d) /\ ipc[r] \in {"insert", "done"}
             /\ \A i \in 0 .. task[r].next - 1 :
                  \E c \in chunks : IsPiece(c, d.id, i, upload[r].content)
  <2>1. PICK r \in Ingests :
             /\ IsFor(r, d) /\ ipc[r] \in {"insert", "done"}
             /\ \A i \in 0 .. task[r].next - 1 :
                  \E c \in chunks : IsPiece(c, d.id, i, upload[r].content)
    BY <1>5
  <2>2. \A i \in 0 .. task'[r].next - 1 :
          \E c \in chunks' : IsPiece(c, e.id, i, upload[r].content)
    BY <2>1
  <2>3. ipc'[r] \in {"insert", "done", "rejected", "failed", "lost"}
    BY <2>1 DEF Proceeds
  <2> QED
    BY <1>1, <1>2, <2>1, <2>2, <2>3 DEF Kept
<1> QED
  BY <1>3, <1>4, <1>5 DEF Kept

\* Every step but a document's upsert, the DELETE and the INSERTs.
LEMMA QuietKeep ==
  ASSUME KeepInv, IInv', UNCHANGED <<upload, documents, chunks>>,
         \A r \in Ingests : Proceeds(r) /\ task'[r].next = task[r].next /\ Counts(r)'
  PROVE  KeepInv'
<1>1. KeysAreUnique'
  BY DEF KeepInv, KeysAreUnique
<1>2. \A d \in documents' : Kept(d)'
  BY KeptStays DEF KeepInv
<1>3. \A r \in Ingests : HasRow(r)'
  BY DEF KeepInv, HasRow, IsFor, Proceeds
<1> QED
  BY <1>1, <1>2, <1>3 DEF KeepInv

\* Such a step of one request.
LEMMA MoveKeep ==
  ASSUME KeepInv, IInv', UNCHANGED <<upload, documents, chunks>>,
         NEW r \in Ingests, NEW to, ipc' = [ipc EXCEPT ![r] = to],
         ipc[r] \in IngestActive \cup {"idle"},
         \/ ipc[r] # "idle" /\ to = "failed"
         \/ ipc[r] # "insert" /\ to \notin {"idle", "insert", "done"}
         \/ ipc[r] = "insert" /\ to = "done",
         task'[r].next = task[r].next, \A o \in Ingests \ {r} : task'[o] = task[o],
         Counts(r)'
  PROVE  KeepInv'
<1>1. ipc \in [Ingests -> {"idle"} \cup IngestActive \cup IngestOver]
  BY DEF KeepInv, IInv, TypeOK, IngestTypeOK
<1>2. \A o \in Ingests : ipc'[o] = IF o = r THEN to ELSE ipc[o]
  BY <1>1
<1>3. \A o \in Ingests : Proceeds(o)
  BY <1>2 DEF Proceeds, IngestActive
<1>4. \A o \in Ingests : Counts(o)'
  BY <1>2 DEF KeepInv, Counts
<1> QED
  BY <1>3, <1>4, QuietKeep

\* A new document's requests have not reached their DELETE.
LEMMA UpsertKeep ==
  ASSUME KeepInv, IInv', NEW r \in Ingests, ResolveDocument(r) PROVE KeepInv'
<1> DEFINE ws == upload[r].ws
           sha == Sha[upload[r].content]
<1>1. /\ ipc[r] = "document" /\ ipc' = [ipc EXCEPT ![r] = "embed"]
      /\ UNCHANGED <<upload, chunks>>
      /\ UpsertDocument(ws, sha, upload[r].file)
      /\ task' = [task EXCEPT ![r].doc = DocumentIdFor(ws, sha)]
  BY DEF ResolveDocument, UpsertDocument, Goto
<1>2. /\ ipc \in [Ingests -> {"idle"} \cup IngestActive \cup IngestOver]
      /\ task \in [Ingests -> Task] /\ documents \subseteq DocumentRow
  BY DEF KeepInv, IInv, TypeOK, IngestTypeOK, StoreTypeOK
<1>3. \A o \in Ingests : /\ ipc'[o] = IF o = r THEN "embed" ELSE ipc[o]
                         /\ task'[o].next = task[o].next /\ task'[o].nvec = task[o].nvec
  BY <1>1, <1>2 DEF Task
<1>4. \A o \in Ingests : Proceeds(o) /\ Counts(o)'
  BY <1>1, <1>3 DEF KeepInv, Counts, Proceeds
<1>5. /\ KeysAreUnique'
      /\ \A e \in documents' :
           \/ \E d \in documents : /\ d.id = e.id
                                   /\ d.workspace = e.workspace
                                   /\ d.content_sha = e.content_sha
           \/ DocumentsOf(ws, sha) = {} /\ e.workspace = ws /\ e.content_sha = sha
  BY <1>1, <1>2, UpsertKeepsKeys DEF KeepInv
<1>6. ASSUME NEW e \in documents' PROVE Kept(e)'
  <2>1. CASE \E d \in documents : /\ d.id = e.id
                                  /\ d.workspace = e.workspace
                                  /\ d.content_sha = e.content_sha
    BY <1>1, <1>3, <1>4, <2>1, KeptStays DEF KeepInv
  <2>2. CASE DocumentsOf(ws, sha) = {} /\ e.workspace = ws /\ e.content_sha = sha
    <3>1. IsFor(r, e)'
      BY <1>1, <1>3, <2>2 DEF IsFor
    <3>2. ASSUME NEW o \in Ingests, IsFor(o, e)' PROVE ipc'[o] \notin {"insert", "done"}
      <4>1. upload[o].ws = ws /\ ShaOf(o) = sha
        BY <1>1, <2>2, <3>2 DEF IsFor
      <4>2. ~ \E d \in documents : IsFor(o, d)
        BY <2>2, <4>1 DEF IsFor, DocumentsOf
      <4> QED
        BY <1>3, <4>2 DEF KeepInv, HasRow
    <3> QED
      BY <3>1, <3>2 DEF Kept
  <2> QED
    BY <1>5, <2>1, <2>2
<1>7. \A o \in Ingests : HasRow(o)'
  <2>1. \A d \in documents : \E e \in documents' :
          e.workspace = d.workspace /\ e.content_sha = d.content_sha
    BY <1>1, <1>2, UpsertKeepsKeys DEF KeepInv
  <2> QED
    BY <1>1, <1>3, <2>1 DEF KeepInv, HasRow, IsFor
<1> QED
  BY <1>4, <1>5, <1>6, <1>7 DEF KeepInv

\* The DELETE makes its request the last to have deleted.
LEMMA DeleteKeep ==
  ASSUME KeepInv, IInv', NEW r \in Ingests, DeleteOld(r) PROVE KeepInv'
<1>1. /\ ipc[r] = "delete" /\ ipc' = [ipc EXCEPT ![r] = "insert"]
      /\ chunks' = {c \in chunks : c.document_id # task[r].doc}
      /\ UNCHANGED <<upload, documents, task>>
  BY DEF DeleteOld, DeleteChunks, ChunksOf, Goto
<1>2. \A o \in Ingests : ipc'[o] = IF o = r THEN "insert" ELSE ipc[o]
  BY <1>1 DEF KeepInv, IInv, TypeOK, IngestTypeOK
<1>3. KeysAreUnique' /\ \A o \in Ingests : Counts(o)'
  BY <1>1, <1>2 DEF KeepInv, KeysAreUnique, Counts
<1>4. PICK own \in documents : HasDocument(r, own)
  BY <1>1 DEF KeepInv, IInv, TasksAreCurrent
<1>5. \A o \in Ingests : HasRow(o)'
  <2>1. IsFor(r, own)'
    BY <1>1, <1>2, <1>4 DEF HasDocument, IsFor
  <2> QED
    BY <1>1, <1>2, <1>4, <2>1 DEF KeepInv, HasRow, IsFor
<1>6. ASSUME NEW d \in documents PROVE Kept(d)'
  <2>1. CASE IsFor(r, d)
    <3>1. IsFor(r, d)' /\ ipc'[r] = "insert"
      BY <1>1, <1>2, <2>1 DEF IsFor
    <3>2. 0 .. task'[r].next - 1 = {}
      <4>1. task'[r].next = 0
        BY <1>1 DEF KeepInv, Counts
      <4> QED
        BY <4>1
    <3> QED
      BY <3>1, <3>2 DEF Kept
  <2>2. CASE ~IsFor(r, d)
    <3>1. \A o \in Ingests : IsFor(o, d)' => o # r /\ ipc'[o] = ipc[o]
      BY <1>1, <1>2, <2>2 DEF IsFor
    <3>2. \A o \in Ingests : IsFor(o, d) => IsFor(o, d)' /\ ipc'[o] = ipc[o]
      BY <1>1, <1>2, <2>2 DEF IsFor
    <3>3. d.id # task[r].doc
      BY <1>1, <1>4, <2>2 DEF KeepInv, IInv, IdsAreUnique, HasDocument, IsFor
    <3>4. \A c \in chunks : c.document_id = d.id => c \in chunks'
      BY <1>1, <3>3
    <3>5. Kept(d)
      BY DEF KeepInv
    <3>6. \E o \in Ingests : IsFor(o, d)'
      BY <3>2, <3>5 DEF Kept
    <3>7. CASE \A o \in Ingests : IsFor(o, d) => ipc[o] \notin {"insert", "done"}
      <4>1. \A o \in Ingests : IsFor(o, d)' => ipc'[o] \notin {"insert", "done"}
        BY <1>1, <3>1, <3>7 DEF IsFor
      <4> QED
        BY <3>6, <4>1 DEF Kept
    <3>8. CASE \E o \in Ingests : IsFor(o, d) /\ ipc[o] \in {"rejected", "failed", "lost"}
      BY <3>2, <3>6, <3>8 DEF Kept
    <3>9. ASSUME NEW o \in Ingests, IsFor(o, d), ipc[o] \in {"insert", "done"},
                 \A i \in 0 .. task[o].next - 1 :
                   \E c \in chunks : IsPiece(c, d.id, i, upload[o].content)
          PROVE  Kept(d)'
      <4>1. \A i \in 0 .. task'[o].next - 1 :
              \E c \in chunks' : IsPiece(c, d.id, i, upload[o].content)
        BY <1>1, <3>4, <3>9 DEF IsPiece
      <4> QED
        BY <1>1, <3>2, <3>6, <3>9, <4>1 DEF Kept
    <3> QED
      BY <3>5, <3>7, <3>8, <3>9 DEF Kept
  <2> QED
    BY <2>1, <2>2
<1> QED
  BY <1>1, <1>3, <1>5, <1>6 DEF KeepInv

\* An INSERT takes nothing from anybody and adds the next piece.
LEMMA InsertKeep ==
  ASSUME KeepInv, IInv', NEW r \in Ingests, InsertNext(r) PROVE KeepInv'
<1> DEFINE new == [id |-> seq.chunks + 1, document_id |-> task[r].doc,
                   workspace |-> upload[r].ws, collection_id |-> task[r].col,
                   ordinal |-> task[r].next, content |-> upload[r].content]
<1>1. /\ chunks' = chunks \cup {new} /\ UNCHANGED <<documents, upload, ipc>>
      /\ ipc[r] = "insert" /\ task' = [task EXCEPT ![r].next = @ + 1]
  BY DEF InsertNext, InsertChunk
<1>2. IsPiece(new, task[r].doc, task[r].next, upload[r].content)
  BY DEF IsPiece
<1> HIDE DEF new
<1>3. task \in [Ingests -> Task] /\ task[r].next \in Nat
  BY DEF KeepInv, IInv, TypeOK, IngestTypeOK, Task
<1>4. task'[r].next = task[r].next + 1 /\ \A o \in Ingests \ {r} : task'[o] = task[o]
  BY <1>1, <1>3 DEF Task
<1>5. KeysAreUnique' /\ \A o \in Ingests : Counts(o)' /\ HasRow(o)'
  BY <1>1, <1>4 DEF KeepInv, KeysAreUnique, Counts, HasRow, IsFor
<1>6. ASSUME NEW d \in documents PROVE Kept(d)'
  <2>1. \A o \in Ingests : IsFor(o, d)' <=> IsFor(o, d)
    BY <1>1 DEF IsFor
  <2>2. ASSUME NEW o \in Ingests, IsFor(o, d), ipc[o] \in {"insert", "done"},
               \A i \in 0 .. task[o].next - 1 :
                 \E c \in chunks : IsPiece(c, d.id, i, upload[o].content)
        PROVE  \A i \in 0 .. task'[o].next - 1 :
                 \E c \in chunks' : IsPiece(c, d.id, i, upload[o].content)
    <3>1. CASE o # r
      BY <1>1, <1>4, <2>2, <3>1
    <3>2. CASE o = r
      <4>1. PICK own \in documents : HasDocument(r, own)
        BY <1>1 DEF KeepInv, IInv, TasksAreCurrent
      <4>2. d.id = task[r].doc
        BY <2>2, <3>2, <4>1 DEF KeepInv, KeysAreUnique, HasDocument, IsFor
      <4>3. ASSUME NEW n \in Nat, NEW i \in 0 .. (n + 1) - 1
            PROVE  i = n \/ i \in 0 .. n - 1
        OBVIOUS
      <4>4. ASSUME NEW i \in 0 .. task'[r].next - 1
            PROVE  i = task[r].next \/ i \in 0 .. task[r].next - 1
        BY <1>3, <1>4, <4>3
      <4> QED
        BY <1>1, <1>2, <2>2, <3>2, <4>2, <4>4
    <3> QED
      BY <3>1, <3>2
  <2> QED
    BY <1>1, <2>1, <2>2 DEF KeepInv, Kept
<1> QED
  BY <1>1, <1>5, <1>6 DEF KeepInv

LEMMA KeepInvInit == Init => KeepInv
<1> SUFFICES ASSUME Init PROVE KeepInv
  OBVIOUS
<1>1. IInv
  BY IInvInit
<1> QED
  BY <1>1 DEF KeepInv, Init, StoreInit, IngestInit, KeysAreUnique, Counts, HasRow

LEMMA KeepInvNext == KeepInv /\ [Next]_vars => KeepInv'
<1> SUFFICES ASSUME KeepInv, [Next]_vars PROVE KeepInv'
  OBVIOUS
<1> USE DEF storeVars, ingestVars, queryVars
<1>1. IInv'
  BY IInvNext DEF KeepInv
<1>2. /\ ipc \in [Ingests -> {"idle"} \cup IngestActive \cup IngestOver]
      /\ task \in [Ingests -> Task]
  BY DEF KeepInv, IInv, TypeOK, IngestTypeOK
<1>3. CASE UNCHANGED <<chunks, documents, ingestVars>>
  <2>1. \A o \in Ingests : Proceeds(o) /\ Counts(o)'
    BY <1>3 DEF KeepInv, Counts, Proceeds
  <2> QED
    BY <1>1, <1>3, <2>1, QuietKeep
<1>4. ASSUME NEW r \in Ingests, NEW to, UNCHANGED <<upload, documents, chunks, task>>,
             ipc' = [ipc EXCEPT ![r] = to], ipc[r] \in IngestActive \cup {"idle"},
             \/ ipc[r] # "idle" /\ to = "failed"
             \/ ipc[r] # "insert" /\ to \notin {"idle", "insert", "done"}
             \/ ipc[r] = "insert" /\ to = "done" /\ task[r].next = task[r].nvec
      PROVE  KeepInv'
  <2>1. ipc'[r] = to
    BY <1>2, <1>4
  <2>2. Counts(r)'
    BY <1>4, <2>1 DEF KeepInv, Counts, IngestActive
  <2> QED
    BY <1>1, <1>4, <2>2, MoveKeep
<1>5. ASSUME NEW r \in Ingests, IngestStep(r) PROVE KeepInv'
  <2>1. CASE Admit(r)
    BY <1>4, <2>1 DEF Admit, Goto
  <2>2. CASE Validate(r)
    BY <1>4, <2>2 DEF Validate, Goto, IngestActive
  <2>3. CASE ResolveCollection(r)
    <3>1. /\ ipc[r] = "collection" /\ ipc' = [ipc EXCEPT ![r] = "document"]
          /\ UNCHANGED <<upload, documents, chunks>>
          /\ task' = [task EXCEPT ![r].col = CollectionIdFor(upload[r].ws, upload[r].name)]
      BY <2>3 DEF ResolveCollection, UpsertCollection, Goto
    <3>2. task'[r].next = task[r].next /\ \A o \in Ingests \ {r} : task'[o] = task[o]
      BY <1>2, <3>1 DEF Task
    <3>3. Counts(r)'
      BY <1>2, <3>1, <3>2 DEF KeepInv, Counts
    <3> QED
      BY <1>1, <3>1, <3>2, <3>3, MoveKeep DEF IngestActive
  <2>4. CASE ResolveDocument(r)
    BY <1>1, <2>4, UpsertKeep
  <2>5. CASE Embed(r)
    <3>1. PICK k : /\ ipc[r] = "embed" /\ ipc' = [ipc EXCEPT ![r] = "delete"]
                   /\ UNCHANGED <<upload, documents, chunks>>
                   /\ task' = [task EXCEPT ![r].nvec = k]
      BY <2>5 DEF Embed, Goto
    <3>2. task'[r].next = task[r].next /\ \A o \in Ingests \ {r} : task'[o] = task[o]
      BY <1>2, <3>1 DEF Task
    <3>3. Counts(r)'
      BY <1>2, <3>1, <3>2 DEF KeepInv, Counts
    <3> QED
      BY <1>1, <3>1, <3>2, <3>3, MoveKeep DEF IngestActive
  <2>6. CASE DeleteOld(r)
    BY <1>1, <2>6, DeleteKeep
  <2>7. CASE InsertNext(r)
    BY <1>1, <2>7, InsertKeep
  <2>8. CASE Respond(r)
    BY <1>4, <2>8 DEF Respond, Goto, IngestActive
  <2> QED
    BY <1>5, <2>1, <2>2, <2>3, <2>4, <2>5, <2>6, <2>7, <2>8 DEF IngestStep
<1>6. ASSUME NEW r \in Ingests, FailIngest(r) PROVE KeepInv'
  BY <1>4, <1>6 DEF FailIngest, IngestActive
<1>7. CASE Crash
  <2>1. /\ \A o \in Ingests : ipc'[o] = IF ipc[o] \in IngestActive THEN "lost" ELSE ipc[o]
        /\ UNCHANGED <<chunks, documents, upload, task>>
    BY <1>7 DEF Crash, LoseIngests
  <2>2. \A o \in Ingests : Proceeds(o) /\ Counts(o)'
    BY <2>1 DEF KeepInv, Counts, Proceeds, IngestActive
  <2> QED
    BY <1>1, <2>1, <2>2, QuietKeep
<1>8. ASSUME NEW q \in Queries, ServeQuery(q)
      PROVE  UNCHANGED <<chunks, documents, ingestVars>>
  BY <1>8 DEF ServeQuery, QueryStep, AdmitQuery, EmbedQuestion, Retrieve,
              ChatAnswers, ChatRefuses
<1>9. ASSUME NEW ws, NEW name, NEW desc, CreateCollection(ws, name, desc)
      PROVE  UNCHANGED <<chunks, documents, ingestVars>>
  BY <1>9 DEF CreateCollection, UpsertCollection
<1>10. CASE (\E q \in Queries : FailQuery(q)) /\ UNCHANGED ingestVars
  BY <1>3, <1>10 DEF FailQuery
<1>11. CASE UNCHANGED vars
  BY <1>3, <1>11 DEF vars
<1> QED
  BY <1>3, <1>5, <1>6, <1>7, <1>8, <1>9, <1>10, <1>11
     DEF Next, ServeIngest, Meanwhile, Fail

\* A document whose requests have all succeeded holds every piece that one
\* of them got a vector for, as it read them, however their statements
\* interleaved.
THEOREM NoPieceIsLost == Spec => []NoLostChunk
<1>1. KeepInv => NoLostChunk
  <2> SUFFICES ASSUME KeepInv, NEW d \in documents,
                      \A r \in Ingests : IsFor(r, d) => ipc[r] = "done"
               PROVE  \E r \in Ingests :
                        /\ IsFor(r, d)
                        /\ \A i \in 0 .. task[r].nvec - 1 :
                             \E c \in ChunksOf(d.id) :
                               c.ordinal = i /\ c.content = upload[r].content
    BY DEF NoLostChunk, IsFor
  <2>1. PICK r \in Ingests :
          /\ IsFor(r, d) /\ ipc[r] = "done"
          /\ \A n \in 0 .. task[r].next - 1 :
               \E c \in chunks : IsPiece(c, d.id, n, upload[r].content)
    BY DEF KeepInv, Kept
  <2>2. task[r].next = task[r].nvec
    BY <2>1 DEF KeepInv, Counts
  <2> QED
    BY <2>1, <2>2 DEF ChunksOf, IsPiece
<1>2. Spec => []KeepInv
  BY KeepInvInit, KeepInvNext, PTL DEF Spec
<1> QED
  BY <1>1, <1>2, PTL

\* A collection keeps its id and, once described, a description.
THEOREM DescriptionsAreKept == Spec => DescriptionsSurvive
<1> DEFINE Survive ==
      \A k \in collections :
        \E n \in collections' :
          /\ n.id = k.id /\ n.workspace = k.workspace /\ n.name = k.name
          /\ k.description # NoDescription => n.description # NoDescription
<1>1. IInv /\ [Next]_vars => [Survive]_vars
  <2> SUFFICES ASSUME IInv, Next PROVE Survive
    OBVIOUS
  <2>1. ASSUME NEW ws, NEW name, NEW desc, UpsertCollection(ws, name, desc)
        PROVE  Survive
    <3>1. collections \subseteq CollectionRow
      BY DEF IInv, TypeOK, StoreTypeOK
    <3>2. CASE collections \subseteq collections'
      BY <3>2
    <3>3. ASSUME NEW c \in CollectionsNamed(ws, name),
                 collections' = (collections \ {c}) \cup
                   {[c EXCEPT !.description = Coalesce(desc, @)]}
          PROVE  Survive
      <4> DEFINE upd == [c EXCEPT !.description = Coalesce(desc, @)]
      <4>1. c \in collections /\ c \in CollectionRow
        BY <3>1 DEF CollectionsNamed
      <4>2. /\ upd.id = c.id /\ upd.workspace = c.workspace /\ upd.name = c.name
            /\ upd.description = Coalesce(desc, c.description)
        BY <4>1 DEF CollectionRow
      <4>3. c.description # NoDescription => upd.description # NoDescription
        BY <4>2 DEF Coalesce
      <4>4. collections' = (collections \ {c}) \cup {upd}
        BY <3>3
      <4> HIDE DEF upd
      <4> QED
        BY <4>2, <4>3, <4>4
    <3> QED
      BY <2>1, <3>2, <3>3 DEF UpsertCollection
  <2>2. CASE collections' = collections
    BY <2>2
  <2>3. \/ collections' = collections
        \/ \E ws, name, desc : UpsertCollection(ws, name, desc)
    BY DEF Next, Meanwhile, ServeIngest, IngestStep, ServeQuery, QueryStep, Fail, Crash,
           CreateCollection, Admit, Validate, ResolveCollection, ResolveDocument,
           UpsertDocument, Embed, DeleteOld, DeleteChunks, InsertNext, InsertChunk,
           Respond, FailIngest, AdmitQuery, EmbedQuestion, Retrieve, ChatAnswers,
           ChatRefuses, FailQuery, storeVars
  <2> QED
    BY <2>1, <2>2, <2>3
<1> QED
  BY <1>1, Invariance, PTL DEF Spec, DescriptionsSurvive

-----------------------------------------------------------------------------
(* What a query read still resolves, if its file is not sent again *)

\* c was stored by a request that is past its DELETE.
Sender(r, c) ==
  /\ upload[r].ws = c.workspace
  /\ ShaOf(r) = Sha[c.content]
  /\ ipc[r] \in {"insert", "done", "failed", "lost"}

SoleSender(c) == \A r, s \in RequestsFor(c) : r = s

\* Every chunk, stored or read, has a sender; one whose document has a
\* single request is still stored.
ResolveInv ==
  /\ \A c \in chunks : \E r \in Ingests : Sender(r, c)
  /\ \A q \in Queries : \A c \in hits[q] \cup cited[q] :
       /\ \E r \in Ingests : Sender(r, c)
       /\ SoleSender(c) => c \in chunks

\* Senders stay, and the requests for a document only become more.
LEMMA SendersStay ==
  ASSUME IInv, [Next]_vars, NEW c
  PROVE  /\ upload' = upload
         /\ \A r \in Ingests : Sender(r, c) => Sender(r, c)'
         /\ RequestsFor(c) \subseteq RequestsFor(c)'
         /\ SoleSender(c)' => SoleSender(c)
<1> DEFINE past == {"insert", "done", "failed", "lost"}
           Forward == \A r \in Ingests : /\ ipc[r] # "idle" => ipc'[r] # "idle"
                                         /\ ipc[r] \in past => ipc'[r] \in past
<1>1. upload' = upload
  BY DEF Next, Meanwhile, ServeIngest, IngestStep, ServeQuery, QueryStep, Fail, Crash,
         CreateCollection, Admit, Validate, ResolveCollection, ResolveDocument, Embed,
         DeleteOld, InsertNext, Respond, FailIngest, ingestVars, vars
<1>2. Forward
  <2>1. ipc \in [Ingests -> {"idle"} \cup IngestActive \cup IngestOver]
    BY DEF IInv, TypeOK, IngestTypeOK
  <2>2. ASSUME NEW o \in Ingests, NEW from, NEW to, Goto(o, from, to), to # "idle",
               from \notin past \/ to \in past
        PROVE  Forward
    BY <2>1, <2>2 DEF Goto
  <2>3. ASSUME NEW o \in Ingests, IngestStep(o)
        PROVE  Forward
    <3>1. \/ ipc' = ipc
          \/ \E from, to : /\ Goto(o, from, to) /\ to # "idle"
                           /\ from \notin past \/ to \in past
      BY <2>3 DEF IngestStep, Admit, Validate, ResolveCollection, ResolveDocument,
                  Embed, DeleteOld, InsertNext, Respond
    <3>2. ipc' = ipc => Forward
      OBVIOUS
    <3> QED
      BY <2>2, <3>1, <3>2
  <2>4. ASSUME NEW o \in Ingests, FailIngest(o)
        PROVE  Forward
    BY <2>1, <2>4 DEF FailIngest
  <2>5. CASE Crash
    BY <2>1, <2>5 DEF Crash, LoseIngests
  <2>6. ipc' = ipc \/ Crash \/ \E o \in Ingests : IngestStep(o) \/ FailIngest(o)
    BY DEF Next, Meanwhile, ServeIngest, ServeQuery, QueryStep, AdmitQuery, EmbedQuestion,
           Retrieve, ChatAnswers, ChatRefuses, Fail, CreateCollection, ingestVars, vars
  <2>7. ipc' = ipc => Forward
    OBVIOUS
  <2> HIDE DEF Forward
  <2> QED
    BY <2>3, <2>4, <2>5, <2>6, <2>7
<1>3. RequestsFor(c) \subseteq RequestsFor(c)'
  BY <1>1, <1>2 DEF RequestsFor
<1> QED
  BY <1>1, <1>2, <1>3 DEF Sender, SoleSender

\* What a step does to the chunks and to what queries hold.
LEMMA ChunksAndReads ==
  ASSUME IInv, [Next]_vars
  PROVE  /\ \/ chunks' = chunks
            \/ \E r \in Ingests : DeleteOld(r)
            \/ \E r \in Ingests : InsertNext(r)
         /\ \A q \in Queries : \A c \in hits'[q] \cup cited'[q] :
              c \in hits[q] \cup cited[q] \/ (c \in chunks /\ chunks' = chunks)
<1>1. \/ chunks' = chunks
      \/ \E r \in Ingests : DeleteOld(r)
      \/ \E r \in Ingests : InsertNext(r)
  BY DEF Next, Meanwhile, ServeIngest, IngestStep, ServeQuery, QueryStep, Fail, Crash,
         CreateCollection, UpsertCollection, Admit, Validate, ResolveCollection,
         ResolveDocument, UpsertDocument, Embed, Respond, FailIngest, AdmitQuery,
         EmbedQuestion, Retrieve, ChatAnswers, ChatRefuses, FailQuery, storeVars, vars
<1>2. CASE hits' = hits /\ cited' = cited
  BY <1>1, <1>2
<1>3. ASSUME NEW q \in Queries, Retrieve(q)
      PROVE  \A p \in Queries : \A c \in hits'[p] \cup cited'[p] :
               c \in hits[p] \cup cited[p] \/ (c \in chunks /\ chunks' = chunks)
  <2>1. PICK rows \in SUBSET Candidates(q) : hits' = [hits EXCEPT ![q] = rows]
    BY <1>3 DEF Retrieve
  <2> QED
    BY <1>3, <2>1 DEF Retrieve, Candidates, IInv, TypeOK, QueryTypeOK, storeVars
<1>4. ASSUME NEW q \in Queries, NEW text, ChatAnswers(q, text)
      PROVE  \A p \in Queries : \A c \in hits'[p] \cup cited'[p] : c \in hits[p] \cup cited[p]
  BY <1>4 DEF ChatAnswers, Relevant, FilterRelevant, IInv, TypeOK, QueryTypeOK
<1>5. \/ hits' = hits /\ cited' = cited
      \/ \E q \in Queries : Retrieve(q) \/ \E text \in Completions : ChatAnswers(q, text)
  BY DEF Next, Meanwhile, ServeIngest, ServeQuery, QueryStep, Fail, Crash, CreateCollection,
         AdmitQuery, EmbedQuestion, ChatRefuses, FailQuery, queryVars, vars
<1> QED
  BY <1>1, <1>2, <1>3, <1>4, <1>5

LEMMA ResolveInvNext ==
  ASSUME IInv, ResolveInv, [Next]_vars PROVE ResolveInv'
<1>1. \A c : /\ \A r \in Ingests : Sender(r, c) => Sender(r, c)'
             /\ SoleSender(c)' => SoleSender(c)
  BY SendersStay
<1>2. \A c \in chunks' : \E r \in Ingests : Sender(r, c)'
  <2>1. CASE chunks' \subseteq chunks
    BY <1>1, <2>1 DEF ResolveInv
  <2>2. ASSUME NEW r \in Ingests, InsertNext(r)
        PROVE  \A c \in chunks' : \E o \in Ingests : Sender(o, c)'
    <3> DEFINE new == [id |-> seq.chunks + 1, document_id |-> task[r].doc,
                       workspace |-> upload[r].ws, collection_id |-> task[r].col,
                       ordinal |-> task[r].next, content |-> upload[r].content]
    <3>1. chunks' = chunks \cup {new} /\ ipc[r] = "insert"
      BY <2>2 DEF InsertNext, InsertChunk
    <3>2. Sender(r, new)
      BY <3>1 DEF Sender
    <3> HIDE DEF new
    <3> QED
      BY <1>1, <3>1, <3>2 DEF ResolveInv
  <2> QED
    BY <2>1, <2>2, ChunksAndReads DEF DeleteOld, DeleteChunks
<1>3. ASSUME NEW q \in Queries, NEW c \in hits'[q] \cup cited'[q]
      PROVE  (\E r \in Ingests : Sender(r, c)') /\ (SoleSender(c)' => c \in chunks')
  <2>1. CASE c \in chunks /\ chunks' = chunks
    BY <1>2, <2>1
  <2>2. CASE c \in hits[q] \cup cited[q]
    <3>1. PICK s \in Ingests : Sender(s, c)
      BY <2>2 DEF ResolveInv
    <3>2. ASSUME SoleSender(c)', NEW r \in Ingests, DeleteOld(r) PROVE c \in chunks'
      <4>1. c \in chunks /\ SoleSender(c)
        BY <1>1, <2>2, <3>2 DEF ResolveInv
      <4>2. /\ ipc[r] = "delete"
            /\ chunks' = {x \in chunks : x.document_id # task[r].doc}
        BY <3>2 DEF DeleteOld, DeleteChunks, ChunksOf, Goto
      <4>3. ASSUME c.document_id = task[r].doc PROVE FALSE
        <5>1. PICK d \in documents : HasDocument(r, d)
          BY <4>2 DEF IInv, TasksAreCurrent
        <5>2. PICK e \in documents : /\ e.id = c.document_id
                                     /\ e.workspace = c.workspace
                                     /\ e.content_sha = Sha[c.content]
          BY <4>1 DEF IInv, WorkspaceConsistent
        <5>3. upload[r].ws = c.workspace /\ ShaOf(r) = Sha[c.content]
          BY <4>3, <5>1, <5>2 DEF IInv, IdsAreUnique, HasDocument
        <5>4. r \in RequestsFor(c) /\ s \in RequestsFor(c)
          BY <3>1, <4>2, <5>3 DEF RequestsFor, Sender
        <5> QED
          BY <3>1, <4>1, <4>2, <5>4 DEF SoleSender, Sender
      <4> QED
        BY <4>1, <4>2, <4>3
    <3>3. ASSUME SoleSender(c)', chunks \subseteq chunks' PROVE c \in chunks'
      BY <1>1, <2>2, <3>3 DEF ResolveInv
    <3>4. chunks \subseteq chunks' \/ \E r \in Ingests : DeleteOld(r)
      BY ChunksAndReads DEF InsertNext, InsertChunk
    <3> QED
      BY <1>1, <3>1, <3>2, <3>3, <3>4
  <2> QED
    BY <2>1, <2>2, ChunksAndReads
<1> QED
  BY <1>2, <1>3 DEF ResolveInv

\* What a query has read or cited resolves unless its file is sent again.
THEOREM SoleUploadsResolve == Spec => []CitationsResolve
<1>1. Init => ResolveInv
  BY DEF Init, StoreInit, QueryInit, ResolveInv
<1>2. IInv /\ ResolveInv /\ [Next]_vars => ResolveInv'
  BY ResolveInvNext
<1>3. IInv /\ ResolveInv => CitationsResolve
  BY DEF IInv, ResolveInv, SoleSender, WorkspaceConsistent, CitationsResolve, CitationRows
<1> QED
  BY <1>1, <1>2, <1>3, Invariance, PTL DEF Spec
-----------------------------------------------------------------------------
(* The rows of the tables *)

\* An id names one row of collections, and a row of collections has its
\* (workspace, name) to itself; an id names one row of documents.
RowsAreKeyed ==
  /\ \A j, k \in collections :
       j.id = k.id <=> j.workspace = k.workspace /\ j.name = k.name
  /\ \A d, e \in documents : d.id = e.id => d = e

RowInv == IInv /\ KeysAreUnique /\ RowsAreKeyed /\ IsFiniteSet(chunks)

\* What a step may do to the tables.
LEMMA TableStep ==
  ASSUME [Next]_vars
  PROVE  /\ \/ collections' = collections
            \/ \E ws, name, desc : UpsertCollection(ws, name, desc)
         /\ \/ documents' = documents
            \/ \E r \in Ingests : ResolveDocument(r)
         /\ \/ chunks' = chunks
            \/ \E r \in Ingests : DeleteOld(r) \/ InsertNext(r)
<1> USE DEF Next, Meanwhile, ServeIngest, IngestStep, ServeQuery, QueryStep, Fail, Crash,
            CreateCollection, Admit, Validate, ResolveCollection, Embed,
            Respond, FailIngest, AdmitQuery, EmbedQuestion, Retrieve, ChatAnswers,
            ChatRefuses, FailQuery, storeVars, vars
<1>1. \/ collections' = collections
      \/ \E ws, name, desc : UpsertCollection(ws, name, desc)
  BY DEF ResolveDocument, UpsertDocument, DeleteOld, DeleteChunks, InsertNext, InsertChunk
<1>2. documents' = documents \/ \E r \in Ingests : ResolveDocument(r)
  BY DEF UpsertCollection, DeleteOld, DeleteChunks, InsertNext, InsertChunk
<1>3. chunks' = chunks \/ \E r \in Ingests : DeleteOld(r) \/ InsertNext(r)
  BY DEF UpsertCollection, ResolveDocument, UpsertDocument
<1> QED
  BY <1>1, <1>2, <1>3

LEMMA UpsertKeepsCollectionKeys ==
  ASSUME RowInv, NEW ws, NEW name, NEW desc, UpsertCollection(ws, name, desc)
  PROVE  \A j, k \in collections' :
           j.id = k.id <=> j.workspace = k.workspace /\ j.name = k.name
<1> DEFINE fresh == [id |-> seq.collections + 1, workspace |-> ws, name |-> name,
                     description |-> desc]
<1>1. CASE CollectionsNamed(ws, name) = {} /\ collections' = collections \cup {fresh}
  <2>1. \A k \in collections : k.id # fresh.id
    BY DEF RowInv, IInv, TypeOK, StoreTypeOK, CollectionRow, Id, IdsAreIssued
  <2>2. \A k \in collections : ~(k.workspace = fresh.workspace /\ k.name = fresh.name)
    BY <1>1 DEF CollectionsNamed
  <2> HIDE DEF fresh
  <2> QED
    BY <1>1, <2>1, <2>2 DEF RowInv, RowsAreKeyed
<1>2. ASSUME NEW c \in CollectionsNamed(ws, name),
             collections' = (collections \ {c}) \cup
               {[c EXCEPT !.description = Coalesce(desc, @)]}
      PROVE  \A j, k \in collections' :
               j.id = k.id <=> j.workspace = k.workspace /\ j.name = k.name
  <2> DEFINE upd == [c EXCEPT !.description = Coalesce(desc, @)]
  <2>1. c \in collections /\ c \in CollectionRow
    BY DEF CollectionsNamed, RowInv, IInv, TypeOK, StoreTypeOK
  <2>2. upd.id = c.id /\ upd.workspace = c.workspace /\ upd.name = c.name
    BY <2>1 DEF CollectionRow
  <2>3. \A j \in collections' : \E k \in collections :
          k.id = j.id /\ k.workspace = j.workspace /\ k.name = j.name
    BY <1>2, <2>1, <2>2
  <2> QED
    BY <2>3 DEF RowInv, RowsAreKeyed
<1> QED
  BY <1>1, <1>2 DEF UpsertCollection

LEMMA UpsertKeepsDocumentRows ==
  ASSUME RowInv, NEW ws, NEW sha, NEW file, UpsertDocument(ws, sha, file)
  PROVE  \A d, e \in documents' : d.id = e.id => d = e
<1> DEFINE fresh == [id |-> seq.documents + 1, workspace |-> ws, content_sha |-> sha,
                     source |-> file, file_name |-> file]
<1>1. CASE documents' = documents \cup {fresh}
  <2>1. \A d \in documents : d.id # fresh.id
    BY DEF RowInv, IInv, TypeOK, StoreTypeOK, DocumentRow, Id, IdsAreIssued
  <2> HIDE DEF fresh
  <2> QED
    BY <1>1, <2>1 DEF RowInv, RowsAreKeyed
<1>2. ASSUME NEW d \in DocumentsOf(ws, sha),
             documents' = (documents \ {d}) \cup {[d EXCEPT !.file_name = file]}
      PROVE  \A a, e \in documents' : a.id = e.id => a = e
  <2> DEFINE upd == [d EXCEPT !.file_name = file]
  <2>1. d \in documents /\ d \in DocumentRow
    BY DEF DocumentsOf, RowInv, IInv, TypeOK, StoreTypeOK
  <2>2. upd.id = d.id
    BY <2>1 DEF DocumentRow
  <2>3. \A e \in documents \ {d} : e.id # upd.id
    BY <2>1, <2>2 DEF RowInv, RowsAreKeyed
  <2>4. documents' = (documents \ {d}) \cup {upd}
    BY <1>2
  <2> HIDE DEF upd
  <2> QED
    BY <2>3, <2>4 DEF RowInv, RowsAreKeyed
<1> QED
  BY <1>1, <1>2 DEF UpsertDocument

LEMMA RowInvNext == RowInv /\ [Next]_vars => RowInv'
<1> SUFFICES ASSUME RowInv, [Next]_vars PROVE RowInv'
  OBVIOUS
<1>1. IInv'
  BY IInvNext DEF RowInv
<1>2. \A j, k \in collections' : j.id = k.id <=> j.workspace = k.workspace /\ j.name = k.name
  <2>1. CASE collections' = collections
    BY <2>1 DEF RowInv, RowsAreKeyed
  <2> QED
    BY <2>1, TableStep, UpsertKeepsCollectionKeys
<1>3. KeysAreUnique' /\ \A d, e \in documents' : d.id = e.id => d = e
  <2>1. CASE documents' = documents
    BY <2>1 DEF RowInv, RowsAreKeyed, KeysAreUnique
  <2>2. ASSUME NEW r \in Ingests, ResolveDocument(r)
        PROVE  KeysAreUnique' /\ \A d, e \in documents' : d.id = e.id => d = e
    <3>1. UpsertDocument(upload[r].ws, ShaOf(r), upload[r].file)
      BY <2>2 DEF ResolveDocument
    <3>2. KeysAreUnique /\ documents \subseteq DocumentRow
      BY DEF RowInv, IInv, TypeOK, StoreTypeOK
    <3> QED
      BY <3>1, <3>2, UpsertKeepsKeys, UpsertKeepsDocumentRows
  <2> QED
    BY <2>1, <2>2, TableStep
<1>4. IsFiniteSet(chunks)'
  <2>1. IsFiniteSet(chunks)
    BY DEF RowInv
  <2>2. CASE chunks' \in SUBSET chunks
    BY <2>1, <2>2, FS_Subset
  <2>3. CASE \E new : chunks' = chunks \cup {new}
    BY <2>1, <2>3, FS_AddElement
  <2>4. chunks' \in SUBSET chunks \/ \E new : chunks' = chunks \cup {new}
    BY TableStep DEF DeleteOld, DeleteChunks, InsertNext, InsertChunk
  <2> QED
    BY <2>2, <2>3, <2>4
<1> QED
  BY <1>1, <1>2, <1>3, <1>4 DEF RowInv, RowsAreKeyed

LEMMA RowInvariance == Spec => []RowInv
<1>1. Init => RowInv
  BY IInvInit, FS_EmptySet DEF Init, StoreInit, RowInv, RowsAreKeyed, KeysAreUnique
<1> QED
  BY <1>1, RowInvNext, PTL DEF Spec

-----------------------------------------------------------------------------
(* Collections that share no file do not touch each other *)

\* A chunk of a collection is a piece of what some request sent there.
LEMMA ChunkHasUpload ==
  ASSUME RowInv, NEW k \in collections, NEW c \in chunks, c.collection_id = k.id
  PROVE  \E s \in Ingests : /\ upload[s].ws = k.workspace /\ upload[s].name = k.name
                            /\ upload[s].ws = c.workspace
                            /\ upload[s].content = c.content
BY DEF RowInv, RowsAreKeyed, IInv, Uploaded

\* The step of a request on the chunks of a collection.
ActsOn(r, k) ==
  /\ ipc[r] \in {"delete", "insert"}
  /\ task'[r] # task[r] \/ ipc'[r] # ipc[r]
  /\ upload[r].ws = k.workspace
  /\ \E s \in Ingests : /\ upload[s].ws = k.workspace /\ upload[s].name = k.name
                        /\ ShaOf(s) = ShaOf(r)

LEMMA ChangesAreByFile ==
  ASSUME RowInv, [Next]_vars, NEW k \in collections,
         CollectionChunks(k) # {c \in chunks' : c.collection_id = k.id}
  PROVE  \E r \in Ingests : ActsOn(r, k)
<1>1. /\ ipc \in [Ingests -> {"idle"} \cup IngestActive \cup IngestOver]
      /\ task \in [Ingests -> Task]
  BY DEF RowInv, IInv, TypeOK, IngestTypeOK
<1>2. ASSUME NEW r \in Ingests, DeleteOld(r) PROVE ActsOn(r, k)
  <2>1. /\ ipc[r] = "delete" /\ ipc'[r] = "insert"
        /\ chunks' = {c \in chunks : c.document_id # task[r].doc}
    BY <1>1, <1>2 DEF DeleteOld, DeleteChunks, ChunksOf, Goto
  <2>2. PICK c \in chunks : c.collection_id = k.id /\ c.document_id = task[r].doc
    BY <2>1 DEF CollectionChunks
  <2>3. PICK d \in documents : HasDocument(r, d)
    BY <2>1 DEF RowInv, IInv, TasksAreCurrent
  <2>4. PICK e \in documents : /\ e.id = c.document_id
                               /\ e.workspace = c.workspace
                               /\ e.content_sha = Sha[c.content]
    BY DEF RowInv, IInv, WorkspaceConsistent
  <2>5. upload[r].ws = c.workspace /\ ShaOf(r) = Sha[c.content]
    BY <2>2, <2>3, <2>4 DEF RowInv, IInv, IdsAreUnique, HasDocument
  <2> QED
    BY <2>1, <2>2, <2>5, ChunkHasUpload DEF ActsOn
<1>3. ASSUME NEW r \in Ingests, InsertNext(r) PROVE ActsOn(r, k)
  <2> DEFINE new == [id |-> seq.chunks + 1, document_id |-> task[r].doc,
                     workspace |-> upload[r].ws, collection_id |-> task[r].col,
                     ordinal |-> task[r].next, content |-> upload[r].content]
  <2>1. /\ ipc[r] = "insert" /\ chunks' = chunks \cup {new}
        /\ task' = [task EXCEPT ![r].next = @ + 1]
    BY <1>3 DEF InsertNext, InsertChunk
  <2>2. new.collection_id = task[r].col
    OBVIOUS
  <2> HIDE DEF new
  <2>3. task[r].col = k.id
    BY <2>1, <2>2 DEF CollectionChunks
  <2>4. task'[r] # task[r]
    BY <1>1, <2>1 DEF Task
  <2>5. PICK j \in collections : HasCollection(r, j)
    BY <2>1 DEF RowInv, IInv, TasksAreCurrent
  <2>6. upload[r].ws = k.workspace /\ upload[r].name = k.name
    BY <2>3, <2>5 DEF RowInv, RowsAreKeyed, HasCollection
  <2> QED
    BY <2>1, <2>4, <2>6 DEF ActsOn
<1> QED
  BY <1>2, <1>3, TableStep DEF CollectionChunks

\* An ingest changes the chunks only of the collections that its file was
\* sent to.
THEOREM CollectionsMeetInFilesOnly == Spec => CollectionsShareOnlyFiles
<1> DEFINE ByFile ==
      \A k \in collections :
        CollectionChunks(k) # {c \in chunks' : c.collection_id = k.id} =>
          \E r, s \in Ingests :
            /\ ipc[r] \in {"delete", "insert"}
            /\ task'[r] # task[r] \/ ipc'[r] # ipc[r]
            /\ upload[r].ws = k.workspace
            /\ upload[s].ws = k.workspace /\ upload[s].name = k.name
            /\ ShaOf(s) = ShaOf(r)
<1>1. RowInv /\ [Next]_vars => [ByFile]_vars
  BY ChangesAreByFile DEF ActsOn
<1> QED
  BY <1>1, RowInvariance, PTL DEF Spec, CollectionsShareOnlyFiles

\* Every file goes to one collection of its workspace.
OneCollectionPerFile ==
  \A r, s \in Ingests :
    upload[r].ws = upload[s].ws /\ ShaOf(r) = ShaOf(s) =>
      upload[r].name = upload[s].name

\* "two collections in the same workspace are isolated" (db/init.sql), which
\* fails in general, is true of clients that send every file to one
\* collection.
THEOREM CollectionsIsolatedWithoutSharing ==
  OneCollectionPerFile /\ Spec => CollectionsAreIsolated
<1> DEFINE Isolated ==
      \A k \in collections :
        {c \in chunks : c.collection_id = k.id} # {c \in chunks' : c.collection_id = k.id}
          => \E r \in Ingests : /\ task'[r] # task[r] \/ ipc'[r] # ipc[r]
                                /\ task[r].col = k.id
<1>1. OneCollectionPerFile /\ RowInv /\ [Next]_vars => OneCollectionPerFile'
  <2>1. RowInv /\ [Next]_vars => upload' = upload
    BY SendersStay DEF RowInv
  <2> QED
    BY <2>1 DEF OneCollectionPerFile
<1>2. OneCollectionPerFile /\ RowInv /\ [Next]_vars => [Isolated]_vars
  <2> SUFFICES ASSUME OneCollectionPerFile, RowInv, [Next]_vars, NEW k \in collections,
                      {c \in chunks : c.collection_id = k.id}
                        # {c \in chunks' : c.collection_id = k.id}
               PROVE  \E r \in Ingests : /\ task'[r] # task[r] \/ ipc'[r] # ipc[r]
                                         /\ task[r].col = k.id
    OBVIOUS
  <2>1. PICK r \in Ingests : ActsOn(r, k)
    BY ChangesAreByFile DEF CollectionChunks
  <2>2. upload[r].ws = k.workspace /\ upload[r].name = k.name
    BY <2>1 DEF ActsOn, OneCollectionPerFile
  <2>3. PICK j \in collections : HasCollection(r, j)
    BY <2>1 DEF ActsOn, RowInv, IInv, TasksAreCurrent
  <2>4. task[r].col = k.id
    BY <2>2, <2>3 DEF RowInv, RowsAreKeyed, HasCollection
  <2> QED
    BY <2>1, <2>4 DEF ActsOn
<1> QED
  BY <1>1, <1>2, RowInvariance, PTL DEF Spec, CollectionsAreIsolated
-----------------------------------------------------------------------------
(* Documents and counts *)

\* A document keeps its id, key and source, and takes a name only from an
\* upload of its own bytes into its own workspace.
THEOREM DocumentsKeepIdentity == Spec => DocumentsKeepTheirIdentity
<1> DEFINE Renamed(d, n) ==
             \E r \in Ingests : /\ ipc[r] = "document" /\ ipc'[r] = "embed"
                                /\ upload[r].ws = d.workspace
                                /\ ShaOf(r) = d.content_sha
                                /\ upload[r].file = n.file_name
           Keep == \A d \in documents : \E n \in documents' :
             /\ n.id = d.id /\ n.workspace = d.workspace
             /\ n.content_sha = d.content_sha /\ n.source = d.source
             /\ n.file_name # d.file_name => Renamed(d, n)
<1>1. IInv /\ [Next]_vars => [Keep]_vars
  <2> SUFFICES ASSUME IInv, [Next]_vars PROVE Keep
    OBVIOUS
  <2>1. CASE documents \subseteq documents'
    BY <2>1
  <2>2. ASSUME NEW r \in Ingests, ResolveDocument(r),
               NEW c \in DocumentsOf(upload[r].ws, ShaOf(r)),
               documents' = (documents \ {c}) \cup {[c EXCEPT !.file_name = upload[r].file]}
        PROVE  Keep
    <3> DEFINE upd == [c EXCEPT !.file_name = upload[r].file]
    <3>1. /\ c \in DocumentRow
          /\ c.workspace = upload[r].ws /\ c.content_sha = ShaOf(r)
      BY DEF DocumentsOf, IInv, TypeOK, StoreTypeOK
    <3>2. /\ upd.id = c.id /\ upd.workspace = c.workspace
          /\ upd.content_sha = c.content_sha /\ upd.source = c.source
          /\ upd.file_name = upload[r].file
      BY <3>1 DEF DocumentRow
    <3>3. ipc[r] = "document" /\ ipc'[r] = "embed"
      BY <2>2 DEF ResolveDocument, Goto, IInv, TypeOK, IngestTypeOK
    <3>4. Renamed(c, upd)
      BY <3>1, <3>2, <3>3
    <3>5. upd \in documents' /\ documents \ {c} \subseteq documents'
      BY <2>2
    <3> HIDE DEF upd, Renamed
    <3> QED
      BY <3>2, <3>4, <3>5
  <2>3. \/ documents \subseteq documents'
        \/ \E r \in Ingests :
             /\ ResolveDocument(r)
             /\ \E c \in DocumentsOf(upload[r].ws, ShaOf(r)) :
                  documents' = (documents \ {c}) \cup {[c EXCEPT !.file_name = upload[r].file]}
    BY TableStep DEF ResolveDocument, UpsertDocument
  <2> QED
    BY <2>1, <2>2, <2>3
<1> QED
  BY <1>1, Invariance, PTL DEF Spec, DocumentsKeepTheirIdentity

\* Every collection gets one file only.
OneFilePerCollection ==
  \A r, s \in Ingests :
    upload[r].ws = upload[s].ws /\ upload[r].name = upload[s].name =>
      ShaOf(r) = ShaOf(s)

\* Then no collection counts two documents.
LEMMA OneDocumentCounted ==
  ASSUME RowInv, OneFilePerCollection, NEW k \in collections,
         NEW d \in CountedDocuments(k), NEW e \in CountedDocuments(k)
  PROVE  d = e
<1>1. PICK b \in chunks : b.collection_id = k.id /\ b.document_id = d.id
  BY DEF CountedDocuments
<1>2. PICK c \in chunks : c.collection_id = k.id /\ c.document_id = e.id
  BY DEF CountedDocuments
<1>3. d \in documents /\ e \in documents /\ d.workspace = k.workspace /\ e.workspace = k.workspace
  BY DEF CountedDocuments
<1>4. d.content_sha = Sha[b.content] /\ e.content_sha = Sha[c.content]
  BY <1>1, <1>2, <1>3 DEF RowInv, IInv, WorkspaceConsistent, IdsAreUnique
<1>5. Sha[b.content] = Sha[c.content]
  BY <1>1, <1>2, ChunkHasUpload DEF OneFilePerCollection
<1> QED
  BY <1>3, <1>4, <1>5 DEF RowInv, KeysAreUnique, RowsAreKeyed

\* The chunk_count of GET /v1/collections, wrong in general, is right where
\* every collection holds one file.
THEOREM CountsExactForOneFile == OneFilePerCollection /\ Spec => []ChunkCountIsExact
<1>1. OneFilePerCollection /\ RowInv /\ [Next]_vars => OneFilePerCollection'
  <2>1. RowInv /\ [Next]_vars => upload' = upload
    BY SendersStay DEF RowInv
  <2> QED
    BY <2>1 DEF OneFilePerCollection
<1>2. OneFilePerCollection /\ RowInv => ChunkCountIsExact
  <2> SUFFICES ASSUME OneFilePerCollection, RowInv, NEW k \in collections
               PROVE  ChunkCount(k) = Cardinality(CollectionChunks(k))
    BY DEF ChunkCountIsExact
  <2>1. Cardinality(CollectionChunks(k)) \in Nat
    <3>1. IsFiniteSet(chunks) /\ CollectionChunks(k) \in SUBSET chunks
      BY DEF RowInv, CollectionChunks
    <3> QED
      BY <3>1, FS_Subset, FS_CardinalityType
  <2>2. CASE CountedDocuments(k) = {}
    BY <2>1, <2>2 DEF ChunkCount
  <2>3. CASE CountedDocuments(k) # {}
    <3>1. PICK d \in CountedDocuments(k) : \A e \in CountedDocuments(k) : e = d
      BY <2>3, OneDocumentCounted
    <3>2. DocumentCount(k) = 1
      <4>1. CountedDocuments(k) = {d}
        BY <3>1
      <4> QED
        BY <4>1, FS_Singleton DEF DocumentCount
    <3> QED
      BY <2>1, <2>3, <3>2 DEF ChunkCount
  <2> QED
    BY <2>2, <2>3
<1> QED
  BY <1>1, <1>2, RowInvariance, PTL DEF Spec

-----------------------------------------------------------------------------
(* No refusal with evidence at hand *)

\* A chunk is one of the pieces its content is cut into.
PiecesInv ==
  /\ \A r \in Ingests : task[r].nvec <= Pieces[upload[r].content]
  /\ \A c \in chunks : c.ordinal \in 0 .. Pieces[c.content] - 1

LEMMA PiecesInvNext == RowInv /\ PiecesInv /\ [Next]_vars => PiecesInv'
<1> SUFFICES ASSUME RowInv, PiecesInv, [Next]_vars PROVE PiecesInv'
  OBVIOUS
<1>1. upload' = upload
  BY SendersStay DEF RowInv
<1>2. task \in [Ingests -> Task] /\ upload \in [Ingests -> Upload]
  BY DEF RowInv, IInv, TypeOK, IngestTypeOK
<1>3. \A r \in Ingests : Pieces[upload[r].content] \in Nat
  BY <1>2, StoreAssumption DEF Upload
<1>4. \A r \in Ingests : task'[r].nvec <= Pieces[upload[r].content]
  <2>1. CASE \A r \in Ingests : task'[r].nvec = task[r].nvec
    BY <2>1 DEF PiecesInv
  <2>2. ASSUME NEW r \in Ingests, Embed(r)
        PROVE  \A o \in Ingests : task'[o].nvec <= Pieces[upload[o].content]
    <3>1. PICK n \in VectorCounts(Pieces[upload[r].content]) : task' = [task EXCEPT ![r].nvec = n]
      BY <2>2 DEF Embed
    <3>2. n <= Pieces[upload[r].content]
      BY <1>3, <3>1 DEF VectorCounts
    <3>3. \A o \in Ingests : task'[o].nvec = IF o = r THEN n ELSE task[o].nvec
      BY <1>2, <3>1 DEF Task
    <3> QED
      BY <3>2, <3>3 DEF PiecesInv
  <2>3. ASSUME NEW r \in Ingests, \/ ResolveCollection(r) \/ ResolveDocument(r) \/ InsertNext(r)
        PROVE  \A o \in Ingests : task'[o].nvec = task[o].nvec
    BY <1>2, <2>3 DEF ResolveCollection, ResolveDocument, InsertNext, Task
  <2>4. \/ task' = task
        \/ \E r \in Ingests : \/ Embed(r) \/ ResolveCollection(r)
                              \/ ResolveDocument(r) \/ InsertNext(r)
    BY DEF Next, Meanwhile, ServeIngest, IngestStep, ServeQuery, Fail, Crash, CreateCollection,
           Admit, Validate, DeleteOld, Respond, FailIngest, ingestVars, vars
  <2> QED
    BY <2>1, <2>2, <2>3, <2>4
<1>5. \A c \in chunks' : c.ordinal \in 0 .. Pieces[c.content] - 1
  <2>1. ASSUME NEW r \in Ingests, InsertNext(r)
        PROVE  \A c \in chunks' : c.ordinal \in 0 .. Pieces[c.content] - 1
    <3> DEFINE new == [id |-> seq.chunks + 1, document_id |-> task[r].doc,
                       workspace |-> upload[r].ws, collection_id |-> task[r].col,
                       ordinal |-> task[r].next, content |-> upload[r].content]
    <3>1. chunks' = chunks \cup {new} /\ task[r].next < task[r].nvec
      BY <2>1 DEF InsertNext, InsertChunk
    <3>2. task[r].next \in Nat /\ task[r].nvec \in Nat
      BY <1>2 DEF Task
    <3>3. new.ordinal \in 0 .. Pieces[new.content] - 1
      BY <1>3, <3>1, <3>2 DEF PiecesInv
    <3> HIDE DEF new
    <3> QED
      BY <3>1, <3>3 DEF PiecesInv
  <2> QED
    BY <2>1, TableStep DEF PiecesInv, DeleteOld, DeleteChunks
<1> QED
  BY <1>1, <1>4, <1>5 DEF PiecesInv

\* What the LIMIT leaves out, top_k rows rank before.
LEMMA LeftOutByLimit ==
  ASSUME RowInv, NEW q \in Queries, NEW rows, IsTopK(q, rows),
         NEW c \in Candidates(q) \ rows
  PROVE  /\ Cardinality(rows) = TopK /\ IsFiniteSet(Candidates(q))
         /\ \A o \in rows : o \in Candidates(q) /\ Precedes(ScoreOf(q, o), ScoreOf(q, c))
<1>1. IsFiniteSet(chunks) /\ Candidates(q) \in SUBSET chunks
  BY DEF RowInv, Candidates
<1>2. IsFiniteSet(Candidates(q))
  BY <1>1, FS_Subset
<1>3. rows \in SUBSET Candidates(q)
  BY DEF IsTopK
<1>4. Cardinality(rows) # Cardinality(Candidates(q))
  BY <1>2, <1>3, FS_Subset
<1> QED
  BY <1>2, <1>3, <1>4 DEF IsTopK

\* A question refused at a SELECT that scans the table had no relevant
\* passage in its collection but those that the token gate's rejects crowd
\* out.
THEOREM RefusalsLackEvidence == Spec => RefusedForLackOfEvidence
<1>1. ASSUME RowInv, PiecesInv, [Next]_vars, NEW q \in Queries,
             qpc[q] = "search", qpc'[q] = "refused", ~MayBeIndexed,
             NEW c \in FilterRelevant(q, Candidates(q))
      PROVE  CrowdedOut(q, c)
  <2>1. qpc \in [Queries -> {"idle"} \cup QueryActive \cup QueryOver]
    BY <1>1 DEF RowInv, IInv, TypeOK, QueryTypeOK
  <2>2. Retrieve(q)
    <3>1. \E p \in Queries : QueryStep(p)
      BY <1>1, <2>1 DEF Next, Meanwhile, ServeIngest, ServeQuery, Fail, Crash, FailQuery,
                        CreateCollection, LoseQueries, queryVars, vars
    <3>2. PICK p \in Queries : QueryStep(p)
      BY <3>1
    <3>3. p = q
      BY <1>1, <2>1, <3>2 DEF QueryStep, AdmitQuery, EmbedQuestion, Retrieve, ChatAnswers,
                              ChatRefuses, Move
    <3> QED
      BY <1>1, <2>1, <3>2, <3>3 DEF QueryStep, AdmitQuery, EmbedQuestion, ChatAnswers,
                                    ChatRefuses, Move
  <2>3. PICK rows \in SUBSET Candidates(q) : IsTopK(q, rows) /\ Move(q, "search", Verdict(q, rows))
    BY <1>1, <2>2 DEF Retrieve, Selects
  <2>4. FilterRelevant(q, rows) = {}
    BY <1>1, <2>1, <2>3 DEF Move, Verdict
  <2>5. c \in Candidates(q) \ rows
    BY <1>1, <2>4 DEF FilterRelevant
  <2>6. /\ Cardinality(rows) = TopK /\ IsFiniteSet(Candidates(q))
        /\ \A o \in rows : o \in Candidates(q) /\ Precedes(ScoreOf(q, o), ScoreOf(q, c))
    BY <1>1, <2>3, <2>5, LeftOutByLimit
  <2>7. \A o \in Candidates(q) : ScoreOf(q, o) \in Int \cup {NaN}
    <3>1. ASSUME NEW o \in Candidates(q) PROVE ScoreOf(q, o) \in Int \cup {NaN}
      <4>1. o.content \in Content /\ o.ordinal \in 0 .. Pieces[o.content] - 1
        BY <1>1 DEF PiecesInv, Candidates, RowInv, IInv, TypeOK, StoreTypeOK, ChunkRow
      <4>2. ask[q].question \in Question
        BY <1>1 DEF RowInv, IInv, TypeOK, QueryTypeOK, Ask
      <4> QED
        BY <4>1, <4>2, QueryAssumption DEF ScoreOf, Piece
    <3> QED
      BY <3>1
  <2>8. ASSUME NEW o \in rows
        PROVE  EmbeddingStub /\ ~Overlaps(ask[q].question, Piece(o))
    <3>1. Reaches(ScoreOf(q, c)) /\ Precedes(ScoreOf(q, o), ScoreOf(q, c))
      BY <1>1, <2>6 DEF FilterRelevant
    <3>2. /\ ScoreOf(q, c) \in Int \cup {NaN} /\ ScoreOf(q, o) \in Int \cup {NaN}
          /\ Threshold \in Int /\ NaN \notin Int
      BY <2>5, <2>6, <2>7, QueryAssumption
    <3>3. Reaches(ScoreOf(q, o))
      BY <3>1, <3>2 DEF Reaches, Precedes
    <3> QED
      BY <2>4, <3>3, QueryAssumption DEF FilterRelevant
  <2> DEFINE crowd == {o \in Candidates(q) : /\ ~Overlaps(ask[q].question, Piece(o))
                                             /\ Precedes(ScoreOf(q, o), ScoreOf(q, c))}
  <2>9. rows \in SUBSET crowd /\ crowd \in SUBSET Candidates(q)
    BY <2>6, <2>8
  <2>10. IsFiniteSet(crowd) /\ Cardinality(rows) <= Cardinality(crowd)
    <3>1. IsFiniteSet(crowd)
      BY <2>6, <2>9, FS_Subset
    <3> QED
      BY <2>9, <3>1, FS_Subset
  <2>11. EmbeddingStub
    <3>1. rows # {}
      BY <2>6, FS_EmptySet, QueryAssumption
    <3> QED
      BY <2>8, <3>1
  <2>12. Cardinality(crowd) \in Nat /\ TopK \in Nat
    BY <2>10, FS_CardinalityType, QueryAssumption
  <2>13. Cardinality(crowd) >= TopK
    BY <2>6, <2>10, <2>12
  <2> QED
    BY <2>11, <2>13 DEF CrowdedOut
<1>2. Init => PiecesInv
  BY StoreAssumption DEF Init, StoreInit, IngestInit, PiecesInv, Upload
<1>3. Spec => []PiecesInv
  BY <1>2, PiecesInvNext, RowInvariance, PTL DEF Spec
<1> DEFINE Lacking == \A q \in Queries :
             qpc[q] = "search" /\ qpc'[q] = "refused" /\ ~MayBeIndexed =>
               \A c \in FilterRelevant(q, Candidates(q)) : CrowdedOut(q, c)
<1>4. RowInv /\ PiecesInv /\ [Next]_vars => [Lacking]_vars
  BY <1>1
<1> QED
  BY <1>3, <1>4, RowInvariance, PTL DEF Spec, RefusedForLackOfEvidence
=============================================================================
