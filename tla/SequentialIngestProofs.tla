----------------------- MODULE SequentialIngestProofs -----------------------
(***************************************************************************)
(* Proofs about SequentialIngest, for any number of requests, documents    *)
(* and pieces: what a document holds while its uploads come one at a time  *)
(* and those of other documents at any time.                               *)
(***************************************************************************)
EXTENDS SequentialIngest, KnowledgeServiceProofs

USE DEF ShaOf

-----------------------------------------------------------------------------
(* The inductive invariant, on top of that of KnowledgeServiceProofs. *)

Before == {"idle", "admitted", "collection", "document", "embed", "delete"}

\* At most one request for a document is being served.
Alone ==
  \A r, o \in Ingests :
    ipc[r] \in IngestActive /\ ipc[o] \in IngestActive /\ DocOf(r) = DocOf(o) => r = o

\* A request that inserts has put its first pieces back, all of them in its
\* collection, and nothing else is there.
Progress(r) ==
  /\ ipc[r] \in Before => task[r].next = 0
  /\ ipc[r] = "insert" =>
       /\ \A c \in ChunksOf(task[r].doc) :
            /\ c.ordinal < task[r].next
            /\ c.collection_id = task[r].col /\ c.content = upload[r].content
       /\ \A i \in 0 .. task[r].next - 1 :
            \E c \in ChunksOf(task[r].doc) : c.ordinal = i

\* A request past its validation has pieces, and as many vectors unless the
\* provider was short of them.
Counted(r) ==
  /\ ipc[r] \in {"collection", "document", "embed", "delete", "insert"} =>
       Pieces[upload[r].content] > 0
  /\ ipc[r] \in {"delete", "insert"} =>
       ShortReplies \/ task[r].nvec = Pieces[upload[r].content]

SeqInv ==
  /\ IInv /\ Alone /\ KeysAreUnique /\ ChunksArePrefix
  /\ \A r \in Ingests : Progress(r) /\ Counted(r)

\* A step that leaves the chunks and the request that inserts alone.
LEMMA QuietSeq ==
  ASSUME SeqInv, IInv', UNCHANGED <<chunks, upload>>, Alone', KeysAreUnique',
         \A o \in Ingests :
           /\ ipc'[o] \in Before => ipc[o] \in Before /\ task'[o].next = task[o].next
           /\ ipc'[o] = "insert" => ipc[o] = "insert" /\ task'[o] = task[o]
           /\ Counted(o)'
  PROVE  SeqInv'
<1>1. ChunksArePrefix'
  BY DEF SeqInv, ChunksArePrefix
<1>2. ASSUME NEW r \in Ingests PROVE Progress(r)'
  BY DEF SeqInv, Progress, ChunksOf
<1> QED
  BY <1>1, <1>2 DEF SeqInv

\* A step that leaves the requests, the documents and the chunks alone.
LEMMA StillSeq ==
  ASSUME SeqInv, IInv', UNCHANGED <<chunks, documents, ingestVars>>
  PROVE  SeqInv'
<1> USE DEF ingestVars
<1>1. Alone' /\ KeysAreUnique'
  BY DEF SeqInv, Alone, DocOf, KeysAreUnique
<1>2. \A o \in Ingests : Counted(o)'
  BY DEF SeqInv, Counted
<1> QED
  BY <1>1, <1>2, QuietSeq

\* A step that takes one request on, short of its DELETE.
LEMMA AdvanceSeq ==
  ASSUME SeqInv, IInv', chunks' = chunks, UNCHANGED upload,
         NEW r \in Ingests, NEW to, ipc' = [ipc EXCEPT ![r] = to],
         to \in IngestActive =>
           \/ ipc[r] \in IngestActive
           \/ \A o \in Ingests : DocOf(o) = DocOf(r) => ipc[o] \notin IngestActive,
         to \in Before => ipc[r] \in Before /\ task'[r].next = task[r].next,
         to # "insert",
         \A o \in Ingests \ {r} : task'[o] = task[o],
         Counted(r)', KeysAreUnique'
  PROVE  SeqInv'
<1>1. ipc \in [Ingests -> {"idle"} \cup IngestActive \cup IngestOver]
  BY DEF SeqInv, IInv, TypeOK, IngestTypeOK
<1>2. \A o \in Ingests : ipc'[o] = IF o = r THEN to ELSE ipc[o]
  BY <1>1
<1>3. Alone'
  BY <1>2 DEF SeqInv, Alone, DocOf
<1>4. ASSUME NEW o \in Ingests PROVE Counted(o)'
  <2>1. CASE o = r
    BY <2>1
  <2>2. CASE o # r
    BY <1>2, <2>2 DEF SeqInv, Counted
  <2> QED
    BY <2>1, <2>2
<1>5. ASSUME NEW o \in Ingests
      PROVE  /\ ipc'[o] \in Before => ipc[o] \in Before /\ task'[o].next = task[o].next
             /\ ipc'[o] = "insert" => ipc[o] = "insert" /\ task'[o] = task[o]
  BY <1>2
<1> QED
  BY <1>3, <1>4, <1>5, QuietSeq

-----------------------------------------------------------------------------
(* The two steps that write chunks. *)

\* Requests that hold the same document id are for the same document.
LEMMA TasksDiffer ==
  ASSUME IInv, NEW r \in Ingests, NEW o \in Ingests,
         ipc[r] \in {"embed", "delete", "insert"}, ipc[o] \in {"embed", "delete", "insert"},
         task[r].doc = task[o].doc
  PROVE  DocOf(r) = DocOf(o)
<1>1. PICK d \in documents : HasDocument(r, d)
  BY DEF IInv, TasksAreCurrent
<1>2. PICK e \in documents : HasDocument(o, e)
  BY DEF IInv, TasksAreCurrent
<1> QED
  BY <1>1, <1>2 DEF IInv, IdsAreUnique, HasDocument, DocOf

\* So nobody else is inserting the document that a request deletes or
\* inserts.
LEMMA OthersDiffer ==
  ASSUME SeqInv, NEW r \in Ingests, NEW o \in Ingests, o # r,
         ipc[r] \in {"delete", "insert"}, ipc[o] = "insert"
  PROVE  task[o].doc # task[r].doc
BY TasksDiffer DEF SeqInv, Alone, IngestActive

\* The DELETE empties the document and touches no other.
LEMMA DeleteSeq ==
  ASSUME SeqInv, IInv', NEW r \in Ingests, DeleteOld(r) PROVE SeqInv'
<1>1. /\ chunks' = {c \in chunks : c.document_id # task[r].doc}
      /\ UNCHANGED <<documents, upload, task>>
      /\ ipc[r] = "delete" /\ ipc' = [ipc EXCEPT ![r] = "insert"]
  BY DEF DeleteOld, DeleteChunks, ChunksOf, Goto
<1>2. \A o \in Ingests : ipc'[o] = IF o = r THEN "insert" ELSE ipc[o]
  BY <1>1 DEF SeqInv, IInv, TypeOK, IngestTypeOK
<1>3. Alone' /\ KeysAreUnique'
  BY <1>1, <1>2 DEF SeqInv, Alone, DocOf, KeysAreUnique, IngestActive
<1>4. ChunksArePrefix'
  <2>1. \A c, e \in chunks : e.document_id = c.document_id =>
          (c \in chunks' <=> e \in chunks')
    BY <1>1
  <2>2. chunks' \subseteq chunks
    BY <1>1
  <2> QED
    BY <2>1, <2>2 DEF SeqInv, ChunksArePrefix
<1>5. ASSUME NEW o \in Ingests PROVE Progress(o)' /\ Counted(o)'
  <2>1. CASE o = r
    <3>1. task[r].next = 0 /\ ChunksOf(task[r].doc)' = {}
      BY <1>1 DEF SeqInv, Progress, Before, ChunksOf
    <3> QED
      BY <1>1, <1>2, <2>1, <3>1 DEF SeqInv, Progress, Counted, Before
  <2>2. CASE o # r
    <3>1. ipc'[o] = ipc[o] /\ task'[o] = task[o]
      BY <1>1, <1>2, <2>2
    <3>2. ipc[o] = "insert" => ChunksOf(task[o].doc)' = ChunksOf(task[o].doc)
      BY <1>1, <2>2, <3>1, OthersDiffer DEF ChunksOf
    <3> QED
      BY <1>1, <3>1, <3>2 DEF SeqInv, Progress, Counted
  <2> QED
    BY <2>1, <2>2
<1> QED
  BY <1>3, <1>4, <1>5 DEF SeqInv

\* An INSERT adds the next piece.
LEMMA InsertSeq ==
  ASSUME SeqInv, IInv', NEW r \in Ingests, InsertNext(r) PROVE SeqInv'
<1> DEFINE doc == task[r].doc
           new == [id |-> seq.chunks + 1, document_id |-> doc,
                   workspace |-> upload[r].ws, collection_id |-> task[r].col,
                   ordinal |-> task[r].next, content |-> upload[r].content]
<1>1. /\ chunks' = chunks \cup {new} /\ UNCHANGED <<documents, upload, ipc>>
      /\ ipc[r] = "insert" /\ task' = [task EXCEPT ![r].next = @ + 1]
  BY DEF InsertNext, InsertChunk
<1>2. /\ task \in [Ingests -> Task] /\ task[r].next \in Nat
      /\ \A c \in chunks : c.ordinal \in Nat
  BY DEF SeqInv, IInv, TypeOK, IngestTypeOK, Task, StoreTypeOK, ChunkRow
<1>3. /\ task'[r].next = task[r].next + 1 /\ task'[r].doc = doc
      /\ task'[r].col = task[r].col /\ task'[r].nvec = task[r].nvec
      /\ \A o \in Ingests \ {r} : task'[o] = task[o]
  BY <1>1, <1>2 DEF Task
<1>4. Alone' /\ KeysAreUnique'
  BY <1>1 DEF SeqInv, Alone, DocOf, KeysAreUnique
<1>5. /\ \A c \in chunks : c.document_id = doc => c.ordinal < task[r].next
      /\ \A i \in 0 .. task[r].next - 1 :
           \E c \in chunks : c.document_id = doc /\ c.ordinal = i
      /\ \A c \in chunks : c.document_id = doc =>
           c.collection_id = task[r].col /\ c.content = upload[r].content
  BY <1>1 DEF SeqInv, Progress, ChunksOf
<1>6. /\ new.document_id = doc /\ new.ordinal = task[r].next
      /\ new.collection_id = task[r].col /\ new.content = upload[r].content
  OBVIOUS
<1> HIDE DEF new
<1>7. ChunksArePrefix'
  <2>1. ASSUME NEW c \in chunks', NEW e \in chunks',
               e.document_id = c.document_id, e.ordinal = c.ordinal
        PROVE  e = c
    <3>1. CASE c \in chunks /\ e \in chunks
      BY <2>1, <3>1 DEF SeqInv, ChunksArePrefix
    <3>2. CASE c = new /\ e = new
      BY <3>2
    <3>3. CASE c = new /\ e \in chunks
      BY <1>2, <1>5, <1>6, <2>1, <3>3
    <3>4. CASE e = new /\ c \in chunks
      BY <1>2, <1>5, <1>6, <2>1, <3>4
    <3> QED
      BY <1>1, <3>1, <3>2, <3>3, <3>4
  <2>2. ASSUME NEW c \in chunks', NEW i \in 0 .. c.ordinal
        PROVE  \E e \in chunks' : e.document_id = c.document_id /\ e.ordinal = i
    <3>1. CASE c \in chunks
      BY <1>1, <2>2, <3>1 DEF SeqInv, ChunksArePrefix
    <3>2. CASE c = new /\ i = task[r].next
      BY <1>1, <1>6, <3>2
    <3>3. CASE c = new /\ i # task[r].next
      <4>1. i \in 0 .. task[r].next - 1
        BY <1>2, <1>6, <2>2, <3>3
      <4> QED
        BY <1>1, <1>5, <1>6, <3>3, <4>1
    <3> QED
      BY <1>1, <3>1, <3>2, <3>3
  <2> QED
    BY <2>1, <2>2 DEF ChunksArePrefix
<1>8. ASSUME NEW o \in Ingests PROVE Progress(o)' /\ Counted(o)'
  <2>1. CASE o = r
    <3>1. ASSUME NEW c \in chunks', c.document_id = doc
          PROVE  /\ c.ordinal < task[r].next + 1
                 /\ c.collection_id = task[r].col /\ c.content = upload[r].content
      BY <1>1, <1>2, <1>5, <1>6, <3>1
    <3>2. ASSUME NEW i \in 0 .. task[r].next
          PROVE  \E c \in chunks' : c.document_id = doc /\ c.ordinal = i
      <4>1. CASE i = task[r].next
        BY <1>1, <1>6, <4>1
      <4>2. CASE i # task[r].next
        <5>1. i \in 0 .. task[r].next - 1
          BY <1>2, <4>2
        <5> QED
          BY <1>1, <1>5, <5>1
      <4> QED
        BY <4>1, <4>2
    <3>3. task[r].next + 1 - 1 = task[r].next
      BY <1>2
    <3>4. Progress(r)'
      <4>1. ipc'[r] \notin Before
        BY <1>1 DEF Before
      <4>2. ChunksOf(task[r].doc)' = {c \in chunks' : c.document_id = doc}
        BY <1>3 DEF ChunksOf
      <4>3. task'[r].next - 1 = task[r].next
        <5>1. ASSUME NEW m \in Nat, NEW n, n = m + 1 PROVE n - 1 = m
          BY <5>1
        <5> QED
          BY <1>2, <1>3, <5>1
      <4> HIDE DEF doc
      <4>4. ASSUME NEW c \in ChunksOf(task[r].doc)'
            PROVE  /\ c.ordinal < task'[r].next
                   /\ c.collection_id = task'[r].col /\ c.content = upload'[r].content
        BY <1>1, <1>3, <3>1, <4>2
      <4>5. ASSUME NEW i \in 0 .. task'[r].next - 1
            PROVE  \E c \in ChunksOf(task[r].doc)' : c.ordinal = i
        <5>1. PICK c \in chunks' : c.document_id = doc /\ c.ordinal = i
          BY <3>2, <4>3
        <5> QED
          BY <4>2, <5>1
      <4> QED
        BY <1>1, <4>1, <4>4, <4>5 DEF Progress
    <3>5. Counted(r)'
      BY <1>1, <1>3 DEF SeqInv, Counted
    <3> QED
      BY <2>1, <3>4, <3>5
  <2>2. CASE o # r
    <3>1. ipc[o] = "insert" => ChunksOf(task[o].doc)' = ChunksOf(task[o].doc)
      <4>1. ipc[o] = "insert" => task[o].doc # doc
        BY <1>1, <2>2, OthersDiffer
      <4> QED
        BY <1>1, <1>3, <1>6, <2>2, <4>1 DEF ChunksOf
    <3> QED
      BY <1>1, <1>3, <2>2, <3>1 DEF SeqInv, Progress, Counted
  <2> QED
    BY <2>1, <2>2
<1> QED
  BY <1>4, <1>7, <1>8 DEF SeqInv

-----------------------------------------------------------------------------
(* The invariant is inductive. *)

LEMMA SeqInvInit == Init => SeqInv
<1> SUFFICES ASSUME Init PROVE SeqInv
  OBVIOUS
<1>1. IInv
  BY IInvInit
<1> QED
  BY <1>1
     DEF SeqInv, Init, StoreInit, IngestInit, Alone, KeysAreUnique,
         ChunksArePrefix, Progress, Counted, IngestActive, ChunksOf

\* The steps of one request.
LEMMA ServeSeq ==
  ASSUME SeqInv, IInv', NEW r \in Ingests, IngestStep(r), MaySend(r)
  PROVE  SeqInv'
<1> USE DEF storeVars
<1>1. /\ ipc \in [Ingests -> {"idle"} \cup IngestActive \cup IngestOver]
      /\ task \in [Ingests -> Task] /\ upload \in [Ingests -> Upload]
  BY DEF SeqInv, IInv, TypeOK, IngestTypeOK
<1>2. Counted(r) /\ Progress(r)
  BY DEF SeqInv
<1>3. documents' = documents => KeysAreUnique'
  BY DEF SeqInv, KeysAreUnique
<1>4. CASE Admit(r)
  <2>1. /\ ipc[r] = "idle" /\ ipc' = [ipc EXCEPT ![r] = "admitted"]
        /\ UNCHANGED <<chunks, documents, upload, task>>
    BY <1>4 DEF Admit, Goto
  <2>2. \A o \in Ingests : DocOf(o) = DocOf(r) => ipc[o] \notin IngestActive
    BY <1>1, <2>1 DEF MaySend
  <2>3. Counted(r)'
    BY <1>1, <2>1 DEF Counted
  <2> QED
    BY <1>3, <2>1, <2>2, <2>3, AdvanceSeq DEF Before
<1>5. CASE Validate(r)
  <2>1. PICK to \in {"collection", "rejected"} :
           /\ ipc[r] = "admitted" /\ ipc' = [ipc EXCEPT ![r] = to]
           /\ to = "collection" => Pieces[upload[r].content] > 0
           /\ UNCHANGED <<chunks, documents, upload, task>>
    BY <1>5 DEF Validate, Goto
  <2>2. Counted(r)'
    BY <1>1, <2>1 DEF Counted
  <2> QED
    BY <1>3, <2>1, <2>2, AdvanceSeq DEF Before, IngestActive
<1>6. CASE ResolveCollection(r)
  <2>1. /\ ipc[r] = "collection" /\ ipc' = [ipc EXCEPT ![r] = "document"]
        /\ UNCHANGED <<chunks, documents, upload>>
        /\ task' = [task EXCEPT ![r].col = CollectionIdFor(upload[r].ws, upload[r].name)]
    BY <1>6 DEF ResolveCollection, UpsertCollection, Goto
  <2>2. task'[r].next = task[r].next /\ \A o \in Ingests \ {r} : task'[o] = task[o]
    BY <1>1, <2>1 DEF Task
  <2>3. Counted(r)'
    BY <1>1, <1>2, <2>1 DEF Counted
  <2> QED
    BY <1>3, <2>1, <2>2, <2>3, AdvanceSeq DEF Before, IngestActive
<1>7. CASE ResolveDocument(r)
  <2>1. /\ ipc[r] = "document" /\ ipc' = [ipc EXCEPT ![r] = "embed"]
        /\ UNCHANGED <<chunks, upload>>
        /\ UpsertDocument(upload[r].ws, ShaOf(r), upload[r].file)
        /\ task' = [task EXCEPT ![r].doc = DocumentIdFor(upload[r].ws, ShaOf(r))]
    BY <1>7 DEF ResolveDocument, UpsertDocument, Goto
  <2>2. task'[r].next = task[r].next /\ \A o \in Ingests \ {r} : task'[o] = task[o]
    BY <1>1, <2>1 DEF Task
  <2>3. Counted(r)'
    BY <1>1, <1>2, <2>1 DEF Counted
  <2>4. KeysAreUnique'
    <3>1. documents \subseteq DocumentRow
      BY DEF SeqInv, IInv, TypeOK, StoreTypeOK
    <3> QED
      BY <2>1, <3>1, UpsertKeepsKeys DEF SeqInv
  <2> QED
    BY <2>1, <2>2, <2>3, <2>4, AdvanceSeq DEF Before, IngestActive
<1>8. CASE Embed(r)
  <2>1. PICK k \in VectorCounts(Pieces[upload[r].content]) :
           /\ ipc[r] = "embed" /\ ipc' = [ipc EXCEPT ![r] = "delete"]
           /\ UNCHANGED <<chunks, documents, upload>>
           /\ task' = [task EXCEPT ![r].nvec = k]
    BY <1>8 DEF Embed, Goto
  <2>2. /\ task'[r].next = task[r].next /\ task'[r].nvec = k
        /\ \A o \in Ingests \ {r} : task'[o] = task[o]
    BY <1>1, <2>1 DEF Task
  <2>3. ShortReplies \/ k = Pieces[upload[r].content]
    BY <2>1 DEF VectorCounts
  <2>4. Counted(r)'
    BY <1>1, <1>2, <2>1, <2>2, <2>3 DEF Counted
  <2> QED
    BY <1>3, <2>1, <2>2, <2>4, AdvanceSeq DEF Before, IngestActive
<1>9. CASE DeleteOld(r)
  BY <1>9, DeleteSeq
<1>10. CASE InsertNext(r)
  BY <1>10, InsertSeq
<1>11. CASE Respond(r)
  <2>1. /\ ipc[r] = "insert" /\ ipc' = [ipc EXCEPT ![r] = "done"]
        /\ UNCHANGED <<chunks, documents, upload, task>>
    BY <1>11 DEF Respond, Goto
  <2>2. Counted(r)'
    BY <1>1, <2>1 DEF Counted
  <2> QED
    BY <1>3, <2>1, <2>2, AdvanceSeq DEF Before, IngestActive
<1> QED
  BY <1>4, <1>5, <1>6, <1>7, <1>8, <1>9, <1>10, <1>11 DEF IngestStep

LEMMA SeqInvNext == SeqInv /\ [SeqNext]_vars => SeqInv'
<1> SUFFICES ASSUME SeqInv, [SeqNext]_vars PROVE SeqInv'
  OBVIOUS
<1> USE DEF storeVars, ingestVars, queryVars
<1>1. IInv'
  BY IInvNext DEF SeqInv, SeqNext, Next
<1>2. ipc \in [Ingests -> {"idle"} \cup IngestActive \cup IngestOver]
  BY DEF SeqInv, IInv, TypeOK, IngestTypeOK
<1>3. documents' = documents => KeysAreUnique'
  BY DEF SeqInv, KeysAreUnique
<1>4. ASSUME NEW r \in Ingests, ServeIngest(r), MaySend(r) PROVE SeqInv'
  BY <1>1, <1>4, ServeSeq DEF ServeIngest
<1>5. CASE UNCHANGED <<chunks, documents, ingestVars>>
  BY <1>1, <1>5, StillSeq
<1>6. ASSUME NEW r \in Ingests, FailIngest(r) PROVE SeqInv'
  <2>1. /\ ipc' = [ipc EXCEPT ![r] = "failed"]
        /\ UNCHANGED <<chunks, documents, upload, task>>
    BY <1>6 DEF FailIngest
  <2>2. Counted(r)'
    BY <1>2, <2>1 DEF Counted
  <2> QED
    BY <1>1, <1>3, <2>1, <2>2, AdvanceSeq DEF Before, IngestActive
<1>7. CASE Crash
  <2>1. /\ \A o \in Ingests : ipc'[o] = IF ipc[o] \in IngestActive THEN "lost" ELSE ipc[o]
        /\ UNCHANGED <<chunks, documents, upload, task>>
    BY <1>7 DEF Crash, LoseIngests
  <2>2. Alone' /\ \A o \in Ingests : Counted(o)'
    BY <2>1 DEF Alone, Counted, IngestActive
  <2> QED
    BY <1>1, <1>3, <2>1, <2>2, QuietSeq DEF Before, IngestActive
<1>8. ASSUME NEW q \in Queries, ServeQuery(q)
      PROVE  UNCHANGED <<chunks, documents, ingestVars>>
  BY <1>8 DEF ServeQuery, QueryStep, AdmitQuery, EmbedQuestion, Retrieve,
              ChatAnswers, ChatRefuses
<1>9. ASSUME NEW ws, NEW name, NEW desc, CreateCollection(ws, name, desc)
      PROVE  UNCHANGED <<chunks, documents, ingestVars>>
  BY <1>9 DEF CreateCollection, UpsertCollection
<1>10. CASE (\E q \in Queries : FailQuery(q)) /\ UNCHANGED ingestVars
  BY <1>5, <1>10 DEF FailQuery
<1>11. CASE UNCHANGED vars
  BY <1>5, <1>11 DEF vars
<1> QED
  BY <1>4, <1>5, <1>6, <1>7, <1>8, <1>9, <1>10, <1>11 DEF SeqNext, Meanwhile, Fail

THEOREM SeqInvariance == SeqSpec => []SeqInv
BY SeqInvInit, SeqInvNext, PTL DEF SeqSpec

-----------------------------------------------------------------------------
(* What is complete depends on the chunks alone. *)

RowsFrom(d) == {c \in chunks : c.workspace = d[1] /\ Sha[c.content] = d[2]}

WholeAs(d, content, b) ==
  /\ Cardinality(RowsFrom(d)) = Pieces[content]
  /\ {c.ordinal : c \in RowsFrom(d)} = 0 .. Pieces[content] - 1
  /\ \A c \in RowsFrom(d) : c.collection_id = b /\ c.content = content

WholeIn(d, b) ==
  /\ RowsFrom(d) # {}
  /\ \E content \in Content : Sha[content] = d[2] /\ WholeAs(d, content, b)

\* The rows a document's key finds are the chunks with its workspace and
\* its bytes.
LEMMA RowsAreFrom ==
  ASSUME IInv, NEW d \in Docs PROVE RowsOf(d) = RowsFrom(d)
<1>1. ASSUME NEW c \in RowsOf(d) PROVE c \in RowsFrom(d)
  <2>1. PICK row \in documents :
           row.workspace = d[1] /\ row.content_sha = d[2] /\ c.document_id = row.id
    BY <1>1 DEF RowsOf, DocumentsOf
  <2>2. c \in chunks
    BY <1>1 DEF RowsOf
  <2>3. PICK e \in documents : /\ e.id = c.document_id
                               /\ e.workspace = c.workspace
                               /\ e.content_sha = Sha[c.content]
    BY <2>2 DEF IInv, WorkspaceConsistent
  <2> QED
    BY <2>1, <2>2, <2>3 DEF IInv, IdsAreUnique, RowsFrom
<1>2. ASSUME NEW c \in RowsFrom(d) PROVE c \in RowsOf(d)
  BY <1>2 DEF RowsFrom, RowsOf, DocumentsOf, IInv, WorkspaceConsistent
<1> QED
  BY <1>1, <1>2

LEMMA CompleteIsWhole ==
  ASSUME IInv, NEW d \in Docs, NEW b PROVE CompleteIn(d, b) <=> WholeIn(d, b)
BY RowsAreFrom DEF CompleteIn, CompleteAs, WholeIn, WholeAs

\* A complete document is in the collection of its rows, which exists.
LEMMA HomesAreWhole ==
  ASSUME IInv, NEW d \in Docs PROVE Homes(d) = {b \in Id : WholeIn(d, b)}
<1>1. \A k \in collections : k.id \in Id
  BY DEF IInv, TypeOK, StoreTypeOK, CollectionRow
<1>2. \A c \in RowsFrom(d) : c.collection_id \in Id
  BY <1>1 DEF RowsFrom, IInv, WorkspaceConsistent
<1>3. Homes(d) = {b \in {c.collection_id : c \in RowsFrom(d)} : WholeIn(d, b)}
  BY CompleteIsWhole, RowsAreFrom DEF Homes
<1>4. ASSUME NEW b, WholeIn(d, b) PROVE \E c \in RowsFrom(d) : c.collection_id = b
  BY <1>4 DEF WholeIn, WholeAs
<1> QED
  BY <1>2, <1>3, <1>4

HomesFromChunks ==
  IInv => \A d \in Docs : Homes(d) = {b \in Id : WholeIn(d, b)}

LEMMA HomesNow == HomesFromChunks
BY HomesAreWhole DEF HomesFromChunks

LEMMA HomesNext == HomesFromChunks'
BY HomesNow, PTL

LEMMA HomesStay ==
  ASSUME IInv, IInv', NEW d \in Docs, RowsFrom(d)' = RowsFrom(d)
  PROVE  Homes(d)' = Homes(d)
<1>1. ASSUME NEW b PROVE WholeIn(d, b)' <=> WholeIn(d, b)
  BY DEF WholeIn, WholeAs
<1>2. Homes(d)' = {b \in Id : WholeIn(d, b)'}
  BY HomesNext DEF HomesFromChunks
<1> QED
  BY <1>1, <1>2, HomesAreWhole

LEMMA OneEach ==
  ASSUME NEW S, NEW T, NEW f \in [S -> T],
         \A a, b \in S : f[a] = f[b] => a = b,
         \A t \in T : \E a \in S : f[a] = t
  PROVE  ExistsBijection(S, T)
<1>1. f \in Injection(S, T)
  BY DEF Injection, IsInjective
<1>2. f \in Surjection(S, T)
  BY DEF Surjection
<1> QED
  BY <1>1, <1>2 DEF ExistsBijection, Bijection

\* A request that has inserted all its pieces leaves its document complete.
LEMMA InsertedIsWhole ==
  ASSUME SeqInv, ~ShortReplies, NEW r \in Ingests, ipc[r] = "insert",
         task[r].next = task[r].nvec
  PROVE  /\ RowsOf(DocOf(r)) # {}
         /\ CompleteAs(DocOf(r), upload[r].content, task[r].col)
<1> DEFINE d == DocOf(r)
           n == Pieces[upload[r].content]
           rows == ChunksOf(task[r].doc)
<1>1. d \in Docs /\ n \in Nat /\ n > 0 /\ task[r].next = n
  BY StoreAssumption
     DEF SeqInv, IInv, TypeOK, IngestTypeOK, Upload, Counted, Docs, Digest, DocOf
<1>2. RowsOf(d) = rows
  <2>1. PICK row \in documents : HasDocument(r, row)
    BY DEF SeqInv, IInv, TasksAreCurrent
  <2>2. row \in DocumentsOf(d[1], d[2]) /\ row.id = task[r].doc
    BY <2>1 DEF HasDocument, DocumentsOf, DocOf
  <2>3. \A e \in DocumentsOf(d[1], d[2]) : e.id = task[r].doc
    BY <2>2 DEF DocumentsOf, SeqInv, KeysAreUnique
  <2> QED
    BY <2>2, <2>3 DEF RowsOf, ChunksOf
<1>3. /\ \A c \in rows :
           c.ordinal < n /\ c.collection_id = task[r].col /\ c.content = upload[r].content
      /\ \A i \in 0 .. n - 1 : \E c \in rows : c.ordinal = i
  BY <1>1 DEF SeqInv, Progress
<1>4. \A c \in rows : c.ordinal \in 0 .. n - 1
  BY <1>1, <1>3 DEF SeqInv, IInv, TypeOK, StoreTypeOK, ChunkRow, ChunksOf
<1>5. {c.ordinal : c \in rows} = 0 .. n - 1
  BY <1>3, <1>4
<1>6. \A c, e \in rows : c.ordinal = e.ordinal => c = e
  BY DEF ChunksOf, SeqInv, ChunksArePrefix
<1>7. Cardinality(rows) = n
  <2> DEFINE at == [i \in 0 .. n - 1 |-> CHOOSE c \in rows : c.ordinal = i]
  <2>1. \A i \in 0 .. n - 1 : at[i] \in rows /\ at[i].ordinal = i
    BY <1>3
  <2>2. at \in [0 .. n - 1 -> rows]
    BY <2>1
  <2>3. \A i, j \in 0 .. n - 1 : at[i] = at[j] => i = j
    BY <2>1
  <2>4. \A c \in rows : \E i \in 0 .. n - 1 : at[i] = c
    BY <1>4, <1>6, <2>1
  <2> HIDE DEF at, rows
  <2>5. ExistsBijection(0 .. n - 1, rows)
    <3>1. ASSUME NEW S, NEW f, f \in [S -> rows],
                 \A i, j \in S : f[i] = f[j] => i = j,
                 \A c \in rows : \E i \in S : f[i] = c
          PROVE  ExistsBijection(S, rows)
      BY <3>1, OneEach
    <3> HIDE DEF n, d
    <3> QED
      BY <2>2, <2>3, <2>4, <3>1
  <2>6. IsFiniteSet(0 .. n - 1) /\ Cardinality(0 .. n - 1) = n
    <3>1. 0 \in Int /\ n - 1 \in Int /\ ~(0 > n - 1) /\ (n - 1) - 0 + 1 = n
      BY <1>1
    <3> HIDE DEF n
    <3> QED
      BY <3>1, FS_Interval
  <2> QED
    BY <2>5, <2>6, FS_Bijection
<1>8. rows # {}
  BY <1>1, <1>3
<1> HIDE DEF rows, n
<1> QED
  BY <1>2, <1>3, <1>5, <1>7, <1>8 DEF CompleteAs, n

\* So its document is complete in its collection.
LEMMA InsertedIsHome ==
  ASSUME IInv, NEW r \in Ingests, RowsOf(DocOf(r)) # {},
         CompleteAs(DocOf(r), upload[r].content, task[r].col)
  PROVE  /\ CompleteIn(DocOf(r), task[r].col)
         /\ WholeIn(DocOf(r), task[r].col)
         /\ WholeAs(DocOf(r), upload[r].content, task[r].col)
<1>1. upload[r].content \in Content /\ DocOf(r) \in Docs /\ DocOf(r)[2] = ShaOf(r)
  BY DEF IInv, TypeOK, IngestTypeOK, Upload, Docs, Digest, DocOf
<1>2. CompleteIn(DocOf(r), task[r].col)
  BY <1>1 DEF CompleteIn
<1> QED
  BY <1>1, <1>2, CompleteIsWhole, RowsAreFrom DEF CompleteAs, WholeAs

-----------------------------------------------------------------------------
(* The abstract index under a step. *)

LEMMA DocsOfRequests ==
  ASSUME IInv, NEW r \in Ingests
  PROVE  DocOf(r) \in Docs /\ (ipc[r] = "insert" => DocOf(r) \in rebuildingDocs)
BY DEF IInv, TypeOK, IngestTypeOK, Upload, DocOf, Docs, Digest, rebuildingDocs, Rebuilds

\* A document that is not under rebuild and whose rows do not change keeps
\* its home.
LEMMA HomeStays ==
  ASSUME IInv, IInv', NEW d \in Docs, RowsFrom(d)' = RowsFrom(d),
         d \in rebuildingDocs' <=> d \in rebuildingDocs
  PROVE  homeOf'[d] = homeOf[d]
<1>1. Homes(d)' = Homes(d)
  BY HomesStay
<1>2. Docs' = Docs
  BY DEF Docs
<1> QED
  BY <1>1, <1>2 DEF homeOf

LEMMA HomesAreEqual ==
  ASSUME \A d \in Docs : homeOf'[d] = homeOf[d] PROVE homeOf' = homeOf
<1>1. homeOf = [d \in Docs |-> homeOf[d]] /\ homeOf' = [d \in Docs |-> homeOf'[d]]
  BY DEF homeOf, Docs
<1> QED
  BY <1>1

\* A step that moves no chunk and no request in or out of its INSERTs.
LEMMA IndexStutters ==
  ASSUME IInv, IInv', UNCHANGED <<chunks, upload>>,
         \A r \in Ingests : /\ ipc'[r] = "insert" <=> ipc[r] = "insert"
                            /\ ipc'[r] = "done" <=> ipc[r] = "done"
  PROVE  UNCHANGED Index!IndexVars
<1>1. rebuildingDocs' = rebuildingDocs
  BY DEF rebuildingDocs, Rebuilds, Docs, DocOf
<1>2. succeeded' = succeeded
  BY DEF succeeded
<1>3. \A d \in Docs : RowsFrom(d)' = RowsFrom(d)
  BY DEF RowsFrom
<1>4. \A d \in Docs : homeOf'[d] = homeOf[d]
  BY <1>1, <1>3, HomeStays
<1>5. homeOf' = homeOf
  BY <1>4, HomesAreEqual
<1> QED
  BY <1>1, <1>2, <1>5 DEF Index!IndexVars

\* The rebuilds of D stop.
LEMMA IndexFinishes ==
  ASSUME IInv, IInv', UNCHANGED <<chunks, upload>>,
         NEW D \in SUBSET rebuildingDocs, D # {},
         rebuildingDocs' = rebuildingDocs \ D
  PROVE  /\ Index!Finish(D)
         /\ \A d \in D : /\ homeOf'[d] \in Id \cup {Nowhere}
                         /\ (\E b \in Id : WholeIn(d, b)) => homeOf'[d] \in Id
<1>1. D \subseteq Docs
  BY DEF rebuildingDocs
<1>2. \A e \in Docs : RowsFrom(e)' = RowsFrom(e)
  BY DEF RowsFrom
<1>3. \A e \in Docs \ D : homeOf'[e] = homeOf[e]
  BY <1>2, HomeStays
<1>4. homeOf' = [e \in Docs |-> IF e \in D THEN homeOf'[e] ELSE homeOf[e]]
  <2>1. homeOf' = [e \in Docs |-> homeOf'[e]]
    BY DEF homeOf, Docs
  <2> QED
    BY <1>3, <2>1
<1>5. ASSUME NEW d \in D
      PROVE  /\ homeOf'[d] \in Id \cup {Nowhere}
             /\ (\E b \in Id : WholeIn(d, b)) => homeOf'[d] \in Id
  <2>1. Homes(d)' = {b \in Id : WholeIn(d, b)}
    BY <1>1, <1>2, HomesStay, HomesAreWhole
  <2>2. homeOf'[d] = IF Homes(d)' = {} THEN Nowhere ELSE CHOOSE b \in Homes(d)' : TRUE
    BY <1>1 DEF homeOf, Docs
  <2> QED
    BY <2>1, <2>2
<1> QED
  BY <1>4, <1>5 DEF Index!Finish

\* A request that stops inserting stops one rebuild.
LEMMA OneStops ==
  ASSUME SeqInv, upload' = upload, NEW r \in Ingests, NEW to, ipc[r] = "insert",
         to # "insert", ipc' = [ipc EXCEPT ![r] = to]
  PROVE  {DocOf(r)} \in SUBSET rebuildingDocs
         /\ rebuildingDocs' = rebuildingDocs \ {DocOf(r)}
<1>1. DocOf(r) \in rebuildingDocs
  BY DocsOfRequests DEF SeqInv
<1>2. \A o \in Ingests : ipc'[o] = IF o = r THEN to ELSE ipc[o]
  BY DEF SeqInv, IInv, TypeOK, IngestTypeOK
<1>3. \A o \in Ingests : ipc[o] = "insert" /\ DocOf(o) = DocOf(r) => o = r
  BY DEF SeqInv, Alone, IngestActive
<1>4. \A e \in Docs : (\E o \in Ingests : Rebuilds(o, e)') <=>
                       (\E o \in Ingests : Rebuilds(o, e)) /\ e # DocOf(r)
  BY <1>2, <1>3 DEF Rebuilds, DocOf
<1> QED
  BY <1>1, <1>4 DEF rebuildingDocs, Docs

\* The chunks of a request's document are those of its workspace and
\* bytes.
LEMMA OwnRows ==
  ASSUME IInv, NEW r \in Ingests, ipc[r] \in {"delete", "insert"}, NEW c \in chunks
  PROVE  c.document_id = task[r].doc =>
           c.workspace = upload[r].ws /\ Sha[c.content] = ShaOf(r)
<1>1. PICK d \in documents : HasDocument(r, d)
  BY DEF IInv, TasksAreCurrent
<1>2. PICK e \in documents : /\ e.id = c.document_id
                             /\ e.workspace = c.workspace
                             /\ e.content_sha = Sha[c.content]
  BY DEF IInv, WorkspaceConsistent
<1> QED
  BY <1>1, <1>2 DEF IInv, IdsAreUnique, HasDocument

\* The DELETE begins the rebuild.
LEMMA IndexBegins ==
  ASSUME SeqInv, IInv', NEW r \in Ingests, DeleteOld(r),
         NEW d \in Docs, d = DocOf(r)
  PROVE  Index!Begin(d)
<1>0. IInv
  BY DEF SeqInv
<1>1. /\ ipc[r] = "delete" /\ ipc' = [ipc EXCEPT ![r] = "insert"]
      /\ chunks' = {c \in chunks : c.document_id # task[r].doc}
      /\ UNCHANGED upload
  BY DEF DeleteOld, DeleteChunks, ChunksOf, Goto
<1>2. \A o \in Ingests : ipc'[o] = IF o = r THEN "insert" ELSE ipc[o]
  BY <1>0, <1>1 DEF IInv, TypeOK, IngestTypeOK
<1>3. \A o \in Ingests : ipc[o] = "insert" => DocOf(o) # d
  BY <1>1 DEF SeqInv, Alone, IngestActive
<1>4. d \notin rebuildingDocs
  BY <1>3 DEF rebuildingDocs, Rebuilds
<1>5. rebuildingDocs' = rebuildingDocs \cup {d}
  <2>1. \A e \in Docs : (\E o \in Ingests : Rebuilds(o, e)') <=>
                         (\E o \in Ingests : Rebuilds(o, e)) \/ e = d
    BY <1>1, <1>2, <1>3 DEF Rebuilds, DocOf
  <2> QED
    BY <2>1 DEF rebuildingDocs, Docs
<1>6. ASSUME NEW e \in Docs \ {d} PROVE RowsFrom(e)' = RowsFrom(e)
  <2>1. ASSUME NEW c \in RowsFrom(e) PROVE c.document_id # task[r].doc
    <3>1. c \in chunks /\ c.workspace = e[1] /\ Sha[c.content] = e[2]
      BY <2>1 DEF RowsFrom
    <3>2. ~(e[1] = upload[r].ws /\ e[2] = ShaOf(r))
      BY <1>6 DEF DocOf, Docs
    <3> QED
      BY <1>0, <1>1, <3>1, <3>2, OwnRows
  <2> QED
    BY <1>1, <2>1 DEF RowsFrom
<1>7. \A e \in Docs \ {d} : homeOf'[e] = homeOf[e]
  BY <1>0, <1>4, <1>5, <1>6, HomeStays
<1>8. homeOf'[d] = Nowhere
  BY <1>5 DEF homeOf, Docs
<1>9. homeOf' = [homeOf EXCEPT ![d] = Nowhere]
  <2>1. homeOf = [e \in Docs |-> homeOf[e]] /\ homeOf' = [e \in Docs |-> homeOf'[e]]
    BY DEF homeOf, Docs
  <2> QED
    BY <1>7, <1>8, <2>1
<1>10. succeeded' = succeeded
  BY <1>1, <1>2 DEF succeeded
<1> QED
  BY <1>4, <1>5, <1>9, <1>10 DEF Index!Begin

\* An INSERT shows nobody anything: its document is under rebuild.
LEMMA IndexWaits ==
  ASSUME SeqInv, IInv', NEW r \in Ingests, InsertNext(r)
  PROVE  UNCHANGED Index!IndexVars
<1>0. IInv
  BY DEF SeqInv
<1>1. /\ ipc[r] = "insert" /\ UNCHANGED <<ipc, upload>>
      /\ \E c : /\ chunks' = chunks \cup {c}
                /\ c.workspace = upload[r].ws /\ Sha[c.content] = ShaOf(r)
  <2> DEFINE c == [id |-> seq.chunks + 1, document_id |-> task[r].doc,
                   workspace |-> upload[r].ws, collection_id |-> task[r].col,
                   ordinal |-> task[r].next, content |-> upload[r].content]
  <2>1. /\ ipc[r] = "insert" /\ UNCHANGED <<ipc, upload>>
        /\ chunks' = chunks \cup {c}
    BY DEF InsertNext, InsertChunk
  <2>2. c.workspace = upload[r].ws /\ Sha[c.content] = ShaOf(r)
    OBVIOUS
  <2> HIDE DEF c
  <2> QED
    BY <2>1, <2>2
<1>2. rebuildingDocs' = rebuildingDocs /\ succeeded' = succeeded
  BY <1>1 DEF rebuildingDocs, Rebuilds, succeeded, Docs, DocOf
<1>3. PICK d \in Docs : d = DocOf(r) /\ d \in rebuildingDocs
  BY <1>0, <1>1, DocsOfRequests
<1>4. ASSUME NEW e \in Docs \ {d} PROVE homeOf'[e] = homeOf[e]
  <2>1. ~(e[1] = upload[r].ws /\ e[2] = ShaOf(r))
    BY <1>3, <1>4 DEF DocOf, Docs
  <2>2. RowsFrom(e)' = RowsFrom(e)
    BY <1>1, <2>1 DEF RowsFrom
  <2> QED
    BY <1>0, <1>2, <2>2, HomeStays
<1>5. homeOf[d] = Nowhere /\ homeOf'[d] = Nowhere
  BY <1>2, <1>3 DEF homeOf, Docs
<1>6. homeOf' = homeOf
  BY <1>4, <1>5, HomesAreEqual
<1> QED
  BY <1>2, <1>6 DEF Index!IndexVars

LEMMA IndexInitially == Init => Index!IndexInit
<1> SUFFICES ASSUME Init PROVE Index!IndexInit
  OBVIOUS
<1>1. chunks = {} /\ \A r \in Ingests : ipc[r] = "idle"
  BY DEF Init, StoreInit, IngestInit
<1>2. rebuildingDocs = {} /\ succeeded = {}
  BY <1>1 DEF rebuildingDocs, Rebuilds, succeeded
<1>3. \A d \in Docs : Homes(d) = {}
  BY <1>1 DEF Homes, CompleteIn, RowsOf
<1>4. homeOf = [d \in Docs |-> Nowhere]
  BY <1>3 DEF homeOf
<1> QED
  BY <1>2, <1>4 DEF Index!IndexInit

\* A step of the service is a step of the index, or none.
LEMMA IndexStep ==
  ASSUME SeqInv, SeqInv', [SeqNext]_vars, ~ShortReplies
  PROVE  [Index!IndexNext]_(Index!IndexVars)
<1> USE DEF storeVars, ingestVars, queryVars
<1>0. /\ IInv /\ IInv'
      /\ ipc \in [Ingests -> {"idle"} \cup IngestActive \cup IngestOver]
  BY DEF SeqInv, IInv, TypeOK, IngestTypeOK
<1>1. CASE UNCHANGED <<chunks, ingestVars>>
  BY <1>0, <1>1, IndexStutters
<1>2. ASSUME NEW r \in Ingests, NEW to, UNCHANGED <<chunks, upload>>,
             ipc' = [ipc EXCEPT ![r] = to],
             ipc[r] \notin {"insert", "done"}, to \notin {"insert", "done"}
      PROVE  UNCHANGED Index!IndexVars
  BY <1>0, <1>2, IndexStutters
<1>3. ASSUME NEW r \in Ingests, IngestStep(r) PROVE [Index!IndexNext]_(Index!IndexVars)
  <2>1. CASE Admit(r)
    BY <1>2, <2>1 DEF Admit, Goto
  <2>2. CASE Validate(r)
    BY <1>2, <2>2 DEF Validate, Goto
  <2>3. CASE ResolveCollection(r)
    BY <1>2, <2>3 DEF ResolveCollection, UpsertCollection, Goto
  <2>4. CASE ResolveDocument(r)
    BY <1>2, <2>4 DEF ResolveDocument, UpsertDocument, Goto
  <2>5. CASE Embed(r)
    <3>1. /\ ipc[r] = "embed" /\ ipc' = [ipc EXCEPT ![r] = "delete"]
          /\ UNCHANGED <<chunks, upload>>
      BY <2>5 DEF Embed, Goto
    <3> QED
      BY <1>2, <3>1
  <2>6. CASE DeleteOld(r)
    <3>1. PICK d \in Docs : d = DocOf(r)
      BY <1>0, DocsOfRequests
    <3> QED
      BY <1>0, <2>6, <3>1, IndexBegins DEF Index!IndexNext
  <2>7. CASE InsertNext(r)
    BY <1>0, <2>7, IndexWaits
  <2>8. CASE Respond(r)
    <3>1. /\ ipc[r] = "insert" /\ ipc' = [ipc EXCEPT ![r] = "done"]
          /\ task[r].next = task[r].nvec /\ UNCHANGED <<chunks, upload>>
      BY <2>8 DEF Respond, Goto
    <3>2. PICK d \in Docs : d = DocOf(r)
      BY <1>0, DocsOfRequests
    <3>3. {d} \in SUBSET rebuildingDocs /\ rebuildingDocs' = rebuildingDocs \ {d}
      BY <3>1, <3>2, OneStops
    <3>4. WholeIn(d, task[r].col)
      BY <1>0, <3>1, <3>2, InsertedIsWhole, InsertedIsHome
    <3>5. task[r].col \in Id
      <4>1. PICK k \in collections : k.id = task[r].col
        BY <1>0, <3>1 DEF IInv, TasksAreCurrent, HasCollection
      <4> QED
        BY <1>0, <4>1 DEF IInv, TypeOK, StoreTypeOK, CollectionRow
    <3>6. Index!Finish({d}) /\ homeOf'[d] \in Id
      BY <1>0, <3>1, <3>2, <3>3, <3>4, <3>5, IndexFinishes
    <3>7. r \in Ingests \ succeeded /\ succeeded' = succeeded \cup {r}
      BY <1>0, <3>1 DEF succeeded
    <3> QED
      BY <3>6, <3>7 DEF Index!IndexNext, Index!Publish
  <2> QED
    BY <1>3, <2>1, <2>2, <2>3, <2>4, <2>5, <2>6, <2>7, <2>8 DEF IngestStep
<1>4. ASSUME UNCHANGED <<chunks, upload>>,
             NEW D \in SUBSET rebuildingDocs, D # {}, rebuildingDocs' = rebuildingDocs \ D,
             \A o \in Ingests : ipc'[o] = "done" <=> ipc[o] = "done"
      PROVE  [Index!IndexNext]_(Index!IndexVars)
  <2>1. /\ Index!Finish(D)
        /\ \A d \in D : homeOf'[d] \in Id \cup {Nowhere}
    BY <1>0, <1>4, IndexFinishes
  <2>2. succeeded' = succeeded
    BY <1>4 DEF succeeded
  <2>3. D \in SUBSET Docs
    BY DEF rebuildingDocs
  <2> QED
    BY <2>1, <2>2, <2>3 DEF Index!IndexNext, Index!Abandon
<1>5. ASSUME NEW r \in Ingests, FailIngest(r) PROVE [Index!IndexNext]_(Index!IndexVars)
  <2>1. /\ ipc[r] \in IngestActive /\ ipc' = [ipc EXCEPT ![r] = "failed"]
        /\ UNCHANGED <<chunks, upload>>
    BY <1>5 DEF FailIngest
  <2>2. CASE ipc[r] = "insert"
    <3>1. \A o \in Ingests : ipc'[o] = "done" <=> ipc[o] = "done"
      BY <1>0, <2>1, <2>2
    <3>2. /\ {DocOf(r)} \in SUBSET rebuildingDocs
          /\ rebuildingDocs' = rebuildingDocs \ {DocOf(r)}
      BY <2>1, <2>2, OneStops
    <3> QED
      BY <1>4, <2>1, <3>1, <3>2
  <2>3. CASE ipc[r] # "insert"
    BY <1>2, <2>1, <2>3 DEF IngestActive
  <2> QED
    BY <2>2, <2>3
<1>6. CASE Crash
  <2>1. /\ \A o \in Ingests : ipc'[o] = IF ipc[o] \in IngestActive THEN "lost" ELSE ipc[o]
        /\ UNCHANGED <<chunks, upload>>
    BY <1>6 DEF Crash, LoseIngests
  <2>2. \A o \in Ingests : ipc'[o] # "insert" /\ (ipc'[o] = "done" <=> ipc[o] = "done")
    BY <2>1 DEF IngestActive
  <2>3. rebuildingDocs' = {}
    BY <2>2 DEF rebuildingDocs, Rebuilds
  <2>4. CASE rebuildingDocs # {}
    BY <1>4, <2>1, <2>2, <2>3, <2>4
  <2>5. CASE rebuildingDocs = {}
    <3>1. \A r \in Ingests : ipc[r] # "insert"
      BY <1>0, <2>5, DocsOfRequests
    <3> QED
      BY <1>0, <2>1, <2>2, <3>1, IndexStutters
  <2> QED
    BY <2>4, <2>5
<1>7. ASSUME NEW q \in Queries, ServeQuery(q)
      PROVE  UNCHANGED <<chunks, ingestVars>>
  BY <1>7 DEF ServeQuery, QueryStep, AdmitQuery, EmbedQuestion, Retrieve,
              ChatAnswers, ChatRefuses
<1>8. ASSUME NEW ws, NEW name, NEW desc, CreateCollection(ws, name, desc)
      PROVE  UNCHANGED <<chunks, ingestVars>>
  BY <1>8 DEF CreateCollection, UpsertCollection
<1>9. CASE (\E q \in Queries : FailQuery(q)) /\ UNCHANGED ingestVars
  BY <1>1, <1>9 DEF FailQuery
<1>10. CASE UNCHANGED vars
  BY <1>1, <1>10 DEF vars
<1> QED
  BY <1>1, <1>3, <1>5, <1>6, <1>7, <1>8, <1>9, <1>10
     DEF SeqNext, ServeIngest, Meanwhile, Fail

-----------------------------------------------------------------------------
(* The results. *)

\* Whatever fails or dies, a document holds its first pieces, each once.
THEOREM PiecesArePrefix == SeqSpec => []ChunksArePrefix
<1>1. SeqInv => ChunksArePrefix
  BY DEF SeqInv
<1> QED
  BY <1>1, SeqInvariance, PTL

\* If the provider returns a vector for every text, a request that succeeds
\* leaves every piece of its document stored once, in its collection.
THEOREM SuccessIsComplete == ASSUME ~ShortReplies PROVE SeqSpec => SuccessMeansComplete
<1> DEFINE Complete ==
      \A r \in Ingests :
        ipc[r] = "insert" /\ ipc'[r] = "done" =>
          /\ RowsOf(DocOf(r)) # {}
          /\ CompleteAs(DocOf(r), upload[r].content, task[r].col)
<1>1. SeqInv /\ [SeqNext]_vars => [Complete]_vars
  <2> SUFFICES ASSUME SeqInv, SeqNext, NEW r \in Ingests,
                      ipc[r] = "insert", ipc'[r] = "done"
               PROVE  task[r].next = task[r].nvec
    BY InsertedIsWhole
  <2>1. ipc \in [Ingests -> {"idle"} \cup IngestActive \cup IngestOver]
    BY DEF SeqInv, IInv, TypeOK, IngestTypeOK
  <2>2. PICK o \in Ingests : IngestStep(o)
    BY <2>1 DEF SeqNext, Meanwhile, ServeIngest, ServeQuery, CreateCollection,
           Fail, FailIngest, Crash, LoseIngests, ingestVars, IngestActive
  <2>3. Respond(o) /\ o = r
    BY <2>1, <2>2 DEF IngestStep, Admit, Validate, ResolveCollection, ResolveDocument,
           Embed, DeleteOld, InsertNext, Respond, Goto
  <2> QED
    BY <2>3 DEF Respond
<1> QED
  BY <1>1, SeqInvariance, PTL DEF SeqSpec, SuccessMeansComplete

\* Under the same condition the whole pipeline, with its failures and
\* crashes, implements DocumentIndex.
THEOREM IngestImplementsIndex == ASSUME ~ShortReplies PROVE SeqSpec => ImplementsIndex
<1>1. SeqInv /\ SeqInv' /\ [SeqNext]_vars => [Index!IndexNext]_(Index!IndexVars)
  BY IndexStep
<1> QED
  BY <1>1, IndexInitially, SeqInvariance, PTL
     DEF SeqSpec, ImplementsIndex, Index!IndexSpec
-----------------------------------------------------------------------------
(* Two sentences the service does not keep, and keeps here. *)

\* "Replace chunks for this document - idempotent re-ingest": with one
\* upload of a document at a time no piece is stored twice, also when
\* requests have failed.
THEOREM ReingestIsIdempotentHere == SeqSpec => []ReingestIsIdempotent
<1>1. ChunksArePrefix => ReingestIsIdempotent
  BY DEF ChunksArePrefix, ReingestIsIdempotent, ChunksOf
<1> QED
  BY <1>1, PiecesArePrefix, PTL

\* r has succeeded and no other request for its document has been sent.
Undisturbed(r) ==
  /\ ipc[r] = "done"
  /\ \A o \in Ingests \ {r} : DocOf(o) = DocOf(r) => ipc[o] = "idle"

StoredInv ==
  \A r \in Ingests :
    /\ ipc[r] = "done" => \E d \in documents : HasDocument(r, d)
    /\ Undisturbed(r) => WholeAs(DocOf(r), upload[r].content, task[r].col)

LEMMA StoredInvNext ==
  ASSUME ~ShortReplies, SeqInv, IInv', StoredInv, [SeqNext]_vars PROVE StoredInv'
<1>1. [Next]_vars /\ IInv
  BY DEF SeqInv, SeqNext, Next
<1>2. /\ ipc \in [Ingests -> {"idle"} \cup IngestActive \cup IngestOver]
      /\ task \in [Ingests -> Task] /\ documents \subseteq DocumentRow
  BY <1>1 DEF IInv, TypeOK, IngestTypeOK, StoreTypeOK
<1>3. upload' = upload /\ \A c : RequestsFor(c) \subseteq RequestsFor(c)'
  BY <1>1, SendersStay
<1>4. ASSUME NEW r \in Ingests, NEW d \in documents, HasDocument(r, d), task'[r] = task[r]
      PROVE  \E e \in documents' : HasDocument(r, e)'
  <2>1. CASE documents' = documents
    BY <1>3, <1>4, <2>1 DEF HasDocument
  <2>2. ASSUME NEW o \in Ingests, ResolveDocument(o)
        PROVE  \E e \in documents' : HasDocument(r, e)'
    <3>1. DocumentsStay
      BY <1>1, <1>2, <2>2, UpsertDocumentStep
         DEF IInv, TypeOK, IngestTypeOK, Upload, Digest, IdsAreIssued, IdsAreUnique,
             ResolveDocument
    <3> QED
      BY <1>3, <1>4, <3>1 DEF DocumentsStay, HasDocument
  <2> QED
    BY <1>1, <2>1, <2>2, TableStep
<1>5. ASSUME NEW r \in Ingests, ipc'[r] = "done", ipc[r] # "done"
      PROVE  Respond(r) /\ UNCHANGED <<chunks, documents, task>>
  <2>1. PICK o \in Ingests : IngestStep(o)
    BY <1>1, <1>2, <1>5
       DEF Next, Meanwhile, ServeIngest, ServeQuery, CreateCollection, Fail, FailIngest,
           Crash, LoseIngests, ingestVars, vars, IngestActive
  <2>2. Respond(o) /\ o = r
    BY <1>2, <1>5, <2>1
       DEF IngestStep, Admit, Validate, ResolveCollection, ResolveDocument,
           Embed, DeleteOld, InsertNext, Respond, Goto
  <2> QED
    BY <2>2 DEF Respond, storeVars
<1>6. ASSUME NEW r \in Ingests, ipc'[r] = "done", ipc[r] = "done" PROVE task'[r] = task[r]
  <2>1. ASSUME NEW o \in Ingests, IngestStep(o) PROVE o # r /\ \E t : task' = [task EXCEPT ![o] = t]
    <3>1. ipc[o] # "done"
      BY <2>1 DEF IngestStep, Admit, Validate, ResolveCollection, ResolveDocument,
         Embed, DeleteOld, InsertNext, Respond, Goto
    <3>2. task' = task => task' = [task EXCEPT ![o] = task[o]]
      BY <1>2
    <3>3. \E t : task' = [task EXCEPT ![o] = t]
      BY <1>2, <2>1, <3>2
         DEF IngestStep, Admit, Validate, ResolveCollection, ResolveDocument,
             Embed, DeleteOld, InsertNext, Respond
    <3> QED
      BY <1>6, <3>1, <3>3
  <2>2. task' = task \/ \E o \in Ingests : IngestStep(o)
    BY <1>1 DEF Next, Meanwhile, ServeIngest, ServeQuery, CreateCollection, Fail, FailIngest,
                Crash, ingestVars, vars
  <2> QED
    BY <1>2, <2>1, <2>2
<1>7. ASSUME NEW r \in Ingests, ipc'[r] = "done"
      PROVE  \E d \in documents' : HasDocument(r, d)'
  <2>1. CASE ipc[r] = "done"
    BY <1>4, <1>6, <1>7, <2>1 DEF StoredInv
  <2>2. CASE ipc[r] # "done"
    <3>1. Respond(r) /\ UNCHANGED <<chunks, documents, task>>
      BY <1>5, <1>7, <2>2
    <3>2. \E d \in documents : HasDocument(r, d)
      BY <1>1, <3>1 DEF IInv, TasksAreCurrent, Respond, Goto
    <3> QED
      BY <1>4, <3>1, <3>2
  <2> QED
    BY <2>1, <2>2
<1>8. ASSUME NEW r \in Ingests, Undisturbed(r)'
      PROVE  WholeAs(DocOf(r), upload[r].content, task[r].col)'
  <2>1. CASE ipc[r] # "done"
    <3>1. Respond(r) /\ UNCHANGED <<chunks, documents, task>>
      BY <1>5, <1>8, <2>1 DEF Undisturbed
    <3>2. /\ RowsOf(DocOf(r)) # {}
          /\ CompleteAs(DocOf(r), upload[r].content, task[r].col)
      BY <3>1, InsertedIsWhole DEF Respond, Goto
    <3>3. WholeAs(DocOf(r), upload[r].content, task[r].col)
      BY <1>1, <3>2, InsertedIsHome
    <3> QED
      BY <1>3, <3>1, <3>3 DEF WholeAs, RowsFrom, DocOf
  <2>2. CASE ipc[r] = "done"
    <3>1. task'[r] = task[r]
      BY <1>6, <1>8, <2>2 DEF Undisturbed
    <3>2. \A o \in Ingests : ipc[o] # "idle" => ipc'[o] # "idle"
      <4>1. ASSUME NEW o \in Ingests, ipc[o] # "idle" PROVE ipc'[o] # "idle"
        <5> DEFINE c == [workspace |-> upload[o].ws, content |-> upload[o].content]
        <5>1. o \in RequestsFor(c)
          BY <4>1 DEF RequestsFor
        <5>2. o \in RequestsFor(c)'
          BY <1>3, <5>1
        <5> QED
          BY <5>2 DEF RequestsFor
      <4> QED
        BY <4>1
    <3>3. Undisturbed(r)
      BY <1>3, <1>8, <2>2, <3>2 DEF Undisturbed, DocOf
    <3>4. RowsFrom(DocOf(r))' = RowsFrom(DocOf(r))
      <4>1. ASSUME NEW o \in Ingests, ipc[o] \in {"delete", "insert"}
            PROVE  ~(upload[o].ws = upload[r].ws /\ ShaOf(o) = ShaOf(r))
        BY <2>2, <3>3, <4>1 DEF Undisturbed, DocOf
      <4>2. ASSUME NEW o \in Ingests, DeleteOld(o) PROVE RowsFrom(DocOf(r))' = RowsFrom(DocOf(r))
        <5>1. /\ ipc[o] = "delete"
              /\ chunks' = {c \in chunks : c.document_id # task[o].doc}
          BY <4>2 DEF DeleteOld, DeleteChunks, ChunksOf, Goto
        <5>2. \A c \in chunks : c.document_id = task[o].doc =>
                c.workspace = upload[o].ws /\ Sha[c.content] = ShaOf(o)
          BY <1>1, <5>1, OwnRows
        <5> QED
          BY <1>3, <4>1, <5>1, <5>2 DEF RowsFrom, DocOf
      <4>3. ASSUME NEW o \in Ingests, InsertNext(o) PROVE RowsFrom(DocOf(r))' = RowsFrom(DocOf(r))
        <5> DEFINE new == [id |-> seq.chunks + 1, document_id |-> task[o].doc,
                           workspace |-> upload[o].ws, collection_id |-> task[o].col,
                           ordinal |-> task[o].next, content |-> upload[o].content]
        <5>1. ipc[o] = "insert" /\ chunks' = chunks \cup {new}
          BY <4>3 DEF InsertNext, InsertChunk
        <5>2. new.workspace = upload[o].ws /\ new.content = upload[o].content
          OBVIOUS
        <5> HIDE DEF new
        <5> QED
          BY <1>3, <4>1, <5>1, <5>2 DEF RowsFrom, DocOf
      <4> QED
        BY <1>1, <1>3, <4>2, <4>3, TableStep DEF RowsFrom, DocOf
    <3>5. WholeAs(DocOf(r), upload[r].content, task[r].col)
      BY <3>3 DEF StoredInv
    <3> QED
      BY <1>3, <3>1, <3>4, <3>5 DEF WholeAs, DocOf
  <2> QED
    BY <2>1, <2>2
<1> QED
  BY <1>7, <1>8 DEF StoredInv, Undisturbed

\* What a response reports is in the table until its document is sent again,
\* whatever is done to other documents.
ReportIsStored ==
  \A r \in Ingests :
    Undisturbed(r) => Cardinality(ChunksOf(task[r].doc)) = ChunksCreated(r)

\* "Returns ... the number of chunks created": what a response reports is
\* what the table holds, if the provider returns a vector for every text.
THEOREM ReportedChunksAreStored ==
  ASSUME ~ShortReplies PROVE SeqSpec => [](ReportIsStored /\ ChunksCreatedAreStored)
<1>1. Init => StoredInv
  BY DEF Init, IngestInit, StoredInv, Undisturbed
<1>2. SeqInv /\ SeqInv' /\ StoredInv /\ [SeqNext]_vars => StoredInv'
  BY StoredInvNext DEF SeqInv
<1>3. SeqInv /\ StoredInv => ReportIsStored
  <2> SUFFICES ASSUME SeqInv, StoredInv, NEW r \in Ingests, Undisturbed(r)
               PROVE  Cardinality(ChunksOf(task[r].doc)) = ChunksCreated(r)
    BY DEF ReportIsStored
  <2>1. WholeAs(DocOf(r), upload[r].content, task[r].col)
    BY DEF StoredInv, Undisturbed
  <2>2. PICK d \in documents : HasDocument(r, d)
    BY DEF StoredInv, Undisturbed
  <2>3. ChunksOf(task[r].doc) = RowsFrom(DocOf(r))
    <3>1. ASSUME NEW c \in chunks
          PROVE  c.document_id = task[r].doc <=>
                   c.workspace = upload[r].ws /\ Sha[c.content] = ShaOf(r)
      <4>1. PICK e \in documents : /\ e.id = c.document_id
                                   /\ e.workspace = c.workspace
                                   /\ e.content_sha = Sha[c.content]
        BY DEF SeqInv, IInv, WorkspaceConsistent
      <4> QED
        BY <2>2, <4>1 DEF SeqInv, IInv, IdsAreUnique, KeysAreUnique, HasDocument
    <3> QED
      BY <3>1 DEF ChunksOf, RowsFrom, DocOf
  <2> QED
    BY <2>1, <2>3 DEF WholeAs, ChunksCreated
<1>4. ReportIsStored => ChunksCreatedAreStored
  BY DEF ReportIsStored, ChunksCreatedAreStored, Undisturbed
<1> QED
  BY <1>1, <1>2, <1>3, <1>4, SeqInvariance, PTL DEF SeqSpec
=============================================================================
