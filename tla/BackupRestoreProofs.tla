------------------------- MODULE BackupRestoreProofs -------------------------
(***************************************************************************)
(* The tables and their id sequences through backups and restores, for any *)
(* number of requests and commands.                                        *)
(***************************************************************************)
EXTENDS BackupRestore, KnowledgeServiceProofs

\* A set of tables whose sequences are at least as far as their rows.
IsFresh(t) ==
  /\ t = [public |-> t.public, collections |-> t.collections,
          documents |-> t.documents, chunks |-> t.chunks, seq |-> t.seq]
  /\ t.seq \in [collections: Nat, documents: Nat, chunks: Nat]
  /\ t.collections \subseteq CollectionRow
  /\ t.documents \subseteq DocumentRow
  /\ \A k \in t.collections : k.id <= t.seq.collections
  /\ \A d \in t.documents : d.id <= t.seq.documents
  /\ \A c \in t.chunks : c.id \in Nat /\ c.id <= t.seq.chunks

NotBehind(s, t) ==
  /\ s.collections <= t.collections
  /\ s.documents <= t.documents
  /\ s.chunks <= t.chunks

\* The tables and the dump are fresh.  While pg_dump runs nothing replaces
\* the tables, so the sequences it will read are past its snapshot's.
FreshInv ==
  /\ upload \in [Ingests -> Upload]
  /\ IsFresh(Tables)
  /\ dump = [state |-> dump.state, tables |-> dump.tables]
  /\ IsFresh(dump.tables)
  /\ script = "dumping" => NotBehind(dump.tables.seq, seq)

-----------------------------------------------------------------------------
\* The tables a step of the service leaves are fresh, and no sequence went
\* back.
Onward == IsFresh(Tables') /\ NotBehind(seq, seq')

LEMMA TablesParts ==
  /\ Tables.seq = seq /\ Tables.collections = collections
  /\ Tables.documents = documents /\ Tables.chunks = chunks
  /\ Tables = [public |-> Tables.public, collections |-> Tables.collections,
               documents |-> Tables.documents, chunks |-> Tables.chunks,
               seq |-> Tables.seq]
BY DEF Tables

LEMMA FreshTables ==
  IsFresh(Tables) <=>
    /\ seq \in [collections: Nat, documents: Nat, chunks: Nat]
    /\ collections \subseteq CollectionRow
    /\ documents \subseteq DocumentRow
    /\ \A k \in collections : k.id <= seq.collections
    /\ \A d \in documents : d.id <= seq.documents
    /\ \A c \in chunks : c.id \in Nat /\ c.id <= seq.chunks
BY TablesParts DEF IsFresh

LEMMA CollectionUpsertIsFresh ==
  ASSUME IsFresh(Tables), NEW ws \in Workspace, NEW name \in Name,
         NEW desc \in Description \cup {NoDescription},
         UpsertCollection(ws, name, desc)
  PROVE  Onward
<1> DEFINE fresh == [id |-> seq.collections + 1, workspace |-> ws,
                     name |-> name, description |-> desc]
<1>1. /\ seq \in [collections: Nat, documents: Nat, chunks: Nat]
      /\ collections \subseteq CollectionRow
      /\ \A k \in collections : k.id <= seq.collections
  BY FreshTables
<1>2. /\ seq' \in [collections: Nat, documents: Nat, chunks: Nat]
      /\ seq'.collections = seq.collections + 1
      /\ seq'.documents = seq.documents /\ seq'.chunks = seq.chunks
      /\ documents' = documents /\ chunks' = chunks
  BY <1>1 DEF UpsertCollection
<1>3. fresh \in CollectionRow /\ fresh.id <= seq'.collections
  BY <1>1, <1>2 DEF CollectionRow, Id
<1>4. \A c \in collections :
        LET upd == [c EXCEPT !.description = Coalesce(desc, @)]
        IN  upd \in CollectionRow /\ upd.id <= seq.collections
  BY <1>1 DEF CollectionRow, Coalesce
<1>5. /\ collections' \subseteq CollectionRow
      /\ \A k \in collections' : k.id <= seq'.collections
  <2>1. CASE collections' = collections \cup {fresh}
    BY <1>1, <1>2, <1>3, <2>1 DEF CollectionRow, Id
  <2>2. ASSUME NEW c \in collections,
               collections' = (collections \ {c}) \cup
                 {[c EXCEPT !.description = Coalesce(desc, @)]}
        PROVE  /\ collections' \subseteq CollectionRow
               /\ \A k \in collections' : k.id <= seq'.collections
    BY <1>1, <1>2, <1>4, <2>2 DEF CollectionRow, Id
  <2> QED
    BY <2>1, <2>2 DEF UpsertCollection, CollectionsNamed
<1>6. NotBehind(seq, seq')
  BY <1>1, <1>2 DEF NotBehind
<1> QED
  BY <1>2, <1>5, <1>6, FreshTables DEF Onward, Tables, IsFresh

LEMMA DocumentUpsertIsFresh ==
  ASSUME IsFresh(Tables), NEW ws \in Workspace, NEW sha \in Digest,
         NEW file \in FileName, UpsertDocument(ws, sha, file)
  PROVE  Onward
<1> DEFINE fresh == [id |-> seq.documents + 1, workspace |-> ws,
                     content_sha |-> sha, source |-> file,
                     file_name |-> file]
<1>1. /\ seq \in [collections: Nat, documents: Nat, chunks: Nat]
      /\ documents \subseteq DocumentRow
      /\ \A d \in documents : d.id <= seq.documents
  BY FreshTables
<1>2. /\ seq' \in [collections: Nat, documents: Nat, chunks: Nat]
      /\ seq'.documents = seq.documents + 1
      /\ seq'.collections = seq.collections /\ seq'.chunks = seq.chunks
      /\ collections' = collections /\ chunks' = chunks
  BY <1>1 DEF UpsertDocument
<1>3. fresh \in DocumentRow /\ fresh.id <= seq'.documents
  BY <1>1, <1>2 DEF DocumentRow, Id
<1>4. \A d \in documents :
        LET upd == [d EXCEPT !.file_name = file]
        IN  upd \in DocumentRow /\ upd.id <= seq.documents
  BY <1>1 DEF DocumentRow
<1>5. /\ documents' \subseteq DocumentRow
      /\ \A d \in documents' : d.id <= seq'.documents
  <2>1. CASE documents' = documents \cup {fresh}
    BY <1>1, <1>2, <1>3, <2>1 DEF DocumentRow, Id
  <2>2. ASSUME NEW d \in documents,
               documents' = (documents \ {d}) \cup
                 {[d EXCEPT !.file_name = file]}
        PROVE  /\ documents' \subseteq DocumentRow
               /\ \A e \in documents' : e.id <= seq'.documents
    BY <1>1, <1>2, <1>4, <2>2 DEF DocumentRow, Id
  <2> QED
    BY <2>1, <2>2 DEF UpsertDocument, DocumentsOf
<1>6. NotBehind(seq, seq')
  BY <1>1, <1>2 DEF NotBehind
<1> QED
  BY <1>2, <1>5, <1>6, FreshTables DEF Onward, Tables, IsFresh

LEMMA InsertIsFresh ==
  ASSUME IsFresh(Tables), NEW doc, NEW ws, NEW col, NEW content, NEW ordinal,
         InsertChunk(doc, ws, col, content, ordinal)
  PROVE  Onward
<1>1. /\ seq \in [collections: Nat, documents: Nat, chunks: Nat]
      /\ \A c \in chunks : c.id \in Nat /\ c.id <= seq.chunks
  BY FreshTables
<1>2. /\ seq' \in [collections: Nat, documents: Nat, chunks: Nat]
      /\ seq'.chunks = seq.chunks + 1
      /\ seq'.collections = seq.collections /\ seq'.documents = seq.documents
      /\ collections' = collections /\ documents' = documents
  BY <1>1 DEF InsertChunk
<1>3. \A c \in chunks' : c \in chunks \/ c.id = seq.chunks + 1
  BY DEF InsertChunk
<1>4. \A c \in chunks' : c.id \in Nat /\ c.id <= seq'.chunks
  BY <1>1, <1>2, <1>3
<1>5. NotBehind(seq, seq')
  BY <1>1, <1>2 DEF NotBehind
<1> QED
  BY <1>2, <1>4, <1>5, FreshTables DEF Onward, Tables, IsFresh

\* A step that keeps the sequences and at most removes chunks.
LEMMA ShrinkIsFresh ==
  ASSUME IsFresh(Tables), UNCHANGED <<collections, documents, seq>>,
         chunks' \subseteq chunks
  PROVE  Onward
<1>1. NotBehind(seq, seq')
  BY FreshTables DEF NotBehind
<1> QED
  BY <1>1, FreshTables DEF Onward, Tables, IsFresh

LEMMA IngestIsFresh ==
  ASSUME FreshInv, NEW r \in Ingests, IngestStep(r) \/ FailIngest(r)
  PROVE  Onward /\ upload' = upload
<1> USE DEF FreshInv, storeVars
<1>1. upload[r] \in Upload
  OBVIOUS
<1>2. CASE \/ Admit(r) \/ Validate(r) \/ Embed(r) \/ Respond(r)
           \/ FailIngest(r)
  BY <1>2, ShrinkIsFresh DEF Admit, Validate, Embed, Respond, FailIngest
<1>3. CASE ResolveCollection(r)
  BY <1>1, <1>3, CollectionUpsertIsFresh DEF ResolveCollection, Upload
<1>4. CASE ResolveDocument(r)
  BY <1>1, <1>4, DocumentUpsertIsFresh DEF ResolveDocument, Upload, ShaOf, Digest
<1>5. CASE DeleteOld(r)
  BY <1>5, ShrinkIsFresh DEF DeleteOld, DeleteChunks
<1>6. CASE InsertNext(r)
  BY <1>6, InsertIsFresh DEF InsertNext
<1> QED
  BY <1>2, <1>3, <1>4, <1>5, <1>6 DEF IngestStep

-----------------------------------------------------------------------------
LEMMA FreshInvInit == BackupInit => FreshInv
BY DEF BackupInit, Init, StoreInit, IngestInit, FreshInv, Tables, NoTables,
       IsFresh

\* Steps of the service: the dump and the script stand still.
LEMMA ServiceStep ==
  ASSUME FreshInv, Onward, UNCHANGED <<upload, dump, script>>
  PROVE  FreshInv'
<1>1. IsFresh(Tables)'
  BY DEF Onward, IsFresh, Tables, NotBehind
<1>2. IsFresh(dump.tables)'
  BY DEF FreshInv
<1>3. script' = "dumping" => NotBehind(dump'.tables.seq, seq')
  <2> SUFFICES ASSUME script = "dumping"
               PROVE  NotBehind(dump.tables.seq, seq')
    OBVIOUS
  <2>1. NotBehind(dump.tables.seq, seq) /\ NotBehind(seq, seq')
    BY DEF FreshInv, Onward
  <2>2. /\ dump.tables.seq \in [collections: Nat, documents: Nat, chunks: Nat]
        /\ seq \in [collections: Nat, documents: Nat, chunks: Nat]
        /\ seq' \in [collections: Nat, documents: Nat, chunks: Nat]
    BY FreshTables DEF FreshInv, IsFresh, Onward, Tables
  <2> QED
    BY <2>1, <2>2 DEF NotBehind
<1> QED
  BY <1>1, <1>2, <1>3 DEF FreshInv

LEMMA FreshInvNext == FreshInv /\ [BackupNext]_allVars => FreshInv'
<1> SUFFICES ASSUME FreshInv, [BackupNext]_allVars
             PROVE  FreshInv'
  OBVIOUS
<1> USE DEF backupVars
<1>1. ASSUME NEW r \in Ingests, LiveIngest(r)
      PROVE  FreshInv'
  BY <1>1, IngestIsFresh, ServiceStep DEF LiveIngest, ServeIngest
<1>2. CASE LiveFail
  BY <1>2, IngestIsFresh, ServiceStep DEF LiveFail
<1>3. CASE Restart \/ EnsureSchema \/ UNCHANGED allVars
  <2>1. UNCHANGED <<collections, documents, chunks, seq, upload, dump, script>>
    BY <1>3 DEF Restart, EnsureSchema, allVars, vars, storeVars, ingestVars
  <2>2. Onward
    BY <2>1, ShrinkIsFresh DEF FreshInv
  <2> QED
    BY <2>1, <2>2, ServiceStep
<1>4. CASE StartBackup
  <2>1. /\ UNCHANGED <<collections, documents, chunks, seq, upload, public>>
        /\ dump' = [state |-> "torn", tables |-> Tables]
        /\ Tables' = Tables
    BY <1>4 DEF StartBackup, vars, storeVars, ingestVars, Tables
  <2>2. NotBehind(Tables.seq, seq)
    BY FreshTables, TablesParts DEF FreshInv, NotBehind
  <2> QED
    BY <2>1, <2>2 DEF FreshInv, IsFresh
<1>5. CASE FinishBackup
  <2> DEFINE t == [dump.tables EXCEPT !.seq = seq]
  <2>1. /\ UNCHANGED <<collections, documents, chunks, seq, upload, public>>
        /\ script = "dumping" /\ script' = "idle"
        /\ dump' = [state |-> "complete", tables |-> t]
        /\ Tables' = Tables
    BY <1>5 DEF FinishBackup, vars, storeVars, ingestVars, Tables
  <2>2. /\ IsFresh(dump.tables) /\ NotBehind(dump.tables.seq, seq)
        /\ seq \in [collections: Nat, documents: Nat, chunks: Nat]
    BY <2>1, FreshTables DEF FreshInv
  <2>3. t = [public |-> dump.tables.public,
             collections |-> dump.tables.collections,
             documents |-> dump.tables.documents,
             chunks |-> dump.tables.chunks, seq |-> seq]
    BY <2>2 DEF IsFresh
  <2>4. IsFresh(t)
    BY <2>2, <2>3 DEF IsFresh, NotBehind, CollectionRow, DocumentRow, Id
  <2> QED
    BY <2>1, <2>4 DEF FreshInv
<1>6. IsFresh(NoTables)
  BY DEF IsFresh, NoTables
<1>7. CASE BackupDies
  <2>1. /\ UNCHANGED <<upload, public>> /\ Tables' = Tables
        /\ dump' = [state |-> "torn", tables |-> NoTables] /\ script' = "idle"
    BY <1>7 DEF BackupDies, vars, storeVars, ingestVars, Tables
  <2> QED
    BY <1>6, <2>1 DEF FreshInv
<1>8. ASSUME NEW t, IsFresh(t), Replace(t), dump' = dump, script' # "dumping"
      PROVE  FreshInv'
  <2>1. upload' = upload /\ Tables' = t
    BY <1>8 DEF Replace, Tables, IsFresh, ingestVars
  <2> QED
    BY <1>8, <2>1 DEF FreshInv
<1>9. CASE DropSchema
  BY <1>6, <1>8, <1>9 DEF DropSchema, Command
<1>10. CASE LoadDump
  <2>1. IsFresh(IF dump.tables.public THEN dump.tables ELSE Tables)
    BY DEF FreshInv
  <2> QED
    BY <1>8, <1>10, <2>1 DEF LoadDump
<1>11. CASE LoadFails
  <2>1. /\ UNCHANGED <<upload, dump>> /\ Tables' = Tables /\ script' = "idle"
    BY <1>11 DEF LoadFails, vars, storeVars, ingestVars, Tables
  <2> QED
    BY <2>1 DEF FreshInv
<1> QED
  BY <1>1, <1>2, <1>3, <1>4, <1>5, <1>7, <1>9, <1>10, <1>11 DEF BackupNext

\* Whatever is backed up and restored under whatever load, no row has an id
\* that its sequence has yet to hand out.
THEOREM RestoresKeepIdsFresh == BackupSpec => []IdsStayFresh
<1>1. FreshInv => IdsStayFresh
  BY FreshTables DEF FreshInv, IdsStayFresh
<1> QED
  BY <1>1, FreshInvInit, FreshInvNext, PTL DEF BackupSpec

-----------------------------------------------------------------------------
(* What the tables say, for the live ones and for those of the dump. *)

UploadedTo(c, cols) ==
  \E r \in Ingests :
    /\ upload[r].ws = c.workspace
    /\ upload[r].content = c.content
    /\ \E k \in cols : /\ k.id = c.collection_id
                       /\ k.workspace = upload[r].ws
                       /\ k.name = upload[r].name

Agrees(t) ==
  /\ t.chunks \subseteq ChunkRow
  /\ \A d, e \in t.documents : d.id = e.id =>
       d.workspace = e.workspace /\ d.content_sha = e.content_sha
  /\ \A b, c \in t.chunks : b.id = c.id => b = c
  /\ \A c \in t.chunks :
       /\ \E d \in t.documents : /\ d.id = c.document_id
                                 /\ d.workspace = c.workspace
                                 /\ d.content_sha = Sha[c.content]
       /\ \E k \in t.collections : /\ k.id = c.collection_id
                                   /\ k.workspace = c.workspace
       /\ UploadedTo(c, t.collections)

\* Until a restore catches an ingest across, the invariant of the service
\* holds of the tables, and the dump is a snapshot of tables that agreed.
AgreeInv ==
  /\ FreshInv
  /\ crossed = {} =>
       /\ IInv
       /\ Agrees(dump.tables)
       /\ \A q \in Queries : hits[q] = {} /\ cited[q] = {}

LEMMA LiveTablesAgree == IInv => Agrees(Tables)
BY TablesParts
   DEF IInv, Agrees, IdsAreUnique, WorkspaceConsistent, Uploaded, UploadedTo,
       TypeOK, StoreTypeOK

\* Tables that agree and have fresh sequences keep the invariant if no
\* ingest is under way.
LEMMA ReplacedTables ==
  ASSUME AgreeInv, crossed = {}, NEW t, IsFresh(t), Agrees(t), Replace(t),
         crossed' = {}
  PROVE  IInv'
<1>1. /\ collections' = t.collections /\ documents' = t.documents
      /\ chunks' = t.chunks /\ seq' = t.seq
      /\ UNCHANGED <<upload, ipc, task, ask, qpc, hits, cited>>
      /\ \A r \in Ingests : ipc[r] \notin IngestActive
  BY DEF Replace, ingestVars, queryVars
<1>2. TypeOK'
  BY <1>1 DEF AgreeInv, IInv, TypeOK, StoreTypeOK, IngestTypeOK, QueryTypeOK, IsFresh, Agrees
<1>3. IdsAreIssued' /\ ReadsAreFaithful'
  BY <1>1 DEF AgreeInv, IdsAreIssued, ReadsAreFaithful, IsFresh
<1>4. IdsAreUnique' /\ WorkspaceConsistent'
  BY <1>1 DEF IdsAreUnique, WorkspaceConsistent, Agrees
<1>5. TasksAreCurrent'
  BY <1>1 DEF TasksAreCurrent, IngestActive
<1>6. \A c \in chunks' : Uploaded(c)'
  BY <1>1 DEF Agrees, Uploaded, UploadedTo
<1> QED
  BY <1>2, <1>3, <1>4, <1>5, <1>6 DEF IInv

LEMMA AgreeInvInit == BackupInit => AgreeInv
<1> SUFFICES ASSUME BackupInit PROVE AgreeInv
  OBVIOUS
<1>1. FreshInv
  BY FreshInvInit
<1>2. IInv
  BY IInvInit DEF BackupInit
<1>3. Agrees(dump.tables)
  BY DEF BackupInit, NoTables, Agrees
<1>4. \A q \in Queries : hits[q] = {} /\ cited[q] = {}
  BY DEF BackupInit, Init, QueryInit
<1> QED
  BY <1>1, <1>2, <1>3, <1>4 DEF AgreeInv

LEMMA AgreeInvNext == AgreeInv /\ [BackupNext]_allVars => AgreeInv'
<1> SUFFICES ASSUME AgreeInv, [BackupNext]_allVars PROVE AgreeInv'
  OBVIOUS
<1> USE DEF backupVars
<1>0. FreshInv'
  BY FreshInvNext DEF AgreeInv
<1>1. ASSUME UNCHANGED <<upload, dump, hits, cited>>, crossed' = {} => crossed = {} /\ IInv'
      PROVE  AgreeInv'
  <2>1. Agrees(dump.tables) => Agrees(dump.tables)'
    BY <1>1 DEF Agrees, UploadedTo
  <2> QED
    BY <1>0, <1>1, <2>1 DEF AgreeInv
<1>2. ASSUME NEW r \in Ingests, ServeIngest(r) \/ (FailIngest(r) /\ UNCHANGED queryVars),
             UNCHANGED backupVars
      PROVE  AgreeInv'
  <2>1. upload' = upload
    BY <1>2, IngestIsFresh DEF ServeIngest, AgreeInv
  <2>2. UNCHANGED <<hits, cited>>
    BY <1>2 DEF ServeIngest, queryVars
  <2>3. IInv => IInv'
    BY <1>2, IInvNext DEF Next, Meanwhile, Fail
  <2> QED
    BY <1>1, <1>2, <2>1, <2>2, <2>3 DEF AgreeInv
<1>3. ASSUME NEW r \in Ingests, LiveIngest(r) PROVE AgreeInv'
  BY <1>2, <1>3 DEF LiveIngest
<1>4. CASE LiveFail
  BY <1>2, <1>4 DEF LiveFail
<1>5. CASE Restart
  <2>1. /\ UNCHANGED <<collections, documents, chunks, seq, upload, task, queryVars, dump, crossed>>
        /\ ipc' = [r \in Ingests |-> IF ipc[r] \in IngestActive THEN "lost" ELSE ipc[r]]
    BY <1>5 DEF Restart, LoseIngests, storeVars
  <2>2. IInv => IInv'
    <3> SUFFICES ASSUME IInv PROVE IInv'
      OBVIOUS
    <3>1. TypeOK'
      BY <2>1 DEF IInv, TypeOK, StoreTypeOK, IngestTypeOK, QueryTypeOK, IngestOver, queryVars
    <3>2. UNCHANGED <<storeVars, upload, ask, hits, cited>>
      BY <2>1 DEF storeVars, queryVars
    <3>3. ASSUME NEW r \in Ingests
          PROVE  /\ task'[r].col = task[r].col /\ task'[r].doc = task[r].doc
                 /\ ipc'[r] # ipc[r] => ipc'[r] = "lost"
      BY <2>1
    <3> QED
      BY <3>1, <3>2, <3>3, QuietStep
  <2> QED
    BY <1>1, <2>1, <2>2 DEF AgreeInv, queryVars
<1>6. CASE EnsureSchema \/ LoadFails \/ UNCHANGED allVars
  <2>1. UNCHANGED vars /\ UNCHANGED <<dump, crossed>>
    BY <1>6 DEF EnsureSchema, LoadFails, allVars
  <2>2. IInv => IInv'
    BY <2>1, IInvNext
  <2> QED
    BY <1>1, <2>1, <2>2 DEF AgreeInv, vars, ingestVars, queryVars
<1>7. ASSUME UNCHANGED <<vars, crossed>>,
             IInv /\ Agrees(dump.tables) => Agrees(dump'.tables)
      PROVE  AgreeInv'
  <2>1. IInv => IInv'
    BY <1>7, IInvNext
  <2>2. Agrees(dump'.tables) => Agrees(dump.tables)'
    BY <1>7 DEF Agrees, UploadedTo, vars, ingestVars
  <2> QED
    BY <1>0, <1>7, <2>1, <2>2 DEF AgreeInv, vars, queryVars
<1>8. CASE StartBackup
  <2>1. UNCHANGED <<vars, crossed>> /\ dump'.tables = Tables
    BY <1>8 DEF StartBackup
  <2> QED
    BY <1>7, <2>1, LiveTablesAgree
<1>9. CASE FinishBackup
  <2>1. UNCHANGED <<vars, crossed>> /\ dump'.tables = [dump.tables EXCEPT !.seq = seq]
    BY <1>9 DEF FinishBackup
  <2>2. /\ dump'.tables.collections = dump.tables.collections
        /\ dump'.tables.documents = dump.tables.documents
        /\ dump'.tables.chunks = dump.tables.chunks
    BY <2>1 DEF AgreeInv, FreshInv, IsFresh
  <2>3. Agrees(dump.tables) => Agrees(dump'.tables)
    BY <2>2 DEF Agrees
  <2> QED
    BY <1>7, <2>1, <2>3
<1>10. Agrees(NoTables)
  BY DEF Agrees, NoTables
<1>11. CASE BackupDies
  <2>1. UNCHANGED <<vars, crossed>> /\ dump'.tables = NoTables
    BY <1>11 DEF BackupDies
  <2> QED
    BY <1>7, <1>10, <2>1
<1>12. ASSUME NEW t, IsFresh(t), Replace(t), dump' = dump, crossed = {} => Agrees(t)
       PROVE  AgreeInv'
  <2>1. UNCHANGED <<upload, hits, cited>> /\ (crossed' = {} => crossed = {})
    BY <1>12 DEF Replace, ingestVars, queryVars
  <2>2. crossed' = {} => IInv'
    BY <1>12, <2>1, ReplacedTables
  <2> QED
    BY <1>1, <1>12, <2>1, <2>2
<1>13. CASE DropSchema
  <2>1. IsFresh(NoTables)
    BY DEF IsFresh, NoTables
  <2> QED
    BY <1>10, <1>12, <1>13, <2>1 DEF DropSchema
<1>14. CASE LoadDump
  <2>1. IsFresh(IF dump.tables.public THEN dump.tables ELSE Tables)
    BY DEF AgreeInv, FreshInv
  <2>2. crossed = {} => Agrees(IF dump.tables.public THEN dump.tables ELSE Tables)
    BY LiveTablesAgree DEF AgreeInv
  <2> QED
    BY <1>12, <1>14, <2>1, <2>2 DEF LoadDump
<1> QED
  BY <1>3, <1>4, <1>5, <1>6, <1>8, <1>9, <1>11, <1>13, <1>14 DEF BackupNext

\* As long as no restore has caught an ingest across, the tables agree: a
\* backup may be taken while requests write.
THEOREM RestoresAgree == BackupSpec => []RestoredTablesAgree
<1>1. AgreeInv => RestoredTablesAgree
  BY DEF AgreeInv, RestoredTablesAgree, IInv
<1> QED
  BY <1>1, AgreeInvInit, AgreeInvNext, PTL DEF BackupSpec
=============================================================================
