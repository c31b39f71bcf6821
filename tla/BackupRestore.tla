---------------------------- MODULE BackupRestore ----------------------------
(***************************************************************************)
(* scripts/backup-restore.sh against the running service.  pg_dump reads   *)
(* the tables in one snapshot and the sequences when it comes to them.  A  *)
(* restore drops the schema, which commits, and loads the dump in a single *)
(* transaction.  The API serves all the while: its requests keep the ids   *)
(* they read before the tables were replaced.                              *)
(*                                                                         *)
(* Queries write nothing and stay idle here, and POST /v1/collections is   *)
(* the upsert an ingest begins with.  The corpus archive and the checksums *)
(* of the backup are left out: the API reads neither.                      *)
(***************************************************************************)
EXTENDS KnowledgeService

CONSTANT MaxCommands  (* bound on the commands the operator runs           *)

ASSUME BackupAssumption == MaxCommands \in Nat

VARIABLES
  public,   (* the schema holds the tables                                 *)
  ready,    (* app.state.db_ready of the current process                   *)
  script,   (* what the script is doing                                    *)
  dump,     (* db.dump                                                     *)
  crossed,  (* ingests that were under way when the tables were replaced   *)
  commands  (* commands run so far                                         *)

backupVars == <<public, ready, script, dump, crossed, commands>>
allVars    == <<vars, backupVars>>

Tables == [public |-> public, collections |-> collections,
           documents |-> documents, chunks |-> chunks, seq |-> seq]

\* No file; a file pg_dump did not finish; a file it finished.
DumpState == {"none", "torn", "complete"}

NoTables == [public |-> FALSE, collections |-> {}, documents |-> {},
             chunks |-> {},
             seq |-> [collections |-> 0, documents |-> 0, chunks |-> 0]]

BackupTypeOK ==
  /\ TypeOK
  /\ public \in BOOLEAN /\ ready \in BOOLEAN
  /\ script \in {"idle", "dumping", "restoring"}
  /\ dump.state \in DumpState
  /\ dump.tables.public \in BOOLEAN
  /\ dump.tables.collections \subseteq CollectionRow
  /\ dump.tables.documents \subseteq DocumentRow
  /\ dump.tables.chunks \subseteq ChunkRow
  /\ dump.tables.seq \in [collections: Nat, documents: Nat, chunks: Nat]
  /\ crossed \subseteq Ingests
  /\ commands \in 0 .. MaxCommands

BackupInit ==
  /\ Init
  /\ public = TRUE /\ ready = TRUE
  /\ script = "idle"
  /\ dump = [state |-> "none", tables |-> NoTables]
  /\ crossed = {}
  /\ commands = 0

-----------------------------------------------------------------------------
(* The service over tables that may be missing *)

\* Registering the codec looks the vector type up; the rest are statements
\* on the tables.
NeedsTables(r) ==
  \/ ipc[r] \in {"admitted", "collection", "document", "delete"}
  \/ ipc[r] = "insert" /\ task[r].next < task[r].nvec

\* Mutant: only the foreign key raises; a missing table is waited for.
Raises_WaitsForTables(r) ==
  /\ ipc[r] = "insert" /\ task[r].next < task[r].nvec
  /\ public
  /\ \A d \in documents : d.id # task[r].doc

\* The await raises: undefined table, or the foreign key finds no document.
Raises(r) ==
  \/ ~public /\ NeedsTables(r)
  \/ /\ ipc[r] = "insert" /\ task[r].next < task[r].nvec
     /\ \A d \in documents : d.id # task[r].doc

LiveIngest(r) ==
  /\ \/ /\ ipc[r] = "idle" => ready
        /\ NeedsTables(r) => public
        /\ ServeIngest(r)
     \/ Raises(r) /\ FailIngest(r) /\ UNCHANGED queryVars
  /\ UNCHANGED backupVars

LiveFail ==
  /\ \E r \in Ingests : FailIngest(r)
  /\ UNCHANGED <<queryVars, backupVars>>

\* A new process is not ready until its first probe.
Restart ==
  /\ ready
  /\ ready' = FALSE
  /\ LoseIngests
  /\ UNCHANGED <<storeVars, upload, task, queryVars>>
  /\ UNCHANGED <<public, script, dump, crossed, commands>>

\* ensure_schema: CREATE TABLE IF NOT EXISTS.
EnsureSchema ==
  /\ ~ready
  /\ ready' = TRUE /\ public' = TRUE
  /\ UNCHANGED <<vars, script, dump, crossed, commands>>

-----------------------------------------------------------------------------
(* The script *)

Command(from, to) ==
  /\ commands < MaxCommands
  /\ script = from /\ script' = to
  /\ commands' = commands + 1

\* Without a schema pg_dump writes a complete dump of nothing.
StartBackup ==
  /\ Command("idle", "dumping")
  /\ dump' = [state |-> "torn", tables |-> Tables]
  /\ UNCHANGED <<vars, public, ready, crossed>>

\* Mutant: the chunks are read apart from the snapshot.
FinishBackup_LateChunks ==
  /\ script = "dumping" /\ script' = "idle"
  /\ dump' = [state |-> "complete",
              tables |-> [dump.tables EXCEPT !.chunks = chunks, !.seq = seq]]
  /\ UNCHANGED <<vars, public, ready, crossed, commands>>

FinishBackup ==
  /\ script = "dumping" /\ script' = "idle"
  /\ dump' = [state |-> "complete",
              tables |-> [dump.tables EXCEPT !.seq = seq]]
  /\ UNCHANGED <<vars, public, ready, crossed, commands>>

\* The redirection has created db.dump already.
BackupDies ==
  /\ script = "dumping" /\ script' = "idle"
  /\ dump' = [state |-> "torn", tables |-> NoTables]
  /\ UNCHANGED <<vars, public, ready, crossed, commands>>

\* The tables become those of t; requests under way are caught across.
Replace(t) ==
  /\ public' = t.public
  /\ collections' = t.collections /\ documents' = t.documents
  /\ chunks' = t.chunks /\ seq' = t.seq
  /\ crossed' = crossed \cup {r \in Ingests : ipc[r] \in IngestActive}
  /\ UNCHANGED <<ingestVars, queryVars>>

\* restore <path> --confirm: only that there is a db.dump is looked at.
DropSchema ==
  /\ dump.state # "none"
  /\ Command("idle", "restoring")
  /\ Replace(NoTables)
  /\ UNCHANGED <<ready, dump>>

\* Mutant: the sequences are left out of the dump.
LoadDump_WithoutSequences ==
  /\ script = "restoring" /\ dump.state = "complete"
  /\ script' = "idle"
  /\ Replace([dump.tables EXCEPT !.seq = NoTables.seq])
  /\ UNCHANGED <<ready, dump, commands>>

\* pg_restore --clean --if-exists --single-transaction; a dump of nothing
\* drops nothing that a probe may have created meanwhile.
LoadDump ==
  /\ script = "restoring" /\ dump.state = "complete"
  /\ script' = "idle"
  /\ Replace(IF dump.tables.public THEN dump.tables ELSE Tables)
  /\ UNCHANGED <<ready, dump, commands>>

\* pg_restore fails, as it must on a torn dump: the drop stays.
LoadFails ==
  /\ script = "restoring" /\ script' = "idle"
  /\ UNCHANGED <<vars, public, ready, dump, crossed, commands>>

BackupNext ==
  \/ \E r \in Ingests : LiveIngest(r)
  \/ LiveFail
  \/ Restart
  \/ EnsureSchema
  \/ StartBackup
  \/ FinishBackup
  \/ BackupDies
  \/ DropSchema
  \/ LoadDump
  \/ LoadFails

\* The event loop resumes every coroutine whose await is over, and every
\* await is over at last: command_timeout and the HTTP clients' timeouts
\* turn a silent peer into an exception.  Nothing makes a client send, an
\* operator type or a probe come.
BackupSpec ==
  /\ BackupInit
  /\ [][BackupNext]_allVars
  /\ \A r \in Ingests :
       WF_allVars(ipc[r] \in IngestActive /\ LiveIngest(r))

-----------------------------------------------------------------------------
(* Properties *)

\* Every admitted request gets an answer or dies with its process, whatever
\* happens to the tables under it: what is missing raises.
EveryIngestEnds ==
  \A r \in Ingests : ipc[r] \in IngestActive ~> ipc[r] \in IngestOver

\* No row has an id its sequence has yet to hand out, so an INSERT after a
\* restore meets no primary key: the dump carries sequences that are at
\* least as far as its rows, though it reads them later.
IdsStayFresh ==
  /\ \A k \in collections : k.id <= seq.collections
  /\ \A d \in documents : d.id <= seq.documents
  /\ \A c \in chunks : c.id <= seq.chunks

\* A backup taken while requests write and a restore under any load leave
\* tables that agree, but for the ingests under way at the restore: those
\* go on with ids that the restored sequences hand out again.
RestoredTablesAgree == crossed = {} => WorkspaceConsistent
=============================================================================
