# Formal models of the knowledge assistant

TLA+ models of *assistente-de-conhecimento*: a FastAPI service that ingests
documents into PostgreSQL/pgvector, retrieves passages by vector distance and
answers questions only with citations; its one-page web client; and the scripts
that deploy, prove and back it up. Paths below are relative to the repository
root, which is `src/` in `PROJECT.json`.

The system looks sequential and is not. The API is one asyncio process: a
coroutine gives way at every `await`, no statement runs in an explicit
transaction, and nothing locks. A request therefore interleaves with every
other one *between any two of its statements*. That, what fails half-way, and
what is read before an `await` and used after it, is what the models are for.

## The system

| Component | State it keeps | Operations | Talks to |
|---|---|---|---|
| Tables (`db/init.sql`, `api/app/db.py`) | `collections`, `documents`, `chunks`, their id sequences | upserts `ON CONFLICT`, `DELETE` by document, `INSERT`, joins | everything below |
| Ingestion (`api/app/ingest.py`, route in `main.py`) | locals of the coroutine: collection id, document id, vectors, ordinal | validate, parse, split, two upserts, embed, delete, insert one by one, answer | tables, embedding provider |
| Splitter (`ingest.py`, `_split_into_chunks`) | section, window start, ordinal, chunks | one section that fits, one turn of the window | parsers (input) |
| Query (`retrieve.py`, `generate.py`, route in `main.py`) | rows read, citations given | embed, `SELECT … LIMIT`, two relevance gates, chat, answer or refuse | tables, both providers |
| Readiness (`db.py`, `main.py`) | `_pool`, `_registered_dim`, `app.state.db_ready` | `GET /readyz`, `get_pool`, `ensure_schema`, the 503 gate | database, health check |
| Collections and citations routes (`main.py`) | none | create, list, count, resolve a chunk id | tables |
| Web client (`ui/app.js`) | `WORKSPACE`, token, `state.*`, selector, answer card, Ask button, pill, requests in flight | every DOM event and every response | the API, through nginx |
| Connection pool (asyncpg, `db.py`) | holders, a connection or none in each, the vector codec on some connections | acquire, release, `register_vector`, a connection is lost | every route that reads or writes tables |
| Middleware (`main.py`, `auth.py`, `audit.py`) | settings; per request its outcome | check the bearer token, print one event, turn an exception into 500 | every route |
| Stub embedder (`embeddings.py`) | none | tokenize, stem, hash tokens into a unit vector | ingestion, query |
| Backup (`scripts/backup-restore.sh`) | `db.dump` and a corpus archive on disk | `pg_dump`; drop the schema, then `pg_restore` in one transaction | tables, while the API serves |
| Proof runner (`scripts/run_proof.py`) | five files under `proof/` | wait for the API and the database, ingest the corpus in order, ask, resolve citations, write | the API |
| Gallery capture, demo verifier (`scripts/_demo_capture.py`, `_demo_verify.py`) | screenshots; an exit code | wait, create a workspace of their own, ingest, ask, photograph or compare | the API, through nginx |

What is hard in each of them, and what makes it correct:

* **Ingestion.** `DELETE` and the `INSERT`s of a re-ingest are separate
  statements; ids read early are used late; the process may die anywhere; a
  document is keyed by workspace and SHA-256, not by collection or format. It is
  correct when the three tables always agree on workspace and bytes, a request
  touches only its own document, a success leaves the document complete, and a
  crash leaves at worst a prefix of it.
* **Query.** Passages are read before the chat provider is awaited. It is
  correct when everything cited came from an upload into the collection asked,
  cleared both gates, an id in a client's hands never changes its meaning, and a
  refusal by the gates is one without evidence, which an approximate index of a large
  table does not grant.
* **Splitter.** Three interacting boundaries: the cut moved back to a space,
  the overlap, and blank windows that are dropped. It is correct when no word
  character is lost, ordinals have no gap, windows are bounded, chunks advance
  and the loop ends.
* **Readiness.** A singleton tested before an `await` and assigned after it, an
  initialisation that can stop half-way, migrations that collide, an index that may
  fail to build each time, a flag set once, and probes whose handlers outlive the
  client. It is correct when the gate opens only on a complete schema and opens at
  last, and when no more pools are opened than handlers run at once.
* **Requests, pool, middleware.** A connection is taken for one block of
  statements at a time, anything may raise while it is held, and the vector
  codec is a property of the connection, not of the request that registered it.
  It is correct when no connection is lost to the pool, every request ends, a
  response leaves after exactly one audit event with its status, and only who is
  entitled is served.
* **Backup.** The dump reads rows in one snapshot and id sequences later; the
  restore drops the schema in one step and loads the dump in another; requests
  and process restarts go on between them. It is correct when no id is handed
  out twice afterwards, the tables agree, and every request still ends.
* **Web client.** Any request may be answered after any event. It is correct
  when one query is in flight at a time, the answer shown is that of the last
  question, and the button, the pill and the selector say what is so.

* **Scripts.** They talk to a service that may be starting, dying, shut by the
  readiness gate or by authentication; a client that times out leaves its ingest
  running in the service, and a later run meets what an earlier one left. They
  are correct when they end, a proof run fails only for a cause, a text keeps
  its document, and the files left behind are of one run.

`PROJECT.json` lists these hazards one by one, each at its line.

## Modules

| Module | Models | Notes |
|---|---|---|
| `KnowledgeStore` | the tables and every SQL statement the routes run | a row is a record; one autocommitted statement is one step; `nextval` is taken even by an upsert that updates |
| `Ingest` | `POST /v1/ingest` | one action per stretch between two awaits: `Admit`, `Validate`, `ResolveCollection`, `ResolveDocument`, `Embed`, `DeleteOld`, `InsertNext`, `Respond`, `FailIngest` |
| `Query` | `POST /v1/query` | `AdmitQuery`, `EmbedQuestion`, `Retrieve` (with the refusal decided at once; exact by a scan, or missing rows once an IVFFlat index may exist), `ChatAnswers`, `ChatRefuses`, `FailQuery`; scores and shared tokens are constants, `NaN` included |
| `StubEmbedding` | tokens, stems and vectors of `embeddings.py` | operators; `MCKnowledgeService` computes `Score` and `Overlaps` with them |
| `KnowledgeService` | both, composed with `POST /v1/collections`, failures and the death of the process | the tables survive a `Crash`, coroutines do not |
| `DocumentIndex` | abstract specification: a document is in the index completely and in one collection, or not at all; it has one rebuild at a time; a request that succeeds has left it in | no tables, no statements; rebuilds of different documents overlap |
| `SequentialIngest` | `KnowledgeService` under clients that have one upload of a document under way at a time (`MaySend`), as `scripts/run_proof.py` has while the service answers within its timeout; shown to implement `DocumentIndex` | `homeOf`, `rebuildingDocs` and `succeeded` are the refinement mapping |
| `BackupRestore` | `scripts/backup-restore.sh` against the running service, with tables that may be missing and processes that restart | the service's statements are those of `Ingest`, refused or raising when the schema is gone or the foreign key finds no document |
| `Chunker` | `_split_into_chunks` | a section is its length and the positions of its blanks and spaces |
| `Readiness` | `readyz`, `get_pool`, `ensure_schema` with its conditional index, the gate, database outages, restarts | `Handlers` are the coroutines of `/readyz` under way at once, more than the clients: the health check gives up after 3 s and asks again every 5 s (`docker-compose.yml:66-73`) |
| `Ui` | `ui/app.js` | one action per event handler or response; a handler and its promise callbacks run to the end |
| `QuestionDesk` | abstract specification of the page for who asks: one question is awaited at a time, its end alone shows its outcome, its failure or a new page alone gives it up, anything else at most wipes what is shown | no requests, lists, tokens or inputs; `Ui` maps `awaited` to `pending` and `lastQuestion`, `shown` to the card |
| `HttpRequests` | the requests of one process and their statuses | shared by the next two |
| `ConnectionPool` | the asyncpg pool: `Acquire`, `Release`, `RegisterCodec`, `LoseIdle` | holders in a last-in-first-out queue |
| `Middleware` | `audit_and_auth`: `CheckBearer` and what becomes of each outcome: `Admit`, `Deny`, `Trip`, `Conclude`, `Rescue` | one audit event per exit, or none |
| `ApiRequests` | both around the routes, each a sequence of blocks of statements and provider calls | every block may raise; connections and the process may be lost |
| `Scripts` | the proof runner, the capture and the verifier, one after another, against the service as they see it | the service is documents, one chunk per document, and the ingests it is running |
| `MC…` | constants for TLC | |
| `KnowledgeServiceProofs`, `SequentialIngestProofs`, `BackupRestoreProofs`, `ApiRequestsProofs`, `ScriptsProofs`, `ChunkerProofs`, `ReadinessProofs`, `UiProofs` | machine-checked proofs | |

`Ingest` and `Query` extend `KnowledgeStore` and share its variables;
`KnowledgeService` extends both and adds `UNCHANGED` for the other side.
`BackupRestore` extends `KnowledgeService` and replaces its tables under it.
`Readiness` and `KnowledgeService` are joined by the gate: the second begins
where the first has set `db_ready`. `Ui` sees the service only through the
outcomes of its requests. `ApiRequests` composes `ConnectionPool` and
`Middleware`, which both extend `HttpRequests`; it leaves the tables out, as
`KnowledgeService` leaves the connections out: a block that finds no codec is
one of the failures (`FailIngest`, `FailQuery`) there. `Scripts` sees an ingestion
as a `DELETE` and an `INSERT`; that ingests which do not overlap leave a document
complete is what `SequentialIngest` shows, and an ingest that outlives its client,
which `SequentialIngest` excludes, is in `Scripts`. `Chunker` justifies the constant
`Pieces` of `KnowledgeStore`: what the splitter makes of a file depends on its bytes
and on the format its extension selects, and a content is both.

Operators called `X_Something`, marked *Mutant*, are wrong versions of `X`: each
is a plausible slip in the code it stands for, and each is caught by the
property `PROJECT.json` pairs it with.

### Where the models abstract

* A content is the bytes of a file in the format that its extension selects
  (`_detect_format`, `ingest.py:256`), so that the same bytes as `.md` and as `.txt`
  are two contents with one `Sha`, the key of their one document; they may be split
  differently, or one of them rejected. File names are without the extension. A
  piece `<<content, ordinal>>` stands for the text of a chunk; parsing is
  `Pieces[content]`, 0 when parser or size check rejects.
* The `SELECT` of a query is the exact top k as long as the table is scanned
  (`IsTopK`). `ensure_schema` builds an IVFFlat index once it counts 1000 rows
  (`db.py:148-159`): from `IndexFrom` rows on, counting all that were ever inserted,
  the `SELECT` may return any at most `top_k` candidates instead (`Approximates`).
  This allows more than can happen (the index may never be built) and leaves out
  nothing that can.
* Scores are numbers `Score(question, piece)`; the stub's token gate is
  `Overlaps(question, piece)`. In the runs both come from `StubEmbedding`, in
  hundredths: "mongolia" and "fermentation" share a ridge of the vector, "feeding"
  and "feeds" a stem, neither pair a token, so a passage may score high without a
  word in common; the question "void" has no token, so its scores are `NaN`.
  What SHA-256 and the suffix rules give for a word is a table; floating-point
  rounding is left out.
* In `KnowledgeService` awaits that touch no table (registering the codec,
  embedding the question) and follow each other are one state.
* The pool hands out last what was released last and opens one connection at the
  start (`min_size=1`); an idle connection is closed after 300 s, asyncpg's default,
  or with the database. `acquire` waits without a deadline, so nothing raises
  there once all holders are out.
* Starlette turns an `HTTPException` into a response inside `call_next`, so the
  `except HTTPException` of `main.py:199` is never reached; a stripped header that
  splits in two has a second part, so `"empty-token"` is never returned.
* A failed `await` whose statement nevertheless committed is that statement's
  step followed by `FailIngest`.
* In `BackupRestore` queries stay idle, since they write nothing, and the dump is
  that of the last backup; the corpus archive and the checksums are left out.
* In `Readiness` a DDL statement is a number; two handlers that create the same
  object or the extension at once are one joint step (`MigrationLoses`,
  `ExtensionLoses`), because `IF NOT EXISTS` does not exclude a duplicate-object
  error. What a route serves may take `chunks` over 1000 rows or under (`large`);
  the index of a large table is built or fails (`IndexFails`), over the 30 s of
  `command_timeout` for instance, at every probe that gets there.
* In `Ui` wording, styling, the status line and the list of citations are left
  out; a token is `none`, `good` or `bad`; a response is any the API may give.
* In `Scripts` a text is a file and its version, a question the set of files that
  answer it. `calm`, `pristine`, `torn` and `listed` are observers: whether anything
  went wrong since the run began, whether a file was never edited and no ingest
  outlived its client, whose files were being written at a kill, and what
  `corpus-index.json` has ever said. `alone` is the observer of `ConnectionPool`, and
  `waited` that of `Ui`: no list of another workspace was awaited when the user
  turned to this one.

## Runs

| Run | Question | Bounds, and why they are enough |
|---|---|---|
| `Answers` | Do the tables agree, do documents keep their identity, does a step touch only its own document's chunks and the collections that have its file, is any piece missing once all succeeded; are answers grounded, from uploads to the collection asked; do ids keep their meaning, and resolve while their file is left alone; is a refusal without evidence? | One query against two ingests over two workspaces, two collection names, two file names and three contents: one of one piece, one of two, and the bytes of the second in another format, of one piece. They meet in every combination of same/other workspace, collection, document and file name. `TopK = 2` of up to four rows, with `IndexFrom = 4`, so that the `SELECT` is exact up to three rows and may miss some at four; asked collection 1 or 2, existing or not; one piece shares a token and scores 40, one scores 0, one scores 81 without a token in common, and a question without a token scores `NaN`; threshold 20, the default 0.20; the provider may return too few vectors. Workspaces, names and requests are model values that no action tells apart: symmetric. |
| `Restores` | Do ids stay fresh and do tables agree after a restore, and does every ingest end while tables vanish and return? | Two ingests of two contents, so that a re-issued document id can mean the other content, one of two pieces, so that a dump can fall between them, and one content the parser rejects; a backup and a restore at any moment, either failing; any number of process restarts. |
| `OnePerDocument` | Does ingestion with one upload per document implement `DocumentIndex`, and what does a crash leave? | Three requests, so that a success, a failed re-ingest and a recovery can follow each other, or two documents be rebuilt at once and one of them again, over two workspaces and two names, with a content of two pieces; `MaxSeq = 1` lets one `POST /v1/collections` come at any point before the first collection. Workspaces, names and requests are model values that no action tells apart: symmetric. |
| `Chunks` | Does the splitter keep every property, and end? | Window 4 and overlaps 2, 3 and 4: half of it, more, where the floor `start + 1` of the next start is needed, and all of it. Every text of up to nine characters (more than two windows) over word/space/other blank, and every pair of texts of up to six. |
| `Probes` | Is the gate sound, are pools bounded, does the service recover? | Two handlers at once (a collision needs two), any number of them after each other, three DDL statements (a first, a middle, a last), one restart, any number of outages and of times the table passes 1000 rows, volumes with and without the extension. |
| `UiQueries` | One query at a time, the button disabled meanwhile; does the page implement `QuestionDesk`; does the selector follow the workspace? | Two questions, two workspaces with two and one collections, authentication on, two requests in flight, any number of events including reloads: two lists of one workspace overlap (a saved token, a retry), and lists of two workspaces do. |
| `Requests` | Is any connection lost, does an undisturbed request find its codec, does the gate fail closed, is every response on record once, does every request end? | Two connections for three requests: one must wait. An ingest, a query and a third request that goes through every case of the gate: public and not, authentication off and on, no token, placeholder or real one configured, header absent, malformed, wrong, right or not ASCII. Every await may raise; connections and the process are lost at any moment. |
| `ProofAndDemos` | Does a script end, does a calm proof run succeed, do documents and files stay what they should be? | Two scripts of any kind in either order (one meets what the other left), two files in two versions each, one question both answer and one nobody does, one more poll before a deadline; the service starts, dies and fails, and scripts are killed at any step. |

The other four runs each check one sentence of the repository against what the
code does; TLC finds the behaviour that contradicts it:

| Run | The repository says | What the run shows |
|---|---|---|
| `DuplicateChunks` | "idempotent re-ingest" (`ingest.py:325`) | Two overlapping requests for one file both delete, then both insert: every piece is stored twice. |
| `StolenChunks` | "two collections in the same workspace are isolated" (`init.sql:49-51`) | A document belongs to a workspace, not to a collection: ingesting the same bytes into B removes the chunks from A. |
| `JoinedCount` | the route calls it `chunk_count`, the page "(n chunks)" | With two documents the product of the joins counts each chunk twice. |
| `MissingCodec` | "pgvector codec must be registered before we touch `embedding` columns" (`ingest.py:251`), "on every connection" (`db.py:49`) | The codec is registered on one connection and the embeddings are sent on the one the pool hands out later; of two ingests the second takes the first one's connection while the first asks the embedding provider, so the first sends its vectors on one without codec: its `DELETE` is committed, asyncpg raises at the first `INSERT`, and it answers 500. The run has requests alone (`RequestsOnly`): nothing is lost and nothing dies. |

Further sentences the code does not keep are stated as formulas under the last
heading of their modules, each with its quotation. They are not runs of their
own; put the name on the `INVARIANT` or `PROPERTY` line of a configuration to
see the counterexample.

| Formula | Where | Behaviour |
|---|---|---|
| `AnswersCiteRealChunks` | `KnowledgeService` | "Answers must cite a real chunk" (`generate.py:5`): a re-ingest while the chat provider is awaited deletes what the answer then cites (`main.py:529`) |
| `RefusalsAreAnswers` | `KnowledgeService` | "explicit refusal. HTTP 200" (`main.py:518`): the score of a refusal may be `NaN` (`embeddings.py:210`), which JSON cannot carry, and the refusal becomes a 500 |
| `OriginalFileNameKept` | `KnowledgeService` | a re-upload under another name renames the document (`ingest.py:305`) |
| `ChunksCreatedAreStored` | `KnowledgeService` | `zip` drops pieces when the provider returns too few vectors (`ingest.py:327`) |
| `RefusalsScoreBelowThreshold` | `KnowledgeService` | a refusal by the token gate reports a score above the threshold (`main.py:512`) |
| `SplitsAtWordBoundaries` | `Chunker` | the overlap starts a window inside a word (`ingest.py:204`) |
| `ReadyWhenReachable` | `Readiness` | "the route returns 503 until the dependency becomes reachable" (`main.py:141-142`): on a volume without the extension, a failure after `_pool` is assigned leaves a process whose every later probe fails (`db.py:96`); with 1000 rows a new process waits for an index whose build may fail each time (`db.py:153`) |
| `OnePoolPerProcess` | `Readiness` | two handlers open two pools (`db.py:42`), and one polling client is enough: its second probe comes while the handler of the first, which it gave up, still awaits `create_pool` |
| `FirstRequestWarmsThePool` | `Readiness` | without a probe no route ever opens the pool (`main.py:140`; set `Handlers = {}`) |
| `OkMeansReachable`, `UnreachableIs503` | `Readiness` | `db_ready` is never looked at again (`main.py:284`, `:320`) |
| `EveryRequestIsAudited` | `Middleware` | "Every request is audited" (`README.en.md:7`): `compare_digest` raises on a token that is not ASCII, before the `try` (`main.py:171`) |
| `EveryChunkTraces` | `Scripts` | "Every chunk … traces back" (`run_proof.py:341`): the text of an earlier version of a file stays in the collection and is cited, but is not in the map |
| `DemosAreDeterministic` | `Scripts` | "does not depend on the host clock" (`run-demo.sh:16-18`): the demos do not wait for `/readyz` and may find the gate shut |
| `VerifyKnowsAuth` | `Scripts` | "AUTH_ENABLED=true -> real 401" (`_demo_verify.py:137-146`): with authentication on the verifier's own first call is refused and it exits |
| `SelectorFollowsWorkspace` without `waited` | `Ui` | a late list of the previous workspace fills the selector (`app.js:820`); the run shows, and the theorem proves, that it follows for a user who lets the lists of other workspaces arrive first |
| `RetryAsksAgain` | `Ui` | Retry asks what is typed now (`app.js:686`) |
| `PillTellsToken` | `Ui` | toggling the language forgets the saved token (`app.js:532`) |
| `DeniedOffersToken` | `Ui` | a 401 on the list offers a retry, not the token settings (`app.js:828`) |
| `AskIsReady` | `Ui` | a list that arrives after boot does not enable the button (`app.js:976`) |

`Restores` also shows by what it has to except what a restore under load costs.
Put `WorkspaceConsistent` on its `INVARIANTS` line: an ingest that was under way
inserts its pieces under the restored id of another content. With a query
(`Queries = {q1}`, added to `BackupNext`) `CitationFidelity` would go the same
way: a restore takes the sequences back, so an id cited before it may name
another chunk after it. And a restore of a torn dump leaves no tables: a running
process never creates them again, because its `db_ready` is set
(`main.py:284`), and only a new one does.

### Fairness

* `BackupRestore` (`Restores`): weak fairness of each ingest that has been
  admitted. The event loop resumes a coroutine whose `await` is over, and every
  `await` is: `command_timeout` of the pool and the timeouts of the HTTP clients
  turn a silent peer into an exception, and a missing table raises. Nothing makes
  a client send a request, an operator finish a command or a probe arrive.
* `Readiness` (`Probes`): weak fairness of the arrival of probes, because the health
  check of `docker-compose.yml` polls `/readyz` for ever, and of the steps of each
  handler, because every `await` ends; and of the calls of `/v1`. No fairness makes
  the build of an index succeed. `BecomesReady` assumes a database that stays up on
  a volume made by `db/init.sql`, and lets the service stay unready only if the table
  stays large without its index.
* `ApiRequests` (`Requests`): weak fairness of each request's steps. The event
  loop resumes what can go on and every await ends. One that waits for a
  connection is covered while a holder is free only; that holders do come back is
  what `EveryRequestEnds` shows. Nothing makes connections or the process fail.
* `Scripts` (`ProofAndDemos`): weak fairness of the steps of the script, which goes
  on when it can, and of the timeout of a call whose ingest the service is still
  running (`TimesOut`); each wait has its deadline in the guards. Nothing makes the
  service answer, and nothing makes a client give up a call that was answered.
* `Chunker` (`Chunks`): weak fairness of the computation, which nothing suspends.

Deadlock is checked where a system must go on (`Probes`, `UiQueries`) and not
where requests or runs are a finite set or the computation ends.

## Proofs

All theorems hold for every value of the constants, under the named assumptions
of the modules (`StoreAssumption`, `IngestAssumption`, `QueryAssumption`,
`BackupAssumption`, `PoolAssumption`, `TokenAssumption`, `ScriptsAssumption`,
`ChunkerAssumption`, `ReadinessAssumption`, `UiAssumption`).

**`KnowledgeServiceProofs`.** None of the safety properties is inductive. The
invariant adds (1) freshness: no row and no id in a task or an answer is above
its sequence, and rows with one id are one row; (2) *provenance*: what a task
holds was resolved for its own upload, so its collection and its document exist
with its workspace, name and content. (1) is what makes ids in clients' hands
keep their meaning although rows are deleted; (2) is needed because the chunks
carry ids read several awaits earlier. From them follow `TypeCorrect`,
`TablesAgree`, `CitationsKeepTheirMeaning`, `AnswersHaveProvenance`,
`DeletesAreScoped` and `NoAnswerWithoutEvidence`, the last one for scores that may
be `NaN`, which no comparison of the code orders.

What a query has read is `SoleUploadsResolve`'s subject: a chunk leaves the table
only by the `DELETE` of another request for its file, so `ResolveInv` follows each
hit and citation together with the requests for it. `RefusalsLackEvidence` argues
about `SELECT … LIMIT` as a scan of the table (`~MayBeIndexed`; of the approximate
index nothing of the kind is true): a relevant candidate that was not read has a full `TopK` of
better ones before it (`IsTopK`), each of which must have failed a gate; not the
threshold, which the worse one passed, so the token gate. It needs the rows to be
finitely many and keyed (`RowInv`) and the chunks to be pieces of the splitter, for
the scores to be numbers (`PiecesInv`). `DocumentsKeepIdentity` and
`CollectionsMeetInFilesOnly` are about single steps, in the tables of `RowInv`.

`NoPieceIsLost` needs more, because two requests for one document may delete what
the other has inserted (`KeepInv`): of the requests for a document one has failed,
or none has deleted yet, or one of those that have, the last to delete, still finds
in the table every piece it has inserted. When all have succeeded that is every
piece it had a vector for, as it read them: requests for one document may read its
bytes in different formats. `DescriptionsAreKept` follows from
the upsert's `COALESCE` and the key of `collections` (`KeysAreUnique`).

Two theorems say exactly when a sentence holds that a run refutes in general.
`CollectionsIsolatedWithoutSharing`: collections are isolated if every file goes to
one collection of its workspace (`OneCollectionPerFile`), since by
`CollectionsMeetInFilesOnly` they meet in files alone. `CountsExactForOneFile`:
the joined count is right if no collection gets two files
(`OneFilePerCollection`), for then the product of the joins has one document.
Both conditions are about what clients send: the scripts, which fill one collection
of a workspace with several files, meet the first and not the second.

**`SequentialIngestProofs`.** With one request per document (`Alone`) the request
that inserts has put back exactly its first pieces, all in its own collection
(`Progress`), and has a vector for each (`Counted`, which needs
`~ShortReplies`); every document's chunks are a prefix of its pieces. Hence
`PiecesArePrefix` and `SuccessIsComplete`, where the number of rows is counted by
the bijection between ordinals and pieces. `IngestImplementsIndex` maps every step:
the `DELETE` begins a rebuild, an `INSERT` is a stutter because the document is under
rebuild, the answer publishes it, a failure or a crash abandons it, and everything
else leaves the three mapped variables alone, which depends on a document's
completeness being a matter of its chunks only. Requests for other documents, which
interleave freely, touch neither its chunks nor its place in the mapping
(`OthersDiffer`); a crash abandons all rebuilds in one step.
Under the same condition two sentences of the repository hold that fail in
general: `ReingestIsIdempotentHere`, which `DuplicateChunks` refutes without it,
and `ReportedChunksAreStored`, which also needs `~ShortReplies`.

**`BackupRestoreProofs`.** `RestoresKeepIdsFresh`: the live tables and those of
the dump each have sequences at least as far as their rows, and while `pg_dump`
runs the live sequences never fall behind its snapshot's, because nothing
replaces the tables meanwhile. The last part is what lets the dump read its
sequences late. `RestoresAgree`: as long as no ingest was caught across a restore
the invariant of `KnowledgeServiceProofs` holds for the live tables, and the dump is
a snapshot of tables that agreed; `AgreeInv` states both at once, for a restore turns
the second into the first.

**`ApiRequestsProofs`.** `PoolInv` says that each holder is in the queue or in one
hand and in one place only (`PoolIsConserved`), and that while nothing disturbs a
request the codec it registered is on the connection it holds or on the head of
the queue: `UndisturbedRequestsHaveTheCodec` is a theorem about a stack. The rest
is one story per request: what it has sent and logged at each stage
(`TheGateHolds`, `ResponsesAreAudited`, `TypeCorrect`). All hold for any number
of requests and connections and any settings and headers.

**`ScriptsProofs`.** For any corpus, questions and number of runs.
`FailuresHaveACause`: while a proof run is calm and past its waits, the process is
ready and authentication off. `DocumentsStay`: rows are unique by workspace and
text, and every entry ever listed names its row. `TheEvidenceIsWhole`: what has been
written so far is of this run. `TheSourceMapTraces` is the composition: without
edits and left-over ingests each ingest under way is the script's own, so all
texts are first versions, the run has an entry for each file, and a chunk found by
a question is there when its citation is resolved and belongs to one of them.

**`ChunkerProofs`.** `NoTextIsLost` rests on: every word character before the
window's start is in a chunk already, the next start is never beyond the cut,
and a dropped window has no word character. `WindowsFit`, `OrdinalsCount`,
`NoChunkHoldsAnother` (for overlaps of at most half a window: the precondition
under which the half-window rule works) and `TheWindowMoves` (for any overlap, one
of the whole window included, where the floor `start + 1` is what moves it). The
overlap is a variable that no step changes, any member of `Overlaps`, so that one run
covers several and the theorems all.

**`ReadinessProofs`.** The invariant says what a handler knows from where it
stands: past `create_pool` a pool is open, in the migration the codec is
registered and the statements it ran are applied. `TheGateIsSound`, and
`PoolsBounded`: open pools and handlers that await one are together no more than
the handlers of `/readyz` that run at once. It says nothing about one polling
client, whose abandoned probes are handlers too.

**`UiProofs`.** The invariant adds to `OneQueryAtATime` that the card of an
answer and the button follow `pending`. `OneQuestionInFlight`,
`TheAnswerIsForTheQuestion` and `TheButtonWaits` hold for any number of
questions, workspaces and requests in flight. `PageIsTyped` needs that `FirstOf`
returns an option, that is, the least-number principle; the library states it with
an operator parameter, so `LeastNatural` derives it from the pigeonhole principle:
the lower bounds of a set without a least element would map into themselves less 0.
`PageImplementsDesk` maps every event to a step of `QuestionDesk`: a submission
poses a question since none is awaited, an outcome delivers the one awaited since the
request that ends carries `lastQuestion` (`IInv`), and all other events leave the
query alone and at most wipe the card. `SelectorFollows` rests on `OwnLists`: while
`waited` holds every list in flight is of the active workspace, and with none in
flight the options are its own or were never filled.

Model-checked only: liveness (`EveryIngestEnds`, `EveryRequestEnds`,
`EveryScriptEnds`, `Terminates`, `BecomesReady`), which needs fairness and `ENABLED`.
Every invariant and action property of the passing runs is proved. The converse is
not so: some theorems have no run of their own, because what they say was checked
while the proofs were made and takes a state space of its own.
These are `TheAnswerIsForTheQuestion`, `TheWindowMoves`, `DescriptionsAreKept` (the runs' explicit
upserts carry no description), the type invariants of the modules other than
`KnowledgeService`, and the conditional theorems `CollectionsIsolatedWithoutSharing`,
`CountsExactForOneFile`, `ReingestIsIdempotentHere` and `ReportedChunksAreStored`.
`TypeOK` is checked in `Answers`; elsewhere it is proved (`ChunkerTypes`,
`ReadinessTypes`, `PageIsTyped`, and `TypeCorrect` of `ApiRequestsProofs` and
`ScriptsProofs`).

## Not modelled

* `_parse_markdown`, `_parse_text`, `_parse_pdf`: pure functions of the text, the
  last one of a library; `Chunker` assumes that sections are stripped and not empty.
* HTTP and JSON of the providers: their outcomes are choices of the actions that
  call them.
* The redaction of audit texts (`scrub`): patterns over strings.
* `settings.py`, `models.py`: declarative validation; the limits that matter are
  constants of the models.
* The corpus archive and the checksums of `backup-restore.sh`, which the API does
  not read.
* `chat_messages` and `audit_events` are created by the schema and never written.
* The remaining verification scripts are sequential checks of files and pages;
  deployment, gallery, corpus and publication are configuration and documents.

## Plan

Done: the tables and both pipelines, their sequential use and its abstract index,
backup and restore, the splitter, readiness, the pool and the middleware, the page,
the stub embedder, the scripts, and the proofs above.

What is left, in the order of its worth:

1. The page's cards and pill under an abstract specification of their own, to
   state what `DeniedOffersToken` and `PillTellsToken` would need of the code.
2. Two processes over one database, should the deployment ever run more than one:
   the upserts carry over, the readiness migration and the pool bounds do not.
3. `_parse_markdown` as an operator over lines, if its sections are to be proved
   to be what `Chunker` assumes.
