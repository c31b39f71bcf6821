------------------------------ MODULE Scripts ------------------------------
(***************************************************************************)
(* The scripts that drive the running service: the proof runner            *)
(* (run_proof.py), the gallery capture (_demo_capture.py under             *)
(* run-demo.sh) and the demo verifier (_demo_verify.py).                   *)
(*                                                                         *)
(* Scripts run one after another, each waits, ingests the corpus, asks its *)
(* questions and leaves files, and any of them may be killed.  The service *)
(* is reduced to what they see of it: whether it answers, its documents,   *)
(* one chunk per document, and the ingests it is still running, the ones   *)
(* whose client has given up included.                                     *)
(***************************************************************************)
EXTENDS Integers, Sequences, FiniteSets, Functions

CONSTANTS
  Corpus,     (* the supported files of data/corpus, in their order        *)
  Versions,   (* a file is edited at most Versions - 1 times               *)
  Questions,  (* for each question, in order: the files that answer it     *)
  Polls,      (* how often a script asks before its deadline               *)
  MaxRuns     (* bound: how many scripts are started                       *)

\* Neither the corpus nor the list of questions is empty.
ASSUME ScriptsAssumption ==
  /\ Versions \in Nat \ {0} /\ Polls \in Nat /\ MaxRuns \in Nat
  /\ Corpus \in Seq(Range(Corpus)) \ {<<>>}
  /\ Questions \in Seq(SUBSET Range(Corpus)) \ {<<>>}

VARIABLES
  api,        (* "down", "starting" (/healthz only) or "ready"             *)
  auth,       (* auth_enabled; no script sends the token                   *)
  documents,  (* the rows: a document's id is its place                    *)
  chunks,     (* the rows [id, doc]                                        *)
  nextId,     (* of the chunks                                             *)
  ingests,    (* the POST /v1/ingest the service is running                *)
  version,    (* version[f]: the text of file f                            *)
  client,     (* the script that runs, or ran last                         *)
  files       (* files[kind][i]: the run that wrote its i-th file last     *)

VARIABLES     (* observers                                                 *)
  calm,       (* nothing has gone wrong since the script started           *)
  pristine,   (* no file was ever edited, no ingest outlived its client    *)
  torn,       (* the kinds whose last run was killed as it wrote its files *)
  listed      (* the [text, doc] that corpus-index.json has ever listed    *)

service   == <<api, auth, documents, chunks, nextId, ingests>>
observers == <<calm, pristine, torn, listed>>
vars      == <<service, version, client, files, observers>>

Kind == {"proof", "capture", "verify"}

\* The proof runner asks for its default workspace, the demos for a new one.
WorkspaceOf(kind, run) == IF kind = "proof" THEN 0 ELSE run

Text == [file: Range(Corpus), version: 1 .. Versions]
Row  == [workspace: 0 .. MaxRuns, text: Text]

TextNow(f) == [file |-> f, version |-> version[f]]

\* corpus-index.json, results.json, source-map.json, results.md and
\* source-map.md; the four screenshots.
FilesOf(kind) == CASE kind = "proof" -> 5 [] kind = "capture" -> 4 [] OTHER -> 0

WaitsFor(kind) ==
  CASE kind = "proof"   -> <<"/healthz", "/readyz">>
    [] kind = "capture" -> <<"/healthz">>
    [] kind = "verify"  -> <<"/healthz-ui">>

Over == {"none", "done", "failed"}

TypeOK ==
  /\ api \in {"down", "starting", "ready"} /\ auth \in BOOLEAN
  /\ documents \in Seq(Row)
  /\ nextId \in Nat /\ chunks \subseteq [id: 1 .. nextId - 1, doc: 1 .. Len(documents)]
  /\ \A i \in ingests : i \in [run: 1 .. MaxRuns, doc: 1 .. Len(documents),
                              next: {"delete", "insert", "answer"}]
  /\ version \in [Range(Corpus) -> 1 .. Versions]
  /\ client.kind \in Kind /\ client.run \in 0 .. MaxRuns
  /\ client.polls \in 0 .. Polls
  /\ client.phase \in Over \cup
       {"wait", "create", "ingest", "ask", "resolve", "write", "report"}
  /\ \A r \in Range(client.results) : \A c \in r.cites : c.doc \in 0 .. Len(documents)
  /\ \A k \in Kind : files[k] \in [1 .. FilesOf(k) -> 0 .. MaxRuns]

Init ==
  /\ api = "down" /\ auth \in BOOLEAN
  /\ documents = <<>> /\ chunks = {} /\ nextId = 1 /\ ingests = {}
  /\ version = [f \in Range(Corpus) |-> 1]
  /\ client = [kind |-> "proof", run |-> 0, phase |-> "none", at |-> 1,
               polls |-> 0, docs |-> <<>>, results |-> <<>>, cites |-> {}]
  /\ files = [k \in Kind |-> [i \in 1 .. FilesOf(k) |-> 0]]
  /\ calm = TRUE /\ pristine = TRUE /\ torn = {} /\ listed = {}

-----------------------------------------------------------------------------
(* The service. *)

ApiStarts ==
  /\ api = "down" /\ api' = "starting"
  /\ UNCHANGED <<auth, documents, chunks, nextId, ingests, version, client,
                 files, observers>>

\* A probe of the container's health check succeeds.
ApiIsProbed ==
  /\ api = "starting" /\ api' = "ready"
  /\ UNCHANGED <<auth, documents, chunks, nextId, ingests, version, client,
                 files, observers>>

\* Mutant: documents are not unique.
UpsertDocument_Appends(row) == Append(documents, row)

\* The upsert of documents by workspace and content.
UpsertDocument(row) ==
  IF row \in Range(documents) THEN documents ELSE Append(documents, row)

IdOf(row, rows) == CHOOSE d \in 1 .. Len(rows) :
                     rows[d] = row /\ \A e \in d + 1 .. Len(rows) : rows[e] # row

Goto(phase) == client' = [client EXCEPT !.phase = phase, !.at = 1]

Mine(i) == i.run = client.run /\ client.phase = "ingest"

\* The process dies; a script that waits for an ingest loses its connection.
ApiDies ==
  /\ api # "down" /\ api' = "down"
  /\ ingests' = {} /\ calm' = FALSE
  /\ IF \E i \in ingests : Mine(i) THEN Goto("failed") ELSE UNCHANGED client
  /\ UNCHANGED <<auth, documents, chunks, nextId, version, files, pristine, torn,
                 listed>>

\* A statement of an ingest: its DELETE, then its INSERT.  Nobody waits for
\* the answer of one whose client has given up.
ServeIngest(i) ==
  /\ \/ /\ i.next = "delete"
        /\ chunks' = {c \in chunks : c.doc # i.doc}
        /\ ingests' = (ingests \ {i}) \cup {[i EXCEPT !.next = "insert"]}
        /\ UNCHANGED nextId
     \/ /\ i.next = "insert"
        /\ chunks' = chunks \cup {[id |-> nextId, doc |-> i.doc]}
        /\ nextId' = nextId + 1
        /\ ingests' = (ingests \ {i}) \cup
                      (IF Mine(i) THEN {[i EXCEPT !.next = "answer"]} ELSE {})
  /\ UNCHANGED <<api, auth, documents, version, client, files, observers>>

Service == ApiStarts \/ ApiIsProbed \/ ApiDies
           \/ \E i \in ingests : ServeIngest(i)

\* What a /v1 request gets at the door.
V1 == CASE api = "down" -> "raises" [] auth -> "401"
        [] api = "starting" -> "503" [] OTHER -> "served"

-----------------------------------------------------------------------------
(* A script starts, waits and fails. *)

Start(kind) ==
  /\ client.phase \in Over /\ client.run < MaxRuns
  /\ client' = [kind |-> kind, run |-> client.run + 1, phase |-> "wait",
                at |-> 1, polls |-> Polls, docs |-> <<>>, results |-> <<>>,
                cites |-> {}]
  /\ calm' = ~auth
  /\ UNCHANGED <<service, version, files, pristine, torn, listed>>

\* An exception or a signal ends the script; an ingest it waited for goes
\* on without it.
Ends ==
  /\ Goto("failed")
  /\ ingests' = {i \in ingests : i.next # "answer"}
  /\ pristine' = (pristine /\ ingests' = {})
  /\ UNCHANGED <<api, auth, documents, chunks, nextId, version, files, listed>>

\* The probe of readiness is what makes the process ready.
Answers(endpoint) ==
  CASE endpoint = "/healthz"    -> api # "down"
    [] endpoint = "/readyz"     -> api # "down"
    [] endpoint = "/healthz-ui" -> TRUE

Probed(endpoint) == IF endpoint = "/readyz" THEN "ready" ELSE api

AfterWaits(kind) == IF kind = "proof" THEN "ingest" ELSE "create"

\* Mutant: the runner asks /healthz only.
Poll_HealthIsEnough ==
  /\ client.phase = "wait" /\ Answers("/healthz")
  /\ Goto(AfterWaits(client.kind))
  /\ UNCHANGED <<service, version, files, observers>>

\* _wait_for_api, _wait_for_db, _wait: the endpoint answers as it should.
Poll ==
  /\ client.phase = "wait"
  /\ LET waits == WaitsFor(client.kind) IN
       /\ Answers(waits[client.at])
       /\ api' = Probed(waits[client.at])
       /\ IF client.at < Len(waits)
            THEN client' = [client EXCEPT !.at = @ + 1, !.polls = Polls]
            ELSE Goto(AfterWaits(client.kind))
  /\ UNCHANGED <<auth, documents, chunks, nextId, ingests, version, files,
                 observers>>

\* Mutant: the deadline is taken anew in every turn.
PollAgain_NewDeadline ==
  /\ client.phase = "wait" /\ client.polls > 0
  /\ client' = [client EXCEPT !.polls = Polls]
  /\ UNCHANGED <<service, version, files, observers>>

\* It does not, or says the database is not there, and there is time left.
PollAgain ==
  /\ client.phase = "wait" /\ client.polls > 0
  /\ client' = [client EXCEPT !.polls = @ - 1]
  /\ UNCHANGED <<service, version, files, observers>>

Deadline ==
  /\ client.phase = "wait" /\ client.polls = 0
  /\ Ends /\ calm' = FALSE /\ UNCHANGED torn

\* A call times out or fails where the script needs its answer.
GivesUp ==
  /\ client.phase \in {"create", "ingest", "ask", "resolve"}
  /\ Ends /\ calm' = FALSE /\ UNCHANGED torn

\* The door turns a call down where the script needs its answer.
TurnedDown ==
  /\ \/ client.phase \in {"create", "ingest"} /\ V1 # "served"
     \/ client.phase \in {"ask", "resolve"} /\ V1 = "raises"
  /\ \A i \in ingests : ~Mine(i)
  /\ Ends /\ UNCHANGED <<calm, torn>>

Killed ==
  /\ client.phase \notin Over
  /\ Ends /\ calm' = FALSE
  /\ torn' = IF client.phase = "write" /\ client.at > 1
               THEN torn \cup {client.kind} ELSE torn

-----------------------------------------------------------------------------
(* It ingests the corpus. *)

\* The demos create their collection first.
Create ==
  /\ client.phase = "create" /\ V1 = "served"
  /\ Goto("ingest")
  /\ UNCHANGED <<service, version, files, observers>>

SendIngest ==
  /\ client.phase = "ingest" /\ V1 = "served"
  /\ \A i \in ingests : ~Mine(i)
  /\ LET row == [workspace |-> WorkspaceOf(client.kind, client.run),
                 text |-> TextNow(Corpus[client.at])]
     IN  /\ documents' = UpsertDocument(row)
         /\ ingests' = ingests \cup {[run |-> client.run, next |-> "delete",
                                     doc |-> IdOf(row, documents')]}
  /\ UNCHANGED <<api, auth, chunks, nextId, version, client, files, observers>>

\* Mutant: the record of the last file is not kept.
NextFile_ForgetsLast(docs) ==
  client' = IF client.at < Len(Corpus)
              THEN [client EXCEPT !.docs = docs, !.at = @ + 1]
              ELSE [client EXCEPT !.at = 1, !.phase = "ask"]

\* The next file, or the questions after the last one.
NextFile(docs) ==
  client' = IF client.at < Len(Corpus)
              THEN [client EXCEPT !.docs = docs, !.at = @ + 1]
              ELSE [client EXCEPT !.docs = docs, !.at = 1, !.phase = "ask"]

\* Mutant: corpus-index.json is written as the documents come in.
IngestAnswered_WritesIndex(i) ==
  /\ Mine(i) /\ i.next = "answer"
  /\ ingests' = ingests \ {i}
  /\ NextFile(Append(client.docs, [text |-> documents[i.doc].text, doc |-> i.doc]))
  /\ files' = IF client.kind # "proof" THEN files
               ELSE [files EXCEPT !["proof"][1] = client.run]
  /\ UNCHANGED <<api, auth, documents, chunks, nextId, version, observers>>

IngestAnswered(i) ==
  /\ Mine(i) /\ i.next = "answer"
  /\ ingests' = ingests \ {i}
  /\ NextFile(Append(client.docs, [text |-> documents[i.doc].text, doc |-> i.doc]))
  /\ UNCHANGED <<api, auth, documents, chunks, nextId, version, files, observers>>

\* An ingest fails before any of its statements or after; only the script
\* that waits for it notices, and stops.
IngestFails(i) ==
  /\ ingests' = ingests \ {i}
  /\ IF Mine(i) THEN Goto("failed") /\ calm' = FALSE
                ELSE UNCHANGED <<client, calm>>
  /\ UNCHANGED <<api, auth, documents, chunks, nextId, version, files, pristine,
                 torn, listed>>

-----------------------------------------------------------------------------
(* It asks its questions. *)

Found(files_, workspace) ==
  {c.id : c \in {c \in chunks : /\ documents[c.doc].workspace = workspace
                               /\ documents[c.doc].text.file \in files_}}

Expected(q) == IF Questions[q] = {} THEN "refused" ELSE "answered"

\* The proof runner resolves the citations before it goes on.
AfterQuestion(results, cites) ==
  LET over == client.at = Len(Questions)
      next == IF client.kind = "proof" /\ cites # {} THEN "resolve"
              ELSE IF ~over THEN "ask"
              ELSE IF client.kind # "verify" THEN "write" ELSE "report"
  IN  client' = [client EXCEPT !.results = results, !.cites = cites, !.phase = next,
                  !.at = IF next = "resolve" THEN @ ELSE IF over THEN 1 ELSE @ + 1]

\* The capture waits for the state the page should show, which never comes.
Outcome(status, cites) ==
  IF client.kind = "capture" /\ status # Expected(client.at)
    THEN Goto("failed")
    ELSE AfterQuestion(
           Append(client.results, [status |-> status, cites |-> {}]),
           IF client.kind = "proof" THEN cites ELSE {})

Ask ==
  /\ client.phase = "ask"
  /\ \/ /\ V1 = "served"
        /\ LET found == Found(Questions[client.at], WorkspaceOf(client.kind, client.run))
           IN  Outcome(IF found = {} THEN "refused" ELSE "answered", found)
        /\ UNCHANGED calm
     \/ /\ V1 = "served" /\ calm' = FALSE  (* and fails *)
        /\ Outcome("error", {})
     \/ /\ V1 \in {"401", "503"} /\ UNCHANGED calm
        /\ Outcome("error", {})
  /\ UNCHANGED <<service, version, files, pristine, torn, listed>>

\* The document of a cited chunk, or 0 for an error.
Resolved(c, doc) ==
  LET results == [client.results EXCEPT ![Len(client.results)].cites =
                    @ \cup {[chunk |-> c, doc |-> doc]}]
  IN  IF client.cites = {c} THEN AfterQuestion(results, {})
      ELSE client' = [client EXCEPT !.results = results, !.cites = @ \ {c}]

Resolve(c) ==
  /\ client.phase = "resolve"
  /\ \/ /\ V1 = "served" /\ UNCHANGED calm
        /\ Resolved(c, IF \E k \in chunks : k.id = c
                         THEN (CHOOSE k \in chunks : k.id = c).doc ELSE 0)
     \/ /\ V1 = "served" /\ calm' = FALSE  (* and fails *)
        /\ Resolved(c, 0)
     \/ V1 \in {"401", "503"} /\ UNCHANGED calm /\ Resolved(c, 0)
  /\ UNCHANGED <<service, version, files, pristine, torn, listed>>

-----------------------------------------------------------------------------
(* It reports. *)

\* The proof runner writes its five files at the end and exits 0, whatever
\* the answers were; run-demo.sh copies the screenshots out once the capture
\* has them all.
Write ==
  /\ client.phase = "write"
  /\ files' = [files EXCEPT ![client.kind][client.at] = client.run]
  /\ IF client.at < FilesOf(client.kind)
       THEN client' = [client EXCEPT !.at = @ + 1] /\ UNCHANGED torn
       ELSE Goto("done") /\ torn' = torn \ {client.kind}
  /\ listed' = IF client.kind = "proof" THEN listed \cup Range(client.docs)
                ELSE listed
  /\ UNCHANGED <<service, version, calm, pristine>>

\* The verifier sends a query with a bad token and asks whether
\* authentication is on; it ends with 0 if every answer was as expected.
Report ==
  /\ client.phase = "report"
  /\ Goto(IF /\ api # "down"
             /\ \A q \in 1 .. Len(Questions) :
                  client.results[q].status = Expected(q)
            THEN "done" ELSE "failed")
  /\ UNCHANGED <<service, version, files, observers>>

\* Between two runs somebody edits a file of the corpus.
Edit(f) ==
  /\ client.phase \in Over /\ client.run > 0 /\ version[f] < Versions
  /\ version' = [version EXCEPT ![f] = @ + 1]
  /\ pristine' = FALSE
  /\ UNCHANGED <<service, client, files, calm, torn, listed>>

ScriptStep ==
  \/ Poll \/ PollAgain \/ Deadline \/ TurnedDown
  \/ Create \/ SendIngest \/ (\E i \in ingests : IngestAnswered(i))
  \/ Ask \/ (\E c \in client.cites : Resolve(c))
  \/ Write \/ Report

Next ==
  \/ Service
  \/ \E i \in ingests : IngestFails(i)
  \/ ScriptStep \/ GivesUp \/ Killed
  \/ \E k \in Kind : Start(k)
  \/ \E f \in Range(Corpus) : Edit(f)

\* The client's timeout, while the service keeps it waiting for an ingest.
TimesOut == GivesUp /\ \E i \in ingests : Mine(i)

\* A script goes on while it can, and gives up an ingest that takes too
\* long; nothing else makes it stop.
Spec == Init /\ [][Next]_vars /\ WF_vars(ScriptStep) /\ WF_vars(TimesOut)

-----------------------------------------------------------------------------
\* A script ends whatever the service does, also if it is never up or keeps
\* an ingest waiting: it polls to a deadline and goes over its files, its
\* questions and their citations once.
EveryScriptEnds == (client.phase \notin Over) ~> (client.phase \in Over)

\* A proof run whose waits are over does not fail and has no question in
\* error, although readiness is asked once and before all the rest, unless
\* something went wrong since it started.
ProofFailsForACause ==
  client.kind = "proof" /\ calm =>
    /\ client.phase # "failed"
    /\ \A r \in Range(client.results) : r.status # "error"

\* "re-ingesting the same content produces the same documents": through
\* edits, kills and ingests that outlive their run, corpus-index.json gives
\* a text the one document id.
DocumentsAreStable ==
  \A a, b \in listed : a.text = b.text => a.doc = b.doc

Traced ==
  \A r \in Range(client.results) : \A c \in r.cites :
    \E d \in Range(client.docs) : d.doc = c.doc

Mapped == client.kind = "proof" /\ client.phase \in {"write", "done"}

\* Every chunk cited is in the source map of its run if no file was ever
\* edited, no ingest ever outlived its client and the run was calm.
SourceMapTraces == Mapped /\ calm /\ pristine => Traced

\* A run that fails leaves the evidence of the one before: the files of a
\* kind are all of one run, unless a run was killed as it wrote them.
EvidenceIsWhole ==
  \A k \in Kind \ torn :
    \/ client.kind = k /\ client.phase = "write"
    \/ Cardinality(Range(files[k])) <= 1

-----------------------------------------------------------------------------
\* "Every chunk that answered an acceptance question traces back to the
\* document and section shown here": one of an earlier version of a file,
\* which stays in the collection, does not.
EveryChunkTraces == Mapped => Traced

\* "the outcome does not depend on the host clock": the demos do not wait for
\* the database, and the door is still shut when they come early.
DemosAreDeterministic ==
  client.kind # "proof" /\ calm => client.phase # "failed"

\* "AUTH_ENABLED=true -> real 401 from /api/v1/query": with authentication
\* on the verifier does not get as far as its query.
VerifyKnowsAuth ==
  client.kind = "verify" /\ auth /\ api # "down" => client.phase # "failed"
=============================================================================
