---------------------------- MODULE ScriptsProofs ----------------------------
(***************************************************************************)
(* Proofs about Scripts, for any corpus, any questions and any number of   *)
(* runs: what a proof run reports is so, and what it leaves is of one run. *)
(***************************************************************************)
EXTENDS Scripts, SequenceTheorems, FiniteSetTheorems, TLAPS

(* The inductive invariant. *)

Phase == Over \cup {"wait", "create", "ingest", "ask", "resolve", "write", "report"}

Entry  == [text: Text, doc: Nat]
Result == [status: {"answered", "refused", "error"}, cites: SUBSET [chunk: Nat, doc: Nat]]

Client ==
  [kind: Kind, run: 0 .. MaxRuns, phase: Phase, at: Nat \ {0}, polls: 0 .. Polls,
   docs: Seq(Entry), results: Seq(Result), cites: SUBSET Nat]

ServiceOK ==
  /\ api \in {"down", "starting", "ready"} /\ auth \in BOOLEAN
  /\ documents \in Seq(Row)
  /\ nextId \in Nat \ {0}
  /\ chunks \subseteq [id: 1 .. nextId - 1, doc: 1 .. Len(documents)]
  /\ ingests \subseteq [run: 1 .. MaxRuns, doc: 1 .. Len(documents),
                        next: {"delete", "insert", "answer"}]

\* Where the script stands is somewhere in what it does there.
Placed ==
  /\ client.phase = "wait" => client.at <= Len(WaitsFor(client.kind))
  /\ client.phase = "ingest" => client.at <= Len(Corpus)
  /\ client.phase \in {"ask", "resolve"} => client.at <= Len(Questions)
  /\ client.phase = "write" => client.at <= FilesOf(client.kind)
  /\ client.phase = "create" => client.kind # "proof"
  /\ client.phase = "report" => client.kind = "verify"
  /\ client.phase = "resolve" => client.kind = "proof" /\ client.results # <<>>
  /\ client.phase \in {"none", "wait", "create", "ingest"} => client.results = <<>>
  /\ client.phase # "none" => client.run > 0

FilesOK ==
  /\ version \in [Range(Corpus) -> 1 .. Versions]
  /\ files = [k \in Kind |-> files[k]]
  /\ \A k \in Kind : files[k] \in [1 .. FilesOf(k) -> 0 .. MaxRuns]
  /\ calm \in BOOLEAN /\ pristine \in BOOLEAN /\ torn \subseteq Kind
  /\ listed \subseteq Entry

TypeInv == ServiceOK /\ client \in Client /\ Placed /\ FilesOK

\* x pairs a text of the default workspace with its document.
Names(x) ==
  /\ x.doc \in 1 .. Len(documents)
  /\ documents[x.doc] = [workspace |-> 0, text |-> x.text]

Injective(rows) ==
  \A d, e \in 1 .. Len(rows) : rows[d] = rows[e] => d = e

\* A document is one row, which what a proof run knows of it still names.
RowsInv ==
  /\ Injective(documents)
  /\ \A i \in ingests :
       /\ i.run <= client.run
       /\ i.run = client.run =>
            documents[i.doc].workspace = WorkspaceOf(client.kind, client.run)
  /\ \A x \in listed : Names(x)
  /\ client.kind = "proof" => \A x \in Range(client.docs) : Names(x)
  /\ \A r \in Range(client.results) : \A c \in r.cites :
       c.doc \in 0 .. Len(documents)

\* A kind's files are of one run, but for the one that is writing them.
Whole(k) == \E run \in 0 .. MaxRuns : \A n \in 1 .. FilesOf(k) : files[k][n] = run

FilesInv ==
  /\ \A k \in Kind \ torn :
       Whole(k) \/ (client.kind = k /\ client.phase = "write" /\ client.at > 1)
  /\ client.phase = "write" =>
       \A n \in 1 .. client.at - 1 : files[client.kind][n] = client.run

\* While a proof run is calm the door stays open once readiness was asked.
CauseInv ==
  client.kind = "proof" /\ calm /\ client.phase # "none" =>
    /\ ~auth /\ client.phase # "failed"
    /\ client.phase # "wait" => api = "ready"
    /\ \A r \in Range(client.results) : r.status # "error"

\* The first versions of the first n files are in docs.
Has(docs, n) ==
  \A m \in 1 .. n : \E x \in Range(docs) :
    x.text = [file |-> Corpus[m], version |-> 1]

Finds(c) == \E k \in chunks : k.id = c /\ documents[k.doc].workspace = 0

\* A script has one ingest under way at most, for the file it is at; without
\* edits and left-over ingests there are no other texts and no other ingests.
TidyInv ==
  /\ \A k, l \in chunks : k.id = l.id => k = l
  /\ \A i, j \in ingests : i.run = client.run /\ j.run = client.run => i = j
  /\ \A i \in ingests : i.run = client.run =>
       /\ client.phase \notin {"wait", "create"}
       /\ client.phase = "ingest" => documents[i.doc].text.file = Corpus[client.at]
  /\ pristine =>
       /\ \A f \in Range(Corpus) : version[f] = 1
       /\ \A d \in 1 .. Len(documents) : documents[d].text.version = 1
       /\ \A i \in ingests : Mine(i)

\* So a proof run's questions see the documents it has ingested.
TraceInv ==
  client.kind = "proof" /\ pristine =>
    /\ client.phase = "ingest" => Has(client.docs, client.at - 1)
    /\ client.phase \in {"ask", "resolve", "write", "done"} => Has(client.docs, Len(Corpus))
    /\ calm => Traced
    /\ calm /\ client.phase = "resolve" => \A c \in client.cites : Finds(c)

ScriptsInv == TypeInv /\ RowsInv /\ FilesInv /\ CauseInv /\ TidyInv /\ TraceInv

-----------------------------------------------------------------------------
(* What a step makes of the script. *)

\* The script is the same one and knows what it knew.
Keeps ==
  /\ client'.kind = client.kind /\ client'.run = client.run
  /\ client'.docs = client.docs /\ client'.results = client.results
  /\ client'.cites = client.cites

LEMMA GotoStep ==
  ASSUME client \in Client, NEW p \in Phase, Goto(p)
  PROVE  client' \in Client /\ Keeps /\ client'.phase = p /\ client'.at = 1
<1>1. client' = [kind |-> client.kind, run |-> client.run, phase |-> p, at |-> 1,
                 polls |-> client.polls, docs |-> client.docs,
                 results |-> client.results, cites |-> client.cites]
  BY DEF Goto, Client
<1> QED
  BY <1>1 DEF Client, Keeps

LEMMA StartStep ==
  ASSUME TypeInv, NEW k \in Kind, Start(k)
  PROVE  /\ client' \in Client
         /\ client'.kind = k /\ client'.run = client.run + 1
         /\ client'.phase = "wait" /\ client'.at = 1
         /\ client'.docs = <<>> /\ client'.results = <<>> /\ client'.cites = {}
         /\ client'.run \in 1 .. MaxRuns
BY ScriptsAssumption DEF TypeInv, Client, Start, Phase

LEMMA PollStep ==
  ASSUME TypeInv, Poll
  PROVE  /\ client' \in Client /\ Keeps
         /\ client.phase = "wait"
         /\ \/ /\ client'.phase = "wait" /\ client'.at = client.at + 1
               /\ client'.at <= Len(WaitsFor(client.kind))
            \/ /\ client'.phase = AfterWaits(client.kind) /\ client'.at = 1
               /\ ~(client.at < Len(WaitsFor(client.kind)))
<1>1. client \in Client /\ client.phase = "wait"
  BY DEF TypeInv, Poll
<1>2. CASE client.at < Len(WaitsFor(client.kind))
  <2>1. client' = [kind |-> client.kind, run |-> client.run, phase |-> "wait",
                   at |-> client.at + 1, polls |-> Polls, docs |-> client.docs,
                   results |-> client.results, cites |-> client.cites]
    BY <1>1, <1>2 DEF Poll, Client
  <2>2. Len(WaitsFor(client.kind)) \in Int
    BY <1>1 DEF WaitsFor, Client, Kind
  <2> QED
    BY <1>1, <1>2, <2>1, <2>2, ScriptsAssumption DEF Client, Keeps
<1>3. CASE ~(client.at < Len(WaitsFor(client.kind)))
  <2>1. Goto(AfterWaits(client.kind)) /\ AfterWaits(client.kind) \in Phase
    BY <1>3 DEF Poll, AfterWaits, Phase
  <2> QED
    BY <1>1, <1>3, <2>1, GotoStep
<1> QED
  BY <1>2, <1>3

LEMMA PollAgainStep ==
  ASSUME TypeInv, PollAgain
  PROVE  /\ client' \in Client /\ Keeps
         /\ client.phase = "wait" /\ client'.phase = "wait" /\ client'.at = client.at
<1>1. client' = [kind |-> client.kind, run |-> client.run, phase |-> "wait",
                 at |-> client.at, polls |-> client.polls - 1, docs |-> client.docs,
                 results |-> client.results, cites |-> client.cites]
  BY DEF PollAgain, TypeInv, Client
<1>2. client.polls - 1 \in 0 .. Polls
  BY ScriptsAssumption DEF PollAgain, TypeInv, Client
<1> QED
  BY <1>1, <1>2 DEF PollAgain, TypeInv, Client, Keeps

LEMMA NextFileStep ==
  ASSUME client \in Client, NEW docs \in Seq(Entry), NextFile(docs),
         client.phase = "ingest"
  PROVE  /\ client' \in Client
         /\ client'.kind = client.kind /\ client'.run = client.run
         /\ client'.docs = docs /\ client'.results = client.results
         /\ client'.cites = client.cites
         /\ \/ /\ client.at < Len(Corpus)
               /\ client'.phase = "ingest" /\ client'.at = client.at + 1
            \/ /\ ~(client.at < Len(Corpus))
               /\ client'.phase = "ask" /\ client'.at = 1
<1>1. CASE client.at < Len(Corpus)
  <2>1. client' = [kind |-> client.kind, run |-> client.run, phase |-> "ingest",
                   at |-> client.at + 1, polls |-> client.polls, docs |-> docs,
                   results |-> client.results, cites |-> client.cites]
    BY <1>1 DEF NextFile, Client
  <2> QED
    BY <1>1, <2>1 DEF Client
<1>2. CASE ~(client.at < Len(Corpus))
  <2>1. client' = [kind |-> client.kind, run |-> client.run, phase |-> "ask",
                   at |-> 1, polls |-> client.polls, docs |-> docs,
                   results |-> client.results, cites |-> client.cites]
    BY <1>2 DEF NextFile, Client
  <2> QED
    BY <1>2, <2>1 DEF Client, Phase
<1> QED
  BY <1>1, <1>2

LEMMA AfterQuestionStep ==
  ASSUME TypeInv, client.phase \in {"ask", "resolve"},
         NEW results \in Seq(Result), NEW cites \in SUBSET Nat, results # <<>>,
         AfterQuestion(results, cites)
  PROVE  /\ client' \in Client
         /\ client'.kind = client.kind /\ client'.run = client.run
         /\ client'.docs = client.docs
         /\ client'.results = results /\ client'.cites = cites
         /\ \/ /\ client'.phase = "resolve" /\ client'.at = client.at
               /\ client.kind = "proof"
            \/ client'.phase = "ask" /\ client'.at <= Len(Questions)
            \/ /\ client'.phase = "write" /\ client'.at = 1
               /\ client.kind # "verify"
            \/ client'.phase = "report" /\ client.kind = "verify"
<1> DEFINE over == client.at = Len(Questions)
           next == IF client.kind = "proof" /\ cites # {} THEN "resolve"
                   ELSE IF ~over THEN "ask"
                   ELSE IF client.kind # "verify" THEN "write" ELSE "report"
           at   == IF next = "resolve" THEN client.at ELSE IF over THEN 1 ELSE client.at + 1
<1>1. client \in Client /\ client.at <= Len(Questions) /\ Len(Questions) \in Nat
  BY ScriptsAssumption DEF TypeInv, Placed
<1>2. client' = [kind |-> client.kind, run |-> client.run, phase |-> next,
                 at |-> at, polls |-> client.polls, docs |-> client.docs,
                 results |-> results, cites |-> cites]
  BY <1>1 DEF AfterQuestion, Client
<1>3. next \in Phase /\ at \in Nat \ {0}
  BY <1>1 DEF Phase, Client
<1>4. client' \in Client
  <2> HIDE DEF next, at
  <2> QED
    BY <1>1, <1>2, <1>3 DEF Client
<1>5. client'.phase = next /\ client'.at = at
  <2> HIDE DEF next, at
  <2> QED
    BY <1>2
<1>6. /\ client'.kind = client.kind /\ client'.run = client.run
      /\ client'.docs = client.docs /\ client'.results = results /\ client'.cites = cites
  BY <1>2
<1>7. client.kind \in {"proof", "capture", "verify"} /\ client.at \in Nat
  BY <1>1 DEF Client, Kind
<1> QED
  BY <1>1, <1>4, <1>5, <1>6, <1>7

LEMMA WriteStep ==
  ASSUME TypeInv, Write
  PROVE  /\ client' \in Client /\ Keeps /\ client.phase = "write"
         /\ \/ /\ client'.phase = "write" /\ client'.at = client.at + 1
               /\ client'.at <= FilesOf(client.kind)
               /\ UNCHANGED torn
            \/ /\ client'.phase = "done" /\ client.at = FilesOf(client.kind)
               /\ torn' = torn \ {client.kind}
<1>1. client \in Client /\ client.phase = "write" /\ client.at <= FilesOf(client.kind)
  BY DEF TypeInv, Write, Placed
<1>2. FilesOf(client.kind) \in Nat /\ client.at \in Nat
  BY <1>1 DEF FilesOf, Client, Kind
<1>3. CASE client.at < FilesOf(client.kind)
  <2>1. client' = [kind |-> client.kind, run |-> client.run, phase |-> "write",
                   at |-> client.at + 1, polls |-> client.polls, docs |-> client.docs,
                   results |-> client.results, cites |-> client.cites]
    BY <1>1, <1>3 DEF Write, Client
  <2>2. UNCHANGED torn
    BY <1>3 DEF Write
  <2> QED
    BY <1>1, <1>2, <1>3, <2>1, <2>2 DEF Client, Keeps
<1>4. CASE ~(client.at < FilesOf(client.kind))
  <2>1. Goto("done") /\ torn' = torn \ {client.kind} /\ "done" \in Phase
    BY <1>4 DEF Write, Phase, Over
  <2> QED
    BY <1>1, <1>2, <1>4, <2>1, GotoStep
<1> QED
  BY <1>3, <1>4

\* An answer is appended to the results, or the capture gives up.
LEMMA AskStep ==
  ASSUME TypeInv, Ask
  PROVE  /\ client' \in Client /\ client.phase = "ask"
         /\ client'.kind = client.kind /\ client'.run = client.run
         /\ client'.docs = client.docs
         /\ \/ /\ client.kind = "capture" /\ client'.phase = "failed"
               /\ client'.results = client.results
            \/ \E status \in {"answered", "refused", "error"} :
                 /\ client'.results = Append(client.results, [status |-> status, cites |-> {}])
                 /\ client.kind = "proof" /\ calm' =>
                      /\ calm
                      /\ V1 = "served" => status # "error"
                      /\ client'.cites =
                           IF V1 = "served" THEN Found(Questions[client.at], 0)
                                            ELSE {}
         /\ \/ client'.phase = "failed" /\ client.kind = "capture"
            \/ /\ client'.phase = "resolve" /\ client'.at = client.at
               /\ client.kind = "proof"
            \/ client'.phase = "ask" /\ client'.at <= Len(Questions)
            \/ /\ client'.phase = "write" /\ client'.at = 1
               /\ client.kind # "verify"
            \/ client'.phase = "report" /\ client.kind = "verify"
<1>1. client \in Client /\ client.phase = "ask" /\ client.results \in Seq(Result)
  BY DEF TypeInv, Ask, Client
<1> DEFINE found == Found(Questions[client.at], WorkspaceOf(client.kind, client.run))
<1>2. found \in SUBSET Nat
  BY DEF Found, TypeInv, ServiceOK
<1>3. ASSUME NEW status \in {"answered", "refused", "error"}, NEW cites \in SUBSET Nat,
             Outcome(status, cites)
      PROVE  \/ client.kind = "capture" /\ Goto("failed")
             \/ LET c == IF client.kind = "proof" THEN cites ELSE {} IN
                  /\ c \in SUBSET Nat
                  /\ AfterQuestion(Append(client.results, [status |-> status, cites |-> {}]), c)
  BY <1>3 DEF Outcome
<1>4. PICK status \in {"answered", "refused", "error"}, cites \in SUBSET Nat :
        /\ Outcome(status, cites)
        /\ client.kind = "proof" /\ calm' =>
             /\ calm
             /\ V1 = "served" => status # "error" /\ cites = found
             /\ V1 # "served" => cites = {}
  <2>1. CASE /\ V1 = "served"
             /\ Outcome(IF found = {} THEN "refused" ELSE "answered", found)
             /\ UNCHANGED calm
    <3> DEFINE st == IF found = {} THEN "refused" ELSE "answered"
    <3>1. st \in {"answered", "refused", "error"} /\ st # "error"
      OBVIOUS
    <3> HIDE DEF st, found
    <3> QED
      BY <2>1, <3>1, <1>2 DEF st
  <2>2. CASE V1 = "served" /\ calm' = FALSE /\ Outcome("error", {})
    BY <2>2
  <2>3. CASE V1 \in {"401", "503"} /\ UNCHANGED calm /\ Outcome("error", {})
    BY <2>3
  <2> QED
    BY <2>1, <2>2, <2>3 DEF Ask
<1>5. CASE client.kind = "capture" /\ Goto("failed")
  <2>1. client' \in Client /\ Keeps /\ client'.phase = "failed"
    BY <1>1, <1>5, GotoStep DEF Phase, Over
  <2> QED
    BY <1>1, <1>5, <2>1 DEF Keeps
<1>6. CASE ~(client.kind = "capture" /\ Goto("failed"))
  <2> DEFINE rs == Append(client.results, [status |-> status, cites |-> {}])
             cs == IF client.kind = "proof" THEN cites ELSE {}
  <2>1. AfterQuestion(rs, cs) /\ cs \in SUBSET Nat
    BY <1>3, <1>4, <1>6
  <2>2. rs \in Seq(Result) /\ rs # <<>>
    <3>1. [status |-> status, cites |-> {}] \in Result
      BY DEF Result
    <3> QED
      BY <1>1, <3>1, AppendProperties
  <2> HIDE DEF rs, cs
  <2>3. /\ client' \in Client
        /\ client'.kind = client.kind /\ client'.run = client.run
        /\ client'.docs = client.docs
        /\ client'.results = rs /\ client'.cites = cs
        /\ \/ /\ client'.phase = "resolve" /\ client'.at = client.at
              /\ client.kind = "proof"
           \/ client'.phase = "ask" /\ client'.at <= Len(Questions)
           \/ /\ client'.phase = "write" /\ client'.at = 1
              /\ client.kind # "verify"
           \/ client'.phase = "report" /\ client.kind = "verify"
    BY <1>1, <2>1, <2>2, AfterQuestionStep
  <2>4. client.kind = "proof" => cs = cites /\ found = Found(Questions[client.at], 0)
    BY DEF cs, WorkspaceOf
  <2> HIDE DEF found
  <2>5. client'.results = Append(client.results, [status |-> status, cites |-> {}])
    BY <2>3 DEF rs
  <2> QED
    BY <1>1, <1>4, <2>3, <2>4, <2>5
<1> QED
  BY <1>5, <1>6

\* A result is its two fields.
LEMMA NewCites ==
  ASSUME NEW A, NEW B, NEW o \in [status: A, cites: B], NEW y
  PROVE  [o EXCEPT !.cites = y] = [status |-> o.status, cites |-> y]
OBVIOUS

\* A citation is added to the last result.
LEMMA CiteLast ==
  ASSUME NEW s \in Seq(Result), s # <<>>, NEW e \in [chunk: Nat, doc: Nat]
  PROVE  LET t == [s EXCEPT ![Len(s)].cites = @ \cup {e}] IN
         /\ t \in Seq(Result) /\ t # <<>>
         /\ \A r \in Range(t) : \E o \in Range(s) :
              r.status = o.status /\ r.cites \subseteq o.cites \cup {e}
<1> DEFINE n == Len(s)
           v == [s[n] EXCEPT !.cites = @ \cup {e}]
           t == [s EXCEPT ![n] = v]
<1>1. n \in 1 .. Len(s) /\ n \in Nat \ {0}
  BY EmptySeq
<1>2. s[n] \in Result
  BY <1>1, ElementOfSeq
<1>3. v = [status |-> s[n].status, cites |-> s[n].cites \cup {e}]
  <2> DEFINE y == s[n].cites \cup {e}
  <2>1. v = [s[n] EXCEPT !.cites = y]
    OBVIOUS
  <2> HIDE DEF y, v, n
  <2>2. [s[n] EXCEPT !.cites = y] = [status |-> s[n].status, cites |-> y]
    BY <1>2, NewCites DEF Result
  <2> QED
    BY <2>1, <2>2 DEF y
<1>4. v \in Result /\ v.status = s[n].status /\ v.cites = s[n].cites \cup {e}
  BY <1>2, <1>3 DEF Result
<1>5. [s EXCEPT ![Len(s)].cites = @ \cup {e}] = t
  OBVIOUS
<1> HIDE DEF v
<1>6. /\ t \in Seq(Result) /\ Len(t) = Len(s)
      /\ \A j \in 1 .. Len(s) : t[j] = IF j = n THEN v ELSE s[j]
  BY <1>1, <1>4, ExceptSeq
<1> HIDE DEF t
<1>7. ASSUME NEW r \in Range(t)
      PROVE  \E o \in Range(s) : r.status = o.status /\ r.cites \subseteq o.cites \cup {e}
  <2>1. PICK j \in 1 .. Len(s) : r = t[j]
    BY <1>6, LenProperties DEF Range
  <2>2. s[j] \in Range(s)
    BY <2>1, LenProperties DEF Range
  <2> QED
    BY <1>4, <1>6, <2>1, <2>2
<1>8. t # <<>>
  BY <1>1, <1>6
<1> QED
  BY <1>5, <1>6, <1>7, <1>8

Cited(c, doc) == [chunk |-> c, doc |-> doc]

\* A citation is resolved to a document, or to 0.
LEMMA ResolveStep ==
  ASSUME TypeInv, NEW c \in client.cites, Resolve(c)
  PROVE  /\ client' \in Client /\ client.phase = "resolve" /\ client.kind = "proof"
         /\ client'.kind = client.kind /\ client'.run = client.run
         /\ client'.docs = client.docs
         /\ client'.results # <<>>
         /\ client'.cites \subseteq client.cites
         /\ \E doc \in 0 .. Len(documents) :
              /\ \A r \in Range(client'.results) : \E o \in Range(client.results) :
                   r.status = o.status /\ r.cites \subseteq o.cites \cup {Cited(c, doc)}
              /\ calm' =>
                   /\ calm
                   /\ V1 = "served" =>
                        doc = IF \E k \in chunks : k.id = c
                                THEN (CHOOSE k \in chunks : k.id = c).doc ELSE 0
         /\ \/ client'.phase = "resolve" /\ client'.at = client.at
            \/ client'.phase = "ask" /\ client'.at <= Len(Questions)
            \/ client'.phase = "write" /\ client'.at = 1
<1> DEFINE there == IF \E k \in chunks : k.id = c
                      THEN (CHOOSE k \in chunks : k.id = c).doc ELSE 0
<1>1. /\ client \in Client /\ client.phase = "resolve" /\ client.kind = "proof"
      /\ client.results \in Seq(Result) /\ client.results # <<>> /\ c \in Nat
      /\ client.cites \in SUBSET Nat /\ documents \in Seq(Row)
  BY DEF TypeInv, Resolve, Client, Placed, ServiceOK
<1>2. Len(documents) \in Nat
  BY <1>1, LenProperties
<1>3. there \in 0 .. Len(documents)
  BY <1>2 DEF TypeInv, ServiceOK
<1>4. PICK doc \in 0 .. Len(documents) :
        Resolved(c, doc) /\ (calm' => calm /\ (V1 = "served" => doc = there))
  <2> HIDE DEF there
  <2>1. CASE V1 = "served" /\ UNCHANGED calm /\ Resolved(c, there)
    BY <1>3, <2>1
  <2>2. CASE V1 = "served" /\ calm' = FALSE /\ Resolved(c, 0)
    BY <1>2, <2>2
  <2>3. CASE V1 \in {"401", "503"} /\ UNCHANGED calm /\ Resolved(c, 0)
    BY <1>2, <2>3
  <2> QED
    BY <2>1, <2>2, <2>3 DEF Resolve, there
<1> HIDE DEF there
<1> DEFINE e == Cited(c, doc)
           rs == [client.results EXCEPT ![Len(client.results)].cites = @ \cup {e}]
<1>5. e \in [chunk: Nat, doc: Nat]
  BY <1>1, <1>2 DEF Cited
<1>6. /\ rs \in Seq(Result) /\ rs # <<>>
      /\ \A r \in Range(rs) : \E o \in Range(client.results) :
           r.status = o.status /\ r.cites \subseteq o.cites \cup {e}
  <2> HIDE DEF e
  <2> QED
    BY <1>1, <1>5, CiteLast
<1>7. /\ client' \in Client
      /\ client'.kind = client.kind /\ client'.run = client.run
      /\ client'.docs = client.docs /\ client'.results = rs
      /\ client'.cites \subseteq client.cites
      /\ \/ client'.phase = "resolve" /\ client'.at = client.at
         \/ client'.phase = "ask" /\ client'.at <= Len(Questions)
         \/ client'.phase = "write" /\ client'.at = 1
  <2>1. CASE client.cites = {c}
    <3>1. AfterQuestion(rs, {})
      BY <1>4, <2>1 DEF Resolved, Cited
    <3> HIDE DEF rs
    <3>2. /\ client' \in Client
          /\ client'.kind = client.kind /\ client'.run = client.run
          /\ client'.docs = client.docs
          /\ client'.results = rs /\ client'.cites = {}
          /\ \/ /\ client'.phase = "resolve" /\ client'.at = client.at
                /\ client.kind = "proof"
             \/ client'.phase = "ask" /\ client'.at <= Len(Questions)
             \/ /\ client'.phase = "write" /\ client'.at = 1
                /\ client.kind # "verify"
             \/ client'.phase = "report" /\ client.kind = "verify"
      BY <1>1, <1>6, <3>1, AfterQuestionStep
    <3> QED
      BY <1>1, <3>2
  <2>2. CASE client.cites # {c}
    <3>1. client' = [client EXCEPT !.results = rs, !.cites = @ \ {c}]
      BY <1>4, <2>2 DEF Resolved, Cited
    <3> HIDE DEF rs
    <3>2. client' = [kind |-> client.kind, run |-> client.run, phase |-> "resolve",
                     at |-> client.at, polls |-> client.polls, docs |-> client.docs,
                     results |-> rs, cites |-> client.cites \ {c}]
      BY <1>1, <3>1 DEF Client
    <3> QED
      BY <1>1, <1>6, <3>2 DEF Client
  <2> QED
    BY <2>1, <2>2
<1> HIDE DEF rs
<1>8. \A r \in Range(client'.results) : \E o \in Range(client.results) :
        r.status = o.status /\ r.cites \subseteq o.cites \cup {Cited(c, doc)}
  BY <1>6, <1>7
<1> HIDE DEF e
<1>9. client'.results # <<>>
  BY <1>6, <1>7
<1> QED
  BY <1>1, <1>4, <1>7, <1>8, <1>9 DEF there

-----------------------------------------------------------------------------
(* The types. *)

\* The upsert keeps the rows, adds one at most, and its id is that row's.
LEMMA Upserted ==
  ASSUME NEW row \in Row, documents \in Seq(Row), Injective(documents)
  PROVE  LET rows == UpsertDocument(row) IN
         /\ rows \in Seq(Row) /\ Injective(rows)
         /\ Len(documents) <= Len(rows)
         /\ \A d \in 1 .. Len(documents) : rows[d] = documents[d]
         /\ \A d \in 1 .. Len(rows) : d \in 1 .. Len(documents) \/ rows[d] = row
         /\ IdOf(row, rows) \in 1 .. Len(rows)
         /\ rows[IdOf(row, rows)] = row
<1> DEFINE rows == UpsertDocument(row)
<1>1. /\ rows \in Seq(Row) /\ Injective(rows)
      /\ Len(documents) <= Len(rows)
      /\ \A d \in 1 .. Len(documents) : rows[d] = documents[d]
      /\ \A d \in 1 .. Len(rows) : d \in 1 .. Len(documents) \/ rows[d] = row
      /\ \E d \in 1 .. Len(rows) : rows[d] = row
  <2>1. CASE row \in Range(documents)
    <3>1. rows = documents
      BY <2>1 DEF UpsertDocument
    <3>2. PICK d \in 1 .. Len(documents) : documents[d] = row
      BY <2>1, LenProperties DEF Range
    <3> HIDE DEF rows
    <3> QED
      BY <3>1, <3>2, LenProperties
  <2>2. CASE row \notin Range(documents)
    <3>1. rows = Append(documents, row)
      BY <2>2 DEF UpsertDocument
    <3>2. \A d \in 1 .. Len(documents) : documents[d] # row
      BY <2>2, LenProperties DEF Range
    <3>3. Len(documents) \in Nat
      BY LenProperties
    <3> HIDE DEF rows
    <3>4. /\ rows \in Seq(Row) /\ Len(rows) = Len(documents) + 1
          /\ \A d \in 1 .. Len(documents) : rows[d] = documents[d]
          /\ rows[Len(documents) + 1] = row
      BY <3>1, AppendProperties
    <3>5. Injective(rows)
      BY <3>2, <3>3, <3>4 DEF Injective
    <3> QED
      BY <3>3, <3>4, <3>5
  <2> QED
    BY <2>1, <2>2
<1> HIDE DEF rows
<1>2. PICK d \in 1 .. Len(rows) : rows[d] = row
  BY <1>1
<1>3. \A e \in d + 1 .. Len(rows) : rows[e] # row
  BY <1>1, <1>2, LenProperties DEF Injective
<1>4. IdOf(row, rows) \in 1 .. Len(rows) /\ rows[IdOf(row, rows)] = row
  BY <1>2, <1>3 DEF IdOf
<1> QED
  BY <1>1, <1>4 DEF rows

\* What a request for a file of the corpus upserts.
LEMMA RowOfFile ==
  ASSUME TypeInv, NEW n \in 1 .. Len(Corpus)
  PROVE  /\ Corpus[n] \in Range(Corpus)
         /\ [workspace |-> WorkspaceOf(client.kind, client.run),
             text |-> TextNow(Corpus[n])] \in Row
<1>1. Corpus \in Seq(Range(Corpus))
  BY ScriptsAssumption
<1>2. Corpus[n] \in Range(Corpus)
  BY <1>1, ElementOfSeq
<1>3. TextNow(Corpus[n]) \in Text
  BY <1>2 DEF TextNow, Text, TypeInv, FilesOK
<1>4. WorkspaceOf(client.kind, client.run) \in 0 .. MaxRuns
  BY ScriptsAssumption DEF TypeInv, Client, WorkspaceOf
<1> QED
  BY <1>2, <1>3, <1>4 DEF Row

LEMMA ServiceStep ==
  ASSUME TypeInv, Injective(documents), Next
  PROVE  ServiceOK'
<1> USE DEF TypeInv, ServiceOK
<1>1. CASE ApiStarts \/ ApiIsProbed \/ ApiDies
  BY <1>1 DEF ApiStarts, ApiIsProbed, ApiDies
<1>2. ASSUME NEW i \in ingests, ServeIngest(i)
      PROVE  ServiceOK'
  <2>1. UNCHANGED <<api, auth, documents>> /\ i \in [run: 1 .. MaxRuns,
          doc: 1 .. Len(documents), next: {"delete", "insert", "answer"}]
    BY <1>2 DEF ServeIngest
  <2>2. /\ [i EXCEPT !.next = "insert"] = [run |-> i.run, doc |-> i.doc, next |-> "insert"]
        /\ [i EXCEPT !.next = "answer"] = [run |-> i.run, doc |-> i.doc, next |-> "answer"]
    BY <2>1
  <2>3. ingests' \subseteq [run: 1 .. MaxRuns, doc: 1 .. Len(documents),
                            next: {"delete", "insert", "answer"}]
    BY <1>2, <2>1, <2>2 DEF ServeIngest
  <2>4. nextId' \in Nat \ {0} /\ chunks' \subseteq [id: 1 .. nextId' - 1, doc: 1 .. Len(documents)]
    <3>1. CASE chunks' \subseteq chunks /\ UNCHANGED nextId
      BY <3>1
    <3>2. CASE /\ chunks' = chunks \cup {[id |-> nextId, doc |-> i.doc]}
               /\ nextId' = nextId + 1
      BY <2>1, <3>2
    <3> QED
      BY <1>2, <3>1, <3>2 DEF ServeIngest
  <2> QED
    BY <2>1, <2>3, <2>4
<1>3. ASSUME NEW i \in ingests, IngestFails(i) \/ IngestAnswered(i)
      PROVE  ServiceOK'
  BY <1>3 DEF IngestFails, IngestAnswered
<1>4. CASE Poll
  BY <1>4 DEF Poll, Probed
<1>5. CASE PollAgain \/ Create \/ Ask \/ (\E c \in client.cites : Resolve(c))
           \/ Write \/ Report
  BY <1>5 DEF PollAgain, Create, Ask, Resolve, Write, Report, service
<1>6. CASE Deadline \/ GivesUp \/ TurnedDown \/ Killed
  BY <1>6 DEF Deadline, GivesUp, TurnedDown, Killed, Ends
<1>7. CASE SendIngest
  <2> DEFINE row == [workspace |-> WorkspaceOf(client.kind, client.run),
                     text |-> TextNow(Corpus[client.at])]
             new == [run |-> client.run, next |-> "delete", doc |-> IdOf(row, documents')]
  <2>1. /\ client.at \in 1 .. Len(Corpus) /\ client.run \in 1 .. MaxRuns
    <3>1. Len(Corpus) \in Nat
      BY ScriptsAssumption, LenProperties
    <3> QED
      BY <1>7, <3>1, ScriptsAssumption DEF SendIngest, Placed, Client
  <2>2. row \in Row
    BY <2>1, RowOfFile
  <2> HIDE DEF row
  <2>3. documents' = UpsertDocument(row) /\ ingests' = ingests \cup {new}
        /\ UNCHANGED <<api, auth, chunks, nextId>>
    BY <1>7 DEF SendIngest, row
  <2>4. /\ documents' \in Seq(Row) /\ Len(documents) <= Len(documents')
        /\ IdOf(row, documents') \in 1 .. Len(documents')
    BY <2>2, <2>3, Upserted
  <2>5. Len(documents) \in Nat /\ Len(documents') \in Nat
    BY <2>4, LenProperties
  <2>6. new \in [run: 1 .. MaxRuns, doc: 1 .. Len(documents'),
                 next: {"delete", "insert", "answer"}]
    BY <2>1, <2>4
  <2> HIDE DEF new
  <2>7. ingests' \subseteq [run: 1 .. MaxRuns, doc: 1 .. Len(documents'),
                            next: {"delete", "insert", "answer"}]
    BY <2>3, <2>4, <2>5, <2>6
  <2>8. chunks' \subseteq [id: 1 .. nextId' - 1, doc: 1 .. Len(documents')]
    BY <2>3, <2>4, <2>5
  <2> QED
    BY <2>3, <2>4, <2>7, <2>8
<1>8. ASSUME NEW k \in Kind, Start(k) PROVE ServiceOK'
  BY <1>8 DEF Start, service
<1>9. ASSUME NEW f \in Range(Corpus), Edit(f) PROVE ServiceOK'
  BY <1>9 DEF Edit, service
<1> QED
  BY <1>1, <1>2, <1>3, <1>4, <1>5, <1>6, <1>7, <1>8, <1>9 DEF Next, Service, ScriptStep

\* The entry of a document that was answered for.
LEMMA EntryOf ==
  ASSUME TypeInv, NEW i \in ingests
  PROVE  /\ i.doc \in 1 .. Len(documents) /\ documents[i.doc] \in Row
         /\ [text |-> documents[i.doc].text, doc |-> i.doc] \in Entry
         /\ Append(client.docs, [text |-> documents[i.doc].text, doc |-> i.doc]) \in Seq(Entry)
<1>1. i.doc \in 1 .. Len(documents) /\ documents \in Seq(Row)
  BY DEF TypeInv, ServiceOK
<1>2. documents[i.doc] \in Row /\ Len(documents) \in Nat
  BY <1>1, ElementOfSeq, LenProperties
<1>3. documents[i.doc].text \in Text /\ i.doc \in Nat
  BY <1>1, <1>2 DEF Row
<1>4. [text |-> documents[i.doc].text, doc |-> i.doc] \in Entry
  BY <1>3 DEF Entry
<1>5. client.docs \in Seq(Entry)
  BY DEF TypeInv, Client
<1> QED
  BY <1>1, <1>2, <1>4, <1>5, AppendProperties

LEMMA ClientStep ==
  ASSUME TypeInv, Next
  PROVE  client' \in Client /\ Placed'
<1>0. /\ client \in Client /\ Placed
      /\ Len(Corpus) \in Nat \ {0} /\ Len(Questions) \in Nat \ {0}
  <2>1. client \in Client /\ Placed
    BY DEF TypeInv
  <2>2. Len(Corpus) \in Nat \ {0}
    BY ScriptsAssumption, EmptySeq
  <2>3. Len(Questions) \in Nat \ {0}
    BY ScriptsAssumption, EmptySeq
  <2> QED
    BY <2>1, <2>2, <2>3
<1> DEFINE OK == client' \in Client /\ Placed'
<1>1. CASE UNCHANGED client
  BY <1>0, <1>1 DEF Placed
<1>2. ASSUME NEW p \in {"failed", "done"}, Goto(p), client.run > 0
      PROVE  OK
  <2>1. client' \in Client /\ Keeps /\ client'.phase = p /\ client'.at = 1
    BY <1>0, <1>2, GotoStep DEF Phase, Over
  <2> QED
    BY <1>2, <2>1 DEF Placed, Keeps, Over
<1>3. client.phase \notin Over => client.run > 0
  BY <1>0 DEF Placed, Over
<1>4. CASE ApiStarts \/ ApiIsProbed
  BY <1>1, <1>4 DEF ApiStarts, ApiIsProbed
<1>5. CASE ApiDies
  BY <1>1, <1>2, <1>3, <1>5 DEF ApiDies, Mine, Over
<1>6. ASSUME NEW i \in ingests, ServeIngest(i) PROVE OK
  BY <1>1, <1>6 DEF ServeIngest
<1>7. ASSUME NEW i \in ingests, IngestFails(i) PROVE OK
  BY <1>1, <1>2, <1>3, <1>7 DEF IngestFails, Mine, Over
<1>8. CASE Poll
  <2>1. /\ client' \in Client /\ Keeps
        /\ client.phase = "wait"
        /\ \/ /\ client'.phase = "wait" /\ client'.at = client.at + 1
              /\ client'.at <= Len(WaitsFor(client.kind))
           \/ /\ client'.phase = AfterWaits(client.kind) /\ client'.at = 1
    BY <1>8, PollStep
  <2> QED
    BY <1>0, <2>1 DEF Placed, Keeps, AfterWaits, Over
<1>9. CASE PollAgain
  <2>1. /\ client' \in Client /\ Keeps
        /\ client.phase = "wait" /\ client'.phase = "wait" /\ client'.at = client.at
    BY <1>9, PollAgainStep
  <2> QED
    BY <1>0, <2>1 DEF Placed, Keeps, Over
<1>10. CASE Deadline \/ GivesUp \/ TurnedDown \/ Killed
  <2>1. Goto("failed") /\ client.phase \notin Over
    BY <1>10 DEF Deadline, GivesUp, TurnedDown, Killed, Ends, Over
  <2> QED
    BY <1>2, <1>3, <2>1
<1>11. CASE Create
  <2>1. Goto("ingest") /\ client.phase = "create" /\ "ingest" \in Phase
    BY <1>11 DEF Create, Phase
  <2>2. client' \in Client /\ Keeps /\ client'.phase = "ingest" /\ client'.at = 1
    BY <1>0, <2>1, GotoStep
  <2> QED
    BY <1>0, <2>1, <2>2 DEF Placed, Keeps, Over
<1>12. CASE SendIngest
  BY <1>1, <1>12 DEF SendIngest
<1>13. ASSUME NEW i \in ingests, IngestAnswered(i) PROVE OK
  <2> DEFINE docs == Append(client.docs, [text |-> documents[i.doc].text, doc |-> i.doc])
  <2>1. NextFile(docs) /\ client.phase = "ingest"
    BY <1>13 DEF IngestAnswered, Mine
  <2>2. docs \in Seq(Entry)
    BY EntryOf
  <2> HIDE DEF docs
  <2>3. /\ client' \in Client
        /\ client'.kind = client.kind /\ client'.run = client.run
        /\ client'.docs = docs /\ client'.results = client.results
        /\ \/ /\ client.at < Len(Corpus)
              /\ client'.phase = "ingest" /\ client'.at = client.at + 1
           \/ client'.phase = "ask" /\ client'.at = 1
    BY <1>0, <2>1, <2>2, NextFileStep
  <2>4. client.at \in Nat
    BY <1>0 DEF Client
  <2> QED
    BY <1>0, <2>1, <2>3, <2>4 DEF Placed, Over
<1>14. CASE Ask
  <2>1. /\ client' \in Client /\ client.phase = "ask"
        /\ client'.kind = client.kind /\ client'.run = client.run
        /\ \/ client'.phase = "failed" /\ client.kind = "capture"
           \/ /\ client'.phase = "resolve" /\ client'.at = client.at
              /\ client.kind = "proof" /\ client'.results # <<>>
           \/ client'.phase = "ask" /\ client'.at <= Len(Questions)
           \/ /\ client'.phase = "write" /\ client'.at = 1
              /\ client.kind # "verify"
           \/ client'.phase = "report" /\ client.kind = "verify"
    <3>1. client.results \in Seq(Result)
      BY <1>0 DEF Client
    <3>2. \A status \in {"answered", "refused", "error"} :
            Append(client.results, [status |-> status, cites |-> {}]) # <<>>
      <4>1. \A status \in {"answered", "refused", "error"} :
              [status |-> status, cites |-> {}] \in Result
        BY DEF Result
      <4> QED
        BY <3>1, <4>1, AppendProperties
    <3> QED
      BY <1>14, <3>2, AskStep
  <2>2. client'.phase = "write" => FilesOf(client.kind) \in Nat \ {0}
    BY <1>0, <2>1 DEF FilesOf, Kind, Client
  <2> QED
    BY <1>0, <2>1, <2>2 DEF Placed, Over
<1>15. ASSUME NEW c \in client.cites, Resolve(c) PROVE OK
  <2>1. /\ client' \in Client /\ client.phase = "resolve" /\ client.kind = "proof"
        /\ client'.kind = client.kind /\ client'.run = client.run
        /\ client'.results # <<>>
        /\ \/ client'.phase = "resolve" /\ client'.at = client.at
           \/ client'.phase = "ask" /\ client'.at <= Len(Questions)
           \/ client'.phase = "write" /\ client'.at = 1
    BY <1>15, ResolveStep
  <2>2. FilesOf(client.kind) = 5
    BY <2>1 DEF FilesOf
  <2> QED
    BY <1>0, <2>1, <2>2 DEF Placed, Over
<1>16. CASE Write
  <2>1. /\ client' \in Client /\ Keeps /\ client.phase = "write"
        /\ \/ /\ client'.phase = "write" /\ client'.at = client.at + 1
              /\ client'.at <= FilesOf(client.kind)
           \/ client'.phase = "done"
    BY <1>16, WriteStep
  <2> QED
    BY <1>0, <2>1 DEF Placed, Keeps, Over
<1>17. CASE Report
  <2>1. client.phase = "report" /\ (Goto("done") \/ Goto("failed"))
    BY <1>17 DEF Report
  <2> QED
    BY <1>2, <1>3, <2>1 DEF Over
<1>18. ASSUME NEW k \in Kind, Start(k) PROVE OK
  <2>1. /\ client' \in Client /\ client'.kind = k
        /\ client'.phase = "wait" /\ client'.at = 1
        /\ client'.results = <<>> /\ client'.run \in 1 .. MaxRuns
    BY <1>18, StartStep
  <2>2. Len(WaitsFor(k)) \in Nat \ {0}
    BY DEF WaitsFor, Kind
  <2> QED
    BY <2>1, <2>2, ScriptsAssumption DEF Placed, Over
<1>19. ASSUME NEW f \in Range(Corpus), Edit(f) PROVE OK
  BY <1>1, <1>19 DEF Edit
<1> QED
  BY <1>4, <1>5, <1>6, <1>7, <1>8, <1>9, <1>10, <1>11, <1>12, <1>13, <1>14,
     <1>15, <1>16, <1>17, <1>18, <1>19 DEF Next, Service, ScriptStep

LEMMA FilesStep ==
  ASSUME TypeInv, Next
  PROVE  FilesOK'
<1> USE DEF TypeInv, FilesOK
<1>1. CASE /\ UNCHANGED <<version, files, torn, listed>>
           /\ calm' \in BOOLEAN /\ pristine' \in BOOLEAN
  BY <1>1
<1>2. CASE ApiStarts \/ ApiIsProbed \/ ApiDies \/ (\E i \in ingests : ServeIngest(i))
           \/ (\E i \in ingests : IngestFails(i))
           \/ (\E i \in ingests : IngestAnswered(i))
           \/ Poll \/ PollAgain \/ Deadline \/ GivesUp \/ TurnedDown
           \/ Create \/ SendIngest \/ Ask \/ (\E c \in client.cites : Resolve(c))
           \/ Report \/ (\E k \in Kind : Start(k))
  BY <1>1, <1>2 DEF ApiStarts, ApiIsProbed, ApiDies, ServeIngest, IngestFails,
     IngestAnswered, Poll, PollAgain, Deadline, GivesUp, TurnedDown, Create,
     SendIngest, Ask, Resolve, Report, Start, Ends, observers
<1>3. CASE Killed
  BY <1>3 DEF Killed, Ends, Client
<1>4. CASE Write
  <2>1. /\ client.kind \in Kind /\ client.run \in 0 .. MaxRuns
        /\ client.docs \in Seq(Entry)
        /\ client.at \in 1 .. FilesOf(client.kind)
    <3>1. FilesOf(client.kind) \in Nat
      BY DEF FilesOf, Client, Kind
    <3> QED
      BY <1>4, <3>1 DEF Client, Write, Placed
  <2>2. files' = [k \in Kind |-> files'[k]]
    BY <1>4, <2>1 DEF Write
  <2>3. \A k \in Kind : files'[k] \in [1 .. FilesOf(k) -> 0 .. MaxRuns]
    BY <1>4, <2>1 DEF Write
  <2>4. Range(client.docs) \subseteq Entry
    BY <2>1, LenProperties DEF Range
  <2>5. listed' \subseteq Entry
    BY <1>4, <2>4 DEF Write
  <2>6. torn' \subseteq Kind
    BY <1>4, WriteStep
  <2> QED
    BY <1>4, <2>2, <2>3, <2>5, <2>6 DEF Write
<1>5. ASSUME NEW f \in Range(Corpus), Edit(f) PROVE FilesOK'
  <2>1. version' \in [Range(Corpus) -> 1 .. Versions]
    BY <1>5, ScriptsAssumption DEF Edit
  <2> QED
    BY <1>5, <2>1 DEF Edit
<1> QED
  BY <1>2, <1>3, <1>4, <1>5 DEF Next, Service, ScriptStep

LEMMA TypeStep ==
  ASSUME TypeInv, Injective(documents), Next
  PROVE  TypeInv'
BY ServiceStep, ClientStep, FilesStep DEF TypeInv

-----------------------------------------------------------------------------
(* The rows. *)

\* A step that leaves the documents alone, names no new entry, keeps the
\* citations within those there are, and starts no ingest.
LEMMA QuietRows ==
  ASSUME RowsInv, UNCHANGED documents,
         \A j \in ingests' : \E i \in ingests : j.run = i.run /\ j.doc = i.doc,
         listed' = listed,
         client'.kind = client.kind, client'.run = client.run,
         client'.docs = client.docs,
         \A r \in Range(client'.results) : \A c \in r.cites :
           c.doc \in 0 .. Len(documents)
  PROVE  RowsInv'
BY DEF RowsInv, Names

LEMMA RowsStep ==
  ASSUME TypeInv, RowsInv, Next
  PROVE  RowsInv'
<1>0. /\ client \in Client /\ Placed /\ documents \in Seq(Row)
      /\ \A r \in Range(client.results) : \A c \in r.cites : c.doc \in 0 .. Len(documents)
  BY DEF TypeInv, ServiceOK, RowsInv
<1>1. ASSUME UNCHANGED documents, listed' = listed, Keeps \/ UNCHANGED client,
             ingests' \subseteq ingests
      PROVE  RowsInv'
  BY <1>0, <1>1, QuietRows DEF Keeps
<1>2. \A p \in Phase : Goto(p) => Keeps
  BY <1>0, GotoStep
<1> USE DEF Phase, Over
<1>3. CASE ApiStarts \/ ApiIsProbed \/ ApiDies
  BY <1>1, <1>2, <1>3 DEF ApiStarts, ApiIsProbed, ApiDies, observers
<1>4. ASSUME NEW i \in ingests, ServeIngest(i) PROVE RowsInv'
  <2>1. i \in [run: 1 .. MaxRuns, doc: 1 .. Len(documents),
               next: {"delete", "insert", "answer"}]
    BY DEF TypeInv, ServiceOK
  <2>2. \A j \in ingests' : \E o \in ingests : j.run = o.run /\ j.doc = o.doc
    BY <1>4, <2>1 DEF ServeIngest
  <2> QED
    BY <1>0, <1>4, <2>2, QuietRows DEF ServeIngest, observers
<1>5. ASSUME NEW i \in ingests, IngestFails(i) PROVE RowsInv'
  BY <1>1, <1>2, <1>5 DEF IngestFails
<1>6. CASE Poll
  <2>1. Keeps
    BY <1>6, PollStep
  <2> QED
    BY <1>1, <1>6, <2>1 DEF Poll, observers
<1>7. CASE PollAgain
  <2>1. Keeps
    BY <1>7, PollAgainStep
  <2> QED
    BY <1>1, <1>7, <2>1 DEF PollAgain, service, observers
<1>8. CASE Deadline \/ GivesUp \/ TurnedDown \/ Killed
  BY <1>1, <1>2, <1>8 DEF Deadline, GivesUp, TurnedDown, Killed, Ends
<1>9. CASE Create
  BY <1>1, <1>2, <1>9 DEF Create, service, observers
<1>10. CASE Report
  BY <1>1, <1>2, <1>10 DEF Report, service, observers
<1>11. CASE SendIngest
  <2> DEFINE row == [workspace |-> WorkspaceOf(client.kind, client.run),
                     text |-> TextNow(Corpus[client.at])]
             new == [run |-> client.run, next |-> "delete", doc |-> IdOf(row, documents')]
  <2>1. /\ documents' = UpsertDocument(row) /\ ingests' = ingests \cup {new}
        /\ UNCHANGED <<client, listed>>
    BY <1>11 DEF SendIngest, observers
  <2>2. client.at \in 1 .. Len(Corpus)
    <3>1. Len(Corpus) \in Nat
      BY ScriptsAssumption, LenProperties
    <3> QED
      BY <1>0, <1>11, <3>1 DEF SendIngest, Placed, Client
  <2>3. row \in Row /\ row.workspace = WorkspaceOf(client.kind, client.run)
    BY <2>2, RowOfFile
  <2>4. new.run = client.run /\ new.doc = IdOf(row, documents')
    OBVIOUS
  <2> HIDE DEF row, new
  <2>5. /\ documents' \in Seq(Row) /\ Injective(documents')
        /\ Len(documents) <= Len(documents')
        /\ \A d \in 1 .. Len(documents) : documents'[d] = documents[d]
        /\ documents'[IdOf(row, documents')] = row
    BY <1>0, <2>1, <2>3, Upserted DEF RowsInv
  <2>6. Len(documents) \in Nat /\ Len(documents') \in Nat
    BY <1>0, <2>5, LenProperties
  <2>7. \A x : Names(x) => Names(x)'
    BY <2>5, <2>6 DEF Names
  <2>8. client.run \in Nat
    BY <1>0, ScriptsAssumption DEF Client
  <2>9. ASSUME NEW i \in ingests'
        PROVE  /\ i.run <= client.run
               /\ i.run = client.run =>
                    documents'[i.doc].workspace = WorkspaceOf(client.kind, client.run)
    <3>1. CASE i \in ingests
      <4>1. i.doc \in 1 .. Len(documents)
        BY <3>1 DEF TypeInv, ServiceOK
      <4> QED
        BY <2>5, <3>1, <4>1 DEF RowsInv
    <3>2. CASE i = new
      BY <2>3, <2>4, <2>5, <2>8, <3>2
    <3> QED
      BY <2>1, <3>1, <3>2
  <2>10. \A r \in Range(client.results) : \A c \in r.cites : c.doc \in 0 .. Len(documents')
    BY <1>0, <2>5, <2>6
  <2> QED
    BY <2>1, <2>5, <2>7, <2>9, <2>10 DEF RowsInv
<1>12. ASSUME NEW i \in ingests, IngestAnswered(i) PROVE RowsInv'
  <2> DEFINE new  == [text |-> documents[i.doc].text, doc |-> i.doc]
             docs == Append(client.docs, new)
  <2>1. /\ NextFile(docs) /\ Mine(i) /\ ingests' = ingests \ {i}
        /\ UNCHANGED <<documents, listed>>
    BY <1>12 DEF IngestAnswered, observers
  <2>2. docs \in Seq(Entry) /\ new \in Entry /\ client.docs \in Seq(Entry)
        /\ documents[i.doc] \in Row /\ i.doc \in 1 .. Len(documents)
    BY <1>0, EntryOf DEF Client
  <2>3. Range(docs) = Range(client.docs) \cup {new}
    <3> HIDE DEF new
    <3> QED
      BY <2>2, AppendProperties, LenProperties DEF Range
  <2>4. client.kind = "proof" => Names(new)
    <3>1. client.kind = "proof" => documents[i.doc].workspace = 0
      BY <2>1 DEF RowsInv, Mine, WorkspaceOf
    <3>2. documents[i.doc] = [workspace |-> documents[i.doc].workspace,
                              text |-> documents[i.doc].text]
      BY <2>2 DEF Row
    <3> QED
      BY <2>2, <3>1, <3>2 DEF Names
  <2> HIDE DEF new, docs
  <2>5. /\ client'.kind = client.kind /\ client'.run = client.run
        /\ client'.docs = docs /\ client'.results = client.results
    BY <1>0, <2>1, <2>2, NextFileStep DEF Mine
  <2>6. \A x : Names(x)' = Names(x)
    BY <2>1 DEF Names
  <2>7. client'.kind = "proof" => \A x \in Range(client'.docs) : Names(x)'
    BY <2>3, <2>4, <2>5, <2>6 DEF RowsInv
  <2>8. \A o \in ingests' : /\ o.run <= client'.run
                            /\ o.run = client'.run =>
                                 documents'[o.doc].workspace = WorkspaceOf(client'.kind, client'.run)
    BY <2>1, <2>5 DEF RowsInv
  <2> QED
    BY <2>1, <2>5, <2>6, <2>7, <2>8 DEF RowsInv
<1>13. CASE Ask
  <2>1. /\ client'.kind = client.kind /\ client'.run = client.run
        /\ client'.docs = client.docs
        /\ \/ client'.results = client.results
           \/ \E status \in {"answered", "refused", "error"} :
                client'.results = Append(client.results, [status |-> status, cites |-> {}])
    BY <1>13, AskStep
  <2>2. \A r \in Range(client'.results) : r \in Range(client.results) \/ r.cites = {}
    <3>1. ASSUME NEW status \in {"answered", "refused", "error"}
          PROVE  \A r \in Range(Append(client.results, [status |-> status, cites |-> {}])) :
                   r \in Range(client.results) \/ r.cites = {}
      <4> DEFINE new == [status |-> status, cites |-> {}]
      <4>1. new \in Result /\ new.cites = {} /\ client.results \in Seq(Result)
        BY <1>0 DEF Result, Client
      <4> HIDE DEF new
      <4>2. \A r \in Range(Append(client.results, new)) :
              r \in Range(client.results) \/ r = new
        BY <4>1, AppendProperties, LenProperties DEF Range
      <4> QED
        BY <4>1, <4>2 DEF new
    <3> QED
      BY <2>1, <3>1
  <2>3. UNCHANGED <<documents, ingests, listed>>
    BY <1>13 DEF Ask, service
  <2> QED
    BY <1>0, <2>1, <2>2, <2>3, QuietRows
<1>14. ASSUME NEW c \in client.cites, Resolve(c) PROVE RowsInv'
  <2>1. /\ client'.kind = client.kind /\ client'.run = client.run
        /\ client'.docs = client.docs
        /\ \E doc \in 0 .. Len(documents) :
              \A r \in Range(client'.results) : \E o \in Range(client.results) :
                r.cites \subseteq o.cites \cup {Cited(c, doc)}
    BY <1>14, ResolveStep
  <2>2. \A r \in Range(client'.results) : \A e \in r.cites : e.doc \in 0 .. Len(documents)
    BY <1>0, <2>1 DEF Cited
  <2>3. UNCHANGED <<documents, ingests, listed>>
    BY <1>14 DEF Resolve, service
  <2> QED
    BY <2>1, <2>2, <2>3, QuietRows
<1>15. CASE Write
  <2>1. Keeps /\ UNCHANGED <<documents, ingests>>
    BY <1>15, WriteStep DEF Write, service
  <2>2. \A x \in listed' : x \in listed \/ (client.kind = "proof" /\ x \in Range(client.docs))
    BY <1>15 DEF Write
  <2>3. \A x : Names(x)' = Names(x)
    BY <2>1 DEF Names
  <2> QED
    BY <2>1, <2>2, <2>3 DEF RowsInv, Keeps
<1>16. ASSUME NEW k \in Kind, Start(k) PROVE RowsInv'
  <2>1. /\ client'.run = client.run + 1
        /\ client'.docs = <<>> /\ client'.results = <<>>
        /\ UNCHANGED <<documents, ingests, listed>>
    BY <1>16, StartStep DEF Start, service
  <2>2. client.run \in Nat /\ \A i \in ingests : i.run \in Nat
    BY <1>0, ScriptsAssumption DEF Client, TypeInv, ServiceOK
  <2>3. Range(<<>>) = {}
    BY DEF Range
  <2>4. \A x : Names(x)' = Names(x)
    BY <2>1 DEF Names
  <2>5. \A i \in ingests' : i.run < client'.run
    BY <2>1, <2>2 DEF RowsInv
  <2> QED
    BY <2>1, <2>2, <2>3, <2>4, <2>5 DEF RowsInv
<1>17. ASSUME NEW f \in Range(Corpus), Edit(f) PROVE RowsInv'
  BY <1>1, <1>17 DEF Edit, service
<1> QED
  BY <1>3, <1>4, <1>5, <1>6, <1>7, <1>8, <1>9, <1>10, <1>11, <1>12, <1>13, <1>14,
     <1>15, <1>16, <1>17 DEF Next, Service, ScriptStep

-----------------------------------------------------------------------------
(* The files. *)

LEMMA FilesInvStep ==
  ASSUME TypeInv, FilesInv, Next
  PROVE  FilesInv'
<1>0. /\ client \in Client /\ Placed /\ client.at \in Nat \ {0}
      /\ client.run \in 0 .. MaxRuns /\ client.kind \in Kind
  BY DEF TypeInv, Client
<1>1. ASSUME UNCHANGED <<files, torn>>, client.phase # "write",
             UNCHANGED client \/ client'.phase # "write" \/ client'.at = 1
      PROVE  FilesInv'
  <2>1. \A k : Whole(k)' = Whole(k)
    BY <1>1 DEF Whole
  <2> QED
    BY <1>0, <1>1, <2>1 DEF FilesInv
<1>2. ASSUME UNCHANGED <<files, torn, client>> PROVE FilesInv'
  <2>1. \A k : Whole(k)' = Whole(k)
    BY <1>2 DEF Whole
  <2> QED
    BY <1>2, <2>1 DEF FilesInv
<1>3. \A p \in Phase : Goto(p) => client'.phase = p
  BY <1>0, GotoStep
<1> USE DEF Phase, Over
<1>4. CASE ApiStarts \/ ApiIsProbed
  BY <1>2, <1>4 DEF ApiStarts, ApiIsProbed, observers
<1>5. CASE ApiDies
  BY <1>1, <1>2, <1>3, <1>5 DEF ApiDies, Mine
<1>6. ASSUME NEW i \in ingests, ServeIngest(i) PROVE FilesInv'
  BY <1>2, <1>6 DEF ServeIngest, observers
<1>7. ASSUME NEW i \in ingests, IngestFails(i) PROVE FilesInv'
  BY <1>1, <1>2, <1>3, <1>7 DEF IngestFails, Mine
<1>8. CASE Poll
  <2>1. client.phase = "wait" /\ client'.phase # "write"
    BY <1>8, PollStep DEF AfterWaits
  <2> QED
    BY <1>1, <1>8, <2>1 DEF Poll, observers
<1>9. CASE PollAgain
  <2>1. client.phase = "wait" /\ client'.phase # "write"
    BY <1>9, PollAgainStep
  <2> QED
    BY <1>1, <1>9, <2>1 DEF PollAgain, observers
<1>10. CASE Deadline \/ GivesUp \/ TurnedDown
  BY <1>1, <1>3, <1>10 DEF Deadline, GivesUp, TurnedDown, Ends
<1>11. CASE Killed
  <2>1. client'.phase = "failed" /\ UNCHANGED files
    BY <1>3, <1>11 DEF Killed, Ends
  <2>2. \A k : Whole(k)' = Whole(k)
    BY <2>1 DEF Whole
  <2> QED
    BY <1>0, <1>11, <2>1, <2>2 DEF FilesInv, Killed
<1>12. CASE Create \/ Report
  BY <1>1, <1>3, <1>12 DEF Create, Report, observers
<1>13. CASE SendIngest
  BY <1>2, <1>13 DEF SendIngest, observers
<1>14. ASSUME NEW i \in ingests, IngestAnswered(i) PROVE FilesInv'
  <2> DEFINE docs == Append(client.docs, [text |-> documents[i.doc].text, doc |-> i.doc])
  <2>1. NextFile(docs) /\ client.phase = "ingest" /\ docs \in Seq(Entry)
        /\ UNCHANGED <<files, torn>>
    BY <1>14, EntryOf DEF IngestAnswered, Mine, observers
  <2> HIDE DEF docs
  <2>2. client'.phase # "write"
    BY <1>0, <2>1, NextFileStep
  <2> QED
    BY <1>1, <2>1, <2>2
<1>15. CASE Ask
  <2>1. client.phase = "ask" /\ (client'.phase # "write" \/ client'.at = 1)
    BY <1>15, AskStep
  <2> QED
    BY <1>1, <1>15, <2>1 DEF Ask
<1>16. ASSUME NEW c \in client.cites, Resolve(c) PROVE FilesInv'
  <2>1. client.phase = "resolve" /\ (client'.phase # "write" \/ client'.at = 1)
    BY <1>16, ResolveStep
  <2> QED
    BY <1>1, <1>16, <2>1 DEF Resolve
<1>17. CASE Write
  <2>1. /\ Keeps /\ client.phase = "write"
        /\ \/ /\ client'.phase = "write" /\ client'.at = client.at + 1
              /\ UNCHANGED torn
           \/ /\ client'.phase = "done" /\ client.at = FilesOf(client.kind)
              /\ torn' = torn \ {client.kind}
    BY <1>17, WriteStep
  <2>2. files' = [files EXCEPT ![client.kind][client.at] = client.run]
    BY <1>17 DEF Write
  <2>3. /\ files = [k \in Kind |-> files[k]]
        /\ \A k \in Kind : files[k] \in [1 .. FilesOf(k) -> 0 .. MaxRuns]
        /\ client.at <= FilesOf(client.kind) /\ FilesOf(client.kind) \in Nat
    BY <1>0, <2>1 DEF TypeInv, FilesOK, Placed, FilesOf, Kind
  <2>4. \A k \in Kind \ {client.kind} : files'[k] = files[k]
    BY <1>0, <2>2, <2>3
  <2>5. \A n \in 1 .. FilesOf(client.kind) :
          files'[client.kind][n] = IF n = client.at THEN client.run
                                                    ELSE files[client.kind][n]
    BY <1>0, <2>2, <2>3
  <2>6. \A n \in 1 .. client.at : files'[client.kind][n] = client.run
    BY <1>0, <2>1, <2>3, <2>5 DEF FilesInv
  <2>7. \A k \in Kind \ {client.kind} : Whole(k) => Whole(k)'
    BY <2>4 DEF Whole
  <2>8. CASE client'.phase = "write" /\ client'.at = client.at + 1 /\ UNCHANGED torn
    BY <1>0, <2>1, <2>6, <2>7, <2>8 DEF FilesInv, Keeps
  <2>9. CASE /\ client'.phase = "done" /\ client.at = FilesOf(client.kind)
             /\ torn' = torn \ {client.kind}
    <3>1. ASSUME NEW k \in Kind, k = client.kind PROVE Whole(k)'
      BY <1>0, <2>6, <2>9, <3>1 DEF Whole
    <3> QED
      BY <1>0, <2>1, <2>7, <2>9, <3>1 DEF FilesInv
  <2> QED
    BY <2>1, <2>8, <2>9
<1>18. ASSUME NEW k \in Kind, Start(k) PROVE FilesInv'
  <2>1. client'.phase = "wait"
    BY <1>18, StartStep
  <2> QED
    BY <1>1, <1>18, <2>1 DEF Start
<1>19. ASSUME NEW f \in Range(Corpus), Edit(f) PROVE FilesInv'
  BY <1>2, <1>19 DEF Edit
<1> QED
  BY <1>4, <1>5, <1>6, <1>7, <1>8, <1>9, <1>10, <1>11, <1>12, <1>13, <1>14,
     <1>15, <1>16, <1>17, <1>18, <1>19 DEF Next, Service, ScriptStep

-----------------------------------------------------------------------------
(* The causes of a failure. *)

\* No result of the script is in error.
NoError == \A r \in Range(client.results) : r.status # "error"

LEMMA CauseStep ==
  ASSUME TypeInv, CauseInv, Next
  PROVE  CauseInv'
<1>0. client \in Client /\ Placed
  BY DEF TypeInv
<1>1. ASSUME UNCHANGED <<api, auth, calm>>, Keeps \/ UNCHANGED client,
             client'.phase = "failed" => client.phase = "failed" \/ client.kind # "proof",
             client.phase = "none" => client'.phase = "none",
             client.phase = "wait" => client'.phase = "wait"
      PROVE  CauseInv'
  BY <1>1 DEF CauseInv, Keeps
<1>2. ASSUME calm' = FALSE PROVE CauseInv'
  BY <1>2 DEF CauseInv
<1>3. \A p \in Phase : Goto(p) => Keeps /\ client'.phase = p
  BY <1>0, GotoStep
<1> USE DEF Phase, Over
<1>4. CASE ApiStarts \/ ApiIsProbed
  BY <1>4 DEF ApiStarts, ApiIsProbed, observers, CauseInv
<1>5. CASE ApiDies \/ Deadline \/ GivesUp \/ Killed
  BY <1>2, <1>5 DEF ApiDies, Deadline, GivesUp, Killed
<1>6. ASSUME NEW i \in ingests, ServeIngest(i) PROVE CauseInv'
  BY <1>1, <1>6 DEF ServeIngest, observers
<1>7. ASSUME NEW i \in ingests, IngestFails(i) PROVE CauseInv'
  BY <1>1, <1>2, <1>7 DEF IngestFails
<1>8. CASE Poll
  <2>1. /\ Keeps /\ client.phase = "wait"
        /\ \/ client'.phase = "wait" /\ client'.at = client.at + 1
           \/ /\ client'.phase = AfterWaits(client.kind)
              /\ ~(client.at < Len(WaitsFor(client.kind)))
    BY <1>8, PollStep
  <2>2. client.kind = "proof" /\ client'.phase # "wait" => api' = "ready"
    <3>1. CASE client.kind = "proof" /\ client'.phase # "wait"
      <4>1. WaitsFor(client.kind) = <<"/healthz", "/readyz">>
        BY <3>1 DEF WaitsFor
      <4>2. client.at = 2
        <5>1. client.at \in Nat \ {0} /\ client.at <= Len(WaitsFor(client.kind))
          BY <1>0, <2>1 DEF Placed, Client
        <5>2. Len(WaitsFor(client.kind)) = 2
          BY <4>1
        <5>3. ~(client.at < Len(WaitsFor(client.kind)))
          BY <2>1, <3>1
        <5> QED
          BY <5>1, <5>2, <5>3
      <4>3. WaitsFor(client.kind)[client.at] = "/readyz"
        BY <4>1, <4>2
      <4> QED
        BY <1>8, <4>3 DEF Poll, Probed
    <3> QED
      BY <3>1
  <2>3. UNCHANGED <<auth, calm>> /\ client'.phase # "failed"
    BY <1>8, <2>1 DEF Poll, observers, AfterWaits
  <2> QED
    BY <2>1, <2>2, <2>3 DEF CauseInv, Keeps
<1>9. CASE PollAgain
  <2>1. Keeps /\ client.phase = "wait" /\ client'.phase = "wait"
    BY <1>9, PollAgainStep
  <2> QED
    BY <1>1, <1>9, <2>1 DEF PollAgain, service, observers
<1>10. CASE TurnedDown
  <2>1. ~(client.kind = "proof" /\ calm)
    BY <1>0, <1>10 DEF TurnedDown, CauseInv, V1, Placed
  <2>2. client'.kind = client.kind /\ UNCHANGED calm
    BY <1>3, <1>10 DEF TurnedDown, Ends, Keeps
  <2> QED
    BY <2>1, <2>2 DEF CauseInv
<1>11. CASE Create
  BY <1>1, <1>3, <1>11 DEF Create, service, observers
<1>12. CASE SendIngest
  BY <1>1, <1>12 DEF SendIngest, observers
<1>13. CASE Report
  <2>1. client.phase = "report" /\ client.kind # "proof"
    BY <1>0, <1>13 DEF Report, Placed
  <2>2. Keeps
    BY <1>3, <1>13 DEF Report
  <2> QED
    BY <2>1, <2>2 DEF CauseInv, Keeps
<1>14. ASSUME NEW i \in ingests, IngestAnswered(i) PROVE CauseInv'
  <2> DEFINE docs == Append(client.docs, [text |-> documents[i.doc].text, doc |-> i.doc])
  <2>1. NextFile(docs) /\ client.phase = "ingest" /\ docs \in Seq(Entry)
        /\ UNCHANGED <<api, auth, calm>>
    BY <1>14, EntryOf DEF IngestAnswered, Mine, observers
  <2> HIDE DEF docs
  <2>2. /\ client'.kind = client.kind /\ client'.results = client.results
        /\ client'.phase \in {"ingest", "ask"}
    BY <1>0, <2>1, NextFileStep
  <2> QED
    BY <2>1, <2>2 DEF CauseInv
<1>15. CASE Ask
  <2>1. SUFFICES ASSUME client'.kind = "proof", calm' PROVE CauseInv'
    BY DEF CauseInv
  <2>2. /\ client.kind = "proof" /\ client.phase = "ask" /\ client'.phase # "failed"
        /\ UNCHANGED <<api, auth>>
        /\ \E status \in {"answered", "refused", "error"} :
             /\ client'.results = Append(client.results, [status |-> status, cites |-> {}])
             /\ calm
             /\ V1 = "served" => status # "error"
    BY <1>15, <2>1, AskStep DEF Ask, service
  <2>3. ~auth /\ api = "ready" /\ NoError
    BY <2>2 DEF CauseInv, NoError
  <2>4. V1 = "served"
    BY <2>3 DEF V1
  <2>5. NoError'
    <3>1. PICK status \in {"answered", "refused"} :
            client'.results = Append(client.results, [status |-> status, cites |-> {}])
      BY <2>2, <2>4
    <3> DEFINE new == [status |-> status, cites |-> {}]
    <3>2. new \in Result /\ new.status # "error" /\ client.results \in Seq(Result)
      BY <1>0 DEF Result, Client
    <3>3. client'.results = Append(client.results, new)
      BY <3>1
    <3> HIDE DEF new
    <3>4. \A r \in Range(client'.results) : r \in Range(client.results) \/ r = new
      BY <3>2, <3>3, AppendProperties, LenProperties DEF Range
    <3> QED
      BY <2>3, <3>2, <3>4 DEF NoError
  <2> QED
    BY <2>2, <2>3, <2>5 DEF CauseInv, NoError
<1>16. ASSUME NEW c \in client.cites, Resolve(c) PROVE CauseInv'
  <2>1. /\ client.phase = "resolve" /\ client.kind = "proof"
        /\ client'.kind = client.kind /\ client'.phase # "failed"
        /\ calm' => calm
        /\ \A r \in Range(client'.results) : \E o \in Range(client.results) :
             r.status = o.status
    BY <1>16, ResolveStep
  <2>2. UNCHANGED <<api, auth>>
    BY <1>16 DEF Resolve, service
  <2> QED
    BY <2>1, <2>2 DEF CauseInv
<1>17. CASE Write
  <2>1. /\ Keeps /\ client.phase = "write" /\ client'.phase \in {"write", "done"}
    BY <1>17, WriteStep
  <2> QED
    BY <1>1, <1>17, <2>1 DEF Write, service
<1>18. ASSUME NEW k \in Kind, Start(k) PROVE CauseInv'
  <2>1. /\ client'.phase = "wait" /\ client'.results = <<>>
        /\ calm' = ~auth /\ UNCHANGED auth
    BY <1>18, StartStep DEF Start, service
  <2>2. Range(<<>>) = {}
    BY DEF Range
  <2> QED
    BY <2>1, <2>2 DEF CauseInv
<1>19. ASSUME NEW f \in Range(Corpus), Edit(f) PROVE CauseInv'
  BY <1>1, <1>19 DEF Edit, service
<1> QED
  BY <1>4, <1>5, <1>6, <1>7, <1>8, <1>9, <1>10, <1>11, <1>12, <1>13, <1>14,
     <1>15, <1>16, <1>17, <1>18, <1>19 DEF Next, Service, ScriptStep

-----------------------------------------------------------------------------
(* The ingests. *)

\* Without left-over ingests there is none unless the script waits for it.
LEMMA NoneLeft ==
  ASSUME TidyInv, pristine
  PROVE  /\ client.phase # "ingest" => ingests = {}
         /\ \A i \in ingests : ingests \ {i} = {}
BY DEF TidyInv, Mine

\* A step that leaves the tables alone, starts no ingest, and leaves the
\* script where it is or where no ingest of its is under way.
LEMMA QuietTidy ==
  ASSUME TidyInv, UNCHANGED <<chunks, documents>>,
         ingests' \subseteq ingests, client'.run = client.run,
         \/ client'.phase = client.phase /\ client'.at = client.at
         \/ client.phase \in {"wait", "create"}
         \/ client'.phase \notin {"wait", "create", "ingest"}
         \/ \A i \in ingests' : i.run # client.run,
         pristine' => /\ pristine /\ UNCHANGED version
                      /\ ingests' = {} \/ client'.phase = client.phase
  PROVE  TidyInv'
BY DEF TidyInv, Mine

LEMMA TidyStep ==
  ASSUME TypeInv, RowsInv, TidyInv, Next
  PROVE  TidyInv'
<1>0. /\ client \in Client /\ Placed /\ documents \in Seq(Row)
      /\ pristine \in BOOLEAN
  BY DEF TypeInv, ServiceOK, FilesOK
<1>1. ASSUME UNCHANGED <<chunks, documents, ingests, version, pristine, client>>
      PROVE  TidyInv'
  BY <1>1, QuietTidy
<1>2. \A p \in Phase : Goto(p) => client'.run = client.run /\ client'.phase = p
  BY <1>0, GotoStep DEF Keeps
<1>3. /\ pristine /\ client.phase # "ingest" => ingests = {}
      /\ \A i \in ingests : pristine => ingests \ {i} = {}
  BY NoneLeft
<1> USE DEF Phase, Over
<1>4. CASE ApiStarts \/ ApiIsProbed
  BY <1>1, <1>4 DEF ApiStarts, ApiIsProbed, observers
<1>5. CASE ApiDies
  BY <1>2, <1>5, QuietTidy DEF ApiDies
<1>6. ASSUME NEW i \in ingests, ServeIngest(i) PROVE TidyInv'
  <2>1. i \in [run: 1 .. MaxRuns, doc: 1 .. Len(documents),
               next: {"delete", "insert", "answer"}]
    BY DEF TypeInv, ServiceOK
  <2>2. /\ ingests' \ ingests \subseteq {[i EXCEPT !.next = "insert"], [i EXCEPT !.next = "answer"]}
        /\ \A j \in ingests' \ ingests : j.run = i.run /\ j.doc = i.doc
        /\ \A j, l \in ingests' \ ingests : j = l
        /\ i \notin ingests'
        /\ UNCHANGED <<documents, client, version, pristine>>
    BY <1>6, <2>1 DEF ServeIngest, observers
  <2>3. \A k, l \in chunks' : k.id = l.id => k = l
    <3>1. \A k \in chunks : k.id # nextId /\ k.id \in Nat
      BY DEF TypeInv, ServiceOK
    <3> QED
      BY <1>6, <3>1 DEF ServeIngest, TidyInv
  <2>4. \A j \in ingests' : \E o \in ingests : j.run = o.run /\ j.doc = o.doc
    BY <2>2
  <2>5. \A j, l \in ingests' : j.run = client.run /\ l.run = client.run => j = l
    BY <2>2 DEF TidyInv
  <2> QED
    BY <2>2, <2>3, <2>4, <2>5 DEF TidyInv, Mine
<1>7. ASSUME NEW i \in ingests, IngestFails(i) PROVE TidyInv'
  <2>1. UNCHANGED <<chunks, documents, version, pristine>> /\ ingests' = ingests \ {i}
    BY <1>7 DEF IngestFails
  <2>2. CASE Mine(i)
    BY <1>2, <1>3, <1>7, <2>1, <2>2, QuietTidy DEF IngestFails
  <2>3. CASE ~Mine(i)
    BY <1>3, <1>7, <2>1, <2>3, QuietTidy DEF IngestFails
  <2> QED
    BY <2>2, <2>3
<1>8. CASE Poll
  <2>1. client.phase = "wait" /\ client'.run = client.run
    BY <1>8, PollStep DEF Keeps
  <2> QED
    BY <1>3, <1>8, <2>1, QuietTidy DEF Poll, observers
<1>9. CASE PollAgain
  <2>1. client.phase = "wait" /\ client'.run = client.run
    BY <1>9, PollAgainStep DEF Keeps
  <2> QED
    BY <1>3, <1>9, <2>1, QuietTidy DEF PollAgain, service, observers
<1>10. CASE Deadline \/ GivesUp \/ TurnedDown \/ Killed
  <2>1. Ends
    BY <1>10 DEF Deadline, GivesUp, TurnedDown, Killed
  <2>2. pristine' => pristine /\ ingests' = {}
    BY <2>1, Zenon DEF Ends
  <2>3. /\ client'.run = client.run /\ client'.phase = "failed"
        /\ ingests' \subseteq ingests /\ UNCHANGED <<chunks, documents, version>>
    BY <1>2, <2>1 DEF Ends
  <2> QED
    BY <2>2, <2>3, QuietTidy
<1>11. CASE Create
  BY <1>2, <1>3, <1>11, QuietTidy DEF Create, service, observers
<1>12. CASE SendIngest
  <2> DEFINE row == [workspace |-> WorkspaceOf(client.kind, client.run),
                     text |-> TextNow(Corpus[client.at])]
             new == [run |-> client.run, next |-> "delete", doc |-> IdOf(row, documents')]
  <2>1. /\ documents' = UpsertDocument(row) /\ ingests' = ingests \cup {new}
        /\ UNCHANGED <<client, chunks, version, pristine>>
        /\ client.phase = "ingest" /\ \A i \in ingests : ~Mine(i)
    BY <1>12 DEF SendIngest, observers
  <2>2. client.at \in 1 .. Len(Corpus)
    <3>1. Len(Corpus) \in Nat
      BY ScriptsAssumption, LenProperties
    <3> QED
      BY <1>0, <2>1, <3>1 DEF Placed, Client
  <2>3. /\ row \in Row /\ Corpus[client.at] \in Range(Corpus)
        /\ row.text.file = Corpus[client.at]
        /\ row.text.version = version[Corpus[client.at]]
    BY <2>2, RowOfFile DEF TextNow
  <2>4. new.run = client.run /\ new.doc = IdOf(row, documents')
    OBVIOUS
  <2> HIDE DEF row, new
  <2>5. /\ documents' \in Seq(Row) /\ Len(documents) <= Len(documents')
        /\ \A d \in 1 .. Len(documents) : documents'[d] = documents[d]
        /\ \A d \in 1 .. Len(documents') : d \in 1 .. Len(documents) \/ documents'[d] = row
        /\ documents'[new.doc] = row
    BY <1>0, <2>1, <2>3, <2>4, Upserted DEF RowsInv
  <2>6. \A i \in ingests : i.doc \in 1 .. Len(documents) /\ i.run # client.run
    BY <2>1 DEF TypeInv, ServiceOK, Mine
  <2>7. \A i, j \in ingests' : i.run = client.run /\ j.run = client.run => i = j
    BY <2>1, <2>6
  <2>8. \A i \in ingests' : i.run = client.run => documents'[i.doc].text.file = Corpus[client.at]
    BY <2>1, <2>3, <2>5, <2>6
  <2>9. pristine => /\ \A d \in 1 .. Len(documents') : documents'[d].text.version = 1
                    /\ \A i \in ingests' : Mine(i)
    BY <2>1, <2>3, <2>4, <2>5 DEF TidyInv, Mine
  <2>10. \A i : Mine(i)' = Mine(i)
    BY <2>1 DEF Mine
  <2> QED
    BY <2>1, <2>7, <2>8, <2>9, <2>10 DEF TidyInv
<1>13. ASSUME NEW i \in ingests, IngestAnswered(i) PROVE TidyInv'
  <2> DEFINE docs == Append(client.docs, [text |-> documents[i.doc].text, doc |-> i.doc])
  <2>1. /\ NextFile(docs) /\ client.phase = "ingest" /\ docs \in Seq(Entry)
        /\ ingests' = ingests \ {i} /\ i.run = client.run
        /\ UNCHANGED <<chunks, documents, version, pristine>>
    BY <1>13, EntryOf DEF IngestAnswered, Mine, observers
  <2> HIDE DEF docs
  <2>2. client'.run = client.run
    BY <1>0, <2>1, NextFileStep
  <2>3. \A j \in ingests' : j.run # client.run
    BY <2>1 DEF TidyInv
  <2> QED
    BY <1>3, <2>1, <2>2, <2>3, QuietTidy
<1>14. CASE Ask
  <2>1. client.phase = "ask" /\ client'.run = client.run
        /\ client'.phase \notin {"wait", "create", "ingest"}
    BY <1>14, AskStep
  <2> QED
    BY <1>3, <1>14, <2>1, QuietTidy DEF Ask, service
<1>15. ASSUME NEW c \in client.cites, Resolve(c) PROVE TidyInv'
  <2>1. client.phase = "resolve" /\ client'.run = client.run
        /\ client'.phase \notin {"wait", "create", "ingest"}
    BY <1>15, ResolveStep
  <2> QED
    BY <1>3, <1>15, <2>1, QuietTidy DEF Resolve, service
<1>16. CASE Write
  <2>1. client.phase = "write" /\ client'.run = client.run
        /\ client'.phase \notin {"wait", "create", "ingest"}
    BY <1>16, WriteStep DEF Keeps
  <2> QED
    BY <1>3, <1>16, <2>1, QuietTidy DEF Write, service
<1>17. CASE Report
  <2>1. client.phase = "report" /\ client'.run = client.run
        /\ client'.phase \notin {"wait", "create", "ingest"}
    BY <1>2, <1>17 DEF Report
  <2> QED
    BY <1>3, <1>17, <2>1, QuietTidy DEF Report, service, observers
<1>18. ASSUME NEW k \in Kind, Start(k) PROVE TidyInv'
  <2>1. /\ client'.run = client.run + 1 /\ client.phase # "ingest"
        /\ UNCHANGED <<chunks, documents, ingests, version, pristine>>
    BY <1>18, StartStep DEF Start, service
  <2>2. \A i \in ingests : i.run # client'.run
    <3>1. client.run \in Nat /\ \A i \in ingests : i.run \in Nat
      BY <1>0, ScriptsAssumption DEF Client, TypeInv, ServiceOK
    <3> QED
      BY <2>1, <3>1 DEF RowsInv
  <2> QED
    BY <1>3, <2>1, <2>2 DEF TidyInv
<1>19. ASSUME NEW f \in Range(Corpus), Edit(f) PROVE TidyInv'
  BY <1>19, QuietTidy DEF Edit, service
<1> QED
  BY <1>4, <1>5, <1>6, <1>7, <1>8, <1>9, <1>10, <1>11, <1>12, <1>13, <1>14,
     <1>15, <1>16, <1>17, <1>18, <1>19 DEF Next, Service, ScriptStep

-----------------------------------------------------------------------------
(* The source map. *)

\* A step that leaves the script where it is, or where nothing is claimed of
\* it, with what it knew.
LEMMA QuietTrace ==
  ASSUME TraceInv, Keeps \/ UNCHANGED client,
         calm' => calm, pristine' => pristine,
         \/ client'.phase = client.phase /\ client'.at = client.at
         \/ client'.phase \in {"wait", "failed"}
         \/ client.phase = "write" /\ client'.phase \in {"write", "done"},
         client.phase = "resolve" => UNCHANGED <<chunks, documents>>
  PROVE  TraceInv'
<1>1. client'.docs = client.docs
  BY DEF Keeps
<1>2. Traced' = Traced
  BY DEF Traced, Keeps
<1>3. \A c : client.phase = "resolve" => Finds(c)' = Finds(c)
  BY DEF Finds
<1> QED
  BY <1>1, <1>2, <1>3 DEF TraceInv, Keeps

\* What a calm and pristine proof run finds was ingested by it.
LEMMA FoundIsKnown ==
  ASSUME TypeInv, RowsInv, TidyInv, Has(client.docs, Len(Corpus)),
         client.kind = "proof", pristine,
         NEW k \in chunks, documents[k.doc].workspace = 0
  PROVE  \E d \in Range(client.docs) : d.doc = k.doc
<1>1. k.doc \in 1 .. Len(documents) /\ documents \in Seq(Row) /\ Corpus \in Seq(Range(Corpus))
  BY ScriptsAssumption DEF TypeInv, ServiceOK
<1>2. documents[k.doc] \in Row
  BY <1>1, ElementOfSeq
<1>3. PICK m \in 1 .. Len(Corpus) : documents[k.doc].text.file = Corpus[m]
  BY <1>1, <1>2, LenProperties DEF Row, Text, Range
<1>4. documents[k.doc].text = [file |-> Corpus[m], version |-> 1]
  <2>1. documents[k.doc].text \in Text /\ documents[k.doc].text.version = 1
    BY <1>1, <1>2 DEF Row, TidyInv
  <2> QED
    BY <1>3, <2>1 DEF Text
<1>5. PICK x \in Range(client.docs) : x.text = [file |-> Corpus[m], version |-> 1]
  BY DEF Has
<1>6. /\ x.doc \in 1 .. Len(documents)
      /\ documents[x.doc] = [workspace |-> 0, text |-> x.text]
  BY DEF RowsInv, Names
<1>7. documents[k.doc] = [workspace |-> 0, text |-> documents[k.doc].text]
  BY <1>2 DEF Row
<1>8. x.doc = k.doc
  BY <1>1, <1>4, <1>5, <1>6, <1>7 DEF RowsInv, Injective
<1> QED
  BY <1>8

LEMMA TraceStep ==
  ASSUME TypeInv, RowsInv, CauseInv, TidyInv, TraceInv, Next
  PROVE  TraceInv'
<1>0. /\ client \in Client /\ Placed /\ client.results \in Seq(Result)
      /\ client.docs \in Seq(Entry)
  BY DEF TypeInv, Client
<1>1. \A p \in Phase : Goto(p) => Keeps /\ client'.phase = p
  BY <1>0, GotoStep
<1>2. ASSUME client'.kind # "proof" \/ ~pristine' PROVE TraceInv'
  BY <1>2 DEF TraceInv
<1>3. pristine /\ client.phase # "ingest" => ingests = {}
  BY NoneLeft
<1> USE DEF Phase, Over
<1>4. CASE ApiStarts \/ ApiIsProbed
  BY <1>4, QuietTrace DEF ApiStarts, ApiIsProbed, observers
<1>5. CASE ApiDies
  BY <1>1, <1>5, QuietTrace DEF ApiDies
<1>6. ASSUME NEW i \in ingests, ServeIngest(i) PROVE TraceInv'
  <2>1. CASE pristine
    BY <1>3, <1>6, <2>1, QuietTrace DEF ServeIngest, observers
  <2>2. CASE ~pristine
    BY <1>2, <1>6, <2>2 DEF ServeIngest, observers
  <2> QED
    BY <2>1, <2>2
<1>7. ASSUME NEW i \in ingests, IngestFails(i) PROVE TraceInv'
  BY <1>1, <1>7, QuietTrace DEF IngestFails
<1>8. CASE Poll
  <2>1. /\ Keeps /\ client.phase = "wait" /\ client'.at \in Nat
        /\ client'.phase = "wait" \/ (client'.phase = AfterWaits(client.kind) /\ client'.at = 1)
        /\ UNCHANGED <<calm, pristine>>
    BY <1>0, <1>8, PollStep DEF Poll, observers, Client
  <2>2. Traced'
    <3>1. client'.results = <<>> /\ Range(<<>>) = {}
      BY <1>0, <2>1 DEF Placed, Keeps, Range
    <3> QED
      BY <3>1 DEF Traced
  <2>3. client'.phase \notin {"ask", "resolve", "write", "done"}
    BY <2>1 DEF AfterWaits
  <2>4. client'.phase = "ingest" => Has(client'.docs, client'.at - 1)
    BY <2>1 DEF Has
  <2> QED
    BY <2>2, <2>3, <2>4 DEF TraceInv
<1>9. CASE PollAgain
  <2>1. Keeps /\ client.phase = "wait" /\ client'.phase = "wait"
    BY <1>9, PollAgainStep
  <2> QED
    BY <1>9, <2>1, QuietTrace DEF PollAgain, service, observers
<1>10. CASE Deadline \/ GivesUp \/ TurnedDown \/ Killed
  <2>1. Ends /\ (calm' => calm)
    BY <1>10 DEF Deadline, GivesUp, TurnedDown, Killed
  <2>2. pristine' => pristine
    BY <2>1, Zenon DEF Ends
  <2> QED
    BY <1>1, <2>1, <2>2, QuietTrace DEF Ends
<1>11. CASE Create
  <2>1. client'.kind = client.kind /\ client.kind # "proof"
    BY <1>0, <1>1, <1>11 DEF Create, Keeps, Placed
  <2> QED
    BY <1>2, <2>1
<1>12. CASE SendIngest
  BY <1>12, QuietTrace DEF SendIngest, observers
<1>13. ASSUME NEW i \in ingests, IngestAnswered(i) PROVE TraceInv'
  <2> DEFINE new  == [text |-> documents[i.doc].text, doc |-> i.doc]
             docs == Append(client.docs, new)
  <2>0. SUFFICES ASSUME client'.kind = "proof", pristine' PROVE TraceInv'
    BY <1>2
  <2>1. /\ NextFile(docs) /\ client.phase = "ingest"
        /\ i.run = client.run /\ UNCHANGED <<calm, pristine>>
    BY <1>13 DEF IngestAnswered, Mine, observers
  <2>2. /\ docs \in Seq(Entry) /\ new \in Entry
        /\ documents[i.doc] \in Row /\ i.doc \in 1 .. Len(documents)
        /\ client.docs \in Seq(Entry)
    BY <1>0, EntryOf
  <2>3. Range(docs) = Range(client.docs) \cup {new}
    <3> HIDE DEF new
    <3> QED
      BY <2>2, AppendProperties, LenProperties DEF Range
  <2>4. new.text = [file |-> Corpus[client.at], version |-> 1]
    <3>1. /\ documents[i.doc].text \in Text
          /\ documents[i.doc].text.version = 1
          /\ documents[i.doc].text.file = Corpus[client.at]
      BY <2>0, <2>1, <2>2 DEF Row, TidyInv
    <3> QED
      BY <3>1 DEF Text
  <2> HIDE DEF new, docs
  <2>5. /\ client'.kind = client.kind /\ client'.docs = docs
        /\ client'.results = client.results
        /\ \/ /\ client.at < Len(Corpus)
              /\ client'.phase = "ingest" /\ client'.at = client.at + 1
           \/ /\ ~(client.at < Len(Corpus)) /\ client'.phase = "ask"
    BY <1>0, <2>1, <2>2, NextFileStep
  <2>6. /\ client.at \in Nat \ {0} /\ client.at <= Len(Corpus) /\ Len(Corpus) \in Nat
    BY <1>0, <2>1, ScriptsAssumption, LenProperties DEF Client, Placed
  <2>7. Has(docs, client.at)
    <3>1. Has(client.docs, client.at - 1)
      BY <2>0, <2>1, <2>5 DEF TraceInv
    <3> QED
      BY <2>3, <2>4, <2>6, <3>1 DEF Has
  <2>8. calm' => Traced'
    BY <2>0, <2>1, <2>3, <2>5 DEF TraceInv, Traced
  <2> QED
    BY <2>5, <2>6, <2>7, <2>8 DEF TraceInv
<1>14. CASE Ask
  <2>0. SUFFICES ASSUME client'.kind = "proof", pristine' PROVE TraceInv'
    BY <1>2
  <2>1. /\ client.phase = "ask" /\ client.kind = "proof"
        /\ client'.docs = client.docs
        /\ client'.phase \notin {"wait", "create", "ingest"}
        /\ \E status \in {"answered", "refused", "error"} :
             /\ client'.results = Append(client.results, [status |-> status, cites |-> {}])
             /\ calm' =>
                  /\ calm
                  /\ client'.cites =
                       IF V1 = "served" THEN Found(Questions[client.at], 0)
                                        ELSE {}
    BY <1>14, <2>0, AskStep
  <2>2. UNCHANGED <<chunks, documents, pristine>>
    BY <1>14 DEF Ask, service
  <2>3. Has(client'.docs, Len(Corpus))
    BY <2>0, <2>1, <2>2 DEF TraceInv, Has
  <2>4. calm' => Traced'
    <3>1. PICK status \in {"answered", "refused", "error"} :
            client'.results = Append(client.results, [status |-> status, cites |-> {}])
      BY <2>1
    <3> DEFINE new == [status |-> status, cites |-> {}]
    <3>2. new \in Result /\ new.cites = {}
      BY DEF Result
    <3>3. client'.results = Append(client.results, new)
      BY <3>1
    <3> HIDE DEF new
    <3>4. \A r \in Range(client'.results) : r \in Range(client.results) \/ r = new
      BY <1>0, <3>2, <3>3, AppendProperties, LenProperties DEF Range
    <3> QED
      BY <2>0, <2>1, <2>2, <3>2, <3>4 DEF TraceInv, Traced
  <2>5. calm' => \A c \in client'.cites : Finds(c)'
    BY <2>1, <2>2 DEF Finds, Found, WorkspaceOf
  <2> QED
    BY <2>1, <2>3, <2>4, <2>5 DEF TraceInv
<1>15. ASSUME NEW c \in client.cites, Resolve(c) PROVE TraceInv'
  <2>0. SUFFICES ASSUME client'.kind = "proof", pristine' PROVE TraceInv'
    BY <1>2
  <2>1. PICK doc \in 0 .. Len(documents) :
          /\ \A r \in Range(client'.results) : \E o \in Range(client.results) :
               r.status = o.status /\ r.cites \subseteq o.cites \cup {Cited(c, doc)}
          /\ calm' =>
               /\ calm
               /\ V1 = "served" =>
                    doc = IF \E k \in chunks : k.id = c
                            THEN (CHOOSE k \in chunks : k.id = c).doc ELSE 0
    BY <1>15, ResolveStep
  <2>2. /\ client.phase = "resolve" /\ client.kind = "proof"
        /\ client'.docs = client.docs /\ client'.cites \subseteq client.cites
        /\ client'.phase \in {"resolve", "ask", "write"}
    BY <1>15, ResolveStep
  <2>3. UNCHANGED <<chunks, documents, pristine>>
    BY <1>15 DEF Resolve, service
  <2>4. Has(client.docs, Len(Corpus)) /\ Has(client'.docs, Len(Corpus))
    BY <2>0, <2>2, <2>3 DEF TraceInv, Has
  <2>5. ASSUME calm' PROVE Traced' /\ \A x \in client'.cites : Finds(x)'
    <3>1. calm /\ Traced /\ \A x \in client.cites : Finds(x)
      BY <2>0, <2>1, <2>2, <2>3, <2>5 DEF TraceInv
    <3>2. V1 = "served"
      BY <2>2, <3>1 DEF CauseInv, V1
    <3>3. PICK k \in chunks : k.id = c /\ documents[k.doc].workspace = 0
      BY <3>1 DEF Finds
    <3>4. doc = k.doc
      <4>1. \A l \in chunks : l.id = c => l = k
        BY <3>3 DEF TidyInv
      <4>2. (CHOOSE l \in chunks : l.id = c) = k
        BY <3>3, <4>1
      <4> QED
        BY <2>1, <2>5, <3>2, <3>3, <4>2
    <3>5. \E d \in Range(client.docs) : d.doc = doc
      BY <2>0, <2>2, <2>3, <2>4, <3>3, <3>4, FoundIsKnown
    <3>6. Traced'
      BY <2>1, <2>2, <3>1, <3>5 DEF Traced, Cited
    <3>7. \A x \in client'.cites : Finds(x)'
      BY <2>2, <2>3, <3>1 DEF Finds
    <3> QED
      BY <3>6, <3>7
  <2> QED
    BY <2>2, <2>4, <2>5 DEF TraceInv
<1>16. CASE Write
  <2>1. Keeps /\ client.phase = "write" /\ client'.phase \in {"write", "done"}
    BY <1>16, WriteStep
  <2> QED
    BY <1>16, <2>1, QuietTrace DEF Write, service
<1>17. CASE Report
  <2>1. client'.kind = client.kind /\ client.kind # "proof"
    BY <1>0, <1>1, <1>17 DEF Report, Keeps, Placed
  <2> QED
    BY <1>2, <2>1
<1>18. ASSUME NEW k \in Kind, Start(k) PROVE TraceInv'
  <2>1. client'.phase = "wait" /\ client'.results = <<>> /\ Range(<<>>) = {}
    BY <1>18, StartStep DEF Range
  <2> QED
    BY <2>1 DEF TraceInv, Traced
<1>19. ASSUME NEW f \in Range(Corpus), Edit(f) PROVE TraceInv'
  BY <1>2, <1>19 DEF Edit
<1> QED
  BY <1>4, <1>5, <1>6, <1>7, <1>8, <1>9, <1>10, <1>11, <1>12, <1>13, <1>14,
     <1>15, <1>16, <1>17, <1>18, <1>19 DEF Next, Service, ScriptStep

-----------------------------------------------------------------------------
(* The theorems. *)

LEMMA ScriptsInit ==
  ASSUME Init PROVE ScriptsInv
<1>1. /\ client \in Client /\ Placed /\ client.phase = "none"
      /\ client.results = <<>> /\ client.docs = <<>> /\ client.run = 0
  BY ScriptsAssumption DEF Init, Client, Phase, Over, Kind, Placed
<1>2. ServiceOK
  BY DEF Init, ServiceOK
<1>3. FilesOK /\ \A k \in Kind : Whole(k)
  <2>1. \A k \in Kind : files[k] = [n \in 1 .. FilesOf(k) |-> 0]
    BY DEF Init
  <2>2. 0 \in 0 .. MaxRuns /\ 1 \in 1 .. Versions
    BY ScriptsAssumption
  <2>3. \A k \in Kind : Whole(k)
    BY <2>1, <2>2 DEF Whole
  <2>4. \A k \in Kind : files[k] \in [1 .. FilesOf(k) -> 0 .. MaxRuns]
    BY <2>1, <2>2
  <2>5. files = [k \in Kind |-> files[k]]
    BY DEF Init
  <2>6. version \in [Range(Corpus) -> 1 .. Versions]
    BY <2>2 DEF Init
  <2> QED
    BY <2>3, <2>4, <2>5, <2>6 DEF Init, FilesOK
<1>4. Range(<<>>) = {} /\ Len(<<>>) = 0
  BY DEF Range
<1>5. RowsInv /\ TidyInv
  BY <1>1, <1>4 DEF Init, RowsInv, TidyInv, Injective
<1>6. FilesInv /\ CauseInv /\ TraceInv
  BY <1>1, <1>3, <1>4 DEF FilesInv, CauseInv, TraceInv, Traced
<1> QED
  BY <1>1, <1>2, <1>3, <1>5, <1>6 DEF ScriptsInv, TypeInv

LEMMA ScriptsStep ==
  ASSUME ScriptsInv, [Next]_vars PROVE ScriptsInv'
<1>1. CASE Next
  <2>1. TypeInv' /\ RowsInv'
    BY <1>1, TypeStep, RowsStep DEF ScriptsInv, RowsInv
  <2>2. FilesInv' /\ CauseInv' /\ TidyInv' /\ TraceInv'
    BY <1>1, FilesInvStep, CauseStep, TidyStep, TraceStep DEF ScriptsInv
  <2> QED
    BY <2>1, <2>2 DEF ScriptsInv
<1>2. CASE UNCHANGED vars
  <2>1. TypeInv' /\ RowsInv'
    BY <1>2 DEF vars, service, observers, ScriptsInv, TypeInv, ServiceOK, Placed,
       FilesOK, RowsInv, Names
  <2>2. FilesInv' /\ CauseInv' /\ TidyInv' /\ TraceInv'
    BY <1>2 DEF vars, service, observers, ScriptsInv, FilesInv, Whole, CauseInv,
       TidyInv, Mine, TraceInv, Traced, Finds
  <2> QED
    BY <2>1, <2>2 DEF ScriptsInv
<1> QED
  BY <1>1, <1>2

\* The inductive invariant holds for every corpus, every list of questions
\* and any number of runs.
THEOREM ScriptsInvariance == Spec => []ScriptsInv
BY ScriptsInit, ScriptsStep, PTL DEF Spec

\* What the scripts keep is of its type (run_proof.py, _demo_capture.py,
\* _demo_verify.py and the service they see).
THEOREM TypeCorrect == Spec => []TypeOK
<1>1. ASSUME ScriptsInv PROVE TypeOK
  <2>1. /\ client \in Client /\ ServiceOK /\ FilesOK
        /\ \A r \in Range(client.results) : \A c \in r.cites : c.doc \in 0 .. Len(documents)
    BY <1>1 DEF ScriptsInv, TypeInv, RowsInv
  <2> QED
    BY <2>1 DEF TypeOK, ServiceOK, FilesOK, Client, Phase
<1> QED
  BY <1>1, ScriptsInvariance, PTL

\* A proof run that gets past its waits neither fails nor has a question in
\* error unless something went wrong since it started (run_proof.py, main).
THEOREM FailuresHaveACause == Spec => []ProofFailsForACause
<1>1. ASSUME ScriptsInv PROVE ProofFailsForACause
  <2>1. Placed /\ CauseInv /\ Range(<<>>) = {}
    BY <1>1 DEF ScriptsInv, TypeInv, Range
  <2> QED
    BY <2>1 DEF CauseInv, Placed, ProofFailsForACause
<1> QED
  BY <1>1, ScriptsInvariance, PTL

\* corpus-index.json never gives one text two documents, whatever happened
\* between the runs that wrote it (run_proof.py, _ingest_corpus).
THEOREM DocumentsStay == Spec => []DocumentsAreStable
<1>1. ASSUME ScriptsInv PROVE DocumentsAreStable
  <2>1. Injective(documents) /\ \A x \in listed : Names(x)
    BY <1>1 DEF ScriptsInv, RowsInv
  <2>2. ASSUME NEW a \in listed, NEW b \in listed, a.text = b.text
        PROVE  a.doc = b.doc
    <3>1. /\ a.doc \in 1 .. Len(documents) /\ b.doc \in 1 .. Len(documents)
          /\ documents[a.doc] = documents[b.doc]
      BY <2>1, <2>2 DEF Names
    <3> QED
      BY <2>1, <3>1 DEF Injective
  <2> QED
    BY <2>2 DEF DocumentsAreStable
<1> QED
  BY <1>1, ScriptsInvariance, PTL

\* Every chunk a calm run cites is in its source map, as long as no file was
\* edited and no ingest outlived its client (run_proof.py, _write_source_map).
THEOREM TheSourceMapTraces == Spec => []SourceMapTraces
<1>1. ASSUME ScriptsInv PROVE SourceMapTraces
  BY <1>1 DEF ScriptsInv, TraceInv, SourceMapTraces, Mapped
<1> QED
  BY <1>1, ScriptsInvariance, PTL

\* The files of a kind are of one run unless a run was killed as it wrote
\* them (run_proof.py, main; run-demo.sh).
THEOREM TheEvidenceIsWhole == Spec => []EvidenceIsWhole
<1>1. ASSUME ScriptsInv, NEW k \in Kind \ torn
      PROVE  \/ client.kind = k /\ client.phase = "write"
             \/ Cardinality(Range(files[k])) <= 1
  <2>1. CASE Whole(k)
    <3>1. PICK run \in 0 .. MaxRuns : \A n \in 1 .. FilesOf(k) : files[k][n] = run
      BY <2>1 DEF Whole
    <3>2. Range(files[k]) \subseteq {run}
      BY <1>1, <3>1 DEF ScriptsInv, TypeInv, FilesOK, Range
    <3>3. IsFiniteSet({run}) /\ Cardinality({run}) = 1
      BY FS_Singleton
    <3> QED
      BY <3>2, <3>3, FS_Subset
  <2>2. CASE ~Whole(k)
    BY <1>1, <2>2 DEF ScriptsInv, FilesInv
  <2> QED
    BY <2>1, <2>2
<1>2. ScriptsInv => EvidenceIsWhole
  BY <1>1 DEF EvidenceIsWhole
<1> QED
  BY <1>2, ScriptsInvariance, PTL
=============================================================================
