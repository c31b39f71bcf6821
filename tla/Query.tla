-------------------------------- MODULE Query --------------------------------
(***************************************************************************)
(* POST /v1/query (api/app/main.py, post_query) with its retrieval         *)
(* (retrieve.py, query), relevance filter and grounded generation          *)
(* (generate.py).  The coroutine awaits the embedding of the question, the *)
(* SELECT and the chat provider; the tables may change at each await.      *)
(*                                                                         *)
(* A score is a number standing for 1 - cosine distance, or NaN, the       *)
(* distance to a zero vector; a piece <<content, ordinal>> stands for the  *)
(* text of a chunk.                                                        *)
(***************************************************************************)
EXTENDS KnowledgeStore

CONSTANTS
  Queries,        (* query requests                                        *)
  Question,       (* the questions they ask                                *)
  AskedCollection,(* the collection ids they name, existing or not         *)
  Score(_, _),    (* Score(question, piece)                                *)
  NaN,            (* the score that is not a number                        *)
  Overlaps(_, _), (* Overlaps(question, piece): they share a token         *)
  Threshold,      (* settings.retrieval_min_score                          *)
  TopK,           (* top_k                                                 *)
  IndexFrom,      (* rows from which ensure_schema wants an index (1000)   *)
  EmbeddingStub   (* settings.embedding_stub                               *)

ASSUME QueryAssumption ==
  /\ AskedCollection \subseteq Id
  /\ TopK \in Nat \ {0}
  /\ IndexFrom \in Nat
  /\ EmbeddingStub \in BOOLEAN
  /\ Threshold \in Nat /\ NaN \notin Int
  /\ \A question \in Question, content \in Content :
       \A i \in 0 .. Pieces[content] - 1 :
         Score(question, <<content, i>>) \in Int \cup {NaN}

VARIABLES
  ask,     (* ask[q]: what q asks                                          *)
  qpc,     (* qpc[q]: where q stands                                       *)
  hits,    (* hits[q]: the rows the SELECT returned                        *)
  cited    (* cited[q]: the citations of the 200 response                  *)

queryVars == <<ask, qpc, hits, cited>>

QueryActive == {"embed", "search", "chat"}
QueryOver   == {"answered", "refused", "failed", "lost"}

Ask == [ws: Workspace, col: AskedCollection, question: Question]

QueryTypeOK ==
  /\ ask \in [Queries -> Ask]
  /\ qpc \in [Queries -> {"idle"} \cup QueryActive \cup QueryOver]
  /\ hits \in [Queries -> SUBSET ChunkRow]
  /\ cited \in [Queries -> SUBSET ChunkRow]

QueryInit ==
  /\ ask \in [Queries -> Ask]
  /\ qpc = [q \in Queries |-> "idle"]
  /\ hits = [q \in Queries |-> {}]
  /\ cited = [q \in Queries |-> {}]

Move(q, from, to) ==
  /\ qpc[q] = from
  /\ qpc' = [qpc EXCEPT ![q] = to]

-----------------------------------------------------------------------------
Piece(c) == <<c.content, c.ordinal>>

ScoreOf(q, c) == Score(ask[q].question, Piece(c))

\* Mutant: the collection id alone selects.
Candidates_AnyWorkspace(q) ==
  {c \in chunks : /\ c.collection_id = ask[q].col
                  /\ \E d \in documents : d.id = c.document_id}

\* WHERE c.collection_id = $2 AND c.workspace = $3, joined with documents.
Candidates(q) ==
  {c \in chunks : /\ c.collection_id = ask[q].col
                  /\ c.workspace = ask[q].ws
                  /\ \E d \in documents : d.id = c.document_id}

\* ORDER BY distance: NaN is the largest, so it comes last.
Precedes(a, b) == b = NaN \/ (a # NaN /\ a >= b)

\* Mutant: LIMIT top_k - 1.
IsTopK_OneShort(q, rows) ==
  /\ rows \subseteq Candidates(q)
  /\ Cardinality(rows) =
       IF Cardinality(Candidates(q)) < TopK THEN Cardinality(Candidates(q))
                                            ELSE TopK - 1
  /\ \A in \in rows, out \in Candidates(q) \ rows :
       Precedes(ScoreOf(q, in), ScoreOf(q, out))

\* ORDER BY distance LIMIT top_k of a sequential scan, ties in any order.
IsTopK(q, rows) ==
  /\ rows \subseteq Candidates(q)
  /\ Cardinality(rows) =
       IF Cardinality(Candidates(q)) < TopK THEN Cardinality(Candidates(q))
                                            ELSE TopK
  /\ \A in \in rows, out \in Candidates(q) \ rows :
       Precedes(ScoreOf(q, in), ScoreOf(q, out))

\* ensure_schema (db.py) builds an IVFFlat index when it counts IndexFrom
\* rows, so there can be one when that many were ever inserted.
MayBeIndexed == seq.chunks >= IndexFrom

\* An IVFFlat scan looks into some of the lists, and the WHERE clause cuts
\* what it found there: nearer rows may be missing, and rows fewer than top_k.
Approximates(q, rows) ==
  rows \subseteq Candidates(q) /\ Cardinality(rows) <= TopK

Selects(q, rows) ==
  IsTopK(q, rows) \/ (MayBeIndexed /\ Approximates(q, rows))

\* score >= threshold, which NaN is not.
Reaches(score) == score # NaN /\ score >= Threshold

\* Mutant: the cosine gate alone.
FilterRelevant_NoTokenGate(q, rows) == {c \in rows : Reaches(ScoreOf(q, c))}

\* The cosine gate, then the token gate that only the stub embedder uses.
FilterRelevant(q, rows) ==
  {c \in rows : /\ Reaches(ScoreOf(q, c))
                /\ EmbeddingStub => Overlaps(ask[q].question, Piece(c))}

Relevant(q) == FilterRelevant(q, hits[q])

\* best_score of the envelope: the top relevant score, else the top
\* retrieved score, else 0.
Highest(q, rows) ==
  IF rows = {} THEN 0
  ELSE LET top == CHOOSE c \in rows :
                    \A o \in rows : Precedes(ScoreOf(q, c), ScoreOf(q, o))
       IN  ScoreOf(q, top)

BestOf(q, rows) ==
  Highest(q, IF FilterRelevant(q, rows) = {} THEN rows ELSE FilterRelevant(q, rows))

BestScore(q) == BestOf(q, hits[q])

\* What the SELECT's rows lead to.  The envelope of a refusal carries its
\* best score, and NaN has no JSON: the response raises.
Verdict(q, rows) ==
  IF FilterRelevant(q, rows) # {} THEN "chat"
  ELSE IF BestOf(q, rows) = NaN THEN "failed" ELSE "refused"

-----------------------------------------------------------------------------
\* Registering the codec and embedding the question touch no table: the
\* awaits before the SELECT are one state.
AdmitQuery(q) ==
  /\ Move(q, "idle", "embed")
  /\ UNCHANGED <<storeVars, ask, hits, cited>>

EmbedQuestion(q) ==
  /\ Move(q, "embed", "search")
  /\ UNCHANGED <<storeVars, ask, hits, cited>>

\* The SELECT, and the refusal decided with no further await.
Retrieve(q) ==
  /\ \E rows \in SUBSET Candidates(q) :
       /\ Selects(q, rows)
       /\ hits' = [hits EXCEPT ![q] = rows]
       /\ Move(q, "search", Verdict(q, rows))
  /\ UNCHANGED <<storeVars, ask, cited>>

\* What chat.complete returns: a text or the token that refuses.  The live
\* client returns the token for an empty content and raises (FailQuery) for
\* a provider error; the stub quotes the best passage, whatever it says.
RefusalToken == "INSUFFICIENT_EVIDENCE"
Completions == {"text", RefusalToken}

\* The citations are the relevant rows as they were read, not as they are
\* now.
ChatAnswers(q, text) ==
  /\ text # RefusalToken
  /\ Move(q, "chat", "answered")
  /\ cited' = [cited EXCEPT ![q] = Relevant(q)]
  /\ UNCHANGED <<storeVars, ask, hits>>

ChatRefuses(q, text) ==
  /\ text = RefusalToken
  /\ Move(q, "chat", "refused")
  /\ UNCHANGED <<storeVars, ask, hits, cited>>

FailQuery(q) ==
  /\ qpc[q] \in QueryActive
  /\ qpc' = [qpc EXCEPT ![q] = "failed"]
  /\ UNCHANGED <<storeVars, ask, hits, cited>>

QueryStep(q) ==
  \/ AdmitQuery(q)
  \/ EmbedQuestion(q)
  \/ Retrieve(q)
  \/ \E text \in Completions : ChatAnswers(q, text) \/ ChatRefuses(q, text)

LoseQueries ==
  qpc' = [q \in Queries |-> IF qpc[q] \in QueryActive THEN "lost" ELSE qpc[q]]
=============================================================================
