----------------------------- MODULE ApiRequests -----------------------------
(***************************************************************************)
(* HTTP requests from the socket to the answer: the middleware around the  *)
(* routes (Middleware) and what the routes take from the pool              *)
(* (ConnectionPool).  The tables are left out (see KnowledgeService).      *)
(*                                                                         *)
(* A route is the sequence of what it awaits.  It takes a connection for   *)
(* each block of statements and holds none while it awaits a provider.     *)
(***************************************************************************)
EXTENDS ConnectionPool, Middleware

VARIABLE block   (* block[r]: the next of its route's blocks                *)

vars == <<poolVars, fixed, replies, block>>

\* ingest_bytes, query and the one-statement routes.  "register" is
\* register_vector in a block of its own; "replace" and "search" send and
\* compare embeddings.
Blocks(path) ==
  CASE path = "/v1/ingest" -> <<"register", "statement", "provider", "replace">>
    [] path = "/v1/query"  -> <<"register", "provider", "search", "provider">>
    [] path = "/v1/collections" -> <<"statement">>
    [] OTHER -> <<>>

\* The answers a route gives before its last block: 503 at its gate, 400 for
\* an ingest with nothing to store or too long a text before its first block
\* and for a file it rejects after it, a refusal without asking the chat
\* provider.
EarlyAnswers(path, n) ==
  CASE path = "/v1/ingest" /\ n = 1 -> {503, 400}
    [] path = "/v1/ingest" /\ n = 2 -> {400}
    [] path = "/v1/query" /\ n = 4 -> {200}
    [] path # "/v1/ingest" /\ Blocks(path) # <<>> /\ n = 1 -> {503}
    [] OTHER -> {}

Embeds(b) == b \in {"replace", "search"}

Plan(r) == Blocks(request[r].path)
InRoute(r) == stage[r] = "route"
At(r, b) == InRoute(r) /\ block[r] \in 1 .. Len(Plan(r)) /\ Plan(r)[block[r]] = b
Waits(r) == InRoute(r) /\ block[r] <= Len(Plan(r))

TypeOK ==
  /\ PoolTypeOK /\ MiddlewareTypeOK
  /\ block \in [Requests -> 1 .. 5]
  /\ \A r \in Requests : held[r] # NoHolder => InRoute(r)

Init ==
  /\ PoolInit /\ MiddlewareInit
  /\ block = [r \in Requests |-> 1]

-----------------------------------------------------------------------------
ServeMiddleware(r) ==
  MiddlewareStep(r) /\ UNCHANGED <<poolVars, block>>

TakeConnection(r) ==
  /\ Waits(r) /\ ~At(r, "provider")
  /\ Acquire(r)
  /\ UNCHANGED <<fixed, replies, block>>

NextBlock(r) == block' = [block EXCEPT ![r] = @ + 1]

Register(r) ==
  /\ At(r, "register")
  /\ Release(r) /\ RegisterCodec(r) /\ NextBlock(r)
  /\ UNCHANGED <<fixed, replies>>

\* The block's statements succeed; the ones with an embedding need the
\* codec.
RunBlock(r) ==
  /\ Waits(r) /\ ~At(r, "register")
  /\ Release(r) /\ NextBlock(r)
  /\ Embeds(Plan(r)[block[r]]) => conn[held[r]] = "codec"
  /\ UNCHANGED <<conn, alone, fixed, replies>>

\* The route is left: for its handler's answer or with an exception.
Leave(r, to) ==
  /\ Advance(r, "route", to)
  /\ block' = [block EXCEPT ![r] = 1]

\* Without the codec asyncpg wants a string for a vector and raises on the
\* list it is given; the DELETE of "replace" is committed by then.
LacksCodec(r) ==
  /\ At(r, "replace") \/ At(r, "search")
  /\ Release(r) /\ conn[held[r]] = "plain"
  /\ Leave(r, "raised")
  /\ UNCHANGED <<conn, alone, fixed, outcome, audited, sent>>

AskProvider(r) ==
  /\ At(r, "provider") /\ NextBlock(r)
  /\ UNCHANGED <<poolVars, fixed, replies>>

\* What an await can raise from: the provider, or a holder of the pool that
\* it has or could open.  Waiting for a holder never raises.
CanRaise(r) ==
  Waits(r) /\ (At(r, "provider") \/ idle # <<>> \/ held[r] # NoHolder)

\* Mutant: the connection is released on the way out only.
Raise_Leaks(r) ==
  /\ CanRaise(r) /\ Leave(r, "raised")
  /\ UNCHANGED <<poolVars, fixed, outcome, audited, sent>>

\* No connection could be opened, a statement failed with or without its
\* connection, or the provider did.
Raise(r) ==
  /\ CanRaise(r) /\ Leave(r, "raised")
  /\ \/ held[r] = NoHolder /\ UNCHANGED poolVars
     \/ Release(r) /\ UNCHANGED <<conn, alone>>
     \/ /\ Release(r)
        /\ conn' = [conn EXCEPT ![held[r]] = "closed"]
        /\ alone' = [o \in Requests |-> FALSE]
  /\ UNCHANGED <<fixed, outcome, audited, sent>>

Answer(r) ==
  /\ held[r] = NoHolder /\ Leave(r, "ended")
  /\ \E status \in EarlyAnswers(request[r].path, block[r])
                     \cup (IF Waits(r) THEN {} ELSE {200}) :
       outcome' = [outcome EXCEPT ![r] = status]
  /\ UNCHANGED <<poolVars, fixed, audited, sent>>

RequestStep(r) ==
  \/ ServeMiddleware(r)
  \/ TakeConnection(r) \/ Register(r) \/ RunBlock(r) \/ LacksCodec(r)
  \/ AskProvider(r) \/ Raise(r) \/ Answer(r)

ConnectionLost ==
  /\ \E h \in Holder : LoseIdle(h)
  /\ UNCHANGED <<fixed, replies, block>>

Pending(r) == stage[r] \notin {"new", "over", "lost"}

\* The process dies and another one serves the requests still to come.
Crash ==
  /\ \E r \in Requests : Pending(r)
  /\ stage' = [r \in Requests |-> IF Pending(r) THEN "lost" ELSE stage[r]]
  /\ outcome' = [r \in Requests |-> NoStatus]
  /\ block' = [r \in Requests |-> 1]
  /\ NewPool
  /\ UNCHANGED <<fixed, audited, sent>>

Next == (\E r \in Requests : RequestStep(r)) \/ ConnectionLost \/ Crash

Spec == Init /\ [][Next]_vars

\* The event loop resumes whatever can go on, and every await ends.
Fairness == \A r \in Requests : WF_vars(RequestStep(r))

FairSpec == Spec /\ Fairness

-----------------------------------------------------------------------------
\* No connection is ever lost to the pool or in two hands, whatever raises
\* while it is held: the limit of max_size connections stays the limit.
PoolConserved ==
  /\ \A r, o \in Requests : held[r] = held[o] /\ held[r] # NoHolder => r = o
  /\ \A i, j \in 1 .. Len(idle) : idle[i] = idle[j] => i = j
  /\ \A h \in Holder :
       (\E i \in 1 .. Len(idle) : idle[i] = h)
         <=> ~\E r \in Requests : InRoute(r) /\ held[r] = h

\* Every request is answered or dies with its process, with any number of
\* requests for the connections of the pool: no request waits for one while
\* it holds another, and none keeps one when it raises.
EveryRequestEnds ==
  <>(\A r \in Requests : stage[r] \in {"over", "lost"})

\* A request finds the codec it registered, although it lets the connection
\* go in between, as long as no other request takes a connection meanwhile
\* and none is lost: the pool hands out last what was released last.  It is
\* why requests sent one at a time never miss it.
CodecUnlessContended ==
  \A r \in Requests :
    Waits(r) /\ held[r] # NoHolder /\ alone[r] => conn[held[r]] = "codec"

-----------------------------------------------------------------------------
\* "pgvector codec must be registered before we touch `embedding` columns":
\* no ingest ever sends a vector on a connection without it.
CodecRegistered ==
  \A r \in Requests :
    held[r] # NoHolder /\ At(r, "replace") => conn[held[r]] = "codec"
=============================================================================
