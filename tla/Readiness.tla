------------------------------ MODULE Readiness ------------------------------
(***************************************************************************)
(* How the API becomes ready: GET /readyz and the /v1 gate (main.py), the  *)
(* lazy pool (db.py, get_pool) and the schema (db.py, ensure_schema), with *)
(* a database that comes and goes and a process that restarts.             *)
(*                                                                         *)
(* Handlers are the coroutines of /readyz that are under way at once.      *)
(* They are more than the clients that poll: the health check of           *)
(* docker-compose.yml gives curl 3 seconds and asks again every 5, while   *)
(* the handler of the probe it gave up may still await create_pool, whose  *)
(* connect timeout is 60 seconds.  They share the module globals _pool     *)
(* and _registered_dim and the flag app.state.db_ready.                    *)
(***************************************************************************)
EXTENDS Integers, FiniteSets

CONSTANTS
  Handlers,          (* handlers of GET /readyz that may run at once       *)
  Statements,        (* number of DDL statements of ensure_schema          *)
  MaxRestarts        (* bound on the restarts of the process               *)

ASSUME ReadinessAssumption ==
  /\ IsFiniteSet(Handlers)
  /\ Statements \in Nat \ {0}
  /\ MaxRestarts \in Nat

VARIABLES
  dbUp,        (* the database answers, each statement within its timeout  *)
               (* but for the CREATE INDEX of ensure_schema                *)
  extension,   (* the vector type exists in it                             *)
  schema,      (* how many of the DDL statements it has applied            *)
  large,       (* chunks has the 1000 rows from which an index is wanted   *)
  indexed,     (* it has the IVFFlat index                                 *)
  opened,      (* pools the process opened; _pool is the last one          *)
  registered,  (* _registered_dim is the configured dimension              *)
  db_ready,    (* app.state.db_ready                                       *)
  pc,          (* pc[p]: where handler p stands                            *)
  stmt,        (* stmt[p]: statements of ensure_schema it has run          *)
  told,        (* told[p]: its last answer                                 *)
  v1,          (* the last answer of a /v1 route                           *)
  restarts

database == <<dbUp, extension, schema, large, indexed>>
process  == <<opened, registered, db_ready>>
probes   == <<pc, stmt, told>>
vars     == <<database, process, probes, v1, restarts>>

Working == {"connect", "extend", "codec", "register", "ddl", "index", "finish"}

TypeOK ==
  /\ dbUp \in BOOLEAN /\ extension \in BOOLEAN
  /\ schema \in 0 .. Statements
  /\ large \in BOOLEAN /\ indexed \in BOOLEAN
  /\ opened \in Nat
  /\ registered \in BOOLEAN /\ db_ready \in BOOLEAN
  /\ pc \in [Handlers -> {"idle"} \cup Working]
  /\ stmt \in [Handlers -> 0 .. Statements]
  /\ told \in [Handlers -> {"nothing", "ok", "degraded"}]
  /\ v1 \in {"nothing", "served", "unavailable", "error"}
  /\ restarts \in 0 .. MaxRestarts

\* db/init.sql loads the vector extension when it creates the volume; a
\* database that was made otherwise has none.
Init ==
  /\ dbUp \in BOOLEAN
  /\ extension \in BOOLEAN
  /\ schema = 0 /\ large = FALSE /\ indexed = FALSE
  /\ opened = 0 /\ registered = FALSE /\ db_ready = FALSE
  /\ pc = [p \in Handlers |-> "idle"]
  /\ stmt = [p \in Handlers |-> 0]
  /\ told = [p \in Handlers |-> "nothing"]
  /\ v1 = "nothing"
  /\ restarts = 0

-----------------------------------------------------------------------------
Goto(p, from, to) ==
  /\ pc[p] = from
  /\ pc' = [pc EXCEPT ![p] = to]

Answer(p, status) == told' = [told EXCEPT ![p] = status]

\* readyz swallows the exception and answers 200 with "degraded".
GiveUp(p) ==
  /\ pc' = [pc EXCEPT ![p] = "idle"]
  /\ Answer(p, IF db_ready THEN "ok" ELSE "degraded")

\* Ready once, ready for ever: nothing looks at the database again.
ProbeReady(p) ==
  /\ pc[p] = "idle" /\ db_ready
  /\ Answer(p, "ok")
  /\ UNCHANGED <<database, process, pc, stmt, v1, restarts>>

\* Mutants: get_pool never reuses a pool; an open pool counts as migrated.
ProbeStarts_NoSingleton(p) ==
  /\ ~db_ready
  /\ Goto(p, "idle", "connect")
  /\ stmt' = [stmt EXCEPT ![p] = 0]
  /\ UNCHANGED <<database, process, told, v1, restarts>>

ProbeStarts_PoolMeansReady(p) ==
  /\ ~db_ready
  /\ \/ opened = 0 /\ Goto(p, "idle", "connect")
     \/ opened > 0 /\ Goto(p, "idle", "finish")
  /\ stmt' = [stmt EXCEPT ![p] = 0]
  /\ UNCHANGED <<database, process, told, v1, restarts>>

\* ensure_schema calls get_pool, which tests _pool before its first await.
ProbeStarts(p) ==
  /\ ~db_ready
  /\ \/ opened = 0 /\ Goto(p, "idle", "connect")
     \/ opened > 0 /\ Goto(p, "idle", "register")
  /\ stmt' = [stmt EXCEPT ![p] = 0]
  /\ UNCHANGED <<database, process, told, v1, restarts>>

\* asyncpg.create_pool returned: _pool is assigned whatever happened while
\* it was awaited.
Connect(p) ==
  /\ dbUp
  /\ Goto(p, "connect", "extend")
  /\ opened' = opened + 1
  /\ UNCHANGED <<database, registered, db_ready, stmt, told, v1, restarts>>

\* CREATE EXTENSION IF NOT EXISTS vector, on the pool's first connection.
Extend(p) ==
  /\ dbUp
  /\ Goto(p, "extend", "codec")
  /\ extension' = TRUE
  /\ UNCHANGED <<dbUp, schema, large, indexed, process, stmt, told, v1, restarts>>

\* Two first connections create the missing extension at once: IF NOT EXISTS
\* was true for both, one creates it and the other raises.
ExtensionLoses(p) ==
  /\ dbUp /\ ~extension
  /\ pc[p] = "extend"
  /\ \E o \in Handlers \ {p} :
       /\ pc[o] = "extend"
       /\ pc' = [pc EXCEPT ![p] = "idle", ![o] = "codec"]
  /\ Answer(p, "degraded")
  /\ extension' = TRUE
  /\ UNCHANGED <<dbUp, schema, large, indexed, process, stmt, v1, restarts>>

\* register_vector, then _registered_dim = dim: get_pool is over.
Codec(p) ==
  /\ dbUp
  /\ Goto(p, "codec", "register")
  /\ registered' = TRUE
  /\ UNCHANGED <<database, opened, db_ready, stmt, told, v1, restarts>>

\* ensure_schema registers the codec again only when no one has; the codec
\* needs the vector type.
Register(p) ==
  /\ registered \/ (dbUp /\ extension)
  /\ Goto(p, "register", "ddl")
  /\ registered' = TRUE
  /\ UNCHANGED <<database, opened, db_ready, stmt, told, v1, restarts>>

\* Mutant: the statements without IF NOT EXISTS, which raise when repeated.
Migrate_Once(p) ==
  /\ dbUp
  /\ pc[p] = "ddl" /\ stmt[p] < Statements
  /\ \/ /\ schema = stmt[p] /\ schema' = schema + 1
        /\ stmt' = [stmt EXCEPT ![p] = @ + 1]
        /\ UNCHANGED <<pc, told>>
     \/ schema > stmt[p] /\ GiveUp(p) /\ UNCHANGED <<stmt, schema>>
  /\ extension' = TRUE
  /\ UNCHANGED <<dbUp, large, indexed, process, v1, restarts>>

\* One DDL statement; IF NOT EXISTS makes a repeated one a no-op.
Migrate(p) ==
  /\ dbUp
  /\ pc[p] = "ddl" /\ stmt[p] < Statements
  /\ stmt' = [stmt EXCEPT ![p] = @ + 1]
  /\ schema' = IF schema > stmt[p] THEN schema ELSE stmt[p] + 1
  /\ extension' = TRUE
  /\ UNCHANGED <<dbUp, large, indexed, process, pc, told, v1, restarts>>

\* The count of the chunks rows decides whether an index is wanted.
CountRows(p) ==
  /\ dbUp /\ stmt[p] = Statements
  /\ Goto(p, "ddl", IF large THEN "index" ELSE "finish")
  /\ UNCHANGED <<database, process, stmt, told, v1, restarts>>

\* CREATE INDEX IF NOT EXISTS ... ivfflat.
BuildIndex(p) ==
  /\ dbUp
  /\ Goto(p, "index", "finish")
  /\ indexed' = TRUE
  /\ UNCHANGED <<dbUp, extension, schema, large, process, stmt, told, v1, restarts>>

\* The index is not built: over command_timeout, over the 2000 dimensions of
\* an IVFFlat index, or at the same time as another handler.  Every later
\* probe tries again.
IndexFails(p) ==
  /\ dbUp /\ ~indexed
  /\ pc[p] = "index"
  /\ GiveUp(p)
  /\ UNCHANGED <<database, process, stmt, v1, restarts>>

Finish(p) ==
  /\ Goto(p, "finish", "idle")
  /\ db_ready' = TRUE
  /\ Answer(p, "ok")
  /\ UNCHANGED <<database, opened, registered, stmt, v1, restarts>>

\* An await raises when the database is away, or when the codec finds no
\* vector type.
ProbeFails(p) ==
  /\ pc[p] \in Working \ {"finish"}
  /\ ~dbUp \/ (pc[p] = "register" /\ ~registered /\ ~extension)
  /\ GiveUp(p)
  /\ UNCHANGED <<database, process, stmt, v1, restarts>>

\* Two migrations that create the same missing object at once: IF NOT EXISTS
\* was true for both, one creates it and the other raises.
MigrationLoses(p) ==
  /\ dbUp
  /\ pc[p] = "ddl" /\ stmt[p] < Statements /\ schema = stmt[p]
  /\ \E o \in Handlers \ {p} :
       /\ pc[o] = "ddl" /\ stmt[o] = stmt[p]
       /\ stmt' = [stmt EXCEPT ![o] = @ + 1]
  /\ schema' = schema + 1 /\ extension' = TRUE
  /\ GiveUp(p)
  /\ UNCHANGED <<dbUp, large, indexed, process, v1, restarts>>

ProbeArrives(p) == ProbeReady(p) \/ ProbeStarts(p)

HandlerStep(p) ==
  \/ Connect(p) \/ Extend(p) \/ ExtensionLoses(p) \/ Codec(p)
  \/ Register(p) \/ Migrate(p) \/ MigrationLoses(p)
  \/ CountRows(p) \/ BuildIndex(p) \/ IndexFails(p) \/ Finish(p)
  \/ ProbeFails(p)

ProbeStep(p) == ProbeArrives(p) \/ HandlerStep(p)

\* A /v1 route tests db_ready before anything else; past the gate, an
\* exception of the database is an internal error.  What it serves may be an
\* ingest that takes the table over 1000 rows, or under.
ServeV1 ==
  /\ v1' = IF ~db_ready THEN "unavailable"
           ELSE IF dbUp THEN "served" ELSE "error"
  /\ large' \in IF v1' = "served" THEN BOOLEAN ELSE {large}
  /\ UNCHANGED <<dbUp, extension, schema, indexed, process, probes, restarts>>

-----------------------------------------------------------------------------
DbGoes ==
  /\ dbUp /\ dbUp' = FALSE
  /\ UNCHANGED <<extension, schema, large, indexed, process, probes, v1, restarts>>

DbComes ==
  /\ ~dbUp /\ dbUp' = TRUE
  /\ UNCHANGED <<extension, schema, large, indexed, process, probes, v1, restarts>>

\* A new process: module globals and app.state start over, its requests
\* are gone, the database is as it was.
Restart ==
  /\ restarts < MaxRestarts
  /\ restarts' = restarts + 1
  /\ opened' = 0 /\ registered' = FALSE /\ db_ready' = FALSE
  /\ pc' = [p \in Handlers |-> "idle"]
  /\ UNCHANGED <<database, stmt, told, v1>>

Next ==
  \/ \E p \in Handlers : ProbeStep(p)
  \/ ServeV1
  \/ DbGoes \/ DbComes
  \/ Restart

Spec == Init /\ [][Next]_vars

\* The container's health check asks /readyz for ever (docker-compose.yml),
\* whether or not its earlier probes are answered, and every await of a
\* handler ends; clients keep calling /v1.
Fairness ==
  /\ WF_vars(\E p \in Handlers : ProbeArrives(p))
  /\ \A p \in Handlers : WF_vars(HandlerStep(p))
  /\ WF_vars(ServeV1)

FairSpec == Spec /\ Fairness

-----------------------------------------------------------------------------
\* No route gets past its 503 gate before the whole schema is there, in
\* spite of failed, repeated and concurrent migrations and of restarts.
ReadyMeansMigrated ==
  db_ready => opened > 0 /\ registered /\ extension /\ schema = Statements

\* A process never opens more pools than it had handlers of /readyz under
\* way at once, however often a probe is given up and asked again and even
\* when get_pool failed half-way and left its pool behind.
PoolsAreBounded == opened <= Cardinality(Handlers)

\* On a volume made by db/init.sql, once the database stays up the service
\* becomes ready and stays so, whatever failed, collided or restarted
\* before; the one thing that can keep it from that is a table that wants
\* the index and never gets it.
BecomesReady ==
  extension /\ <>[]dbUp => <>[]db_ready \/ <>[](large /\ ~indexed)

-----------------------------------------------------------------------------
(* What the repository says and this code does not keep. *)

\* "Lazy singleton - one pool per process."
OnePoolPerProcess == opened <= 1

\* "the route returns 503 until the dependency becomes reachable": on any
\* volume, a database that stays up makes the service ready.  It does not on
\* a volume without the vector type whose first CREATE EXTENSION failed, nor
\* when the index of a large table cannot be built.
ReadyWhenReachable == <>[]dbUp => <>db_ready

\* "The first /v1/* request warms the pool transparently."
FirstRequestWarmsThePool == <>[]dbUp => <>(opened > 0)

\* "Tells us deps (db) are reachable": a probe is not told "ok" by a process
\* that finds it ready without asking the database.
OkMeansReachable ==
  [][\A p \in Handlers :
       pc[p] = "idle" /\ ~dbUp /\ told[p] # "ok" => told'[p] # "ok"]_vars

\* "the route returns 503 until the dependency becomes reachable."
UnreachableIs503 == [][v1' # v1 /\ ~dbUp => v1' = "unavailable"]_vars
=============================================================================
