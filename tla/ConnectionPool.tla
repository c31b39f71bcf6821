--------------------------- MODULE ConnectionPool ---------------------------
(***************************************************************************)
(* The asyncpg pool the API shares (db.py, get_pool; asyncpg.Pool).        *)
(*                                                                         *)
(* A pool is a fixed number of holders, each with a connection or none,    *)
(* and a last-in-first-out queue of the holders nobody holds.  A codec is  *)
(* a property of one connection and stays with it until it is closed.      *)
(***************************************************************************)
EXTENDS HttpRequests

CONSTANT PoolSize  (* max_size                                             *)

ASSUME PoolAssumption == PoolSize \in Nat \ {0}

VARIABLES
  idle,   (* the holders nobody holds, the next one to go first            *)
  conn,   (* conn[h]: its connection, and whether the vector codec is on it *)
  held,   (* held[r]: the holder request r has acquired                    *)
  alone   (* alone[r]: since r registered the codec no other request had   *)
          (* a connection and none was lost (an observer, not a state of   *)
          (* the program)                                                  *)

poolVars == <<idle, conn, held, alone>>

Holder   == 1 .. PoolSize
NoHolder == 0

PoolTypeOK ==
  /\ idle \in Seq(Holder)
  /\ conn \in [Holder -> {"closed", "plain", "codec"}]
  /\ held \in [Requests -> Holder \cup {NoHolder}]
  /\ alone \in [Requests -> BOOLEAN]

\* get_pool: min_size = 1 opens the first holder's connection, and that one
\* gets the codec.
IsFresh(queue, connections, holders, undisturbed) ==
  /\ queue = [h \in 1 .. PoolSize |-> h]
  /\ connections = [h \in Holder |-> IF h = 1 THEN "codec" ELSE "closed"]
  /\ holders = [r \in Requests |-> NoHolder]
  /\ undisturbed = [r \in Requests |-> FALSE]

PoolInit == IsFresh(idle, conn, held, alone)
NewPool  == IsFresh(idle', conn', held', alone')

-----------------------------------------------------------------------------
\* pool.acquire(): waits while the queue is empty; a holder without a
\* connection opens one, which knows no codec.
Acquire(r) ==
  /\ idle # <<>> /\ held[r] = NoHolder
  /\ held' = [held EXCEPT ![r] = Head(idle)]
  /\ idle' = Tail(idle)
  /\ conn' = [conn EXCEPT ![Head(idle)] = IF @ = "closed" THEN "plain" ELSE @]
  /\ alone' = [o \in Requests |-> alone[o] /\ o = r]

\* Mutant: a first-in-first-out queue.
Release_Fifo(r) ==
  /\ held[r] # NoHolder
  /\ held' = [held EXCEPT ![r] = NoHolder]
  /\ idle' = Append(idle, held[r])

\* The end of "async with pool.acquire()", by an exception too.
Release(r) ==
  /\ held[r] # NoHolder
  /\ held' = [held EXCEPT ![r] = NoHolder]
  /\ idle' = <<held[r]>> \o idle

\* register_vector(conn).
RegisterCodec(r) ==
  /\ conn' = [conn EXCEPT ![held[r]] = "codec"]
  /\ alone' = [alone EXCEPT ![r] = \A o \in Requests \ {r} : held[o] = NoHolder]

\* An idle connection is closed: after 300 s unused (asyncpg's default), or
\* with the database.
LoseIdle(h) ==
  /\ conn[h] # "closed"
  /\ \A r \in Requests : held[r] # h
  /\ conn' = [conn EXCEPT ![h] = "closed"]
  /\ alone' = [r \in Requests |-> FALSE]
  /\ UNCHANGED <<idle, held>>
=============================================================================
