--------------------------- MODULE ReadinessProofs ---------------------------
(***************************************************************************)
(* Proofs about Readiness, for any number of handlers, of statements and of *)
(* restarts, and whether or not the volume has the vector extension.       *)
(***************************************************************************)
EXTENDS Readiness, FiniteSetTheorems, TLAPS

HavePool   == {"extend", "codec", "register", "ddl", "index", "finish"}
HaveCodec  == {"ddl", "index", "finish"}
BeforeDDL  == {"connect", "extend", "codec", "register"}

\* What a handler knows from where it stands.
HandlerKnows(p) ==
  /\ pc[p] \in HavePool => opened > 0
  /\ pc[p] \in BeforeDDL => stmt[p] = 0
  /\ pc[p] = "codec" => extension
  /\ pc[p] \in HaveCodec => registered /\ stmt[p] <= schema
  /\ pc[p] \in {"index", "finish"} => stmt[p] = Statements

ProcessKnows ==
  /\ registered => opened > 0 /\ extension
  /\ ReadyMeansMigrated

IInv ==
  /\ TypeOK
  /\ ProcessKnows
  /\ \A p \in Handlers : HandlerKnows(p)

LEMMA InitIInv == Init => IInv
<1> SUFFICES ASSUME Init PROVE IInv
  OBVIOUS
<1> USE ReadinessAssumption DEF Init
<1>1. TypeOK
  <2>1. pc \in [Handlers -> {"idle"} \cup Working]
    OBVIOUS
  <2>2. stmt \in [Handlers -> 0 .. Statements]
    OBVIOUS
  <2>3. told \in [Handlers -> {"nothing", "ok", "degraded"}]
    OBVIOUS
  <2>4. schema \in 0 .. Statements /\ restarts \in 0 .. MaxRestarts
    OBVIOUS
  <2> QED
    BY <2>1, <2>2, <2>3, <2>4 DEF TypeOK
<1>2. ProcessKnows
  BY DEF ProcessKnows, ReadyMeansMigrated
<1>3. ASSUME NEW p \in Handlers PROVE HandlerKnows(p)
  BY DEF HandlerKnows, HavePool, HaveCodec, BeforeDDL
<1> QED
  BY <1>1, <1>2, <1>3 DEF IInv

\* One step of one handler keeps what every handler and the process know.
LEMMA ProbeStepIInv ==
  ASSUME IInv, NEW p \in Handlers, ProbeStep(p)
  PROVE  IInv'
<1> USE ReadinessAssumption
        DEF IInv, TypeOK, ProcessKnows, HandlerKnows, ReadyMeansMigrated,
            HavePool, HaveCodec, BeforeDDL, Working, database, process, probes
<1>1. CASE ProbeReady(p)
  BY <1>1 DEF ProbeReady, Answer
<1>2. CASE ProbeStarts(p)
  BY <1>2 DEF ProbeStarts, Goto
<1>3. CASE Connect(p)
  BY <1>3 DEF Connect, Goto
<1>4. CASE Extend(p)
  BY <1>4 DEF Extend, Goto
<1>5. CASE Codec(p)
  BY <1>5 DEF Codec, Goto
<1>6. CASE Register(p)
  <2> USE <1>6 DEF Register, Goto
  <2>1. TypeOK'
    OBVIOUS
  <2>2. ProcessKnows'
    OBVIOUS
  <2>3. ASSUME NEW q \in Handlers PROVE HandlerKnows(q)'
    <3>1. CASE q = p
      BY <3>1
    <3>2. CASE q # p
      BY <3>2
    <3> QED
      BY <3>1, <3>2
  <2> QED
    BY <2>1, <2>2, <2>3
<1>7. CASE Migrate(p)
  BY <1>7 DEF Migrate
<1>8. CASE CountRows(p)
  BY <1>8 DEF CountRows, Goto
<1>9. CASE Finish(p)
  BY <1>9 DEF Finish, Goto, Answer
<1>10. CASE ProbeFails(p)
  BY <1>10 DEF ProbeFails, GiveUp, Answer
<1>11. CASE MigrationLoses(p)
  BY <1>11 DEF MigrationLoses, GiveUp, Answer
<1>12. CASE ExtensionLoses(p)
  BY <1>12 DEF ExtensionLoses, Answer
<1>13. CASE BuildIndex(p)
  BY <1>13 DEF BuildIndex, Goto
<1>14. CASE IndexFails(p)
  BY <1>14 DEF IndexFails, GiveUp, Answer
<1> QED
  BY <1>1, <1>2, <1>3, <1>4, <1>5, <1>6, <1>7, <1>8, <1>9, <1>10, <1>11, <1>12,
     <1>13, <1>14 DEF ProbeStep, ProbeArrives, HandlerStep

LEMMA NextIInv == IInv /\ [Next]_vars => IInv'
<1> SUFFICES ASSUME IInv, [Next]_vars PROVE IInv'
  OBVIOUS
<1>1. CASE \E p \in Handlers : ProbeStep(p)
  BY <1>1, ProbeStepIInv
<1> USE ReadinessAssumption
        DEF IInv, TypeOK, ProcessKnows, HandlerKnows, ReadyMeansMigrated,
            HavePool, HaveCodec, BeforeDDL, Working, database, process, probes
<1>2. CASE ServeV1
  BY <1>2 DEF ServeV1
<1>3. CASE DbGoes
  BY <1>3 DEF DbGoes
<1>4. CASE DbComes
  BY <1>4 DEF DbComes
<1>5. CASE Restart
  <2> USE <1>5 DEF Restart
  <2>1. TypeOK'
    <3>1. pc' \in [Handlers -> {"idle"} \cup Working]
      OBVIOUS
    <3>2. restarts' \in 0 .. MaxRestarts
      OBVIOUS
    <3>3. opened' \in Nat /\ registered' \in BOOLEAN /\ db_ready' \in BOOLEAN
      OBVIOUS
    <3> QED
      BY <3>1, <3>2, <3>3
  <2>2. ProcessKnows'
    OBVIOUS
  <2>3. ASSUME NEW p \in Handlers PROVE HandlerKnows(p)'
    OBVIOUS
  <2> QED
    BY <2>1, <2>2, <2>3
<1>6. CASE UNCHANGED vars
  BY <1>6 DEF vars
<1> QED
  BY <1>1, <1>2, <1>3, <1>4, <1>5, <1>6 DEF Next

\* The inductive invariant of GET /readyz, get_pool and ensure_schema.
THEOREM ReadinessInvariance == Spec => []IInv
BY InitIInv, NextIInv, PTL DEF Spec

\* Every variable keeps its type.
THEOREM ReadinessTypes == Spec => []TypeOK
<1>1. IInv => TypeOK
  BY DEF IInv
<1> QED
  BY <1>1, ReadinessInvariance, PTL

\* db_ready, the flag every /v1 route tests, is only ever set once a pool is
\* open, its codec registered and every statement of ensure_schema applied,
\* whatever fails, repeats, runs at once or restarts.
THEOREM TheGateIsSound == Spec => []ReadyMeansMigrated
<1>1. IInv => ReadyMeansMigrated
  BY DEF IInv, ProcessKnows
<1> QED
  BY <1>1, ReadinessInvariance, PTL

-----------------------------------------------------------------------------
Connecting == {p \in Handlers : pc[p] = "connect"}

\* A handler that awaits create_pool is a pool to come.
PoolInv ==
  /\ opened \in Nat
  /\ pc \in [Handlers -> {"idle"} \cup Working]
  /\ opened + Cardinality(Connecting) <= Cardinality(Handlers)

LEMMA ConnectingIsFinite ==
  /\ IsFiniteSet(Connecting)
  /\ Cardinality(Connecting) \in Nat
  /\ Cardinality(Handlers) \in Nat
  /\ Cardinality(Connecting) <= Cardinality(Handlers)
<1>1. Connecting \subseteq Handlers
  BY DEF Connecting
<1> QED
  BY <1>1, ReadinessAssumption, FS_Subset, FS_CardinalityType

\* As long as no handler starts to connect and no pool is opened, the sum
\* cannot grow.
LEMMA FewerConnecting ==
  ASSUME PoolInv, Connecting' \subseteq Connecting, opened' = opened,
         pc' \in [Handlers -> {"idle"} \cup Working]
  PROVE  PoolInv'
<1>1. Cardinality(Connecting') <= Cardinality(Connecting)
  BY ConnectingIsFinite, FS_Subset
<1>2. Cardinality(Connecting') \in Nat
  BY ConnectingIsFinite, FS_Subset, FS_CardinalityType
<1> QED
  BY <1>1, <1>2, ConnectingIsFinite DEF PoolInv

LEMMA ProbeStepPools ==
  ASSUME PoolInv, NEW p \in Handlers, ProbeStep(p)
  PROVE  PoolInv'
<1> USE DEF PoolInv, Working, Connecting, process, probes
<1>1. CASE Connect(p)
  <2>1. opened' = opened + 1 /\ pc' = [pc EXCEPT ![p] = "extend"] /\ p \in Connecting
    BY <1>1 DEF Connect, Goto
  <2>2. Connecting' = Connecting \ {p}
    BY <2>1
  <2>3. Cardinality(Connecting') = Cardinality(Connecting) - 1
    BY <2>1, <2>2, ConnectingIsFinite, FS_RemoveElement
  <2> HIDE DEF Connecting
  <2> QED
    BY <2>1, <2>3, ConnectingIsFinite
<1>2. CASE ProbeStarts(p) /\ opened = 0
  <2>1. opened' = 0 /\ pc' \in [Handlers -> {"idle"} \cup Working]
    BY <1>2 DEF ProbeStarts, Goto
  <2>2. Connecting' \subseteq Handlers
    OBVIOUS
  <2>3. /\ Cardinality(Connecting') <= Cardinality(Handlers)
        /\ Cardinality(Connecting') \in Nat
    BY <2>2, ReadinessAssumption, FS_Subset, FS_CardinalityType
  <2> HIDE DEF Connecting
  <2> QED
    BY <2>1, <2>3
<1>3. CASE ~Connect(p) /\ ~(ProbeStarts(p) /\ opened = 0)
  <2>1. /\ opened' = opened
        /\ pc' \in [Handlers -> {"idle"} \cup Working]
        /\ Connecting' \subseteq Connecting
    <3>1. CASE ProbeReady(p) \/ ProbeStarts(p)
      BY <1>3, <3>1 DEF ProbeReady, ProbeStarts, Goto
    <3>2. CASE Extend(p) \/ Codec(p) \/ Register(p) \/ Migrate(p)
      BY <3>2 DEF Extend, Codec, Register, Migrate, Goto
    <3>3. CASE CountRows(p) \/ BuildIndex(p) \/ Finish(p)
      BY <3>3 DEF CountRows, BuildIndex, Finish, Goto
    <3>4. CASE ProbeFails(p) \/ MigrationLoses(p) \/ ExtensionLoses(p) \/ IndexFails(p)
      BY <3>4 DEF ProbeFails, MigrationLoses, ExtensionLoses, IndexFails, GiveUp
    <3> QED
      BY <1>3, <3>1, <3>2, <3>3, <3>4 DEF ProbeStep, ProbeArrives, HandlerStep
  <2> QED
    BY <2>1, FewerConnecting
<1> QED
  BY <1>1, <1>2, <1>3

\* get_pool opens no more pools in a process than handlers of /readyz ran at
\* once, although it tests _pool before it awaits create_pool and a client
\* that gave a probe up asks again while its handler still awaits.
THEOREM PoolsBounded == Spec => []PoolsAreBounded
<1>1. Init => PoolInv
  <2> SUFFICES ASSUME Init PROVE PoolInv
    OBVIOUS
  <2>1. Connecting = {} /\ opened = 0 /\ pc \in [Handlers -> {"idle"} \cup Working]
    BY DEF Init, Connecting
  <2> QED
    BY <2>1, ConnectingIsFinite DEF PoolInv
<1>2. PoolInv /\ [Next]_vars => PoolInv'
  <2> SUFFICES ASSUME PoolInv, [Next]_vars PROVE PoolInv'
    OBVIOUS
  <2>1. CASE \E p \in Handlers : ProbeStep(p)
    BY <2>1, ProbeStepPools
  <2>2. CASE ServeV1 \/ DbGoes \/ DbComes \/ UNCHANGED vars
    <3>1. opened' = opened /\ pc' = pc
      BY <2>2 DEF ServeV1, DbGoes, DbComes, vars, process, probes
    <3> QED
      BY <3>1, FewerConnecting DEF PoolInv, Connecting
  <2>3. CASE Restart
    <3>1. opened' = 0 /\ pc' = [p \in Handlers |-> "idle"]
      BY <2>3 DEF Restart
    <3>2. Connecting' = {}
      BY <3>1 DEF Connecting
    <3>3. Cardinality(Connecting') = 0
      BY <3>2, FS_EmptySet
    <3> QED
      BY <3>1, <3>3, ConnectingIsFinite DEF PoolInv
  <2> QED
    BY <2>1, <2>2, <2>3 DEF Next
<1>3. PoolInv => PoolsAreBounded
  BY ConnectingIsFinite DEF PoolInv, PoolsAreBounded
<1> QED
  BY <1>1, <1>2, <1>3, PTL DEF Spec
=============================================================================
