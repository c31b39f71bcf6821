-------------------------- MODULE ApiRequestsProofs --------------------------
(***************************************************************************)
(* Proofs about ApiRequests, for any set of requests, settings and pool    *)
(* size: the pool loses no connection, a codec stays where its request put *)
(* it, and the middleware answers and logs as its routes and its gate say. *)
(***************************************************************************)
EXTENDS ApiRequests, SequenceTheorems, TLAPS

(* The pool by itself. *)

\* What a request that is alone since it registered the codec relies on.
Own(r) ==
  /\ \A o \in Requests \ {r} : held[o] = NoHolder
  /\ held[r] # NoHolder => conn[held[r]] = "codec"
  /\ held[r] = NoHolder => idle # <<>> /\ conn[Head(idle)] = "codec"

\* Every holder is in the queue or in one hand, and in only one place.
Places ==
  /\ \A r, o \in Requests : held[r] = held[o] /\ held[r] # NoHolder => r = o
  /\ \A i, j \in 1 .. Len(idle) : idle[i] = idle[j] => i = j
  /\ \A h \in Holder :
       (\E i \in 1 .. Len(idle) : idle[i] = h) <=> ~\E r \in Requests : held[r] = h

PoolInv == PoolTypeOK /\ Places /\ \A r \in Requests : alone[r] => Own(r)

\* A fresh pool has every holder in its queue.
LEMMA FreshPool ==
  ASSUME PoolInit PROVE PoolInv
<1> USE PoolAssumption DEF PoolInit, IsFresh, Holder, NoHolder
<1>1. idle \in Seq(Holder) /\ Len(idle) = PoolSize
  OBVIOUS
<1>2. PoolTypeOK
  BY <1>1 DEF PoolTypeOK
<1>3. Places
  <2>1. \A h \in Holder : h \in 1 .. Len(idle) /\ idle[h] = h
    BY <1>1
  <2>2. \A r \in Requests : held[r] = 0
    OBVIOUS
  <2> QED
    BY <1>1, <2>1, <2>2 DEF Places
<1> QED
  BY <1>2, <1>3 DEF PoolInv

\* So has the pool of the process that follows a crash.
LEMMA FreshPoolAgain ==
  ASSUME NewPool PROVE PoolInv'
<1> USE PoolAssumption DEF NewPool, IsFresh, Holder, NoHolder
<1>1. idle' \in Seq(Holder) /\ Len(idle') = PoolSize
  OBVIOUS
<1>2. PoolTypeOK'
  BY <1>1 DEF PoolTypeOK
<1>3. Places'
  <2>1. \A h \in Holder : h \in 1 .. Len(idle') /\ idle'[h] = h
    BY <1>1
  <2>2. \A r \in Requests : held'[r] = 0
    OBVIOUS
  <2> QED
    BY <1>1, <2>1, <2>2 DEF Places
<1> QED
  BY <1>2, <1>3 DEF PoolInv

\* An acquisition: the head of the queue goes from it into one hand.
LEMMA AcquireInv ==
  ASSUME PoolInv, NEW r \in Requests, Acquire(r) PROVE PoolInv'
<1> USE PoolAssumption DEF PoolTypeOK, NoHolder
<1> DEFINE h == Head(idle)
<1>1. /\ idle \in Seq(Holder) /\ idle # <<>> /\ h \in Holder /\ h = idle[1]
      /\ idle' \in Seq(Holder) /\ Len(idle) \in Nat \ {0}
      /\ Len(idle') = Len(idle) - 1
      /\ \A i \in 1 .. Len(idle') : idle'[i] = idle[i + 1]
  <2>1. idle \in Seq(Holder) /\ idle # <<>> /\ idle' = Tail(idle)
    BY DEF PoolInv, Acquire
  <2> QED
    BY <2>1, HeadTailProperties
<1>2. PoolTypeOK'
  BY <1>1 DEF PoolInv, Acquire
<1>3. /\ held[r] = 0 /\ held'[r] = h /\ h # 0
      /\ \A o \in Requests \ {r} : held'[o] = held[o]
  BY <1>1 DEF PoolInv, Acquire, Holder
<1>4. Places'
  <2> HIDE DEF h
  <2>1. \A o \in Requests : held[o] # h
    BY <1>1 DEF PoolInv, Places
  <2>2. (\A a, o \in Requests : held[a] = held[o] /\ held[a] # NoHolder => a = o)'
    BY <1>3, <2>1 DEF PoolInv, Places
  <2>3. (\A i, j \in 1 .. Len(idle) : idle[i] = idle[j] => i = j)'
    BY <1>1 DEF PoolInv, Places
  <2>4. ASSUME NEW g \in Holder
        PROVE  (\E i \in 1 .. Len(idle') : idle'[i] = g)
                 <=> ~\E o \in Requests : held'[o] = g
    <3>1. (\E i \in 1 .. Len(idle') : idle'[i] = g)
            <=> \E i \in 2 .. Len(idle) : idle[i] = g
      <4>1. ASSUME NEW i \in 2 .. Len(idle), idle[i] = g
            PROVE  \E k \in 1 .. Len(idle') : idle'[k] = g
        <5>1. i - 1 \in 1 .. Len(idle') /\ idle'[i - 1] = g
          BY <1>1, <4>1
        <5> QED
          BY <5>1
      <4>2. ASSUME NEW i \in 1 .. Len(idle'), idle'[i] = g
            PROVE  \E k \in 2 .. Len(idle) : idle[k] = g
        <5>1. i + 1 \in 2 .. Len(idle) /\ idle[i + 1] = g
          BY <1>1, <4>2
        <5> QED
          BY <5>1
      <4> QED
        BY <4>1, <4>2
    <3>2. CASE g = h
      <4>1. ~\E i \in 2 .. Len(idle) : idle[i] = g
        BY <1>1, <3>2 DEF PoolInv, Places
      <4> QED
        BY <3>1, <4>1, <1>3, <3>2
    <3>3. CASE g # h
      <4>1. (\E i \in 2 .. Len(idle) : idle[i] = g)
              <=> \E i \in 1 .. Len(idle) : idle[i] = g
        BY <1>1, <3>3
      <4>2. (\E o \in Requests : held'[o] = g) <=> \E o \in Requests : held[o] = g
        BY <1>3, <3>3 DEF Holder
      <4> QED
        BY <3>1, <4>1, <4>2 DEF PoolInv, Places
    <3> QED
      BY <3>2, <3>3
  <2> QED
    BY <2>2, <2>3, <2>4 DEF Places
<1>5. \A o \in Requests : alone'[o] => Own(o)'
  <2> SUFFICES ASSUME NEW o \in Requests, alone'[o] PROVE Own(o)'
    OBVIOUS
  <2>1. o = r /\ alone[r]
    BY DEF Acquire
  <2>2. conn[h] = "codec" /\ \A p \in Requests \ {r} : held[p] = 0
    BY <1>3, <2>1 DEF PoolInv, Own
  <2>3. conn'[h] = "codec"
    BY <1>1, <2>2 DEF PoolInv, Acquire
  <2> QED
    BY <1>3, <2>1, <2>2, <2>3 DEF Own
<1> QED
  BY <1>2, <1>4, <1>5 DEF PoolInv

\* A release, whatever it does to the connection: who is alone afterwards is
\* the request that releases, with the codec on it.
LEMMA ReleaseInv ==
  ASSUME PoolInv, NEW r \in Requests, Release(r),
         conn' \in [Holder -> {"closed", "plain", "codec"}],
         alone' \in [Requests -> BOOLEAN],
         \A o \in Requests : alone'[o] =>
           /\ o = r /\ conn'[held[r]] = "codec"
           /\ \A p \in Requests \ {r} : held[p] = NoHolder
  PROVE  PoolInv'
<1> USE PoolAssumption DEF PoolTypeOK, NoHolder
<1> DEFINE h == held[r]
<1>1. /\ h \in Holder /\ h # 0 /\ held'[r] = 0
      /\ \A o \in Requests \ {r} : held'[o] = held[o]
  BY DEF PoolInv, Release, Holder
<1>2. /\ idle \in Seq(Holder) /\ idle' \in Seq(Holder) /\ Len(idle) \in Nat
      /\ Len(idle') = Len(idle) + 1 /\ idle'[1] = h
      /\ \A i \in 1 .. Len(idle) : idle'[i + 1] = idle[i]
  <2>1. /\ idle \in Seq(Holder) /\ <<h>> \in Seq(Holder) /\ Len(<<h>>) = 1
        /\ <<h>>[1] = h /\ idle' = <<h>> \o idle
    BY <1>1 DEF PoolInv, Release
  <2> QED
    BY <2>1, ConcatProperties
<1>3. PoolTypeOK'
  BY <1>2 DEF PoolInv, Release
<1>4. Places'
  <2> HIDE DEF h
  <2>1. \A i \in 1 .. Len(idle) : idle[i] # h
    BY <1>1 DEF PoolInv, Places, h
  <2>2. (\A a, o \in Requests : held[a] = held[o] /\ held[a] # NoHolder => a = o)'
    BY <1>1 DEF PoolInv, Places
  <2>3. \A i \in 2 .. Len(idle') : i - 1 \in 1 .. Len(idle) /\ idle'[i] = idle[i - 1]
    BY <1>2
  <2>4. (\A i, j \in 1 .. Len(idle) : idle[i] = idle[j] => i = j)'
    <3> SUFFICES ASSUME NEW i \in 1 .. Len(idle'), NEW j \in 1 .. Len(idle'),
                        idle'[i] = idle'[j]
                 PROVE  i = j
      OBVIOUS
    <3>1. \A k \in 1 .. Len(idle') : k # 1 =>
            k - 1 \in 1 .. Len(idle) /\ idle'[k] = idle[k - 1] /\ idle'[k] # idle'[1]
      <4> SUFFICES ASSUME NEW k \in 1 .. Len(idle'), k # 1
                   PROVE  k - 1 \in 1 .. Len(idle) /\ idle'[k] = idle[k - 1]
                            /\ idle'[k] # idle'[1]
        OBVIOUS
      <4>1. k \in 2 .. Len(idle')
        BY <1>2
      <4> QED
        BY <1>2, <2>1, <2>3, <4>1
    <3>2. CASE i # 1 /\ j # 1
      <4>1. /\ i - 1 \in 1 .. Len(idle) /\ j - 1 \in 1 .. Len(idle)
            /\ idle[i - 1] = idle[j - 1]
        BY <3>1, <3>2
      <4>2. i - 1 = j - 1
        BY <4>1 DEF PoolInv, Places
      <4>3. i \in Int /\ j \in Int
        OBVIOUS
      <4> QED
        BY <4>2, <4>3
    <3>3. CASE i = 1 \/ j = 1
      BY <3>1, <3>3
    <3> QED
      BY <3>2, <3>3
  <2>5. ASSUME NEW g \in Holder
        PROVE  (\E i \in 1 .. Len(idle') : idle'[i] = g)
                 <=> ~\E o \in Requests : held'[o] = g
    <3>1. CASE g = h
      <4>1. \A o \in Requests \ {r} : held[o] # h
        BY <1>1 DEF PoolInv, Places, h
      <4>2. 1 \in 1 .. Len(idle') /\ idle'[1] = g
        BY <1>2, <3>1
      <4> QED
        BY <1>1, <3>1, <4>1, <4>2
    <3>2. CASE g # h
      <4>1. (\E i \in 1 .. Len(idle') : idle'[i] = g)
              <=> \E i \in 1 .. Len(idle) : idle[i] = g
        <5>1. ASSUME NEW i \in 1 .. Len(idle), idle[i] = g
              PROVE  \E k \in 1 .. Len(idle') : idle'[k] = g
          <6>1. i + 1 \in 1 .. Len(idle') /\ idle'[i + 1] = g
            BY <1>2, <5>1
          <6> QED
            BY <6>1
        <5>2. ASSUME NEW i \in 1 .. Len(idle'), idle'[i] = g
              PROVE  \E k \in 1 .. Len(idle) : idle[k] = g
          <6>1. i - 1 \in 1 .. Len(idle) /\ idle[i - 1] = g
            BY <1>2, <2>3, <3>2, <5>2
          <6> QED
            BY <6>1
        <5> QED
          BY <5>1, <5>2
      <4>2. (\E o \in Requests : held'[o] = g) <=> \E o \in Requests : held[o] = g
        BY <1>1, <3>2 DEF Holder, h
      <4> QED
        BY <4>1, <4>2 DEF PoolInv, Places
    <3> QED
      BY <3>1, <3>2
  <2> QED
    BY <2>2, <2>4, <2>5 DEF Places
<1>5. \A o \in Requests : alone'[o] => Own(o)'
  <2> SUFFICES ASSUME NEW o \in Requests, alone'[o] PROVE Own(o)'
    OBVIOUS
  <2>1. o = r /\ conn'[h] = "codec" /\ \A p \in Requests \ {r} : held[p] = 0
    OBVIOUS
  <2>2. idle' # <<>> /\ Head(idle') = h
    BY <1>2
  <2> QED
    BY <1>1, <2>1, <2>2 DEF Own
<1> QED
  BY <1>3, <1>4, <1>5 DEF PoolInv

\* Only idle connections are lost, and nobody is alone after.
LEMMA LoseInv ==
  ASSUME PoolInv, NEW h \in Holder, LoseIdle(h) PROVE PoolInv'
<1>1. /\ idle' = idle /\ held' = held
      /\ alone' = [r \in Requests |-> FALSE]
      /\ conn' = [conn EXCEPT ![h] = "closed"]
  BY DEF LoseIdle
<1> QED
  BY <1>1 DEF PoolInv, PoolTypeOK, Places

\* The pool's part of a release that leaves the connection as it is.
LEMMA QuietReleaseInv ==
  ASSUME PoolInv, NEW r \in Requests, Release(r), UNCHANGED <<conn, alone>>
  PROVE  PoolInv'
<1>1. conn' \in [Holder -> {"closed", "plain", "codec"}] /\ alone' \in [Requests -> BOOLEAN]
  BY DEF PoolInv, PoolTypeOK
<1>2. ASSUME NEW o \in Requests, alone'[o]
      PROVE  /\ o = r /\ conn'[held[r]] = "codec"
             /\ \A p \in Requests \ {r} : held[p] = NoHolder
  <2>1. Own(o) /\ held[r] # NoHolder
    BY <1>2 DEF PoolInv, Release
  <2> QED
    BY <2>1 DEF Own
<1> QED
  BY <1>1, <1>2, ReleaseInv

\* The pool's part of a release that closes the connection.
LEMMA BrokenReleaseInv ==
  ASSUME PoolInv, NEW r \in Requests, Release(r),
         conn' = [conn EXCEPT ![held[r]] = "closed"],
         alone' = [o \in Requests |-> FALSE]
  PROVE  PoolInv'
<1>1. conn' \in [Holder -> {"closed", "plain", "codec"}] /\ alone' \in [Requests -> BOOLEAN]
  BY DEF PoolInv, PoolTypeOK
<1> QED
  BY <1>1, ReleaseInv

\* The pool's part of register_vector and the release after it.
LEMMA RegisterInv ==
  ASSUME PoolInv, NEW r \in Requests, Release(r), RegisterCodec(r)
  PROVE  PoolInv'
<1>1. held[r] \in Holder
  BY DEF PoolInv, PoolTypeOK, Release
<1>2. /\ conn' \in [Holder -> {"closed", "plain", "codec"}]
      /\ alone' \in [Requests -> BOOLEAN] /\ conn'[held[r]] = "codec"
  BY <1>1 DEF PoolInv, PoolTypeOK, RegisterCodec
<1>3. ASSUME NEW o \in Requests, alone'[o]
      PROVE  o = r /\ \A p \in Requests \ {r} : held[p] = NoHolder
  <2>1. CASE o = r
    BY <1>3, <2>1 DEF PoolInv, PoolTypeOK, RegisterCodec
  <2>2. CASE o # r
    <3>1. alone[o] /\ held[r] # NoHolder
      BY <1>3, <2>2 DEF PoolInv, PoolTypeOK, RegisterCodec, Release
    <3> QED
      BY <2>2, <3>1 DEF PoolInv, Own
  <2> QED
    BY <2>1, <2>2
<1> QED
  BY <1>2, <1>3, ReleaseInv

-----------------------------------------------------------------------------
(* The requests. *)

\* A request's answer and its audit line, as far as it has come.
Story(r) ==
  /\ stage[r] \in {"route", "raised", "ended"} => CheckBearer(r) \in Allowed
  /\ stage[r] = "ended" => outcome[r] \in {200, 400, 503}
  /\ stage[r] # "over" => sent[r] = NoStatus /\ audited[r] = <<>>
  /\ stage[r] = "over" =>
       \/ /\ CheckBearer(r) \notin Allowed \cup {"raises"}
          /\ sent[r] = 401 /\ audited[r] = <<401>>
       \/ CheckBearer(r) = "raises" /\ sent[r] = 500 /\ audited[r] = <<>>
       \/ /\ CheckBearer(r) \in Allowed
          /\ sent[r] \in {200, 400, 500, 503} /\ audited[r] = <<sent[r]>>

HeldInRoute == \A r \in Requests : held[r] # NoHolder => InRoute(r)

RouteTypeOK == MiddlewareTypeOK /\ block \in [Requests -> 1 .. 5] /\ HeldInRoute

\* The inductive invariant.
RequestsInv == PoolInv /\ RouteTypeOK /\ \A r \in Requests : Story(r)

\* A route has at most four blocks.
LEMMA PlanLength ==
  ASSUME NEW r \in Requests PROVE Len(Plan(r)) \in 0 .. 4
<1> DEFINE p == request[r].path
<1>1. CASE p = "/v1/ingest"
  BY <1>1 DEF Plan, Blocks
<1>2. CASE p = "/v1/query"
  BY <1>2 DEF Plan, Blocks
<1>3. CASE p = "/v1/collections"
  BY <1>3 DEF Plan, Blocks
<1>4. CASE p \notin {"/v1/ingest", "/v1/query", "/v1/collections"}
  BY <1>4 DEF Plan, Blocks
<1> QED
  BY <1>1, <1>2, <1>3, <1>4

\* A step within the routes changes neither answers nor audit lines.
LEMMA SameStory ==
  ASSUME \A r \in Requests : Story(r), UNCHANGED <<fixed, replies>>
  PROVE  \A r \in Requests : Story(r)'
BY DEF Story, CheckBearer, Equal, Allowed, fixed, replies

\* A request that moves on within its route is still a typed one.
LEMMA NextBlockInv ==
  ASSUME RouteTypeOK, NEW r \in Requests, Waits(r), NextBlock(r),
         UNCHANGED <<fixed, replies>>,
         \A o \in Requests : held'[o] # NoHolder => held[o] # NoHolder
  PROVE  RouteTypeOK'
<1>1. block[r] + 1 \in 1 .. 5
  <2>1. block[r] \in 1 .. 5 /\ block[r] <= Len(Plan(r))
    BY DEF RouteTypeOK, Waits
  <2>2. Len(Plan(r)) \in 0 .. 4
    BY PlanLength
  <2>3. ASSUME NEW b \in 1 .. 5, NEW n \in 0 .. 4, b <= n PROVE b + 1 \in 1 .. 5
    BY <2>3
  <2> QED
    BY <2>1, <2>2, <2>3
<1>2. block' \in [Requests -> 1 .. 5]
  BY <1>1 DEF RouteTypeOK, NextBlock
<1>3. MiddlewareTypeOK'
  BY DEF RouteTypeOK, MiddlewareTypeOK, fixed, replies
<1>4. HeldInRoute'
  BY DEF RouteTypeOK, HeldInRoute, InRoute, replies
<1> QED
  BY <1>2, <1>3, <1>4 DEF RouteTypeOK

\* A request that leaves its route with an exception holds nothing.
LEMMA LeaveInv ==
  ASSUME RouteTypeOK, \A o \in Requests : Story(o), NEW r \in Requests,
         InRoute(r), Leave(r, "raised"),
         UNCHANGED <<fixed, outcome, audited, sent>>,
         held'[r] = NoHolder,
         \A o \in Requests \ {r} : held'[o] = held[o]
  PROVE  RouteTypeOK' /\ \A o \in Requests : Story(o)'
<1>1. stage' = [stage EXCEPT ![r] = "raised"] /\ block' = [block EXCEPT ![r] = 1]
  BY DEF Leave, Advance
<1>2. MiddlewareTypeOK' /\ block' \in [Requests -> 1 .. 5]
  BY <1>1 DEF RouteTypeOK, MiddlewareTypeOK, fixed
<1>3. HeldInRoute'
  BY <1>1 DEF RouteTypeOK, MiddlewareTypeOK, HeldInRoute, InRoute
<1>4. ASSUME NEW o \in Requests PROVE Story(o)'
  <2>1. CheckBearer(o)' = CheckBearer(o)
    BY DEF CheckBearer, Equal, fixed
  <2>2. /\ sent'[o] = sent[o] /\ audited'[o] = audited[o] /\ outcome'[o] = outcome[o]
        /\ stage'[o] = IF o = r THEN "raised" ELSE stage[o]
    BY <1>1 DEF RouteTypeOK, MiddlewareTypeOK
  <2>3. Story(o) /\ (o = r => stage[o] = "route")
    BY DEF InRoute
  <2> QED
    BY <2>1, <2>2, <2>3 DEF Story, Allowed
<1> QED
  BY <1>2, <1>3, <1>4 DEF RouteTypeOK


\* The gate, the two exits of a request and its audit line: the middleware
\* keeps the invariant.
LEMMA MiddlewareInv ==
  ASSUME RequestsInv, NEW r \in Requests, ServeMiddleware(r)
  PROVE  RequestsInv'
<1>1. PoolInv' /\ UNCHANGED <<settings, request, held, block>>
  BY DEF RequestsInv, PoolInv, PoolTypeOK, Places, Own, ServeMiddleware, poolVars,
         MiddlewareStep, Admit, Deny, Trip, Conclude, Rescue, ReplyUnlogged, fixed
<1>2. \A o \in Requests : CheckBearer(o)' = CheckBearer(o)
  BY <1>1 DEF CheckBearer, Equal
<1>3. MiddlewareTypeOK /\ Story(r) /\ HeldInRoute /\ (\A o \in Requests : Story(o))
  BY DEF RequestsInv, RouteTypeOK
<1>4. block' \in [Requests -> 1 .. 5]
  BY <1>1 DEF RequestsInv, RouteTypeOK
<1> DEFINE Others == \A o \in Requests \ {r} :
                       /\ stage'[o] = stage[o] /\ sent'[o] = sent[o]
                       /\ audited'[o] = audited[o] /\ outcome'[o] = outcome[o]
<1>5. ASSUME MiddlewareTypeOK', Others, Story(r)', ~InRoute(r)
      PROVE  RequestsInv'
  <2>1. ASSUME NEW o \in Requests \ {r} PROVE Story(o)'
    BY <1>2, <1>3, <1>5 DEF Story, Allowed
  <2>2. HeldInRoute'
    BY <1>1, <1>3, <1>5 DEF HeldInRoute, InRoute
  <2> QED
    BY <1>1, <1>4, <1>5, <2>1, <2>2 DEF RequestsInv, RouteTypeOK
<1>6. ASSUME NEW from, NEW status \in Status, EmitAndReply(r, from, status),
             from # "over", UNCHANGED fixed
      PROVE  /\ MiddlewareTypeOK' /\ Others
             /\ stage'[r] = "over" /\ sent'[r] = status /\ audited'[r] = <<status>>
  <2>1. audited[r] = <<>> /\ stage[r] = from
    BY <1>3, <1>6 DEF Story, EmitAndReply, Advance
  <2>2. Append(audited[r], status) = <<status>> /\ <<status>> \in Seq(Status)
    BY <2>1
  <2>3. audited' = [audited EXCEPT ![r] = <<status>>]
    BY <1>6, <2>2 DEF EmitAndReply
  <2> QED
    BY <1>3, <1>6, <2>2, <2>3
       DEF MiddlewareTypeOK, EmitAndReply, Advance, fixed
<1>7. CASE Admit(r)
  <2>1. MiddlewareTypeOK' /\ Others /\ stage'[r] = "route" /\ sent'[r] = sent[r]
        /\ audited'[r] = audited[r] /\ ~InRoute(r)
    BY <1>3, <1>7 DEF MiddlewareTypeOK, Admit, Advance, InRoute, fixed
  <2>2. Story(r)'
    BY <1>2, <1>3, <1>7, <2>1 DEF Story, Admit, Advance, Allowed
  <2> QED
    BY <1>5, <2>1, <2>2
<1>8. CASE Deny(r)
  <2>1. EmitAndReply(r, "new", 401) /\ UNCHANGED fixed /\ 401 \in Status
        /\ ~InRoute(r)
    BY <1>8 DEF Deny, Status, EmitAndReply, Advance, InRoute
  <2>2. /\ MiddlewareTypeOK' /\ Others
        /\ stage'[r] = "over" /\ sent'[r] = 401 /\ audited'[r] = <<401>>
    BY <1>6, <2>1
  <2>3. Story(r)'
    BY <1>2, <1>8, <2>2 DEF Story, Deny, Allowed
  <2> QED
    BY <1>5, <2>1, <2>2, <2>3
<1>9. CASE Trip(r)
  <2>1. /\ MiddlewareTypeOK' /\ Others /\ ~InRoute(r)
        /\ stage'[r] = "over" /\ sent'[r] = 500 /\ audited'[r] = <<>>
    BY <1>3, <1>9
       DEF MiddlewareTypeOK, Trip, ReplyUnlogged, Advance, InRoute, fixed, Story, Status
  <2>2. Story(r)'
    BY <1>2, <1>9, <2>1 DEF Story, Trip, Allowed
  <2> QED
    BY <1>5, <2>1, <2>2
<1>10. CASE Conclude(r)
  <2>1. /\ EmitAndReply(r, "ended", outcome[r]) /\ UNCHANGED fixed
        /\ outcome[r] \in {200, 400, 503} /\ outcome[r] \in Status
        /\ CheckBearer(r) \in Allowed /\ ~InRoute(r)
    BY <1>3, <1>10 DEF Conclude, Status, EmitAndReply, Advance, InRoute, Story
  <2>2. /\ MiddlewareTypeOK' /\ Others
        /\ stage'[r] = "over" /\ sent'[r] = outcome[r] /\ audited'[r] = <<outcome[r]>>
    BY <1>6, <2>1
  <2>3. Story(r)'
    BY <1>2, <2>1, <2>2 DEF Story, Allowed
  <2> QED
    BY <1>5, <2>1, <2>2, <2>3
<1>11. CASE Rescue(r)
  <2>1. /\ EmitAndReply(r, "raised", 500) /\ UNCHANGED fixed /\ 500 \in Status
        /\ CheckBearer(r) \in Allowed /\ ~InRoute(r)
    BY <1>3, <1>11 DEF Rescue, Status, EmitAndReply, Advance, InRoute, Story
  <2>2. /\ MiddlewareTypeOK' /\ Others
        /\ stage'[r] = "over" /\ sent'[r] = 500 /\ audited'[r] = <<500>>
    BY <1>6, <2>1
  <2>3. Story(r)'
    BY <1>2, <2>1, <2>2 DEF Story, Allowed
  <2> QED
    BY <1>5, <2>1, <2>2, <2>3
<1> QED
  BY <1>7, <1>8, <1>9, <1>10, <1>11 DEF ServeMiddleware, MiddlewareStep


\* One step within a route: what it takes from the pool and gives back.
LEMMA TakeInv ==
  ASSUME RequestsInv, NEW r \in Requests, TakeConnection(r)
  PROVE  RequestsInv'
<1>1. PoolInv'
  BY AcquireInv DEF RequestsInv, TakeConnection
<1>2. \A o \in Requests : Story(o)'
  BY SameStory DEF RequestsInv, TakeConnection
<1>3. HeldInRoute'
  BY DEF RequestsInv, RouteTypeOK, HeldInRoute, InRoute, TakeConnection,
         Acquire, Waits, replies
<1>4. MiddlewareTypeOK' /\ block' \in [Requests -> 1 .. 5]
  BY DEF RequestsInv, RouteTypeOK, MiddlewareTypeOK, TakeConnection, fixed, replies
<1> QED
  BY <1>1, <1>2, <1>3, <1>4 DEF RequestsInv, RouteTypeOK

LEMMA BlockInv ==
  ASSUME RequestsInv, NEW r \in Requests,
         Register(r) \/ RunBlock(r) \/ AskProvider(r)
  PROVE  RequestsInv'
<1>1. /\ Waits(r) /\ NextBlock(r) /\ UNCHANGED <<fixed, replies>>
      /\ \A o \in Requests : held'[o] # NoHolder => held[o] # NoHolder
  BY DEF Register, RunBlock, AskProvider, At, Waits, Release, RequestsInv,
         PoolInv, PoolTypeOK, poolVars
<1>2. PoolInv'
  <2>1. CASE Register(r)
    BY <2>1, RegisterInv DEF Register, RequestsInv
  <2>2. CASE RunBlock(r)
    BY <2>2, QuietReleaseInv DEF RunBlock, RequestsInv
  <2>3. CASE AskProvider(r)
    BY <2>3 DEF AskProvider, RequestsInv, PoolInv, PoolTypeOK, Places, Own, poolVars
  <2> QED
    BY <2>1, <2>2, <2>3
<1>3. RouteTypeOK'
  BY <1>1, NextBlockInv DEF RequestsInv
<1>4. \A o \in Requests : Story(o)'
  BY <1>1, SameStory DEF RequestsInv
<1> QED
  BY <1>2, <1>3, <1>4 DEF RequestsInv

\* A route that raises: what it held is back in the pool.
LEMMA RaiseInv ==
  ASSUME RequestsInv, NEW r \in Requests, LacksCodec(r) \/ Raise(r)
  PROVE  RequestsInv'
<1>1. /\ InRoute(r) /\ Leave(r, "raised")
      /\ UNCHANGED <<fixed, outcome, audited, sent>>
  BY DEF LacksCodec, Raise, CanRaise, Waits, At
<1>2. PoolInv' /\ held'[r] = NoHolder /\ \A o \in Requests \ {r} : held'[o] = held[o]
  <2>1. CASE Release(r) /\ UNCHANGED <<conn, alone>>
    BY <2>1, QuietReleaseInv DEF RequestsInv, PoolInv, PoolTypeOK, Release
  <2>2. CASE held[r] = NoHolder /\ UNCHANGED poolVars
    BY <2>2 DEF RequestsInv, PoolInv, PoolTypeOK, Places, Own, poolVars
  <2>3. CASE /\ Release(r)
             /\ conn' = [conn EXCEPT ![held[r]] = "closed"]
             /\ alone' = [o \in Requests |-> FALSE]
    BY <2>3, BrokenReleaseInv DEF RequestsInv, PoolInv, PoolTypeOK, Release
  <2> QED
    BY <2>1, <2>2, <2>3 DEF LacksCodec, Raise
<1>3. RouteTypeOK' /\ \A o \in Requests : Story(o)'
  BY <1>1, <1>2, LeaveInv DEF RequestsInv
<1> QED
  BY <1>2, <1>3 DEF RequestsInv

LEMMA AnswerInv ==
  ASSUME RequestsInv, NEW r \in Requests, Answer(r)
  PROVE  RequestsInv'
<1>1. PICK status \in EarlyAnswers(request[r].path, block[r])
                        \cup (IF Waits(r) THEN {} ELSE {200}) :
             outcome' = [outcome EXCEPT ![r] = status]
  BY DEF Answer
<1>2. status \in {200, 400, 503} /\ status \in Status
  BY <1>1 DEF EarlyAnswers, Status
<1>3. /\ stage[r] = "route" /\ stage' = [stage EXCEPT ![r] = "ended"]
      /\ block' = [block EXCEPT ![r] = 1] /\ held[r] = NoHolder
      /\ UNCHANGED <<idle, conn, held, alone, settings, request, audited, sent>>
  BY DEF Answer, Leave, Advance, poolVars, fixed
<1>4. PoolInv'
  BY <1>3 DEF RequestsInv, PoolInv, PoolTypeOK, Places, Own
<1>5. MiddlewareTypeOK' /\ block' \in [Requests -> 1 .. 5]
  BY <1>1, <1>2, <1>3 DEF RequestsInv, RouteTypeOK, MiddlewareTypeOK
<1>6. HeldInRoute'
  BY <1>3 DEF RequestsInv, RouteTypeOK, MiddlewareTypeOK, HeldInRoute, InRoute
<1>7. ASSUME NEW o \in Requests PROVE Story(o)'
  <2>1. CheckBearer(o)' = CheckBearer(o)
    BY <1>3 DEF CheckBearer, Equal
  <2>2. /\ sent'[o] = sent[o] /\ audited'[o] = audited[o]
        /\ outcome'[o] = IF o = r THEN status ELSE outcome[o]
        /\ stage'[o] = IF o = r THEN "ended" ELSE stage[o]
    BY <1>1, <1>3 DEF RequestsInv, RouteTypeOK, MiddlewareTypeOK
  <2>3. Story(o) /\ (o = r => stage[o] = "route")
    BY <1>3 DEF RequestsInv
  <2> QED
    BY <1>2, <2>1, <2>2, <2>3 DEF Story, Allowed
<1> QED
  BY <1>4, <1>5, <1>6, <1>7 DEF RequestsInv, RouteTypeOK

\* Steps of no request: an idle connection goes, or the process does.
LEMMA LossInv ==
  ASSUME RequestsInv, ConnectionLost PROVE RequestsInv'
<1>1. PoolInv' /\ held' = held /\ UNCHANGED <<fixed, replies, block>>
  BY LoseInv DEF RequestsInv, ConnectionLost, LoseIdle
<1>2. \A o \in Requests : Story(o)'
  BY <1>1, SameStory DEF RequestsInv
<1>3. RouteTypeOK'
  BY <1>1 DEF RequestsInv, RouteTypeOK, MiddlewareTypeOK, HeldInRoute, InRoute,
              fixed, replies
<1> QED
  BY <1>1, <1>2, <1>3 DEF RequestsInv

LEMMA CrashInv ==
  ASSUME RequestsInv, Crash PROVE RequestsInv'
<1>1. /\ stage' = [r \in Requests |-> IF Pending(r) THEN "lost" ELSE stage[r]]
      /\ outcome' = [r \in Requests |-> NoStatus]
      /\ block' = [r \in Requests |-> 1]
      /\ UNCHANGED <<settings, request, audited, sent>>
  BY DEF Crash, fixed
<1>2. PoolInv' /\ \A r \in Requests : held'[r] = NoHolder
  BY FreshPoolAgain DEF Crash, NewPool, IsFresh
<1>3. MiddlewareTypeOK' /\ block' \in [Requests -> 1 .. 5]
  BY <1>1 DEF RequestsInv, RouteTypeOK, MiddlewareTypeOK
<1>4. HeldInRoute'
  BY <1>2 DEF HeldInRoute
<1>5. ASSUME NEW o \in Requests PROVE Story(o)'
  <2>1. CheckBearer(o)' = CheckBearer(o)
    BY <1>1 DEF CheckBearer, Equal
  <2>2. CASE Pending(o)
    BY <1>1, <2>1, <2>2 DEF RequestsInv, Story, Pending
  <2>3. CASE ~Pending(o)
    <3>1. stage'[o] = stage[o] /\ stage[o] \in {"new", "over", "lost"}
      BY <1>1, <2>3 DEF Pending
    <3> QED
      BY <1>1, <2>1, <3>1 DEF RequestsInv, Story, Allowed
  <2> QED
    BY <2>2, <2>3
<1> QED
  BY <1>2, <1>3, <1>4, <1>5 DEF RequestsInv, RouteTypeOK

-----------------------------------------------------------------------------
LEMMA InitInv ==
  ASSUME Init PROVE RequestsInv
<1>1. PoolInv /\ \A r \in Requests : held[r] = NoHolder
  BY FreshPool DEF Init, PoolInit, IsFresh
<1>2. PICK s \in Scenarios : settings = s.settings /\ request = s.request
  BY DEF Init, MiddlewareInit
<1>3. settings \in Settings /\ request \in [Requests -> Request]
  BY <1>2, TokenAssumption
<1>4. MiddlewareTypeOK /\ block \in [Requests -> 1 .. 5]
  BY <1>3 DEF Init, MiddlewareInit, MiddlewareTypeOK
<1>5. \A r \in Requests : Story(r)
  BY DEF Init, MiddlewareInit, Story
<1> QED
  BY <1>1, <1>4, <1>5 DEF RequestsInv, RouteTypeOK, HeldInRoute

LEMMA NextInv ==
  ASSUME RequestsInv, [Next]_vars PROVE RequestsInv'
<1>1. CASE UNCHANGED vars
  BY <1>1 DEF vars, poolVars, fixed, replies, RequestsInv, PoolInv, PoolTypeOK,
              Places, Own, RouteTypeOK, MiddlewareTypeOK, HeldInRoute, InRoute,
              Story, CheckBearer, Equal
<1>2. ASSUME NEW r \in Requests, RequestStep(r) PROVE RequestsInv'
  BY <1>2, MiddlewareInv, TakeInv, BlockInv, RaiseInv, AnswerInv DEF RequestStep
<1> QED
  BY <1>1, <1>2, LossInv, CrashInv DEF Next

THEOREM Invariance == Spec => []RequestsInv
<1>1. Init => RequestsInv
  BY InitInv
<1>2. RequestsInv /\ [Next]_vars => RequestsInv'
  BY NextInv
<1> QED
  BY <1>1, <1>2, PTL DEF Spec

\* Every variable keeps its type, and only a request in its route holds a
\* connection.
THEOREM TypeCorrect == Spec => []TypeOK
<1>1. RequestsInv => TypeOK
  BY DEF RequestsInv, PoolInv, RouteTypeOK, HeldInRoute, TypeOK
<1> QED
  BY <1>1, Invariance, PTL

\* Whatever raises, each of max_size connections is in the pool's queue or
\* in the hands of one request in its route, for any number of requests.
THEOREM PoolIsConserved == Spec => []PoolConserved
<1>1. RequestsInv => PoolConserved
  <2> SUFFICES ASSUME RequestsInv PROVE PoolConserved
    OBVIOUS
  <2>1. \A h \in Holder, r \in Requests : held[r] = h => InRoute(r)
    BY PoolAssumption DEF RequestsInv, RouteTypeOK, HeldInRoute, Holder, NoHolder
  <2> QED
    BY <2>1 DEF RequestsInv, PoolInv, Places, PoolConserved
<1> QED
  BY <1>1, Invariance, PTL

\* A request that nothing disturbs finds the codec where it put it.
THEOREM UndisturbedRequestsHaveTheCodec == Spec => []CodecUnlessContended
<1>1. RequestsInv => CodecUnlessContended
  BY DEF RequestsInv, PoolInv, Own, CodecUnlessContended
<1> QED
  BY <1>1, Invariance, PTL

\* The gate fails closed for any settings, and turns away nobody entitled.
THEOREM TheGateHolds == Spec => []OnlyEntitledAreServed
<1>1. ASSUME RequestsInv, NEW r \in Requests
      PROVE  CheckBearer(r) \in Allowed <=> Entitled(r)
  <2>1. /\ settings.enabled \in BOOLEAN /\ settings.token \in Token \cup {NoToken}
        /\ request[r].scheme \in {"absent", "bearer", "other"}
        /\ request[r].token \in Token \cup {NoToken}
    BY <1>1 DEF RequestsInv, RouteTypeOK, MiddlewareTypeOK, Settings, Request
  <2>3. CASE request[r].path \in Public \/ ~settings.enabled
    BY <2>3 DEF CheckBearer, Entitled, Allowed
  <2>4. CASE /\ request[r].path \notin Public /\ settings.enabled
             /\ \/ request[r].scheme # "bearer" \/ request[r].token = NoToken
                \/ settings.token \in {NoToken} \cup Placeholder
    BY <2>1, <2>4, TokenAssumption DEF CheckBearer, Entitled, Allowed
  <2>5. CASE /\ request[r].path \notin Public /\ settings.enabled
             /\ request[r].scheme = "bearer" /\ request[r].token # NoToken
             /\ settings.token \notin {NoToken} \cup Placeholder
    <3>1. CheckBearer(r) = Equal(request[r].token, settings.token)
      BY <2>5 DEF CheckBearer
    <3>2. Equal(request[r].token, settings.token) \in Allowed
            <=> /\ request[r].token = settings.token
                /\ settings.token \notin NonAscii
      BY DEF Equal, Allowed
    <3> QED
      BY <2>1, <2>5, <3>1, <3>2 DEF Entitled
  <2> QED
    BY <2>3, <2>4, <2>5
<1>2. RequestsInv => OnlyEntitledAreServed
  <2> SUFFICES ASSUME RequestsInv, NEW r \in Requests
               PROVE  /\ Entitled(r) => sent[r] # 401
                      /\ ~Entitled(r) => sent[r] \in {NoStatus, 401, 500}
    BY DEF OnlyEntitledAreServed
  <2>1. Story(r) /\ (CheckBearer(r) \in Allowed <=> Entitled(r))
    BY <1>1 DEF RequestsInv
  <2> QED
    BY <2>1 DEF Story, NoStatus
<1> QED
  BY <1>2, Invariance, PTL

\* Every response but the gate's own failure is on record once, with its
\* status.
THEOREM ResponsesAreAudited == Spec => []OneEventPerRequest
<1>1. RequestsInv => OneEventPerRequest
  <2> SUFFICES ASSUME RequestsInv, NEW r \in Requests
               PROVE  /\ Len(audited[r]) <= 1
                      /\ sent[r] # NoStatus /\ CheckBearer(r) # "raises" =>
                           audited[r] = <<sent[r]>>
    BY DEF OneEventPerRequest
  <2>1. /\ audited[r] = <<>> \/ audited[r] = <<401>> \/ audited[r] = <<sent[r]>>
        /\ sent[r] # NoStatus /\ CheckBearer(r) # "raises" =>
             audited[r] = <<sent[r]>>
    BY DEF RequestsInv, Story
  <2>2. CASE audited[r] = <<>>
    BY <2>1, <2>2
  <2>3. CASE audited[r] = <<401>>
    BY <2>1, <2>3
  <2>4. CASE audited[r] = <<sent[r]>>
    BY <2>1, <2>4
  <2> QED
    BY <2>1, <2>2, <2>3, <2>4
<1> QED
  BY <1>1, Invariance, PTL
=============================================================================
