---------------------------- MODULE MCApiRequests ----------------------------
(***************************************************************************)
(* Values of the constants for TLC: an ingest, an ingest or a query, and a *)
(* third request that goes through every case of the bearer gate.          *)
(***************************************************************************)
EXTENDS ApiRequests, TLC

CONSTANTS r1, r2, r3, Good, Sample, Accent

MCRequests == {r1, r2, r3}
MCToken    == {Good, Sample, Accent}
MCPath     == {"/healthz", "/v1/collections", "/v1/ingest", "/v1/query"}

Header(path, scheme, token) == [path |-> path, scheme |-> scheme, token |-> token]

Bare(path) == Header(path, "absent", NoToken)

Anything ==
  {Header("/v1/collections", "bearer", token) : token \in MCToken \cup {NoToken}}
    \cup {Header("/v1/collections", "other", Good),
          Bare("/v1/collections"), Bare("/healthz")}

Off       == [enabled |-> FALSE, token |-> NoToken]
On(token) == [enabled |-> TRUE, token |-> token]

Scenario(set, path, third) ==
  [settings |-> set,
   request  |-> (r1 :> Header("/v1/ingest", "bearer", Good)) @@
                (r2 :> Header(path, "bearer", Good)) @@ (r3 :> third)]

MCScenarios ==
  {Scenario(On(Good), path, third) :
     path \in {"/v1/ingest", "/v1/query"}, third \in Anything} \cup
  {Scenario(Off, "/v1/query", Bare("/v1/collections"))} \cup
  {Scenario(On(token), "/v1/query", third) :
     token \in {Sample, NoToken},
     third \in {Header("/v1/query", "bearer", Sample), Bare("/healthz")}}

\* Requests alone: the database keeps its connections and the process lives.
RequestsOnly == Init /\ [][\E r \in Requests : RequestStep(r)]_vars
=============================================================================
