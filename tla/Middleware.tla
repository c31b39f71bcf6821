----------------------------- MODULE Middleware -----------------------------
(***************************************************************************)
(* What surrounds every route: the bearer gate (auth.py, check_bearer) and *)
(* the audit line (audit.py) in the middleware audit_and_auth (main.py).   *)
(*                                                                         *)
(* An HTTPException of a route never reaches the middleware's own except   *)
(* clause: the framework has turned it into a response inside call_next.   *)
(***************************************************************************)
EXTENDS HttpRequests

CONSTANTS
  Path,         (* the paths of the routes                                 *)
  Scenarios,    (* settings of the process and requests of its clients     *)
  Token,        (* bearer tokens                                           *)
  Placeholder,  (* the tokens that begin with "replace-with"               *)
  NonAscii,     (* the tokens compare_digest refuses with a TypeError      *)
  NoToken       (* the empty AUTH_TOKEN; a header with a scheme alone      *)

Settings == [enabled: BOOLEAN, token: Token \cup {NoToken}]
Request  == [path: Path, scheme: {"absent", "bearer", "other"},
             token: Token \cup {NoToken}]

ASSUME TokenAssumption ==
  /\ Scenarios \subseteq [settings: Settings, request: [Requests -> Request]]
  /\ Placeholder \subseteq Token /\ NonAscii \subseteq Token
  /\ NoToken \notin Token

VARIABLES
  settings,  (* auth_enabled and auth_token                                *)
  request,   (* request[r]: its path and its Authorization header          *)
  stage,     (* stage[r]: how far the middleware is with it                *)
  outcome,   (* outcome[r]: the status of the response of its route        *)
  audited,   (* audited[r]: the statuses of its audit events               *)
  sent       (* sent[r]: the status its client gets                        *)

fixed     == <<settings, request>>
replies   == <<stage, outcome, audited, sent>>

MiddlewareTypeOK ==
  /\ settings \in Settings
  /\ request \in [Requests -> Request]
  /\ stage \in [Requests -> {"new", "route", "raised", "ended", "over", "lost"}]
  /\ outcome \in [Requests -> Status \cup {NoStatus}]
  /\ audited \in [Requests -> Seq(Status)]
  /\ sent \in [Requests -> Status \cup {NoStatus}]

MiddlewareInit ==
  /\ \E s \in Scenarios : settings = s.settings /\ request = s.request
  /\ stage = [r \in Requests |-> "new"]
  /\ outcome = [r \in Requests |-> NoStatus]
  /\ audited = [r \in Requests |-> <<>>]
  /\ sent = [r \in Requests |-> NoStatus]

-----------------------------------------------------------------------------
Public == {"/healthz", "/readyz", "/v1/identity"}

Equal(a, b) == IF {a, b} \cap NonAscii # {} THEN "raises"
               ELSE IF a = b THEN "token-ok" ELSE "token-mismatch"

\* Mutant: the placeholder of the sample configuration is a token.
CheckBearer_TakesPlaceholder(r) ==
  IF request[r].path \in Public THEN "public-endpoint"
  ELSE IF ~settings.enabled THEN "auth-disabled"
  ELSE IF request[r].scheme = "absent" THEN "missing"
  ELSE IF request[r].scheme # "bearer" \/ request[r].token = NoToken
    THEN "malformed"
  ELSE IF settings.token = NoToken THEN "not-configured"
  ELSE Equal(request[r].token, settings.token)

\* check_bearer, its early returns in their order.  A stripped header that
\* splits in two has a second part, so "empty-token" is never returned.
CheckBearer(r) ==
  IF request[r].path \in Public THEN "public-endpoint"
  ELSE IF ~settings.enabled THEN "auth-disabled"
  ELSE IF request[r].scheme = "absent" THEN "missing"
  ELSE IF request[r].scheme # "bearer" \/ request[r].token = NoToken
    THEN "malformed"
  ELSE IF settings.token \in {NoToken} \cup Placeholder THEN "not-configured"
  ELSE Equal(request[r].token, settings.token)

Allowed == {"public-endpoint", "auth-disabled", "token-ok"}

Advance(r, from, to) ==
  /\ stage[r] = from
  /\ stage' = [stage EXCEPT ![r] = to]

\* audit.emit, which never raises, and the response that goes out after it.
EmitAndReply(r, from, status) ==
  /\ Advance(r, from, "over")
  /\ audited' = [audited EXCEPT ![r] = Append(@, status)]
  /\ sent' = [sent EXCEPT ![r] = status]
  /\ outcome' = [outcome EXCEPT ![r] = NoStatus]

\* The server answers 500 to an exception the middleware lets through.
ReplyUnlogged(r, from) ==
  /\ Advance(r, from, "over")
  /\ sent' = [sent EXCEPT ![r] = 500]
  /\ UNCHANGED <<fixed, outcome, audited>>

Admit(r) ==
  /\ CheckBearer(r) \in Allowed
  /\ Advance(r, "new", "route")
  /\ UNCHANGED <<fixed, outcome, audited, sent>>

Deny(r) ==
  /\ CheckBearer(r) \notin Allowed \cup {"raises"}
  /\ EmitAndReply(r, "new", 401)
  /\ UNCHANGED fixed

\* check_bearer runs before the try.
Trip(r) == CheckBearer(r) = "raises" /\ ReplyUnlogged(r, "new")

Conclude(r) == EmitAndReply(r, "ended", outcome[r]) /\ UNCHANGED fixed

\* Mutant: no safety net.
Rescue_Unaudited(r) == ReplyUnlogged(r, "raised")

\* except Exception: the safety net.
Rescue(r) == EmitAndReply(r, "raised", 500) /\ UNCHANGED fixed

MiddlewareStep(r) ==
  \/ Admit(r) \/ Deny(r) \/ Trip(r) \/ Conclude(r) \/ Rescue(r)

-----------------------------------------------------------------------------
\* Who may be served: anyone where authentication is off or on a public
\* path, else the bearer of the token an operator really configured.
Entitled(r) ==
  \/ request[r].path \in Public
  \/ ~settings.enabled
  \/ /\ request[r].scheme = "bearer"
     /\ request[r].token = settings.token
     /\ settings.token \in Token \ (Placeholder \cup NonAscii)

\* No client gets an answer of a route it is not entitled to, and none that
\* is entitled is turned away (REQ-007: fails closed).
OnlyEntitledAreServed ==
  \A r \in Requests :
    /\ Entitled(r) => sent[r] # 401
    /\ ~Entitled(r) => sent[r] \in {NoStatus, 401, 500}

\* A response that left was logged before, once, with its status; no
\* request is logged twice, and one that died with the process at most once
\* ("One line per request").  The gate's own exception is left out.
OneEventPerRequest ==
  \A r \in Requests :
    /\ Len(audited[r]) <= 1
    /\ sent[r] # NoStatus /\ CheckBearer(r) # "raises" =>
         audited[r] = <<sent[r]>>

-----------------------------------------------------------------------------
\* "Every request is audited": so is one whose token is not ASCII.
EveryRequestIsAudited ==
  \A r \in Requests : sent[r] # NoStatus => audited[r] # <<>>
=============================================================================
