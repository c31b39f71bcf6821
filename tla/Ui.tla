--------------------------------- MODULE Ui ---------------------------------
(***************************************************************************)
(* The single-page client (ui/app.js): what the page holds, the requests   *)
(* it has in flight and the events that reach it.  A handler runs to its   *)
(* end before the next event, its promise callbacks included; between two  *)
(* events any request may be answered, in any order.                       *)
(*                                                                         *)
(* Wording, the status line and citations are left out.  A token is "good" *)
(* when the API accepts it.                                                *)
(***************************************************************************)
EXTENDS Integers

CONSTANTS
  Workspace,    (* workspace names                                         *)
  Existing,     (* Existing[ws]: the ids of its collections                *)
  Question,     (* what the user may type                                  *)
  Blank,        (* an empty question                                       *)
  AuthEnabled,  (* identity.auth_enabled                                   *)
  Slots         (* requests that can be in flight at once                  *)

ASSUME UiAssumption ==
  /\ Existing \in [Workspace -> SUBSET (Nat \ {0})]
  /\ Blank \notin Question
  /\ AuthEnabled \in BOOLEAN

VARIABLES
  ws,            (* WORKSPACE                                              *)
  token,         (* the bearer token in localStorage                       *)
  identity,      (* what became of GET /v1/identity                        *)
  collections,   (* state.collections                                      *)
  options,       (* the ids in the selector and the workspace they are of  *)
  selected,      (* els.collection.value; 0 for the empty option           *)
  waited,        (* an observer: the user let the lists of other workspaces *)
                 (* arrive before turning to this one                      *)
  typed,         (* els.question.value                                     *)
  pending,       (* state.pending                                          *)
  lastQuestion,  (* state.lastQuestion                                     *)
  card,          (* the answer card                                        *)
  askDisabled,   (* els.ask.disabled                                       *)
  pill,          (* the authentication pill                                *)
  panelHidden,   (* els.authPanel.hidden                                   *)
  net            (* net[s]: the request in flight in slot s                *)

auth  == <<token, identity, pill, panelHidden>>
lists == <<ws, collections, options, selected, waited>>
asked == <<pending, lastQuestion>>
vars  == <<auth, lists, asked, typed, card, askDisabled, net>>

Token   == {"none", "good", "bad"}
Id      == Nat \ {0}
NoQuery == [question |-> Blank, cid |-> 0]
Query   == [question: Question, cid: Id]
NoWs    == "no list"

Free == [kind |-> "free"]
ListRequest  == [kind: {"collections"}, ws: Workspace, token: Token, boot: BOOLEAN]
QueryRequest == [kind: {"query"}, ws: Workspace, token: Token, query: Query]

Card ==
  [state: {"idle", "empty", "error", "refused", "answered"},
   query: Query \cup {NoQuery},
   action: {"none", "open-token-settings", "retry-query", "retry-collections"},
   status: {"none", "401", "other"}]

TypeOK ==
  /\ ws \in Workspace /\ token \in Token
  /\ identity \in {"asked", "known", "failed"}
  /\ collections \subseteq Id
  /\ options \in [ws: Workspace \cup {NoWs}, ids: SUBSET Id]
  /\ selected \in options.ids \cup {0}
  /\ waited \in BOOLEAN
  /\ typed \in Question \cup {Blank}
  /\ pending \in BOOLEAN
  /\ lastQuestion \in Query \cup {NoQuery}
  /\ card \in Card
  /\ askDisabled \in BOOLEAN
  /\ pill \in {"hidden", "disabled", "required", "authenticated"}
  /\ panelHidden \in BOOLEAN
  /\ net \in [Slots -> ListRequest \cup QueryRequest \cup {Free}]

-----------------------------------------------------------------------------
(* Renderers *)

Show(state, query, action, status) ==
  card' = [state |-> state, query |-> query, action |-> action, status |-> status]

ShowIdle == Show("idle", NoQuery, "none", "none")
NoOptions == [ws |-> NoWs, ids |-> {}]

Page(home, kept) ==
  /\ ws = home /\ token = kept
  /\ identity = "asked"
  /\ collections = {} /\ options = NoOptions /\ selected = 0 /\ waited = TRUE
  /\ typed = Blank
  /\ pending = FALSE /\ lastQuestion = NoQuery
  /\ card = [state |-> "idle", query |-> NoQuery, action |-> "none",
             status |-> "none"]
  /\ askDisabled = TRUE
  /\ pill = "hidden" /\ panelHidden = TRUE
  /\ net = [s \in Slots |-> Free]

Init == \E home \in Workspace, kept \in Token : Page(home, kept)

\* refreshAskButton, with the values the handler leaves.
RefreshAsk(busy, question, cid) ==
  askDisabled' = (busy \/ question = Blank \/ cid = 0)

\* applyIdentity: brand aside, the pill and the panel follow auth_enabled.
ApplyIdentity ==
  /\ pill' = IF AuthEnabled THEN "required" ELSE "disabled"
  /\ panelHidden' = ~AuthEnabled

\* refreshAuthPill
PillFor(known, kept) ==
  IF ~known THEN pill
  ELSE IF ~AuthEnabled THEN "disabled"
  ELSE IF kept = "none" THEN "required" ELSE "authenticated"

FirstOf(ids) == IF ids = {} THEN 0 ELSE CHOOSE i \in ids : \A j \in ids : i <= j

\* Mutant: the selection outlives its option.
RenderCollections_KeepsSelection(home, ids) ==
  /\ collections' = ids
  /\ options' = [ws |-> home, ids |-> ids]
  /\ UNCHANGED selected
  /\ IF ids = {} THEN Show("empty", NoQuery, "none", "none") ELSE UNCHANGED card

\* renderCollections: the selector starts over at its first option; an empty
\* list takes the answer card.
RenderCollections(home, ids) ==
  /\ collections' = ids
  /\ options' = [ws |-> home, ids |-> ids]
  /\ selected' = FirstOf(ids)
  /\ IF ids = {} THEN Show("empty", NoQuery, "none", "none") ELSE UNCHANGED card

-----------------------------------------------------------------------------
(* Requests *)

Send(s, request) ==
  /\ net[s] = Free
  /\ net' = [net EXCEPT ![s] = request]

Listing == {s \in Slots : net[s].kind = "collections"}

Settle(s) == net' = [net EXCEPT ![s] = Free]

LoadCollections(home, kept, atBoot) ==
  \E s \in Slots :
    Send(s, [kind |-> "collections", ws |-> home, token |-> kept, boot |-> atBoot])

Denied(s) == AuthEnabled /\ net[s].token # "good"

\* What submitQuery would ask now.
Submission == [question |-> typed, cid |-> selected]

SendQuery ==
  \E s \in Slots :
    Send(s, [kind |-> "query", ws |-> ws, token |-> token, query |-> Submission])

\* Mutant: the page trusts the disabled button alone.
Submit_NoGuard ==
  /\ typed # Blank /\ selected # 0
  /\ pending' = TRUE
  /\ lastQuestion' = Submission
  /\ RefreshAsk(TRUE, typed, selected)
  /\ SendQuery
  /\ UNCHANGED <<auth, lists, typed, card>>

\* submitQuery; without a question and a collection it only says so.
Submit ==
  /\ ~pending
  /\ typed # Blank /\ selected # 0
  /\ pending' = TRUE
  /\ lastQuestion' = Submission
  /\ RefreshAsk(TRUE, typed, selected)
  /\ SendQuery
  /\ UNCHANGED <<auth, lists, typed, card>>

ClickAsk  == ~askDisabled /\ Submit
CtrlEnter == Submit
Retry     == card.action = "retry-query" /\ lastQuestion # NoQuery /\ Submit

\* What follows every outcome of a query.
EndQuery(s) ==
  /\ net[s].kind = "query"
  /\ Settle(s)
  /\ pending' = FALSE
  /\ RefreshAsk(FALSE, typed, selected)
  /\ UNCHANGED <<auth, lists, lastQuestion, typed>>

\* Only a collection of the workspace has anything to answer from.
QueryAnswered(s) ==
  /\ EndQuery(s)
  /\ ~Denied(s) /\ net[s].query.cid \in Existing[net[s].ws]
  /\ Show("answered", net[s].query, "none", "none")

QueryRefused(s) ==
  /\ EndQuery(s)
  /\ ~Denied(s)
  /\ Show("refused", net[s].query, "none", "none")

QueryFails(s) ==
  /\ EndQuery(s)
  /\ \/ Denied(s) /\ Show("error", NoQuery, "open-token-settings", "401")
     \/ Show("error", NoQuery, "retry-query", "other")

\* At boot the ask button is refreshed once the list is rendered.
AfterList(s, cid) ==
  IF net[s].boot THEN RefreshAsk(pending, typed, cid) ELSE UNCHANGED askDisabled

CollectionsArrive(s) ==
  /\ net[s].kind = "collections" /\ ~Denied(s)
  /\ Settle(s)
  /\ \E ids \in {{}, Existing[net[s].ws]} :
       /\ RenderCollections(net[s].ws, ids)
       /\ AfterList(s, FirstOf(ids))
  /\ UNCHANGED <<auth, ws, waited, asked, typed>>

CollectionsFail(s) ==
  /\ net[s].kind = "collections"
  /\ Settle(s)
  /\ options' = NoOptions /\ selected' = 0
  /\ \/ Denied(s) /\ Show("error", NoQuery, "retry-collections", "401")
     \/ Show("error", NoQuery, "retry-collections", "other")
  /\ AfterList(s, 0)
  /\ UNCHANGED <<auth, ws, waited, collections, asked, typed>>

IdentityArrives ==
  /\ identity = "asked"
  /\ identity' = "known"
  /\ pill' = PillFor(TRUE, token)
  /\ panelHidden' = ~AuthEnabled
  /\ LoadCollections(ws, token, TRUE)
  /\ UNCHANGED <<token, lists, asked, typed, card, askDisabled>>

IdentityFails ==
  /\ identity = "asked"
  /\ identity' = "failed"
  /\ UNCHANGED <<token, pill, panelHidden, lists, asked, typed, card,
                 askDisabled, net>>

-----------------------------------------------------------------------------
(* The user *)

Type(q) ==
  /\ typed' = q
  /\ RefreshAsk(pending, q, selected)
  /\ UNCHANGED <<auth, lists, asked, card, net>>

Select(cid) ==
  /\ cid \in options.ids
  /\ selected' = cid
  /\ RefreshAsk(pending, typed, cid)
  /\ UNCHANGED <<auth, ws, waited, collections, options, asked, typed, card, net>>

\* Mutants: Clear enables the button by hand; Clear gives the query up
\* without stopping it.
Clear_Enables ==
  /\ typed' = Blank
  /\ ShowIdle
  /\ askDisabled' = FALSE
  /\ UNCHANGED <<auth, lists, asked, net>>

Clear_Abandons ==
  /\ typed' = Blank
  /\ ShowIdle
  /\ pending' = FALSE
  /\ RefreshAsk(FALSE, Blank, selected)
  /\ UNCHANGED <<auth, lists, lastQuestion, net>>

Clear ==
  /\ typed' = Blank
  /\ ShowIdle
  /\ RefreshAsk(pending, Blank, selected)
  /\ UNCHANGED <<auth, lists, asked, net>>

RetryCollections ==
  /\ card.action = "retry-collections"
  /\ LoadCollections(ws, token, FALSE)
  /\ UNCHANGED <<auth, lists, asked, typed, card, askDisabled>>

OpenTokenSettings ==
  /\ card.action = "open-token-settings"
  /\ panelHidden' = FALSE
  /\ UNCHANGED <<token, identity, pill, lists, asked, typed, card,
                 askDisabled, net>>

AuthToggle ==
  /\ identity = "known" /\ AuthEnabled
  /\ panelHidden' = ~panelHidden
  /\ UNCHANGED <<token, identity, pill, lists, asked, typed, card,
                 askDisabled, net>>

\* Saving a token lists the collections again when the API wants one.
AuthSave(v) ==
  /\ ~panelHidden
  /\ token' = v
  /\ pill' = PillFor(identity = "known", v)
  /\ IF identity = "known" /\ AuthEnabled
       THEN LoadCollections(ws, v, FALSE) ELSE UNCHANGED net
  /\ UNCHANGED <<identity, panelHidden, lists, asked, typed, card, askDisabled>>

AuthClear ==
  /\ ~panelHidden
  /\ token' = "none"
  /\ pill' = PillFor(identity = "known", "none")
  /\ UNCHANGED <<identity, panelHidden, lists, asked, typed, card, askDisabled,
                 net>>

WorkspaceApply(w) ==
  /\ ws' = w
  /\ waited' = \A s \in Listing : net[s].ws = w
  /\ LoadCollections(w, token, FALSE)
  /\ UNCHANGED <<auth, collections, options, selected, asked, typed, card,
                 askDisabled>>

\* setLocale renders the identity again; the idle and empty cards change
\* nothing but their words.
LangToggle ==
  /\ IF identity = "known" THEN ApplyIdentity ELSE UNCHANGED <<pill, panelHidden>>
  /\ UNCHANGED <<token, identity, lists, asked, typed, card, askDisabled, net>>

\* A new page: localStorage is all that survives.
Reload ==
  /\ ws' = ws /\ token' = token
  /\ identity' = "asked"
  /\ collections' = {} /\ options' = NoOptions /\ selected' = 0
  /\ waited' = TRUE
  /\ typed' = Blank
  /\ pending' = FALSE /\ lastQuestion' = NoQuery
  /\ ShowIdle
  /\ askDisabled' = TRUE
  /\ pill' = "hidden" /\ panelHidden' = TRUE
  /\ net' = [s \in Slots |-> Free]

-----------------------------------------------------------------------------
Response(s) ==
  \/ QueryAnswered(s) \/ QueryRefused(s) \/ QueryFails(s)
  \/ CollectionsArrive(s) \/ CollectionsFail(s)

User ==
  \/ \E q \in Question \cup {Blank} : Type(q)
  \/ \E cid \in options.ids : Select(cid)
  \/ ClickAsk \/ CtrlEnter \/ Retry
  \/ Clear \/ RetryCollections \/ OpenTokenSettings
  \/ AuthToggle \/ AuthClear
  \/ \E v \in Token : AuthSave(v)
  \/ \E w \in Workspace : WorkspaceApply(w)
  \/ LangToggle
  \/ Reload

Next ==
  \/ \E s \in Slots : Response(s)
  \/ IdentityArrives \/ IdentityFails
  \/ User

Spec == Init /\ [][Next]_vars

-----------------------------------------------------------------------------
Asking == {s \in Slots : net[s].kind = "query"}

\* Three ways to submit, one query at a time: state.pending says exactly
\* whether one is in flight, so that no outcome leaves the page waiting for
\* nothing, and state.lastQuestion says which.
OneQueryAtATime ==
  /\ pending <=> Asking # {}
  /\ \A s, t \in Asking : s = t
  /\ \A s \in Asking : net[s].query = lastQuestion

\* An answer or a refusal on the card belongs to the last question asked,
\* whatever was typed, cleared, selected or switched while it was awaited.
AnswersTheLastQuestion ==
  ~pending /\ card.state \in {"answered", "refused"} => card.query = lastQuestion

\* While a query is in flight the Ask button is disabled, and no event that
\* refreshes it lets it loose.
AskWaits == pending => askDisabled

\* "Lists available collections in the workspace": when no list is awaited,
\* the selector lists the collections of the active workspace, and the one
\* selected, which a query is sent to together with the workspace, is one it
\* has; unless the user turned to it while another one's list was awaited.
SelectorFollowsWorkspace ==
  waited /\ Listing = {} =>
    options.ws \in {NoWs, ws} /\ selected \in Existing[ws] \cup {0}

\* Seen from the card the page is a QuestionDesk: nothing but the end of a
\* query puts an outcome on it, nothing but a failure or a new page gives a
\* query up, and what the user or a late list does meanwhile at most wipes it.
Desk == INSTANCE QuestionDesk WITH
  Ask <- Query, Nothing <- NoQuery,
  awaited <- IF pending THEN lastQuestion ELSE NoQuery,
  shown <- card.query

ImplementsDesk == Desk!DeskSpec

-----------------------------------------------------------------------------
(* What the repository says and the page does not keep. *)

\* "lastQuestion: last submitted question (for retry)": a Retry button that
\* would ask something would ask that question.
RetryAsksAgain ==
  /\ card.action = "retry-query" /\ ~pending
  /\ typed # Blank /\ selected # 0
  => Submission = lastQuestion

\* "a saved token flips the pill back to Authenticated": the pill says
\* whether a token is saved.
PillTellsToken ==
  identity = "known" /\ AuthEnabled =>
    (pill = "authenticated" <=> token # "none")

\* "Open token settings on a 401".
DeniedOffersToken == card.status = "401" => card.action = "open-token-settings"

\* "lets the operator pick a collection + workspace, submits questions": with
\* a question, a collection and nothing awaited, the button can be pressed.
AskIsReady ==
  /\ typed # Blank /\ selected # 0
  /\ \A s \in Slots : net[s] = Free
  => ~askDisabled
=============================================================================
