------------------------------ MODULE UiProofs ------------------------------
(***************************************************************************)
(* Proofs about Ui, for any workspaces, collections and questions, any     *)
(* number of requests in flight, with and without authentication.          *)
(***************************************************************************)
EXTENDS Ui, FiniteSets, FiniteSetTheorems, TLAPS

\* The slots are those of net, and the flags are flags.
Shape ==
  /\ net = [s \in Slots |-> net[s]]
  /\ pending \in BOOLEAN
  /\ askDisabled \in BOOLEAN

IInv ==
  /\ Shape
  /\ OneQueryAtATime
  /\ AnswersTheLastQuestion
  /\ AskWaits

LEMMA InitIInv == Init => IInv
<1> SUFFICES ASSUME Init PROVE IInv
  OBVIOUS
<1>1. /\ net = [s \in Slots |-> Free]
      /\ pending = FALSE /\ askDisabled = TRUE
      /\ card.state = "idle"
  BY DEF Init, Page
<1>2. net = [s \in Slots |-> net[s]] /\ Asking = {}
  BY <1>1 DEF Asking, Free
<1> QED
  BY <1>1, <1>2 DEF IInv, Shape, OneQueryAtATime, AnswersTheLastQuestion, AskWaits

-----------------------------------------------------------------------------
\* Three ways a step may treat the query in flight.  First, it sends a list
\* request or settles one, or does neither.
LEMMA QueriesUntouched ==
  ASSUME IInv,
         net' = [s \in Slots |-> net'[s]],
         \A s \in Slots : net'[s] = net[s] \/ (net[s].kind # "query"
                                               /\ net'[s].kind # "query"),
         pending' = pending, lastQuestion' = lastQuestion,
         askDisabled' \in BOOLEAN, pending => askDisabled',
         \/ card' = card
         \/ card'.state \notin {"answered", "refused"}
  PROVE  IInv'
<1>1. Asking' = Asking
  BY DEF Asking
<1>2. \A s \in Asking : net'[s] = net[s]
  BY DEF Asking
<1> QED
  BY <1>1, <1>2 DEF IInv, Shape, OneQueryAtATime, AnswersTheLastQuestion, AskWaits

\* A free slot takes a list request.
LEMMA ListIsSent ==
  ASSUME IInv, NEW home, NEW kept, NEW atBoot,
         LoadCollections(home, kept, atBoot)
  PROVE  /\ net' = [s \in Slots |-> net'[s]]
         /\ \A s \in Slots : net'[s] = net[s] \/ (net[s].kind # "query"
                                                  /\ net'[s].kind # "query")
<1>1. PICK s \in Slots :
        /\ net[s] = Free
        /\ net' = [net EXCEPT ![s] = [kind |-> "collections", ws |-> home,
                                      token |-> kept, boot |-> atBoot]]
  BY DEF LoadCollections, Send
<1> QED
  BY <1>1 DEF IInv, Shape, Free

\* Second, it submits a query: no other is in flight.
LEMMA SubmitIInv == IInv /\ Submit => IInv'
<1> SUFFICES ASSUME IInv, Submit PROVE IInv'
  OBVIOUS
<1> DEFINE request == [kind |-> "query", ws |-> ws, token |-> token,
                       query |-> Submission]
<1>1. PICK s \in Slots : net[s] = Free /\ net' = [net EXCEPT ![s] = request]
  BY DEF Submit, SendQuery, Send
<1>2. pending' = TRUE /\ lastQuestion' = Submission /\ askDisabled' = TRUE
  BY DEF Submit, RefreshAsk
<1>3. Asking = {}
  BY DEF Submit, IInv, OneQueryAtATime
<1>4. net' = [t \in Slots |-> net'[t]] /\ net'[s] = request
  BY <1>1 DEF IInv, Shape
<1>5. Asking' = {s}
  BY <1>1, <1>3, <1>4 DEF Asking, IInv, Shape
<1>6. OneQueryAtATime'
  BY <1>2, <1>4, <1>5 DEF OneQueryAtATime
<1> QED
  BY <1>2, <1>4, <1>6 DEF IInv, Shape, AnswersTheLastQuestion, AskWaits

\* Third, the query ends: what the card shows is its own question, if any.
LEMMA EndQueryIInv ==
  ASSUME IInv, NEW s \in Slots, EndQuery(s),
         \/ card'.query = net[s].query
         \/ card'.state \notin {"answered", "refused"}
  PROVE  IInv'
<1>1. /\ net[s].kind = "query" /\ net' = [net EXCEPT ![s] = Free]
      /\ pending' = FALSE /\ lastQuestion' = lastQuestion
      /\ askDisabled' \in BOOLEAN
  BY DEF EndQuery, Settle, RefreshAsk
<1>2. Asking = {s} /\ net[s].query = lastQuestion
  BY <1>1 DEF IInv, OneQueryAtATime, Asking
<1>3. net' = [t \in Slots |-> net'[t]] /\ net'[s] = Free
  BY <1>1 DEF IInv, Shape
<1>4. Asking' = {}
  BY <1>1, <1>2, <1>3 DEF Asking, IInv, Shape, Free
<1>5. OneQueryAtATime'
  BY <1>1, <1>4 DEF OneQueryAtATime
<1> QED
  BY <1>1, <1>2, <1>3, <1>5 DEF IInv, Shape, AnswersTheLastQuestion, AskWaits

-----------------------------------------------------------------------------
LEMMA ResponseIInv ==
  ASSUME IInv, NEW s \in Slots, Response(s)
  PROVE  IInv'
<1>1. CASE QueryAnswered(s)
  BY <1>1, EndQueryIInv DEF QueryAnswered, Show
<1>2. CASE QueryRefused(s)
  BY <1>2, EndQueryIInv DEF QueryRefused, Show
<1>3. CASE QueryFails(s)
  BY <1>3, EndQueryIInv DEF QueryFails, Show
<1>4. CASE CollectionsArrive(s) \/ CollectionsFail(s)
  <2>1. net[s].kind = "collections" /\ net' = [net EXCEPT ![s] = Free]
    BY <1>4 DEF CollectionsArrive, CollectionsFail, Settle
  <2>2. /\ net' = [t \in Slots |-> net'[t]]
        /\ \A t \in Slots : net'[t] = net[t] \/ (net[t].kind # "query"
                                                 /\ net'[t].kind # "query")
    BY <2>1 DEF IInv, Shape, Free
  <2>3. pending' = pending /\ lastQuestion' = lastQuestion
    BY <1>4 DEF CollectionsArrive, CollectionsFail, asked
  <2>4. askDisabled' \in BOOLEAN /\ (pending => askDisabled')
    BY <1>4 DEF CollectionsArrive, CollectionsFail, AfterList, RefreshAsk,
                IInv, Shape, AskWaits
  <2>5. card' = card \/ card'.state \notin {"answered", "refused"}
    BY <1>4 DEF CollectionsArrive, CollectionsFail, RenderCollections, Show
  <2> QED
    BY <2>2, <2>3, <2>4, <2>5, QueriesUntouched
<1> QED
  BY <1>1, <1>2, <1>3, <1>4 DEF Response

\* Events that send nothing and leave the query alone.
LEMMA QuietIInv ==
  ASSUME IInv,
         net' = net, pending' = pending, lastQuestion' = lastQuestion,
         askDisabled' \in BOOLEAN, pending => askDisabled',
         card' = card \/ card'.state \notin {"answered", "refused"}
  PROVE  IInv'
<1>1. net' = [s \in Slots |-> net'[s]]
  BY DEF IInv, Shape
<1> QED
  BY <1>1, QueriesUntouched

\* Events that list the collections again.
LEMMA ReloadListIInv ==
  ASSUME IInv, NEW home, NEW kept, NEW atBoot,
         LoadCollections(home, kept, atBoot),
         UNCHANGED <<pending, lastQuestion, askDisabled, card>>
  PROVE  IInv'
<1>1. /\ net' = [s \in Slots |-> net'[s]]
      /\ \A s \in Slots : net'[s] = net[s] \/ (net[s].kind # "query"
                                               /\ net'[s].kind # "query")
  BY ListIsSent
<1>2. askDisabled' \in BOOLEAN /\ (pending => askDisabled')
  BY DEF IInv, Shape, AskWaits
<1> QED
  BY <1>1, <1>2, QueriesUntouched

LEMMA UserIInv == IInv /\ User => IInv'
<1> SUFFICES ASSUME IInv, User PROVE IInv'
  OBVIOUS
<1>1. CASE \E q \in Question \cup {Blank} : Type(q)
  BY <1>1, QuietIInv DEF Type, RefreshAsk, asked
<1>2. CASE \E cid \in options.ids : Select(cid)
  BY <1>2, QuietIInv DEF Select, RefreshAsk, asked
<1>3. CASE ClickAsk \/ CtrlEnter \/ Retry
  BY <1>3, SubmitIInv DEF ClickAsk, CtrlEnter, Retry
<1>4. CASE Clear
  BY <1>4, QuietIInv DEF Clear, ShowIdle, Show, RefreshAsk, asked
<1>5. CASE RetryCollections
  BY <1>5, ReloadListIInv DEF RetryCollections, asked
<1>6. CASE OpenTokenSettings \/ AuthToggle \/ AuthClear \/ LangToggle
  BY <1>6, QuietIInv
     DEF OpenTokenSettings, AuthToggle, AuthClear, LangToggle, asked, IInv,
         Shape, AskWaits
<1>7. CASE \E v \in Token : AuthSave(v)
  <2>1. PICK v \in Token : AuthSave(v)
    BY <1>7
  <2>2. CASE identity = "known" /\ AuthEnabled
    BY <2>1, <2>2, ReloadListIInv DEF AuthSave, asked
  <2>3. CASE ~(identity = "known" /\ AuthEnabled)
    BY <2>1, <2>3, QuietIInv DEF AuthSave, asked, IInv, Shape, AskWaits
  <2> QED
    BY <2>2, <2>3
<1>8. CASE \E w \in Workspace : WorkspaceApply(w)
  BY <1>8, ReloadListIInv DEF WorkspaceApply, asked
<1>9. CASE Reload
  BY <1>9 DEF Reload, ShowIdle, Show, IInv, Shape, OneQueryAtATime,
              AnswersTheLastQuestion, AskWaits, Asking, Free
<1> QED
  BY <1>1, <1>2, <1>3, <1>4, <1>5, <1>6, <1>7, <1>8, <1>9 DEF User

LEMMA NextIInv == IInv /\ [Next]_vars => IInv'
<1> SUFFICES ASSUME IInv, [Next]_vars PROVE IInv'
  OBVIOUS
<1>1. CASE \E s \in Slots : Response(s)
  BY <1>1, ResponseIInv
<1>2. CASE IdentityArrives
  <2>1. LoadCollections(ws, token, TRUE)
    BY <1>2 DEF IdentityArrives
  <2>2. UNCHANGED <<pending, lastQuestion, askDisabled, card>>
    BY <1>2 DEF IdentityArrives, asked
  <2> QED
    BY <2>1, <2>2, ReloadListIInv
<1>3. CASE IdentityFails
  BY <1>3, QuietIInv DEF IdentityFails, asked, IInv, Shape, AskWaits
<1>4. CASE User
  BY <1>4, UserIInv
<1>5. CASE UNCHANGED vars
  BY <1>5, QuietIInv DEF vars, asked, IInv, Shape, AskWaits
<1> QED
  BY <1>1, <1>2, <1>3, <1>4, <1>5 DEF Next

THEOREM UiInvariance == Spec => []IInv
BY InitIInv, NextIInv, PTL DEF Spec

-----------------------------------------------------------------------------
\* state.pending is TRUE exactly while one POST /v1/query is in flight, that
\* of state.lastQuestion, whichever of the three ways submitted it.
THEOREM OneQuestionInFlight == Spec => []OneQueryAtATime
<1>1. IInv => OneQueryAtATime
  BY DEF IInv
<1> QED
  BY <1>1, UiInvariance, PTL

\* renderAnswered and renderRefused only ever show the outcome of the last
\* question submitted.
THEOREM TheAnswerIsForTheQuestion == Spec => []AnswersTheLastQuestion
<1>1. IInv => AnswersTheLastQuestion
  BY DEF IInv
<1> QED
  BY <1>1, UiInvariance, PTL

\* No caller of refreshAskButton enables the button under a pending query.
THEOREM TheButtonWaits == Spec => []AskWaits
<1>1. IInv => AskWaits
  BY DEF IInv
<1> QED
  BY <1>1, UiInvariance, PTL
-----------------------------------------------------------------------------
(* Types, and the selector's options. *)

\* The selector lists collections of the workspace it was filled for.
OptionsAreOfTheirWorkspace ==
  options.ids # {} =>
    options.ws \in Workspace /\ options.ids \subseteq Existing[options.ws]

Kept == TypeOK /\ OptionsAreOfTheirWorkspace

NetType == [Slots -> ListRequest \cup QueryRequest \cup {Free}]

\* A set of naturals without a least element would have the successor of each
\* of its lower bounds among them; but they are finitely many.
LEMMA LeastNatural ==
  ASSUME NEW T \in SUBSET Nat, T # {}
  PROVE  \E i \in T : \A j \in T : i <= j
<1> SUFFICES ASSUME \A i \in T : \E j \in T : ~(i <= j) PROVE FALSE
  OBVIOUS
<1> DEFINE Low == {n \in Nat : \A t \in T : n <= t}
           next == [n \in Low |-> n + 1]
<1>1. IsFiniteSet(Low)
  <2>1. PICK a \in T : TRUE
    OBVIOUS
  <2>2. Low \in SUBSET Nat /\ a \in Nat /\ \A n \in Low : n <= a
    BY <2>1
  <2> HIDE DEF Low
  <2> QED
    BY <2>2, FS_BoundedSetOfNaturals
<1>2. 0 \in Low
  OBVIOUS
<1>3. next \in [Low -> Low \ {0}]
  <2> SUFFICES ASSUME NEW n \in Low PROVE n + 1 \in Low \ {0}
    OBVIOUS
  <2>1. n \notin T
    OBVIOUS
  <2>2. \A t \in T : n + 1 <= t
    <3> SUFFICES ASSUME NEW t \in T PROVE n + 1 <= t
      OBVIOUS
    <3>1. n <= t /\ n # t /\ n \in Nat /\ t \in Nat
      BY <2>1
    <3> QED
      BY <3>1
  <2> QED
    BY <2>2
<1>4. /\ IsFiniteSet(Low \ {0})
      /\ Cardinality(Low \ {0}) < Cardinality(Low)
  <2> HIDE DEF Low
  <2>1. Cardinality(Low) \in Nat
    BY <1>1, FS_CardinalityType
  <2>2. /\ IsFiniteSet(Low \ {0})
        /\ Cardinality(Low \ {0}) = Cardinality(Low) - 1
    BY <1>1, <1>2, FS_RemoveElement
  <2> QED
    BY <2>1, <2>2
<1>5. \E m, n \in Low : m # n /\ next[m] = next[n]
  <2> HIDE DEF Low, next
  <2> QED
    BY <1>1, <1>3, <1>4, FS_PigeonHole
<1> QED
  BY <1>5

LEMMA FirstIsOneOf ==
  ASSUME NEW ids \in SUBSET Id
  PROVE  FirstOf(ids) \in ids \cup {0}
<1>1. CASE ids = {}
  BY <1>1 DEF FirstOf
<1>2. CASE ids # {}
  <2>1. ids \in SUBSET Nat
    BY DEF Id
  <2>2. \E i \in ids : \A j \in ids : i <= j
    BY <1>2, <2>1, LeastNatural
  <2> QED
    BY <1>2, <2>2 DEF FirstOf
<1> QED
  BY <1>1, <1>2

\* The first renders of the page, and each thing a handler does to it.
LEMMA InitKept == Init => Kept
<1> SUFFICES ASSUME Init PROVE Kept
  OBVIOUS
<1>1. PICK home \in Workspace, kept \in Token : Page(home, kept)
  BY DEF Init
<1>2. net \in NetType
  BY <1>1 DEF Page, NetType, Free
<1> QED
  BY <1>1, <1>2 DEF Page, Kept, TypeOK, OptionsAreOfTheirWorkspace, NoOptions,
                    NoQuery, Card, NetType, Token

LEMMA SentIsTyped ==
  ASSUME net \in NetType, NEW s \in Slots, NEW request, Send(s, request),
         request \in ListRequest \cup QueryRequest
  PROVE  net' \in NetType
BY DEF NetType, Send

LEMMA SettledIsTyped ==
  ASSUME net \in NetType, NEW s \in Slots, Settle(s)
  PROVE  net' \in NetType
BY DEF NetType, Settle

LEMMA ListIsTyped ==
  ASSUME net \in NetType, NEW home \in Workspace, NEW kept \in Token,
         NEW atBoot \in BOOLEAN, LoadCollections(home, kept, atBoot)
  PROVE  net' \in NetType
<1>1. PICK s \in Slots :
        Send(s, [kind |-> "collections", ws |-> home, token |-> kept,
                 boot |-> atBoot])
  BY DEF LoadCollections
<1> QED
  BY <1>1, SentIsTyped DEF ListRequest

\* A list request in flight is one.
LEMMA KindIsType ==
  ASSUME net \in NetType, NEW s \in Slots
  PROVE  /\ net[s].kind = "collections" => net[s] \in ListRequest
         /\ net[s].kind = "query" => net[s] \in QueryRequest
BY DEF NetType, ListRequest, QueryRequest, Free

LEMMA SubmitKept == Kept /\ Submit => Kept'
<1> SUFFICES ASSUME Kept, Submit PROVE Kept'
  OBVIOUS
<1>1. Submission \in Query
  BY DEF Kept, TypeOK, Submit, Submission, Query, Id
<1>2. PICK s \in Slots :
        Send(s, [kind |-> "query", ws |-> ws, token |-> token,
                 query |-> Submission])
  BY DEF Submit, SendQuery
<1>3. net' \in NetType
  BY <1>1, <1>2, SentIsTyped DEF Kept, TypeOK, NetType, QueryRequest
<1> QED
  BY <1>1, <1>3
     DEF Kept, TypeOK, NetType, OptionsAreOfTheirWorkspace, Submit, RefreshAsk,
         auth, lists

LEMMA EndQueryKept ==
  ASSUME Kept, NEW s \in Slots, EndQuery(s), card' \in Card
  PROVE  Kept'
<1>1. net' \in NetType
  BY SettledIsTyped DEF EndQuery, Kept, TypeOK, NetType
<1> QED
  BY <1>1 DEF EndQuery, RefreshAsk, Kept, TypeOK, NetType,
              OptionsAreOfTheirWorkspace, auth, lists

LEMMA ResponseKept ==
  ASSUME Kept, NEW s \in Slots, Response(s)
  PROVE  Kept'
<1>1. net \in NetType
  BY DEF Kept, TypeOK, NetType
<1>2. CASE QueryAnswered(s) \/ QueryRefused(s) \/ QueryFails(s)
  <2>1. EndQuery(s) /\ net[s] \in QueryRequest
    BY <1>1, <1>2, KindIsType
       DEF QueryAnswered, QueryRefused, QueryFails, EndQuery
  <2>2. card' \in Card
    BY <1>2, <2>1
       DEF QueryAnswered, QueryRefused, QueryFails, Show, Card, QueryRequest
  <2> QED
    BY <2>1, <2>2, EndQueryKept
<1>3. CASE CollectionsArrive(s)
  <2>1. net[s] \in ListRequest /\ net' \in NetType
    BY <1>1, <1>3, KindIsType, SettledIsTyped DEF CollectionsArrive
  <2>2. PICK ids \in {{}, Existing[net[s].ws]} :
          RenderCollections(net[s].ws, ids) /\ AfterList(s, FirstOf(ids))
    BY <1>3 DEF CollectionsArrive
  <2>3. /\ net[s].ws \in Workspace
        /\ Existing[net[s].ws] \in SUBSET Id /\ ids \in SUBSET Id
        /\ ids \subseteq Existing[net[s].ws]
    BY <2>1, <2>2, UiAssumption DEF ListRequest, Id
  <2>4. FirstOf(ids) \in ids \cup {0}
    BY <2>3, FirstIsOneOf
  <2>5. /\ options' = [ws |-> net[s].ws, ids |-> ids]
        /\ selected' = FirstOf(ids) /\ collections' = ids
        /\ card' \in Card
    BY <2>2 DEF RenderCollections, Show, Card, Kept, TypeOK
  <2>6. askDisabled' \in BOOLEAN
    BY <2>2 DEF AfterList, RefreshAsk, Kept, TypeOK
  <2> QED
    BY <1>3, <2>1, <2>3, <2>4, <2>5, <2>6
       DEF CollectionsArrive, Kept, TypeOK, NetType,
           OptionsAreOfTheirWorkspace, auth, asked
<1>4. CASE CollectionsFail(s)
  <2>1. net' \in NetType
    BY <1>1, <1>4, SettledIsTyped DEF CollectionsFail
  <2>2. card' \in Card
    BY <1>4 DEF CollectionsFail, Show, Card
  <2>3. askDisabled' \in BOOLEAN
    BY <1>4 DEF CollectionsFail, AfterList, RefreshAsk, Kept, TypeOK
  <2> QED
    BY <1>4, <2>1, <2>2, <2>3
       DEF CollectionsFail, NoOptions, Kept, TypeOK, NetType,
           OptionsAreOfTheirWorkspace, auth, asked
<1> QED
  BY <1>2, <1>3, <1>4 DEF Response

\* Events that leave the requests in flight alone.
LEMMA QuietKept ==
  ASSUME Kept, UNCHANGED net,
         \/ \E q \in Question \cup {Blank} : Type(q)
         \/ \E cid \in options.ids : Select(cid)
         \/ Clear \/ OpenTokenSettings \/ AuthToggle \/ AuthClear
         \/ LangToggle \/ IdentityFails
  PROVE  Kept'
<1>1. CASE \E q \in Question \cup {Blank} : Type(q)
  BY <1>1 DEF Type, RefreshAsk, Kept, TypeOK, OptionsAreOfTheirWorkspace,
              auth, lists, asked
<1>2. CASE \E cid \in options.ids : Select(cid)
  BY <1>2 DEF Select, RefreshAsk, Kept, TypeOK, OptionsAreOfTheirWorkspace,
              auth, asked
<1>3. CASE Clear
  <2>1. card' \in Card
    BY <1>3 DEF Clear, ShowIdle, Show, Card
  <2> QED
    BY <1>3, <2>1
       DEF Clear, RefreshAsk, Kept, TypeOK, OptionsAreOfTheirWorkspace,
           auth, lists, asked
<1>4. CASE OpenTokenSettings \/ AuthToggle \/ IdentityFails
  BY <1>4 DEF OpenTokenSettings, AuthToggle, IdentityFails, Kept, TypeOK,
              OptionsAreOfTheirWorkspace, lists, asked
<1>5. CASE AuthClear
  BY <1>5 DEF AuthClear, PillFor, Token, Kept, TypeOK,
              OptionsAreOfTheirWorkspace, lists, asked
<1>6. CASE LangToggle
  <2>1. pill' \in {"hidden", "disabled", "required", "authenticated"}
    BY <1>6 DEF LangToggle, ApplyIdentity, Kept, TypeOK
  <2>2. panelHidden' \in BOOLEAN
    BY <1>6, UiAssumption DEF LangToggle, ApplyIdentity, Kept, TypeOK
  <2> QED
    BY <1>6, <2>1, <2>2
       DEF LangToggle, Kept, TypeOK, OptionsAreOfTheirWorkspace, lists, asked
<1> QED
  BY <1>1, <1>2, <1>3, <1>4, <1>5, <1>6

\* Events that list the collections again, if they send anything.
LEMMA ReloadListKept ==
  ASSUME Kept,
         \/ RetryCollections \/ IdentityArrives
         \/ \E v \in Token : AuthSave(v)
         \/ \E w \in Workspace : WorkspaceApply(w)
  PROVE  Kept'
<1>1. net \in NetType /\ ws \in Workspace /\ token \in Token
  BY DEF Kept, TypeOK, NetType
<1>2. CASE RetryCollections
  <2>1. net' \in NetType
    BY <1>1, <1>2, ListIsTyped DEF RetryCollections
  <2> QED
    BY <1>2, <2>1
       DEF RetryCollections, Kept, TypeOK, NetType, OptionsAreOfTheirWorkspace,
           auth, lists, asked
<1>3. CASE IdentityArrives
  <2>1. net' \in NetType
    BY <1>1, <1>3, ListIsTyped DEF IdentityArrives
  <2> QED
    BY <1>3, <2>1, UiAssumption
       DEF IdentityArrives, PillFor, Kept, TypeOK, NetType,
           OptionsAreOfTheirWorkspace, lists, asked
<1>4. CASE \E v \in Token : AuthSave(v)
  <2>1. PICK v \in Token : AuthSave(v)
    BY <1>4
  <2>2. net' \in NetType
    BY <1>1, <2>1, ListIsTyped DEF AuthSave
  <2> QED
    BY <2>1, <2>2
       DEF AuthSave, PillFor, Kept, TypeOK, NetType,
           OptionsAreOfTheirWorkspace, lists, asked
<1>5. CASE \E w \in Workspace : WorkspaceApply(w)
  <2>1. PICK w \in Workspace : WorkspaceApply(w)
    BY <1>5
  <2>2. net' \in NetType
    BY <1>1, <2>1, ListIsTyped DEF WorkspaceApply
  <2> QED
    BY <2>1, <2>2
       DEF WorkspaceApply, Kept, TypeOK, NetType, OptionsAreOfTheirWorkspace,
           auth, asked
<1> QED
  BY <1>2, <1>3, <1>4, <1>5

LEMMA ReloadKept == Kept /\ Reload => Kept'
<1> SUFFICES ASSUME Kept, Reload PROVE Kept'
  OBVIOUS
<1>1. net' \in NetType
  BY DEF Reload, NetType, Free
<1>2. card' \in Card
  BY DEF Reload, ShowIdle, Show, Card
<1> QED
  BY <1>1, <1>2 DEF Reload, Kept, TypeOK, NetType, OptionsAreOfTheirWorkspace,
                    NoOptions

LEMMA NextKept == Kept /\ [Next]_vars => Kept'
<1> SUFFICES ASSUME Kept, [Next]_vars PROVE Kept'
  OBVIOUS
<1>1. CASE \E s \in Slots : Response(s)
  BY <1>1, ResponseKept
<1>2. CASE IdentityArrives \/ RetryCollections
           \/ (\E v \in Token : AuthSave(v))
           \/ (\E w \in Workspace : WorkspaceApply(w))
  BY <1>2, ReloadListKept
<1>3. CASE \/ \E q \in Question \cup {Blank} : Type(q)
           \/ \E cid \in options.ids : Select(cid)
           \/ Clear \/ OpenTokenSettings \/ AuthToggle \/ AuthClear
           \/ LangToggle \/ IdentityFails
  <2>1. UNCHANGED net
    BY <1>3 DEF Type, Select, Clear, OpenTokenSettings, AuthToggle, AuthClear,
                LangToggle, IdentityFails
  <2> QED
    BY <1>3, <2>1, QuietKept
<1>4. CASE ClickAsk \/ CtrlEnter \/ Retry
  BY <1>4, SubmitKept DEF ClickAsk, CtrlEnter, Retry
<1>5. CASE Reload
  BY <1>5, ReloadKept
<1>6. CASE UNCHANGED vars
  BY <1>6 DEF vars, auth, lists, asked, Kept, TypeOK,
              OptionsAreOfTheirWorkspace
<1> QED
  BY <1>1, <1>2, <1>3, <1>4, <1>5, <1>6 DEF Next, User

\* The page keeps its types; in particular the collection selected is an
\* option of the selector, and the options are collections of the workspace
\* whose list filled it.
THEOREM PageIsTyped == Spec => [](TypeOK /\ OptionsAreOfTheirWorkspace)
BY InitKept, NextKept, PTL DEF Spec, Kept

-----------------------------------------------------------------------------
(* The refinement of QuestionDesk. *)

\* A query awaited is a question.
RealQuestion == pending => lastQuestion # NoQuery

\* What a step may do to the query awaited.
QuestionStays == pending' = pending /\ lastQuestion' = lastQuestion

LEMMA QueryOfStep ==
  [Next]_vars => QuestionStays \/ ~pending' \/ Submit
<1>1. ASSUME NEW s \in Slots, Response(s)
      PROVE  QuestionStays \/ ~pending'
  BY <1>1 DEF Response, QueryAnswered, QueryRefused, QueryFails, EndQuery,
              CollectionsArrive, CollectionsFail, asked, QuestionStays
<1>2. IdentityArrives => QuestionStays
  BY DEF IdentityArrives, asked, QuestionStays
<1>3. IdentityFails => QuestionStays
  BY DEF IdentityFails, asked, QuestionStays
<1>4. UNCHANGED vars => QuestionStays
  BY DEF vars, asked, QuestionStays
<1>5. User => QuestionStays \/ ~pending' \/ Submit
  BY DEF User, Type, Select, ClickAsk, CtrlEnter, Retry, Clear,
         RetryCollections, OpenTokenSettings, AuthToggle, AuthClear, LangToggle,
         AuthSave, WorkspaceApply, Reload, asked, QuestionStays
<1> QED
  BY <1>1, <1>2, <1>3, <1>4, <1>5 DEF Next

LEMMA RealQuestionHolds ==
  /\ Init => RealQuestion
  /\ RealQuestion /\ [Next]_vars => RealQuestion'
<1>1. Init => RealQuestion
  BY DEF Init, Page, RealQuestion
<1>2. ASSUME RealQuestion, [Next]_vars PROVE RealQuestion'
  <2>1. CASE QuestionStays
    BY <1>2, <2>1 DEF RealQuestion, QuestionStays
  <2>2. CASE ~pending'
    BY <2>2 DEF RealQuestion
  <2>3. CASE Submit
    <3>1. Submission.question # NoQuery.question
      BY <2>3 DEF Submit, Submission, NoQuery
    <3> QED
      BY <2>3, <3>1 DEF Submit, RealQuestion
  <2>4. QuestionStays \/ ~pending' \/ Submit
    BY <1>2, QueryOfStep
  <2> QED
    BY <2>1, <2>2, <2>3, <2>4
<1> QED
  BY <1>1, <1>2

LEMMA DeskStarts == Init => Desk!DeskInit
BY DEF Init, Page, Desk!DeskInit

\* Whatever leaves the query alone at most wipes the card.
LEMMA DeskWipes ==
  ASSUME UNCHANGED <<pending, lastQuestion>>,
         card' = card \/ card'.query = NoQuery
  PROVE  [Desk!DeskNext]_Desk!DeskVars
BY DEF Desk!DeskNext, Desk!Wipe, Desk!DeskVars

LEMMA DeskPoses == Kept /\ Submit => Desk!Pose
<1> SUFFICES ASSUME Kept, Submit PROVE Desk!Pose
  OBVIOUS
<1>1. Submission \in Query /\ Submission # NoQuery
  BY DEF Kept, TypeOK, Submit, Submission, Query, NoQuery, Id
<1> QED
  BY <1>1 DEF Submit, Desk!Pose

LEMMA DeskEnds ==
  ASSUME IInv, RealQuestion, NEW s \in Slots, EndQuery(s),
         card'.query \in {net[s].query, NoQuery}
  PROVE  Desk!Deliver \/ Desk!StartOver
<1>1. s \in Asking /\ pending' = FALSE
  BY DEF EndQuery, Asking
<1>2. pending /\ net[s].query = lastQuestion /\ lastQuestion # NoQuery
  BY <1>1 DEF IInv, Shape, OneQueryAtATime, RealQuestion
<1> QED
  BY <1>1, <1>2 DEF Desk!Deliver, Desk!StartOver

LEMMA DeskSteps ==
  IInv /\ Kept /\ RealQuestion /\ [Next]_vars => [Desk!DeskNext]_Desk!DeskVars
<1> SUFFICES ASSUME IInv, Kept, RealQuestion, [Next]_vars
             PROVE  [Desk!DeskNext]_Desk!DeskVars
  OBVIOUS
<1>1. ASSUME NEW s \in Slots, Response(s)
      PROVE  [Desk!DeskNext]_Desk!DeskVars
  <2>1. CASE QueryAnswered(s) \/ QueryRefused(s) \/ QueryFails(s)
    <3>1. EndQuery(s) /\ card'.query \in {net[s].query, NoQuery}
      BY <2>1 DEF QueryAnswered, QueryRefused, QueryFails, Show
    <3> QED
      BY <3>1, DeskEnds DEF Desk!DeskNext
  <2>2. CASE CollectionsArrive(s) \/ CollectionsFail(s)
    <3>1. card' = card \/ card'.query = NoQuery
      BY <2>2 DEF CollectionsArrive, RenderCollections, CollectionsFail, Show
    <3> QED
      BY <2>2, <3>1, DeskWipes DEF CollectionsArrive, CollectionsFail, asked
  <2> QED
    BY <1>1, <2>1, <2>2 DEF Response
<1>2. CASE IdentityArrives \/ IdentityFails \/ UNCHANGED vars
  BY <1>2, DeskWipes DEF IdentityArrives, IdentityFails, vars, asked
<1>3. CASE ClickAsk \/ CtrlEnter \/ Retry
  BY <1>3, DeskPoses DEF ClickAsk, CtrlEnter, Retry, Desk!DeskNext
<1>4. CASE Clear
  BY <1>4, DeskWipes DEF Clear, ShowIdle, Show, asked
<1>5. CASE \/ \E q \in Question \cup {Blank} : Type(q)
           \/ \E cid \in options.ids : Select(cid)
           \/ RetryCollections \/ OpenTokenSettings
           \/ AuthToggle \/ AuthClear \/ LangToggle
           \/ \E v \in Token : AuthSave(v)
           \/ \E w \in Workspace : WorkspaceApply(w)
  BY <1>5, DeskWipes
     DEF Type, Select, RetryCollections, OpenTokenSettings, AuthToggle,
         AuthClear, LangToggle, AuthSave, WorkspaceApply, asked
<1>6. CASE Reload
  BY <1>6 DEF Reload, ShowIdle, Show, Desk!DeskNext, Desk!StartOver
<1> QED
  BY <1>1, <1>2, <1>3, <1>4, <1>5, <1>6 DEF Next, User

\* Every event and response is a step of the QuestionDesk or none: an outcome
\* gets on the card by the end of its own query alone, and a query is given
\* up by its failure or by a new page alone.
THEOREM PageImplementsDesk == Spec => ImplementsDesk
<1>1. Spec => [](IInv /\ Kept /\ RealQuestion)
  BY UiInvariance, InitKept, NextKept, RealQuestionHolds, PTL DEF Spec
<1> QED
  BY <1>1, DeskStarts, DeskSteps, PTL DEF Spec, ImplementsDesk, Desk!DeskSpec
-----------------------------------------------------------------------------
(* The selector and the workspace. *)

\* Once the user has waited, the lists in flight are of the active workspace,
\* and with none in flight the selector is that workspace's or was never
\* filled.
OwnLists ==
  waited =>
    /\ \A s \in Listing : net[s].ws = ws
    /\ Listing = {} => options = NoOptions \/ options.ws = ws

LEMMA InitOwnLists == Init => OwnLists
BY DEF Init, Page, OwnLists, Listing, Free

LEMMA ListsUntouched ==
  ASSUME OwnLists, UNCHANGED <<ws, waited, options>>,
         \A s \in Slots : net'[s] = net[s] \/ (net[s].kind # "collections"
                                               /\ net'[s].kind # "collections")
  PROVE  OwnLists'
<1>1. Listing' = Listing
  BY DEF Listing
<1>2. \A s \in Listing : net'[s] = net[s]
  BY DEF Listing
<1> QED
  BY <1>1, <1>2 DEF OwnLists

\* A list is asked of the workspace the page is left with, and so were those
\* still awaited.
LEMMA OwnListIsSent ==
  ASSUME IInv, NEW kept, NEW atBoot, LoadCollections(ws', kept, atBoot),
         waited' => \A s \in Listing : net[s].ws = ws'
  PROVE  OwnLists'
<1>1. PICK s \in Slots :
        /\ net[s] = Free
        /\ net' = [net EXCEPT ![s] = [kind |-> "collections", ws |-> ws',
                                      token |-> kept, boot |-> atBoot]]
  BY DEF LoadCollections, Send
<1>2. /\ net'[s].kind = "collections" /\ net'[s].ws = ws'
      /\ \A t \in Slots \ {s} : net'[t] = net[t]
  BY <1>1 DEF IInv, Shape
<1>3. s \in Listing'
  BY <1>2 DEF Listing
<1>4. waited' => \A t \in Listing' : net'[t].ws = ws'
  BY <1>2 DEF Listing
<1> QED
  BY <1>3, <1>4 DEF OwnLists

LEMMA ListArrives ==
  ASSUME IInv, OwnLists, NEW s \in Slots,
         CollectionsArrive(s) \/ CollectionsFail(s)
  PROVE  OwnLists'
<1>1. /\ s \in Listing /\ ws' = ws /\ waited' = waited
      /\ net' = [net EXCEPT ![s] = Free]
  BY DEF CollectionsArrive, CollectionsFail, Settle, Listing, lists
<1>2. options' = NoOptions \/ options'.ws = net[s].ws
  BY DEF CollectionsArrive, CollectionsFail, RenderCollections
<1>3. waited => net[s].ws = ws
  BY <1>1 DEF OwnLists
<1>4. Listing' \subseteq Listing /\ \A t \in Listing' : net'[t] = net[t]
  BY <1>1 DEF Listing, IInv, Shape, Free
<1> QED
  BY <1>1, <1>2, <1>3, <1>4 DEF OwnLists

LEMMA NextOwnLists == IInv /\ OwnLists /\ [Next]_vars => OwnLists'
<1> SUFFICES ASSUME IInv, OwnLists, [Next]_vars PROVE OwnLists'
  OBVIOUS
<1>1. ASSUME NEW s \in Slots, Response(s) PROVE OwnLists'
  <2>1. CASE QueryAnswered(s) \/ QueryRefused(s) \/ QueryFails(s)
    <3>1. /\ net[s].kind = "query" /\ net' = [net EXCEPT ![s] = Free]
          /\ UNCHANGED <<ws, waited, options>>
      BY <2>1 DEF QueryAnswered, QueryRefused, QueryFails, EndQuery, Settle, lists
    <3>2. \A t \in Slots : net'[t] = net[t] \/ (net[t].kind # "collections"
                                                /\ net'[t].kind # "collections")
      BY <3>1 DEF IInv, Shape, Free
    <3> QED
      BY <3>1, <3>2, ListsUntouched
  <2>2. CASE CollectionsArrive(s) \/ CollectionsFail(s)
    BY <2>2, ListArrives
  <2> QED
    BY <1>1, <2>1, <2>2 DEF Response
<1>2. CASE \/ IdentityArrives \/ RetryCollections
           \/ \E w \in Workspace : WorkspaceApply(w)
  <2>1. \E kept, atBoot : LoadCollections(ws', kept, atBoot)
    BY <1>2 DEF IdentityArrives, RetryCollections, WorkspaceApply, lists
  <2>2. waited' => \A s \in Listing : net[s].ws = ws'
    BY <1>2 DEF IdentityArrives, RetryCollections, WorkspaceApply, lists, OwnLists
  <2> QED
    BY <2>1, <2>2, OwnListIsSent
<1>3. CASE \E v \in Token : AuthSave(v)
  <2>1. PICK v \in Token : AuthSave(v)
    BY <1>3
  <2>2. CASE identity = "known" /\ AuthEnabled
    <3>1. /\ LoadCollections(ws', v, FALSE)
          /\ waited' => \A s \in Listing : net[s].ws = ws'
      BY <2>1, <2>2 DEF AuthSave, lists, OwnLists
    <3> QED
      BY <3>1, OwnListIsSent
  <2>3. CASE ~(identity = "known" /\ AuthEnabled)
    BY <2>1, <2>3, ListsUntouched DEF AuthSave, lists
  <2> QED
    BY <2>2, <2>3
<1>4. CASE ClickAsk \/ CtrlEnter \/ Retry
  <2>1. Submit
    BY <1>4 DEF ClickAsk, CtrlEnter, Retry
  <2>2. PICK s \in Slots :
          /\ net[s] = Free
          /\ net' = [net EXCEPT ![s] = [kind |-> "query", ws |-> ws,
                                        token |-> token, query |-> Submission]]
    BY <2>1 DEF Submit, SendQuery, Send
  <2>3. \A t \in Slots : net'[t] = net[t] \/ (net[t].kind # "collections"
                                              /\ net'[t].kind # "collections")
    BY <2>2 DEF IInv, Shape, Free
  <2> QED
    BY <2>1, <2>3, ListsUntouched DEF Submit, lists
<1>5. CASE \/ \E q \in Question \cup {Blank} : Type(q)
           \/ \E cid \in options.ids : Select(cid)
           \/ Clear \/ OpenTokenSettings \/ AuthToggle \/ AuthClear
           \/ LangToggle \/ IdentityFails \/ UNCHANGED vars
  <2>1. UNCHANGED <<ws, waited, options, net>>
    BY <1>5 DEF Type, Select, Clear, OpenTokenSettings, AuthToggle, AuthClear,
                LangToggle, IdentityFails, vars, lists
  <2> QED
    BY <2>1, ListsUntouched
<1>6. CASE Reload
  BY <1>6 DEF Reload, OwnLists, Listing, Free
<1> QED
  BY <1>1, <1>2, <1>3, <1>4, <1>5, <1>6 DEF Next, User

\* For a user who lets the lists of other workspaces arrive before turning to
\* the next, loadCollections leaves the selector with the active workspace and
\* with a collection selected that it has.
THEOREM SelectorFollows == Spec => []SelectorFollowsWorkspace
<1>1. Kept /\ OwnLists => SelectorFollowsWorkspace
  <2> SUFFICES ASSUME Kept, OwnLists, waited, Listing = {}
               PROVE  /\ options.ws \in {NoWs, ws}
                      /\ selected # 0 => selected \in Existing[ws]
    BY DEF SelectorFollowsWorkspace
  <2>1. options.ws \in {NoWs, ws}
    BY DEF OwnLists, NoOptions
  <2>2. ASSUME selected # 0 PROVE selected \in Existing[ws]
    <3>1. selected \in options.ids /\ options # NoOptions
      BY <2>2 DEF Kept, TypeOK, NoOptions
    <3> QED
      BY <3>1 DEF OwnLists, Kept, OptionsAreOfTheirWorkspace
  <2> QED
    BY <2>1, <2>2
<1>2. Spec => [](IInv /\ Kept /\ OwnLists)
  BY InitIInv, InitKept, InitOwnLists, NextIInv, NextKept, NextOwnLists,
     PTL DEF Spec
<1> QED
  BY <1>1, <1>2, PTL
=============================================================================
