---------------------------- MODULE GatewayProofs ----------------------------
(* Proofs about ModelGateway: no provider call without a row of its own, no *)
(* row or bill that says more than happened, for any number of requests and *)
(* whatever ids their clients send.                                         *)
(*                                                                          *)
(* The invariant ties the place a request has reached to the row under its  *)
(* id.  Two requests may have one id, so it speaks of rows a request owns;  *)
(* that a row is changed only by its owner is what makes it inductive.      *)
EXTENDS ModelGateway, CatalogueProofs

----------------------------------------------------------------------------
(* What a request is between two steps.                                     *)

Admission == {"auth", "quota", "parse", "plan", "media", "start"}
Running == {"call", "invoke", "collect", "batch", "body", "paused", "finish"}
Reporting == {"bill", "answer"}

RequestState ==
    [pc : Admission \cup Running \cup Reporting \cup {"over"}, key : ApiKey, form : Form, id : Id,
     header : Id, via : Via, cancel : BOOLEAN, gone : BOOLEAN, called : BOOLEAN,
     ended : {"no", "whole", "broken", "cancelled"}, usage : {0, 1}, status : Terminal \cup {"none"},
     got : Received, route : Route \cup {Nothing}, provider : {"none", "plugin", "http"},
     excused : BOOLEAN]

Owns(r, i) == audits[i] # Nothing /\ audits[i].by = r

\* The place of a request and the row it owns under its id.
Place(r, q) ==
    /\ q.pc \in Running => Owns(r, q.id) /\ audits[q.id].status = "started"
    /\ q.pc \in Reporting => Owns(r, q.id) /\ audits[q.id].status = q.status /\ audits[q.id].usage = q.usage
    /\ q.pc = "bill" => q.usage = 1

\* The outcome a request is about to record.
Outcome(q) ==
    q.pc \in {"finish"} \cup Reporting => q.status \in Terminal /\ (q.status = "completed" => q.ended = "whole")

\* What a request has done, and what its row and its client say of it.
Record(r, q) ==
    /\ q.called = TRUE => Owns(r, q.id)
    /\ Owns(r, q.id) /\ audits[q.id].status = "completed" => q.ended = "whole"
    /\ q.got = "all" => Owns(r, q.id) /\ audits[q.id].status = "completed"

RequestInv(r, q) == Place(r, q) /\ Outcome(q) /\ Record(r, q)

----------------------------------------------------------------------------
(* The inductive invariant.                                                 *)

GatewayType ==
    /\ audits \in [Id -> Rows \cup {Nothing}]
    /\ ledger \in [Id -> {0, 1}]
    /\ req \in [Request -> RequestState \cup {Fresh}]

RequestsKnown == \A r \in Request : req[r] # Fresh => RequestInv(r, req[r])
RowsHaveRequests == \A i \in Id : audits[i] # Nothing => req[audits[i].by] # Fresh

GatewayInv == GatewayType /\ RequestsKnown /\ RowsHaveRequests /\ BilledIsAudited

----------------------------------------------------------------------------
(* Rows and their owners.                                                   *)

\* A step of another request leaves the rows of u alone and adds none.
SameRows(u) ==
    \A i \in Id : Owns(u, i) \/ Owns(u, i)' => audits'[i] = audits[i]

LEMMA FreshIsNoRequest == Fresh \notin RequestState
  BY DEF Fresh, RequestState, Admission, Running, Reporting

\* What is known of a request stays known while its rows stay.
LEMMA RequestKept ==
  ASSUME NEW u, NEW q \in RequestState, RequestInv(u, q), SameRows(u)
  PROVE  RequestInv(u, q)'
  <1>1. q.id \in Id BY DEF RequestState
  <1>2. Owns(u, q.id)' => Owns(u, q.id) BY <1>1 DEF SameRows, Owns
  <1>3. Owns(u, q.id) => Owns(u, q.id)' /\ audits'[q.id] = audits[q.id] BY <1>1 DEF SameRows, Owns
  <1>4. Place(u, q)' BY <1>2, <1>3 DEF RequestInv, Place
  <1>5. Record(u, q)' BY <1>2, <1>3 DEF RequestInv, Record
  <1>6. Outcome(q)' BY DEF RequestInv, Outcome
  <1> QED BY <1>4, <1>5, <1>6 DEF RequestInv

\* One request steps: the others keep what is known of them.
LEMMA RequestSteps ==
  ASSUME GatewayInv, NEW r \in Request, NEW q \in RequestState, Becomes(r, q),
         audits' \in [Id -> Rows \cup {Nothing}], ledger' \in [Id -> {0, 1}],
         \A u \in Request \ {r} : SameRows(u),
         \A i \in Id : audits'[i] # Nothing => audits'[i] = audits[i] \/ audits'[i].by = r,
         BilledIsAudited', RequestInv(r, q)'
  PROVE  GatewayInv'
  <1>1. GatewayType /\ RequestsKnown /\ RowsHaveRequests BY DEF GatewayInv
  <1>2. req' = [req EXCEPT ![r] = q] /\ req \in [Request -> RequestState \cup {Fresh}]
    BY <1>1 DEF Becomes, GatewayType
  <1>3. req' \in [Request -> RequestState \cup {Fresh}] BY <1>2
  <1>4. \A u \in Request : req'[u] = IF u = r THEN q ELSE req[u] BY <1>2
  <1>5. q # Fresh BY FreshIsNoRequest
  <1>6. ASSUME NEW u \in Request, req'[u] # Fresh PROVE RequestInv(u, req[u])'
    <2>1. CASE u = r
      <3>1. req'[u] = q BY <1>4, <2>1
      <3> QED BY <2>1, <3>1
    <2>2. CASE u # r
      <3>1. PICK x : x = req[u] OBVIOUS
      <3>2. req'[u] = x BY <1>4, <2>2, <3>1
      <3>3. x \in RequestState BY <1>2, <1>6, <3>1, <3>2
      <3>4. RequestInv(u, x) BY <1>1, <1>6, <3>1, <3>2 DEF RequestsKnown
      <3>5. SameRows(u) BY <2>2
      <3>6. RequestInv(u, x)' BY <3>3, <3>4, <3>5, RequestKept
      <3> QED BY <3>2, <3>6
    <2> QED BY <2>1, <2>2
  <1>7. RequestsKnown' BY <1>6 DEF RequestsKnown
  <1>8. RowsHaveRequests'
    <2> SUFFICES ASSUME NEW i \in Id, audits'[i] # Nothing PROVE req'[audits'[i].by] # Fresh
      BY DEF RowsHaveRequests
    <2>1. audits'[i].by \in Request BY DEF Rows
    <2>2. audits'[i] = audits[i] => req[audits'[i].by] # Fresh BY <1>1 DEF RowsHaveRequests
    <2> QED BY <1>4, <1>5, <2>1, <2>2
  <1>9. GatewayType' BY <1>3 DEF GatewayType
  <1> QED BY <1>7, <1>8, <1>9 DEF GatewayInv

\* A step that writes neither a row nor a bill.
LEMMA RequestMoves ==
  ASSUME GatewayInv, NEW r \in Request, NEW q \in RequestState, Becomes(r, q),
         UNCHANGED <<audits, ledger>>, RequestInv(r, q)
  PROVE  GatewayInv'
  <1>1. \A u \in Request : SameRows(u) BY DEF SameRows
  <1>2. RequestInv(r, q)' BY <1>1, RequestKept
  <1>3. BilledIsAudited' BY DEF GatewayInv, BilledIsAudited
  <1>4. audits' \in [Id -> Rows \cup {Nothing}] /\ ledger' \in [Id -> {0, 1}] BY DEF GatewayInv, GatewayType
  <1> QED BY <1>1, <1>2, <1>3, <1>4, RequestSteps

\* A request writes a row under an id that had none.
LEMMA RowAdded ==
  ASSUME GatewayInv, NEW r \in Request, NEW q \in RequestState, Becomes(r, q),
         NEW row \in Rows, row.by = r, audits[q.id] = Nothing,
         audits' = [audits EXCEPT ![q.id] = row], UNCHANGED ledger, RequestInv(r, q)'
  PROVE  GatewayInv'
  <1>1. q.id \in Id BY DEF RequestState
  <1>2. audits \in [Id -> Rows \cup {Nothing}] /\ ledger \in [Id -> {0, 1}] /\ BilledIsAudited
    BY DEF GatewayInv, GatewayType
  <1>3. \A i \in Id : audits'[i] = IF i = q.id THEN row ELSE audits[i] BY <1>1, <1>2
  <1>4. \A u \in Request \ {r} : SameRows(u) BY <1>3 DEF SameRows, Owns
  <1>5. BilledIsAudited' BY <1>2, <1>3 DEF BilledIsAudited
  <1>6. audits' \in [Id -> Rows \cup {Nothing}] /\ ledger' \in [Id -> {0, 1}] BY <1>1, <1>2
  <1> QED BY <1>3, <1>4, <1>5, <1>6, RequestSteps

----------------------------------------------------------------------------
(* Fields of a request after a step.                                        *)

Pcs == Admission \cup Running \cup Reporting \cup {"over"}

\* n differs from q in its place at most, as far as rows are concerned.
SameRecord(q, n) ==
    /\ n \in RequestState
    /\ n.id = q.id /\ n.called = q.called /\ n.ended = q.ended /\ n.usage = q.usage
    /\ n.status = q.status /\ n.got = q.got

Ends == {"whole", "broken", "cancelled"}
Tokens == {0, 1}

\* The ways a step changes the fields of a request.
MovedTo(q, pc) == [q EXCEPT !.pc = pc]
RoutedTo(q, x, pc) == [q EXCEPT !.route = x, !.pc = pc]
ProvidedBy(q, pc, x) == [q EXCEPT !.pc = pc, !.provider = x]
CalledAt(q, pc) == [q EXCEPT !.called = TRUE, !.pc = pc]
EndedAs(q, e, u, st) == [q EXCEPT !.ended = e, !.usage = u, !.pc = "finish", !.status = st]
Receives(q, u) == [q EXCEPT !.pc = "paused", !.usage = u, !.got = "part"]
AnsweredWith(q, g) == [q EXCEPT !.pc = "over", !.got = g]

LEMMA PcChanged ==
  ASSUME NEW q \in RequestState, NEW pc \in Pcs, NEW n, n = MovedTo(q, pc)
  PROVE  SameRecord(q, n) /\ n.pc = pc
  <1>1. n \in RequestState BY DEF RequestState, MovedTo, Pcs
  <1> QED BY <1>1 DEF RequestState, MovedTo, SameRecord

LEMMA RouteChanged ==
  ASSUME NEW q \in RequestState, NEW pc \in Pcs, NEW x \in Route, NEW n,
         n = RoutedTo(q, x, pc)
  PROVE  SameRecord(q, n) /\ n.pc = pc
  <1>1. n \in RequestState BY DEF RequestState, RoutedTo, Pcs
  <1> QED BY <1>1 DEF RequestState, RoutedTo, SameRecord

LEMMA ProviderChanged ==
  ASSUME NEW q \in RequestState, NEW pc \in Pcs, NEW x \in {"plugin", "http"}, NEW n,
         n = ProvidedBy(q, pc, x)
  PROVE  SameRecord(q, n) /\ n.pc = pc
  <1>1. n \in RequestState BY DEF RequestState, ProvidedBy, Pcs
  <1> QED BY <1>1 DEF RequestState, ProvidedBy, SameRecord

LEMMA ClientLeft ==
  ASSUME NEW q \in RequestState, NEW n, n = [q EXCEPT !.gone = TRUE] \/ n = [q EXCEPT !.cancel = TRUE]
  PROVE  SameRecord(q, n) /\ n.pc = q.pc
  <1>1. n \in RequestState BY DEF RequestState
  <1> QED BY <1>1 DEF RequestState, SameRecord

LEMMA RequestEnded ==
  ASSUME NEW q \in RequestState, NEW n, n = [q EXCEPT !.pc = "over", !.excused = TRUE]
  PROVE  SameRecord(q, n) /\ n.pc = "over"
  <1>1. n \in RequestState BY DEF RequestState
  <1> QED BY <1>1 DEF RequestState, SameRecord

LEMMA GotError ==
  ASSUME NEW q \in RequestState, NEW n,
         n = [q EXCEPT !.pc = "over", !.got = "error"] \/ n = [q EXCEPT !.pc = "over", !.got = "error", !.excused = TRUE]
  PROVE  /\ n \in RequestState /\ n.pc = "over" /\ n.got = "error"
         /\ n.id = q.id /\ n.called = q.called /\ n.ended = q.ended
  <1>1. CASE n = [q EXCEPT !.pc = "over", !.got = "error"]
    <2>1. n \in RequestState BY <1>1 DEF RequestState, Received
    <2> QED BY <1>1, <2>1 DEF RequestState
  <1>2. CASE n = [q EXCEPT !.pc = "over", !.got = "error", !.excused = TRUE]
    <2>1. n \in RequestState BY <1>2 DEF RequestState, Received
    <2> QED BY <1>2, <2>1 DEF RequestState
  <1> QED BY <1>1, <1>2

LEMMA GotAnswer ==
  ASSUME NEW q \in RequestState, NEW g \in Received, NEW n, n = AnsweredWith(q, g)
  PROVE  /\ n \in RequestState /\ n.pc = "over" /\ n.got = g
         /\ n.id = q.id /\ n.called = q.called /\ n.ended = q.ended
  <1>1. n \in RequestState BY DEF RequestState, AnsweredWith
  <1> QED BY <1>1 DEF RequestState, AnsweredWith

LEMMA ProviderCalled ==
  ASSUME NEW q \in RequestState, NEW pc \in Pcs, NEW n, n = CalledAt(q, pc)
  PROVE  /\ n \in RequestState /\ n.pc = pc /\ n.id = q.id /\ n.ended = q.ended /\ n.usage = q.usage
         /\ n.status = q.status /\ n.got = q.got
  <1>1. n \in RequestState BY DEF RequestState, CalledAt, Pcs
  <1> QED BY <1>1 DEF RequestState, CalledAt

LEMMA GotPart ==
  ASSUME NEW q \in RequestState, NEW u \in {0, 1}, NEW n,
         n = Receives(q, u)
  PROVE  /\ n \in RequestState /\ n.pc = "paused" /\ n.id = q.id /\ n.called = q.called /\ n.ended = q.ended
         /\ n.got = "part"
  <1>1. n \in RequestState BY DEF RequestState, Receives, Received, Running
  <1> QED BY <1>1 DEF RequestState, Receives

LEMMA Ended ==
  ASSUME NEW q \in RequestState, NEW e \in Ends, NEW u \in Tokens,
         NEW st \in Terminal, NEW n,
         n = EndedAs(q, e, u, st)
  PROVE  /\ n \in RequestState /\ n.pc = "finish" /\ n.id = q.id /\ n.called = q.called /\ n.ended = e
         /\ n.status = st /\ n.got = q.got
  <1>1. n \in RequestState BY DEF RequestState, EndedAs, Ends, Tokens, Running
  <1> QED BY <1>1 DEF RequestState, EndedAs

LEMMA StreamClosed ==
  ASSUME NEW q \in RequestState, NEW n,
         n = [q EXCEPT !.cancel = TRUE, !.pc = "finish", !.ended = "cancelled", !.status = "cancelled"]
  PROVE  /\ n \in RequestState /\ n.pc = "finish" /\ n.id = q.id /\ n.called = q.called
         /\ n.status = "cancelled" /\ n.got = q.got
  <1>1. n \in RequestState BY DEF RequestState, Running, Terminal
  <1> QED BY <1>1 DEF RequestState

\* A request under way is one the invariant speaks of.
LEMMA UnderWay ==
  ASSUME GatewayInv, NEW r \in Request, req[r].pc # "new"
  PROVE  req[r] \in RequestState /\ RequestInv(r, req[r])
  <1>1. req[r] # Fresh BY DEF Fresh
  <1> QED BY <1>1 DEF GatewayInv, GatewayType, RequestsKnown

\* A request that keeps its record keeps what is known of it, where its new
\* place asks no more of its row than the old one.
LEMMA RecordKept ==
  ASSUME NEW r, NEW q, NEW n, RequestInv(r, q), SameRecord(q, n),
         \/ n.pc = q.pc
         \/ n.pc \in Admission \cup {"over"}
         \/ q.pc \in Running /\ n.pc \in Running \ {"finish"}
  PROVE  RequestInv(r, n)
  <1>1. Record(r, n) BY DEF RequestInv, Record, SameRecord
  <1>2. Outcome(n) BY DEF RequestInv, Outcome, SameRecord, Admission, Running, Reporting
  <1>3. Place(r, n) BY DEF RequestInv, Place, SameRecord, Admission, Running, Reporting
  <1> QED BY <1>1, <1>2, <1>3 DEF RequestInv

----------------------------------------------------------------------------
(* Admission.                                                               *)

LEMMA ArriveStep ==
  ASSUME GatewayInv, NEW r \in Request, NEW a \in ApiKey, NEW form \in Form, NEW via \in Via,
         NEW h \in Header \cup {Nothing}, Arrive(r, a, form, via, h)
  PROVE  GatewayInv'
  <1>1. RequestId(r, via, form, h) \in Id /\ ResponseId(r, via, h) \in Id
    BY DEF RequestId, ResponseId, Minted, Id
  <1>2. PICK i, j : i = RequestId(r, via, form, h) /\ j = ResponseId(r, via, h) OBVIOUS
  <1>3. PICK q : q = [pc |-> "auth", key |-> a, form |-> form, id |-> i,
                      header |-> j, via |-> via, cancel |-> FALSE, gone |-> FALSE,
                      called |-> FALSE, ended |-> "no", usage |-> 0, status |-> "none", got |-> "nothing",
                      route |-> Nothing, provider |-> "none", excused |-> FALSE]
    OBVIOUS
  <1>4. Becomes(r, q) /\ UNCHANGED <<audits, ledger>> /\ req[r] = Fresh BY <1>2, <1>3 DEF Arrive
  <1>5. i \in Id /\ j \in Id BY <1>1, <1>2
  <1>6. q \in RequestState BY <1>3, <1>5 DEF RequestState, Admission, Received
  <1>7. q.pc = "auth" /\ q.id = i /\ q.called = FALSE /\ q.got = "nothing" BY <1>3
  <1>8. ~Owns(r, i) BY <1>4, <1>5 DEF GatewayInv, RowsHaveRequests, Owns
  <1>9. RequestInv(r, q)
    BY <1>7, <1>8 DEF RequestInv, Place, Outcome, Record, Running, Reporting
  <1> QED BY <1>4, <1>6, <1>9, RequestMoves

\* A request that is refused before its row was written, recorded or not.
LEMMA RefuseStep ==
  ASSUME GatewayInv, NEW r \in Request, NEW st \in {"rejected", "cancelled"},
         req[r].pc \in Admission, Refuse(r, st), UNCHANGED ledger
  PROVE  GatewayInv'
  <1>1. req[r] \in RequestState /\ RequestInv(r, req[r]) BY UnderWay DEF Admission
  <1>2. PICK n : n = [req[r] EXCEPT !.pc = "over", !.got = "error"] OBVIOUS
  <1>3. /\ n \in RequestState /\ n.pc = "over" /\ n.got = "error"
        /\ n.id = req[r].id /\ n.called = req[r].called /\ n.ended = req[r].ended
    BY <1>1, <1>2, GotError
  <1>4. Becomes(r, n) BY <1>2 DEF Refuse, AnswerError
  <1>5. CASE UNCHANGED audits
    <2>1. RequestInv(r, n)
      BY <1>1, <1>3 DEF RequestInv, Place, Outcome, Record, Running, Reporting
    <2> QED BY <1>3, <1>4, <1>5, <2>1, RequestMoves
  <1>6. CASE audits[n.id] = Nothing /\ RecordRejection(req[r].id, r, st)
    <2>1. PICK row : row = [status |-> st, by |-> r, usage |-> 0] OBVIOUS
    <2>2. row \in Rows /\ row.by = r /\ row.status # "completed" BY <2>1 DEF Rows, Terminal
    <2>3. audits' = [audits EXCEPT ![n.id] = row] BY <1>3, <1>6, <2>1 DEF RecordRejection
    <2>4. audits'[n.id] = row /\ row # Nothing
      BY <1>3, <2>2, <2>3, RowsAssumption DEF GatewayInv, GatewayType, RequestState
    <2>5. RequestInv(r, n)'
      BY <1>3, <2>2, <2>4 DEF RequestInv, Place, Outcome, Record, Running, Reporting, Owns
    <2> QED BY <1>3, <1>4, <1>6, <2>2, <2>3, <2>5, RowAdded
  <1>7. CASE audits[n.id] # Nothing /\ RecordRejection(req[r].id, r, st)
    <2>1. audits' = [audits EXCEPT ![n.id] = audits[n.id]] BY <1>3, <1>7 DEF RecordRejection
    <2>2. UNCHANGED audits BY <2>1 DEF GatewayInv, GatewayType
    <2> QED BY <1>5, <2>2
  <1> QED BY <1>5, <1>6, <1>7 DEF Refuse

\* Admission goes on.
LEMMA AdmissionMoves ==
  ASSUME GatewayInv, NEW r \in Request, req[r].pc \in Admission, NEW pc \in Admission, Goto(r, pc),
         UNCHANGED <<audits, ledger>>
  PROVE  GatewayInv'
  <1>1. req[r] \in RequestState /\ RequestInv(r, req[r]) BY UnderWay DEF Admission
  <1>2. PICK n : n = MovedTo(req[r], pc) OBVIOUS
  <1>3. pc \in Pcs BY DEF Pcs
  <1>4. SameRecord(req[r], n) /\ n.pc = pc BY <1>1, <1>2, <1>3, PcChanged
  <1>5. RequestInv(r, n) BY <1>1, <1>4, RecordKept
  <1> QED BY <1>2, <1>4, <1>5, RequestMoves DEF Goto, MovedTo, SameRecord

LEMMA AuthenticateStep ==
  ASSUME GatewayInv, NEW r \in Request, Authenticate(r)
  PROVE  GatewayInv'
  <1>1. req[r].pc \in Admission BY DEF Authenticate, Admission
  <1>2. CASE Goto(r, "quota") /\ UNCHANGED <<audits, ledger>>
    BY <1>1, <1>2, AdmissionMoves DEF Admission
  <1>3. CASE Refuse(r, "rejected") /\ UNCHANGED ledger BY <1>1, <1>3, RefuseStep
  <1> QED BY <1>2, <1>3 DEF Authenticate

LEMMA CheckQuotaStep ==
  ASSUME GatewayInv, NEW r \in Request, CheckQuota(r)
  PROVE  GatewayInv'
  <1>1. req[r].pc \in Admission BY DEF CheckQuota, Admission
  <1>2. CASE Goto(r, "parse") /\ UNCHANGED <<audits, ledger>>
    BY <1>1, <1>2, AdmissionMoves DEF Admission
  <1>3. CASE Refuse(r, "rejected") /\ UNCHANGED ledger BY <1>1, <1>3, RefuseStep
  <1> QED BY <1>2, <1>3 DEF CheckQuota

LEMMA ParseStep ==
  ASSUME GatewayInv, NEW r \in Request, Parse(r)
  PROVE  GatewayInv'
  <1>1. req[r].pc \in Admission BY DEF Parse, Admission
  <1>2. CASE Goto(r, "plan") /\ UNCHANGED <<audits, ledger>>
    BY <1>1, <1>2, AdmissionMoves DEF Admission
  <1>3. CASE (Refuse(r, "rejected") \/ Refuse(r, "cancelled")) /\ UNCHANGED ledger
    BY <1>1, <1>3, RefuseStep
  <1> QED BY <1>2, <1>3 DEF Parse

LEMMA PlanRoutesStep ==
  ASSUME GatewayInv, NEW r \in Request, PlanRoutes(r)
  PROVE  GatewayInv'
  <1>1. req[r].pc \in Admission /\ UNCHANGED ledger BY DEF PlanRoutes, Admission
  <1>2. CASE Refuse(r, "rejected") BY <1>1, <1>2, RefuseStep
  <1>3. ASSUME NEW x \in Planned(r), NEW pc \in {"start", "media"}, UNCHANGED audits,
               Becomes(r, [req[r] EXCEPT !.route = x, !.pc = pc])
        PROVE  GatewayInv'
    <2>1. req[r] \in RequestState /\ RequestInv(r, req[r]) BY <1>1, UnderWay DEF Admission
    <2>2. PICK n : n = RoutedTo(req[r], x, pc) OBVIOUS
    <2>3. x \in Route /\ pc \in Pcs BY DEF Planned, Pcs, Admission
    <2>4. SameRecord(req[r], n) /\ n.pc = pc BY <2>1, <2>2, <2>3, RouteChanged
    <2>5. RequestInv(r, n) BY <2>1, <2>4, RecordKept DEF Admission
    <2> QED BY <1>1, <1>3, <2>2, <2>4, <2>5, RequestMoves DEF RoutedTo, SameRecord
  <1> QED BY <1>2, <1>3 DEF PlanRoutes

LEMMA ResolveMediaStep ==
  ASSUME GatewayInv, NEW r \in Request, ResolveMedia(r)
  PROVE  GatewayInv'
  <1>1. req[r].pc \in Admission BY DEF ResolveMedia, Admission
  <1>2. CASE Goto(r, "start") /\ UNCHANGED <<audits, ledger>>
    BY <1>1, <1>2, AdmissionMoves DEF Admission
  <1>3. CASE (Refuse(r, "rejected") \/ Refuse(r, "cancelled")) /\ UNCHANGED ledger
    BY <1>1, <1>3, RefuseStep
  <1> QED BY <1>2, <1>3 DEF ResolveMedia

\* A request that ends with an error and without a row of its own doing.
LEMMA ErrorStep ==
  ASSUME GatewayInv, NEW r \in Request, req[r].pc # "new", NEW n \in RequestState, Becomes(r, n),
         n.pc = "over", n.got = "error",
         n.id = req[r].id, n.called = req[r].called, n.ended = req[r].ended,
         UNCHANGED <<audits, ledger>>
  PROVE  GatewayInv'
  <1>1. RequestInv(r, req[r]) BY UnderWay
  <1>2. RequestInv(r, n) BY <1>1 DEF RequestInv, Place, Outcome, Record, Running, Reporting
  <1> QED BY <1>2, RequestMoves

\* The row is written before anything is called.
LEMMA ObserveStartedStep ==
  ASSUME GatewayInv, NEW r \in Request, ObserveStarted(r)
  PROVE  GatewayInv'
  <1>1. req[r].pc \in Admission /\ UNCHANGED ledger BY DEF ObserveStarted, Admission
  <1>2. req[r] \in RequestState /\ RequestInv(r, req[r]) BY <1>1, UnderWay DEF Admission
  <1>3. CASE Refuse(r, "cancelled") BY <1>1, <1>3, RefuseStep
  <1>4. CASE AnswerError(r) /\ UNCHANGED audits
    <2>1. PICK n : n = [req[r] EXCEPT !.pc = "over", !.got = "error"] OBVIOUS
    <2> QED BY <1>1, <1>2, <1>4, <2>1, GotError, ErrorStep DEF AnswerError, Admission
  <1>5. CASE BeginRequest(req[r].id, r) /\ Goto(r, "call")
    <2>1. PICK n : n = MovedTo(req[r], "call") OBVIOUS
    <2>2. SameRecord(req[r], n) /\ n.pc = "call" BY <1>2, <2>1, PcChanged DEF Pcs, Running
    <2>3. PICK row : row = [status |-> "started", by |-> r, usage |-> 0] OBVIOUS
    <2>4. row \in Rows /\ row.by = r /\ row.status = "started" BY <2>3 DEF Rows
    <2>5. audits[n.id] = Nothing /\ audits' = [audits EXCEPT ![n.id] = row]
      BY <1>5, <2>2, <2>3 DEF BeginRequest, SameRecord
    <2>6. audits'[n.id] = row /\ row # Nothing
      BY <2>2, <2>4, <2>5, RowsAssumption DEF GatewayInv, GatewayType, RequestState, SameRecord
    <2>7. n.got # "all" BY <1>2, <2>2, <2>5 DEF SameRecord, RequestInv, Record, Owns
    <2>8. RequestInv(r, n)'
      BY <2>2, <2>4, <2>6, <2>7 DEF RequestInv, Place, Outcome, Record, Running, Reporting, Owns
    <2> QED BY <1>1, <1>5, <2>1, <2>2, <2>4, <2>5, <2>8, RowAdded DEF Goto, MovedTo, SameRecord
  <1> QED BY <1>3, <1>4, <1>5 DEF ObserveStarted

----------------------------------------------------------------------------
(* The provider and the stream.                                             *)

\* A request at a provider, before its outcome is known.
AtProvider == Running \ {"finish"}

LEMMA EndStep ==
  ASSUME GatewayInv, NEW r \in Request, req[r].pc \in AtProvider,
         NEW e \in {"whole", "broken", "cancelled"}, NEW u \in {0, 1}, End(r, e, u),
         UNCHANGED <<audits, ledger>>
  PROVE  GatewayInv'
  <1>1. req[r] \in RequestState /\ RequestInv(r, req[r]) BY UnderWay DEF AtProvider, Running
  <1>2. PICK st : st = IF e = "whole" THEN "completed"
                       ELSE IF e = "cancelled" \/ req[r].cancel THEN "cancelled" ELSE "failed"
    OBVIOUS
  <1>3. st \in Terminal /\ (st = "completed" => e = "whole") BY <1>2 DEF Terminal
  <1>4. PICK n : n = EndedAs(req[r], e, u, st) OBVIOUS
  <1>5. Becomes(r, n) BY <1>2, <1>4 DEF End, EndedAs
  <1>6. /\ n \in RequestState /\ n.pc = "finish" /\ n.id = req[r].id /\ n.called = req[r].called /\ n.ended = e
        /\ n.status = st /\ n.got = req[r].got
    <2>1. e \in Ends /\ u \in Tokens BY DEF Ends, Tokens
    <2> QED BY <1>1, <1>3, <1>4, <2>1, Ended
  <1>7. Owns(r, n.id) /\ audits[n.id].status = "started"
    BY <1>1, <1>6 DEF RequestInv, Place, AtProvider
  <1>8. n.got # "all" BY <1>1, <1>6, <1>7 DEF RequestInv, Record
  <1>9. RequestInv(r, n)
    BY <1>3, <1>6, <1>7, <1>8 DEF RequestInv, Place, Outcome, Record, Running, Reporting
  <1> QED BY <1>5, <1>6, <1>9, RequestMoves

LEMMA ProviderMoves ==
  ASSUME GatewayInv, NEW r \in Request, req[r].pc \in AtProvider, NEW n, Becomes(r, n),
         SameRecord(req[r], n), n.pc \in AtProvider, UNCHANGED <<audits, ledger>>
  PROVE  GatewayInv'
  <1>1. RequestInv(r, req[r]) BY UnderWay DEF AtProvider, Running
  <1>2. RequestInv(r, n) BY <1>1, RecordKept DEF AtProvider
  <1> QED BY <1>2, RequestMoves DEF SameRecord

LEMMA ResolveStep ==
  ASSUME GatewayInv, NEW r \in Request, ResolveOperatorBinding(r) \/ ResolveRouteSource(r)
  PROVE  GatewayInv'
  <1>1. req[r].pc \in AtProvider /\ UNCHANGED <<audits, ledger>>
    BY DEF ResolveOperatorBinding, ResolveRouteSource, AtProvider, Running
  <1>2. CASE End(r, "broken", 0) BY <1>1, <1>2, EndStep
  <1>3. ASSUME NEW x \in {"plugin", "http"}, Becomes(r, [req[r] EXCEPT !.pc = "invoke", !.provider = x])
        PROVE  GatewayInv'
    <2>1. req[r] \in RequestState BY <1>1, UnderWay DEF AtProvider, Running
    <2>2. PICK n : n = ProvidedBy(req[r], "invoke", x) OBVIOUS
    <2>3. SameRecord(req[r], n) /\ n.pc = "invoke" BY <2>1, <2>2, ProviderChanged DEF Pcs, Running
    <2> QED BY <1>1, <1>3, <2>2, <2>3, ProviderMoves DEF ProvidedBy, AtProvider, Running
  <1> QED BY <1>2, <1>3 DEF ResolveOperatorBinding, ResolveRouteSource

LEMMA AdapterRefusesStep ==
  ASSUME GatewayInv, NEW r \in Request, AdapterRefuses(r)
  PROVE  GatewayInv'
  BY EndStep DEF AdapterRefuses, AtProvider, Running

\* The provider is called: the row is the request's own by now.
LEMMA CalledStep ==
  ASSUME GatewayInv, NEW r \in Request, FirstChunk(r) \/ CallEmbeddings(r)
  PROVE  GatewayInv'
  <1>1. req[r].pc \in AtProvider /\ UNCHANGED <<audits, ledger>>
    BY DEF FirstChunk, CallEmbeddings, AtProvider, Running
  <1>2. req[r] \in RequestState /\ RequestInv(r, req[r]) BY <1>1, UnderWay DEF AtProvider, Running
  <1>3. PICK pc \in {"body", "collect", "batch"} : Becomes(r, [req[r] EXCEPT !.called = TRUE, !.pc = pc])
    BY DEF FirstChunk, CallEmbeddings
  <1>4. PICK n : n = CalledAt(req[r], pc) OBVIOUS
  <1>5. pc \in Pcs /\ pc \in Running BY DEF Pcs, Running
  <1>6. /\ n \in RequestState /\ n.pc = pc /\ n.id = req[r].id /\ n.ended = req[r].ended
        /\ n.status = req[r].status /\ n.got = req[r].got
    BY <1>2, <1>4, <1>5, ProviderCalled
  <1>7. Owns(r, n.id) /\ audits[n.id].status = "started"
    BY <1>1, <1>2, <1>6 DEF RequestInv, Place, AtProvider
  <1>8. n.got # "all" BY <1>2, <1>6, <1>7 DEF RequestInv, Record
  <1>9. RequestInv(r, n)
    BY <1>5, <1>6, <1>7, <1>8 DEF RequestInv, Place, Outcome, Record, Running, Reporting
  <1> QED BY <1>1, <1>3, <1>4, <1>6, <1>9, RequestMoves DEF CalledAt

LEMMA CollectStep ==
  ASSUME GatewayInv, NEW r \in Request, CollectResponse(r) \/ EmbeddingsReturn(r)
  PROVE  GatewayInv'
  <1>1. req[r].pc \in AtProvider /\ UNCHANGED <<audits, ledger>>
    BY DEF CollectResponse, EmbeddingsReturn, AtProvider, Running
  <1>2. \E e \in {"whole", "broken", "cancelled"}, u \in {0, 1} : End(r, e, u)
    BY DEF CollectResponse, EmbeddingsReturn, AdapterEnds, PluginEnds, HttpEnds
  <1> QED BY <1>1, <1>2, EndStep

LEMMA StreamNextStep ==
  ASSUME GatewayInv, NEW r \in Request, StreamNext(r)
  PROVE  GatewayInv'
  <1>1. req[r].pc \in AtProvider /\ UNCHANGED <<audits, ledger>> BY DEF StreamNext, AtProvider, Running
  <1>2. req[r] \in RequestState /\ RequestInv(r, req[r]) BY <1>1, UnderWay DEF AtProvider, Running
  <1>3. req[r].usage \in {0, 1} BY <1>2 DEF RequestState
  <1>4. CASE \E e \in {"whole", "broken", "cancelled"} : End(r, e, req[r].usage)
    BY <1>1, <1>3, <1>4, EndStep
  <1>5. ASSUME NEW u \in {0, 1}, Becomes(r, [req[r] EXCEPT !.pc = "paused", !.usage = u, !.got = "part"])
        PROVE  GatewayInv'
    <2>1. PICK n : n = Receives(req[r], u) OBVIOUS
    <2>2. /\ n \in RequestState /\ n.pc = "paused" /\ n.id = req[r].id /\ n.called = req[r].called
          /\ n.ended = req[r].ended /\ n.got = "part"
      BY <1>2, <2>1, GotPart
    <2>3. Owns(r, n.id) /\ audits[n.id].status = "started"
      BY <1>1, <1>2, <2>2 DEF RequestInv, Place, AtProvider
    <2>4. RequestInv(r, n)
      BY <2>2, <2>3 DEF RequestInv, Place, Outcome, Record, Running, Reporting
    <2> QED BY <1>1, <1>5, <2>1, <2>2, <2>4, RequestMoves DEF Receives
  <1> QED BY <1>3, <1>4, <1>5 DEF StreamNext, AdapterEnds, PluginEnds, HttpEnds

LEMMA CloseStreamStep ==
  ASSUME GatewayInv, NEW r \in Request, CloseStream(r)
  PROVE  GatewayInv'
  <1>1. req[r].pc \in AtProvider /\ UNCHANGED <<audits, ledger>> BY DEF CloseStream, AtProvider, Running
  <1>2. req[r] \in RequestState /\ RequestInv(r, req[r]) BY <1>1, UnderWay DEF AtProvider, Running
  <1>3. PICK n : n = [req[r] EXCEPT !.cancel = TRUE, !.pc = "finish", !.ended = "cancelled", !.status = "cancelled"]
    OBVIOUS
  <1>4. /\ n \in RequestState /\ n.pc = "finish" /\ n.id = req[r].id /\ n.called = req[r].called
        /\ n.status = "cancelled" /\ n.got = req[r].got
    BY <1>2, <1>3, StreamClosed
  <1>5. Owns(r, n.id) /\ audits[n.id].status = "started"
    BY <1>1, <1>2, <1>4 DEF RequestInv, Place, AtProvider
  <1>6. n.got # "all" BY <1>2, <1>4, <1>5 DEF RequestInv, Record
  <1>7. RequestInv(r, n)
    BY <1>4, <1>5, <1>6 DEF RequestInv, Place, Outcome, Record, Running, Reporting, Terminal
  <1> QED BY <1>1, <1>3, <1>4, <1>7, RequestMoves DEF CloseStream

LEMMA AbandonStreamStep ==
  ASSUME GatewayInv, NEW r \in Request, AbandonStream(r)
  PROVE  GatewayInv'
  <1>1. req[r].pc # "new" /\ UNCHANGED <<audits, ledger>> BY DEF AbandonStream
  <1>2. req[r] \in RequestState /\ RequestInv(r, req[r]) BY <1>1, UnderWay
  <1>3. PICK n : n = [req[r] EXCEPT !.pc = "over", !.excused = TRUE] OBVIOUS
  <1>4. SameRecord(req[r], n) /\ n.pc = "over" BY <1>2, <1>3, RequestEnded
  <1>5. RequestInv(r, n) BY <1>2, <1>4, RecordKept
  <1> QED BY <1>1, <1>3, <1>4, <1>5, RequestMoves DEF AbandonStream, SameRecord

LEMMA ClientStep ==
  ASSUME GatewayInv, NEW r \in Request, Disconnect(r) \/ WatchDisconnect(r)
  PROVE  GatewayInv'
  <1>1. req[r].pc # "new" /\ UNCHANGED <<audits, ledger>> BY DEF Disconnect, WatchDisconnect
  <1>2. req[r] \in RequestState /\ RequestInv(r, req[r]) BY <1>1, UnderWay
  <1>3. PICK n : /\ Becomes(r, n)
                 /\ n = [req[r] EXCEPT !.gone = TRUE] \/ n = [req[r] EXCEPT !.cancel = TRUE]
    BY DEF Disconnect, WatchDisconnect
  <1>4. SameRecord(req[r], n) /\ n.pc = req[r].pc BY <1>2, <1>3, ClientLeft
  <1>5. RequestInv(r, n) BY <1>2, <1>4, RecordKept
  <1> QED BY <1>1, <1>3, <1>4, <1>5, RequestMoves DEF SameRecord

----------------------------------------------------------------------------
(* The terminal outcome, the process, and the control plane beside them.    *)

\* The owner of a started row ends it.
LEMMA ObserveFinishedStep ==
  ASSUME GatewayInv, NEW r \in Request, ObserveFinished(r)
  PROVE  GatewayInv'
  <1>1. req[r].pc = "finish" /\ UNCHANGED ledger BY DEF ObserveFinished
  <1>2. req[r] \in RequestState /\ RequestInv(r, req[r]) BY <1>1, UnderWay
  <1>3. CASE Becomes(r, [req[r] EXCEPT !.pc = "over", !.got = "error", !.excused = TRUE]) /\ UNCHANGED audits
    <2>1. PICK n : n = [req[r] EXCEPT !.pc = "over", !.got = "error", !.excused = TRUE] OBVIOUS
    <2> QED BY <1>1, <1>2, <1>3, <2>1, GotError, ErrorStep
  <1>4. CASE /\ FinishRequest(req[r].id, req[r].status, req[r].usage)
             /\ Goto(r, IF Billed /\ req[r].usage > 0 THEN "bill" ELSE "answer")
    <2>1. PICK pc : pc = IF Billed /\ req[r].usage > 0 THEN "bill" ELSE "answer" OBVIOUS
    <2>2. PICK n : n = MovedTo(req[r], pc) OBVIOUS
    <2>3. pc \in Reporting /\ pc \in Pcs BY <2>1 DEF Reporting, Pcs
    <2>4. SameRecord(req[r], n) /\ n.pc = pc BY <1>2, <2>2, <2>3, PcChanged
    <2>5. Becomes(r, n) BY <1>4, <2>1, <2>2 DEF Goto, MovedTo
    <2>6. n \in RequestState /\ n.id \in Id /\ n.usage \in {0, 1} BY <2>4 DEF SameRecord, RequestState
    <2>7. n.pc = "bill" => n.usage = 1 BY <2>1, <2>4, <2>6 DEF SameRecord
    <2>8. Owns(r, n.id) /\ audits[n.id].status = "started"
      BY <1>1, <1>2, <2>4 DEF RequestInv, Place, Running, SameRecord
    <2>9. n.status \in Terminal /\ (n.status = "completed" => n.ended = "whole")
      BY <1>1, <1>2, <2>4 DEF RequestInv, Outcome, SameRecord
    <2>10. PICK row : row = [audits[n.id] EXCEPT !.status = n.status, !.usage = n.usage] OBVIOUS
    <2>11. audits \in [Id -> Rows \cup {Nothing}] /\ ledger \in [Id -> {0, 1}] /\ BilledIsAudited
      BY DEF GatewayInv, GatewayType
    <2>12. audits[n.id] \in Rows BY <2>6, <2>8, <2>11 DEF Owns
    <2>13. row \in Rows /\ row.by = r /\ row.status = n.status /\ row.usage = n.usage
      BY <2>6, <2>8, <2>9, <2>10, <2>12 DEF Rows, Owns
    <2>14. audits' = [audits EXCEPT ![n.id] = row]
      BY <1>4, <2>4, <2>8, <2>10 DEF FinishRequest, SameRecord
    <2>15. \A i \in Id : audits'[i] = IF i = n.id THEN row ELSE audits[i] BY <2>11, <2>14
    <2>16. row # Nothing BY <2>13, RowsAssumption
    <2>17. \A u \in Request \ {r} : SameRows(u) BY <2>8, <2>13, <2>15 DEF SameRows, Owns
    <2>18. BilledIsAudited'
      <3>1. ~(ledger[n.id] > 0) BY <2>6, <2>8, <2>11 DEF BilledIsAudited, Terminal
      <3> QED BY <1>1, <2>11, <2>15, <3>1 DEF BilledIsAudited
    <2>19. audits' \in [Id -> Rows \cup {Nothing}] /\ ledger' \in [Id -> {0, 1}]
      BY <1>1, <2>6, <2>11, <2>13, <2>14
    <2>20. audits'[n.id] = row BY <2>6, <2>15
    <2>21. n.got = "all" => FALSE BY <1>2, <2>4, <2>8 DEF RequestInv, Record, SameRecord
    <2>22. Place(r, n)'
      BY <2>3, <2>4, <2>7, <2>13, <2>16, <2>20 DEF Place, Running, Reporting, Owns
    <2>23. Outcome(n)' BY <2>9 DEF Outcome
    <2>24. Record(r, n)' BY <2>9, <2>13, <2>16, <2>20, <2>21 DEF Record, Owns
    <2>25. RequestInv(r, n)' BY <2>22, <2>23, <2>24 DEF RequestInv
    <2>26. \A i \in Id : audits'[i] # Nothing => audits'[i] = audits[i] \/ audits'[i].by = r
      BY <2>13, <2>15
    <2> QED BY <2>5, <2>6, <2>17, <2>18, <2>19, <2>25, <2>26, RequestSteps
  <1> QED BY <1>3, <1>4 DEF ObserveFinished

\* The event that is billed is one of a row that has ended with its token.
LEMMA RecordTokenUsageStep ==
  ASSUME GatewayInv, NEW r \in Request, RecordTokenUsage(r)
  PROVE  GatewayInv'
  <1>1. req[r].pc = "bill" /\ UNCHANGED audits BY DEF RecordTokenUsage
  <1>2. req[r] \in RequestState /\ RequestInv(r, req[r]) BY <1>1, UnderWay
  <1>3. req[r].id \in Id BY <1>2 DEF RequestState
  <1>4. audits \in [Id -> Rows \cup {Nothing}] /\ ledger \in [Id -> {0, 1}] /\ BilledIsAudited
    BY DEF GatewayInv, GatewayType
  <1>5. /\ Owns(r, req[r].id) /\ audits[req[r].id].status \in Terminal /\ audits[req[r].id].usage = 1
        /\ audits[req[r].id].status = req[r].status
    BY <1>1, <1>2 DEF RequestInv, Place, Outcome, Reporting
  <1>6. UNCHANGED ledger \/ ledger' = [ledger EXCEPT ![req[r].id] = 1] BY DEF RecordTokenUsage
  <1>7. BilledIsAudited'
    <2>1. \A i \in Id : ledger'[i] = ledger[i] \/ (i = req[r].id /\ ledger'[i] = 1) BY <1>4, <1>6
    <2> QED BY <1>1, <1>4, <1>5, <2>1 DEF BilledIsAudited, Owns
  <1>8. ledger' \in [Id -> {0, 1}] /\ audits' \in [Id -> Rows \cup {Nothing}] BY <1>1, <1>3, <1>4, <1>6
  <1>9. \A u \in Request : SameRows(u) BY <1>1 DEF SameRows
  <1>10. PICK n : Becomes(r, n) /\ n \in RequestState /\ RequestInv(r, n)
    <2>1. CASE Goto(r, "answer")
      <3>1. PICK n : n = MovedTo(req[r], "answer") OBVIOUS
      <3>2. SameRecord(req[r], n) /\ n.pc = "answer" BY <1>2, <3>1, PcChanged DEF Pcs, Reporting
      <3>3. Becomes(r, n) BY <2>1, <3>1 DEF Goto, MovedTo
      <3>4. RequestInv(r, n)
        <4>1. Place(r, n) BY <1>1, <1>2, <3>2 DEF RequestInv, Place, SameRecord, Running, Reporting
        <4>2. Outcome(n) BY <1>1, <1>2, <3>2 DEF RequestInv, Outcome, SameRecord, Reporting
        <4>3. Record(r, n) BY <1>2, <3>2 DEF RequestInv, Record, SameRecord
        <4> QED BY <4>1, <4>2, <4>3 DEF RequestInv
      <3> QED BY <3>2, <3>3, <3>4 DEF SameRecord
    <2>2. CASE AnswerError(r)
      <3>1. PICK n : n = [req[r] EXCEPT !.pc = "over", !.got = "error"] OBVIOUS
      <3>2. /\ n \in RequestState /\ n.pc = "over" /\ n.got = "error"
            /\ n.id = req[r].id /\ n.called = req[r].called /\ n.ended = req[r].ended
        BY <1>2, <3>1, GotError
      <3>3. RequestInv(r, n)
        BY <1>2, <3>2 DEF RequestInv, Place, Outcome, Record, Running, Reporting
      <3> QED BY <2>2, <3>1, <3>2, <3>3 DEF AnswerError
    <2> QED BY <2>1, <2>2 DEF RecordTokenUsage
  <1>11. RequestInv(r, n)' BY <1>9, <1>10, RequestKept
  <1> QED BY <1>1, <1>7, <1>8, <1>9, <1>10, <1>11, RequestSteps

LEMMA AnswersStep ==
  ASSUME GatewayInv, NEW r \in Request, Answers(r)
  PROVE  GatewayInv'
  <1>1. req[r].pc = "answer" /\ UNCHANGED <<audits, ledger>> BY DEF Answers
  <1>2. req[r] \in RequestState /\ RequestInv(r, req[r]) BY <1>1, UnderWay
  <1>3. PICK g : g = IF req[r].status = "completed" THEN "all" ELSE "error" OBVIOUS
  <1>4. PICK n : n = AnsweredWith(req[r], g) OBVIOUS
  <1>5. g \in Received BY <1>3 DEF Received
  <1>6. /\ n \in RequestState /\ n.pc = "over" /\ n.got = g
        /\ n.id = req[r].id /\ n.called = req[r].called /\ n.ended = req[r].ended
    BY <1>2, <1>4, <1>5, GotAnswer
  <1>7. Becomes(r, n) BY <1>3, <1>4 DEF Answers, AnsweredWith
  <1>8. Owns(r, n.id) /\ audits[n.id].status = req[r].status
    BY <1>1, <1>2, <1>6 DEF RequestInv, Place, Reporting
  <1>9. RequestInv(r, n)
    BY <1>2, <1>3, <1>6, <1>8 DEF RequestInv, Place, Outcome, Record, Running, Reporting
  <1> QED BY <1>1, <1>6, <1>7, <1>9, RequestMoves

\* A process that ends takes its requests out of every place.
LEMMA RequestsEndStep ==
  ASSUME GatewayInv, RequestsEnd, UNCHANGED <<audits, ledger>>
  PROVE  GatewayInv'
  <1>1. GatewayType /\ RequestsKnown /\ RowsHaveRequests BY DEF GatewayInv
  <1>2. ASSUME NEW u \in Request
        PROVE  /\ req'[u] \in RequestState \cup {Fresh}
               /\ req[u] # Fresh => req'[u] # Fresh
               /\ req'[u] # Fresh => RequestInv(u, req[u])'
    <2>1. CASE req[u].pc \in {"new", "over"}
      <3>1. PICK x : x = req[u] OBVIOUS
      <3>2. req'[u] = x BY <2>1, <3>1 DEF RequestsEnd
      <3>3. x \in RequestState \cup {Fresh} BY <1>1, <3>1 DEF GatewayType
      <3>4. SameRows(u) BY DEF SameRows
      <3>5. x # Fresh => RequestInv(u, x) BY <1>1, <3>1 DEF RequestsKnown
      <3>6. x # Fresh => RequestInv(u, x)' BY <3>3, <3>4, <3>5, RequestKept
      <3> QED BY <3>1, <3>2, <3>3, <3>6
    <2>2. CASE req[u].pc \notin {"new", "over"}
      <3>1. req[u] \in RequestState /\ RequestInv(u, req[u]) BY <2>2, UnderWay
      <3>2. PICK n : n = [req[u] EXCEPT !.pc = "over", !.excused = TRUE] OBVIOUS
      <3>3. SameRecord(req[u], n) /\ n.pc = "over" BY <3>1, <3>2, RequestEnded
      <3>4. req'[u] = n BY <2>2, <3>2 DEF RequestsEnd
      <3>5. RequestInv(u, n) /\ n \in RequestState BY <3>1, <3>3, RecordKept DEF SameRecord
      <3>6. SameRows(u) BY DEF SameRows
      <3>7. RequestInv(u, n)' BY <3>5, <3>6, RequestKept
      <3> QED BY <3>4, <3>5, <3>7, FreshIsNoRequest
    <2> QED BY <2>1, <2>2
  <1>3. req' \in [Request -> RequestState \cup {Fresh}] BY <1>2 DEF RequestsEnd
  <1>4. GatewayType' BY <1>1, <1>3 DEF GatewayType
  <1>5. RequestsKnown' BY <1>2 DEF RequestsKnown
  <1>6. RowsHaveRequests'
    <2>1. \A i \in Id : audits[i] # Nothing => audits[i].by \in Request BY <1>1 DEF GatewayType, Rows
    <2> QED BY <1>1, <1>2, <2>1 DEF RowsHaveRequests
  <1>7. BilledIsAudited' BY DEF GatewayInv, BilledIsAudited
  <1> QED BY <1>4, <1>5, <1>6, <1>7 DEF GatewayInv

\* The control plane writes none of the gateway's tables.
LEMMA GatewayStutter ==
  ASSUME GatewayInv, UNCHANGED gatewayVars
  PROVE  GatewayInv'
  BY DEF GatewayInv, GatewayType, RequestsKnown, RowsHaveRequests, BilledIsAudited, RequestInv, Place,
         Outcome, Record, Owns, gatewayVars

LEMMA ServerStep ==
  ASSUME GatewayInv, ServerNext
  PROVE  GatewayInv'
  <1>1. ASSUME NEW r \in Request, NEW a \in ApiKey, NEW form \in Form, NEW via \in Via,
               NEW h \in Header \cup {Nothing}, Arrive(r, a, form, via, h)
        PROVE  GatewayInv'
    BY <1>1, ArriveStep
  <1>2. ASSUME NEW r \in Request, Handle(r) PROVE GatewayInv'
    BY <1>2, AuthenticateStep, CheckQuotaStep, ParseStep, PlanRoutesStep, ResolveMediaStep,
       ObserveStartedStep, ResolveStep, AdapterRefusesStep, CalledStep, CollectStep, StreamNextStep,
       CloseStreamStep, AbandonStreamStep, ObserveFinishedStep, RecordTokenUsageStep, AnswersStep, ClientStep
       DEF Handle
  <1>3. ASSUME NEW r \in Request, Disconnect(r) PROVE GatewayInv' BY <1>3, ClientStep
  <1>4. CASE UNCHANGED gatewayVars BY <1>4, GatewayStutter
  <1>5. CASE ProcessDies BY <1>5, RequestsEndStep DEF ProcessDies
  <1>6. ASSUME NEW c \in Config, ServerRestarts(c) PROVE GatewayInv'
    BY <1>6, RequestsEndStep DEF ServerRestarts
  <1> QED BY <1>1, <1>2, <1>3, <1>4, <1>5, <1>6 DEF ServerNext, GatewayNext

----------------------------------------------------------------------------
(* The theorems.                                                            *)

\* Every state of a server satisfies the invariant: a request at a provider
\* owns a started row, one that reports owns the row that says how it ended
\* (gateway.py, audit.py).
THEOREM GatewayInvariant == ServerSpec => []GatewayInv
  <1>1. ServerInit => GatewayInv
    <2> SUFFICES ASSUME GatewayInit PROVE GatewayInv BY DEF ServerInit
    <2>1. \A r \in Request : req[r] = Fresh BY DEF GatewayInit
    <2>2. \A i \in Id : audits[i] = Nothing /\ ledger[i] = 0 BY DEF GatewayInit
    <2>3. GatewayType BY DEF GatewayInit, GatewayType
    <2> QED BY <2>1, <2>2, <2>3 DEF GatewayInv, RequestsKnown, RowsHaveRequests, BilledIsAudited
  <1>2. GatewayInv /\ [ServerNext]_vars => GatewayInv'
    BY ServerStep, GatewayStutter DEF vars, gatewayVars
  <1> QED BY <1>1, <1>2, PTL DEF ServerSpec

\* begin_request comes before any provider call, and a request whose id is
\* taken makes none.
THEOREM GatewayAuditsCalls == ServerSpec => []CallsAreAudited
  <1>1. GatewayInv => CallsAreAudited
    <2> SUFFICES ASSUME GatewayInv, NEW r \in Request, req[r] # Fresh, req[r].called
                 PROVE  audits[req[r].id] # Nothing /\ audits[req[r].id].by = r
      BY DEF CallsAreAudited, Called, AuditOf
    <2>1. req[r] \in RequestState /\ RequestInv(r, req[r]) BY DEF GatewayInv, GatewayType, RequestsKnown
    <2>2. req[r].called \in BOOLEAN BY <2>1 DEF RequestState
    <2> QED BY <2>1, <2>2 DEF RequestInv, Record, Owns
  <1> QED BY <1>1, GatewayInvariant, PTL

\* finish_request writes completed only for a response that came to its end,
\* and the client's 200 or [DONE] comes after that row.
THEOREM GatewayAuditIsTrue == ServerSpec => []AuditIsTrue
  <1>1. GatewayInv => AuditIsTrue
    <2> SUFFICES ASSUME GatewayInv, NEW r \in Request, req[r] # Fresh
                 PROVE  /\ req[r].called /\ audits[req[r].id].status = "completed" => req[r].ended = "whole"
                        /\ req[r].got = "all" => /\ audits[req[r].id] # Nothing /\ audits[req[r].id].by = r
                                                 /\ audits[req[r].id].status = "completed"
      BY DEF AuditIsTrue, Called, Answered, AuditOf
    <2>1. req[r] \in RequestState /\ RequestInv(r, req[r]) BY DEF GatewayInv, GatewayType, RequestsKnown
    <2>2. req[r].called \in BOOLEAN BY <2>1 DEF RequestState
    <2>3. req[r].called => Owns(r, req[r].id) BY <2>1, <2>2 DEF RequestInv, Record
    <2> QED BY <2>1, <2>3 DEF RequestInv, Record, Owns
  <1> QED BY <1>1, GatewayInvariant, PTL

\* record_token_usage bills a request id only after its row has ended with
\* that usage, though the same id may come again and the answer may be lost.
THEOREM GatewayBillsWhatIsAudited == ServerSpec => []BilledIsAudited
  <1>1. GatewayInv => BilledIsAudited BY DEF GatewayInv
  <1> QED BY <1>1, GatewayInvariant, PTL

\* A server is a control plane with a data plane beside it: its behaviours are
\* those of the catalogue, so all that is proved of the catalogue holds of it
\* (create_app, one process for both).
THEOREM ServerHasCatalogue == ServerSpec => CatalogueSpec
  <1>1. ServerInit => CatalogueInit BY DEF ServerInit
  <1>2. [ServerNext]_vars => [CatalogueNext(Requests)]_catalogueVars
    <2>1. GatewayNext => UNCHANGED catalogueVars
      BY DEF GatewayNext, Arrive, Handle, Disconnect, Authenticate, CheckQuota, Parse, PlanRoutes,
         ResolveMedia, ObserveStarted, ResolveOperatorBinding, ResolveRouteSource, AdapterRefuses,
         FirstChunk, CollectResponse, CallEmbeddings, EmbeddingsReturn, StreamNext, CloseStream,
         AbandonStream, ObserveFinished, RecordTokenUsage, Answers, WatchDisconnect
    <2>2. ProcessDies => UNCHANGED catalogueVars BY DEF ProcessDies
    <2>3. CatalogueNext(Requests \ {"restart"}) => CatalogueNext(Requests)
      BY DEF CatalogueNext
    <2>4. ASSUME NEW c \in Config, ServerRestarts(c) PROVE CatalogueNext(Requests)
      BY <2>4 DEF ServerRestarts, CatalogueNext, Requests
    <2> QED BY <2>1, <2>2, <2>3, <2>4 DEF ServerNext, vars
  <1> QED BY <1>1, <1>2, PTL DEF ServerSpec, CatalogueSpec
=============================================================================
