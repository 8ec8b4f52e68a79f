---------------------------- MODULE ModelGateway ----------------------------
(* The data plane: one request through authentication, quota, routing and   *)
(* the provider, and the durable audit and the usage event it leaves        *)
(* (gateway.py, audit.py, quota.py, billing.py, server.py, http.py).        *)
(*                                                                          *)
(* Requests run in threads of one process.  An action is one transaction of *)
(* the audit, one remote call, or one step a concurrent disconnect can come *)
(* between.  The gateway is built with one provider attempt per request     *)
(* because the audit accepts no more.  Prompts, chunks and errors are       *)
(* reduced to how a response ends; a response's usage is one token or none. *)
EXTENDS ProductCatalogue

CONSTANTS
    Request,      \* requests of clients
    Header,       \* request ids a client may send in its own header
    Quota,        \* monthly token quota of the tenant, or Nothing
    Billed        \* TRUE when a billing client is configured

ASSUME BilledAssumption == Billed \in BOOLEAN

VARIABLES
    audits,       \* request id -> row of request_audits
    ledger,       \* request id -> tokens the billing plugin has recorded
    req           \* request -> its state in the gateway and its transport

gatewayVars == <<audits, ledger, req>>
vars == <<catalogueVars, gatewayVars>>

\* A request id is minted by the gateway or the middleware, or sent along.
Minted(who, r) == <<who, r>>
Id == ({"gateway", "middleware"} \X Request) \cup ({"client"} \X Header)

Form == {"chat", "stream", "embed"}
Via == {"asgi", "reference"}
Terminal == {"completed", "failed", "cancelled", "rejected"}
Rows == [status : Terminal \cup {"started"}, by : Request, usage : {0, 1}]

ASSUME RowsAssumption == Nothing \notin Rows

\* What a client has of its response so far.
Received == {"nothing", "part", "all", "error"}

Fresh == [pc |-> "new"]

GatewayInit ==
    /\ audits = [i \in Id |-> Nothing]
    /\ ledger = [i \in Id |-> 0]
    /\ req = [r \in Request |-> Fresh]

----------------------------------------------------------------------------
(* The audit ledger.                                                        *)

BeginRequestAnyway(i, r) ==
    audits' = [audits EXCEPT ![i] = IF @ = Nothing THEN [status |-> "started", by |-> r, usage |-> 0] ELSE @]

\* The insert fails on an id the ledger already has.
BeginRequest(i, r) ==
    /\ audits[i] = Nothing
    /\ audits' = [audits EXCEPT ![i] = [status |-> "started", by |-> r, usage |-> 0]]

\* A rejection never replaces a row.
RecordRejection(i, r, status) ==
    audits' = [audits EXCEPT ![i] = IF @ = Nothing THEN [status |-> status, by |-> r, usage |-> 0] ELSE @]

\* A terminal row stays; a repeated callback changes nothing.
FinishRequest(i, status, usage) ==
    /\ audits[i] # Nothing
    /\ audits' = [audits EXCEPT ![i] = IF @.status # "started" THEN @
                                        ELSE [@ EXCEPT !.status = status, !.usage = usage]]

\* The requests a restarted process reports as still running.
ActiveTasks == {i \in Id : audits[i] # Nothing /\ audits[i].status = "started"}

TotalTokens == Cardinality({i \in Id : ledger[i] > 0})

----------------------------------------------------------------------------
(* Admission.                                                               *)

Becomes(r, q) == req' = [req EXCEPT ![r] = q]
Goto(r, pc) == Becomes(r, [req[r] EXCEPT !.pc = pc])
\* The client gets an error and the request is over.
AnswerError(r) == Becomes(r, [req[r] EXCEPT !.pc = "over", !.got = "error"])

\* The request id: the reference server and the ASGI chat route let the
\* gateway mint one, the ASGI embeddings route passes on the middleware's,
\* which is the client's own header when it sent one.
RequestId(r, via, form, h) ==
    IF via = "asgi" /\ form = "embed"
      THEN IF h = Nothing THEN Minted("middleware", r) ELSE <<"client", h>>
      ELSE Minted("gateway", r)

\* The id of the response header: the middleware writes its own over any.
ResponseId(r, via, h) ==
    IF via = "reference" THEN Minted("gateway", r)
    ELSE IF h = Nothing THEN Minted("middleware", r) ELSE <<"client", h>>

Arrive(r, a, form, via, h) ==
    /\ req[r] = Fresh
    /\ Becomes(r,
          [pc |-> "auth", key |-> a, form |-> form, id |-> RequestId(r, via, form, h),
           header |-> ResponseId(r, via, h), via |-> via, cancel |-> FALSE, gone |-> FALSE,
           called |-> FALSE, ended |-> "no", usage |-> 0, status |-> "none", got |-> "nothing",
           route |-> Nothing, provider |-> "none", excused |-> FALSE])
    /\ UNCHANGED <<catalogueVars, audits, ledger>>

\* A refusal is recorded, then answered; a store that cannot record it makes
\* the answer a lifecycle error.
Refuse(r, status) ==
    \/ /\ RecordRejection(req[r].id, r, status)
       /\ AnswerError(r)
    \/ /\ AnswerError(r)
       /\ UNCHANGED audits

Authenticate(r) ==
    /\ req[r].pc = "auth"
    /\ \/ /\ KeyAccepted(req[r].key)
          /\ Goto(r, "quota")
          /\ UNCHANGED audits
       \/ /\ ~KeyAccepted(req[r].key)
          /\ Refuse(r, "rejected")
    /\ UNCHANGED <<catalogueVars, ledger>>

\* Quota is compared with what finished requests have reported.
CheckQuota(r) ==
    /\ req[r].pc = "quota"
    /\ \/ /\ Quota = Nothing \/ (Billed /\ TotalTokens < Quota)
          /\ Goto(r, "parse")
          /\ UNCHANGED audits
       \/ /\ Quota # Nothing       \* exceeded, or the usage source is unavailable
          /\ Refuse(r, "rejected")
    /\ UNCHANGED <<catalogueVars, ledger>>

\* The body is normalized and the model compared with the key's scope.
Parse(r) ==
    /\ req[r].pc = "parse"
    /\ \/ /\ req[r].cancel /\ Refuse(r, "cancelled")
       \/ /\ ~req[r].cancel
          /\ \/ Goto(r, "plan") /\ UNCHANGED audits
             \/ Refuse(r, "rejected")
    /\ UNCHANGED <<catalogueVars, ledger>>

\* Routes of the key's own scope at the served endpoint.
Planned(r) ==
    {x \in Route : \E e \in Endpoint : EndpointActive(e) /\ x \in ActiveRoutes(e, ScopeOf[apiKeys[req[r].key].by])}

PlanRoutes(r) ==
    /\ req[r].pc = "plan"
    /\ \/ /\ Planned(r) # {}
          /\ \E x \in Planned(r) :
               Becomes(r, [req[r] EXCEPT !.route = x,
                                         !.pc = IF req[r].form = "embed" THEN "start" ELSE "media"])
          /\ UNCHANGED audits
       \/ /\ Planned(r) = {}
          /\ Refuse(r, "rejected")
    /\ UNCHANGED <<catalogueVars, ledger>>

\* Attachments are read, unless there are none.
ResolveMedia(r) ==
    /\ req[r].pc = "media"
    /\ \/ Goto(r, "start") /\ UNCHANGED audits
       \/ Refuse(r, IF req[r].cancel THEN "cancelled" ELSE "rejected")
    /\ UNCHANGED <<catalogueVars, ledger>>

\* Admission is durable before the provider is resolved.
ObserveStarted(r) ==
    /\ req[r].pc = "start"
    /\ \/ /\ req[r].cancel
          /\ Refuse(r, "cancelled")
       \/ /\ ~req[r].cancel
          /\ BeginRequest(req[r].id, r)
          /\ Goto(r, "call")
       \/ /\ ~req[r].cancel         \* the id is taken, or the store refuses
          /\ AnswerError(r)
          /\ UNCHANGED audits
    /\ UNCHANGED <<catalogueVars, ledger>>

----------------------------------------------------------------------------
(* The provider.  "whole" is a response that ended by itself.               *)

\* What becomes of the response is decided by the provider, or by the cancel
\* event the adapters look at.
End(r, ended, usage) ==
    Becomes(r, [req[r] EXCEPT !.ended = ended, !.usage = usage, !.pc = "finish",
                 !.status = IF ended = "whole" THEN "completed"
                            ELSE IF ended = "cancelled" \/ req[r].cancel THEN "cancelled" ELSE "failed"])

\* A resolver configured by the operator knows the bindings it was given.
ResolveOperatorBinding(r) ==
    /\ req[r].pc = "call"
    /\ IF AdmitBinding(routes[req[r].route].binding)
         THEN Becomes(r, [req[r] EXCEPT !.pc = "invoke", !.provider = "plugin"])
         ELSE End(r, "broken", 0)
    /\ UNCHANGED <<catalogueVars, audits, ledger>>

\* A resolver that follows route sources looks for some ACTIVE unscoped route
\* with the binding, which may be another one, and reads its source's URL.
SourceRoutes(b) ==
    {x \in Route : routes[x] # Nothing /\ routes[x].state = "ACTIVE" /\ routes[x].scope = Legacy
                   /\ routes[x].binding = b}

ResolveRouteSource(r) ==
    /\ req[r].pc = "call"
    /\ \/ /\ \E x \in SourceRoutes(routes[req[r].route].binding) : routes[x].source # Nothing
          /\ Becomes(r, [req[r] EXCEPT !.pc = "invoke", !.provider = "http"])
       \/ End(r, "broken", 0)
    /\ UNCHANGED <<catalogueVars, audits, ledger>>

\* How a provider adapter ends a call it has begun: the plugin channel tells
\* a cancelled call apart at any time, the HTTP adapter looks at the cancel
\* event before a unary call and at every line of a stream.
PluginEnds(r) == {"whole", "broken"} \cup (IF req[r].cancel THEN {"cancelled"} ELSE {})
HttpEnds(r) == {"whole", "broken"} \cup (IF req[r].cancel /\ req[r].form = "stream" THEN {"cancelled"} ELSE {})
AdapterEnds(r) == IF req[r].provider = "plugin" THEN PluginEnds(r) ELSE HttpEnds(r)

\* The adapter refuses before anything has come of the call: no embeddings
\* over HTTP, a cancel event that is set already, an upstream error.
AdapterRefuses(r) ==
    /\ req[r].pc = "invoke"
    /\ \/ End(r, "broken", 0)
       \/ req[r].cancel /\ End(r, "cancelled", 0)
    /\ UNCHANGED <<catalogueVars, audits, ledger>>

\* The first chunk of a chat: a stream is handed to the transport unread.
FirstChunk(r) ==
    /\ req[r].pc = "invoke" /\ req[r].form # "embed"
    /\ Becomes(r, [req[r] EXCEPT !.called = TRUE,
                              !.pc = IF req[r].form = "stream" THEN "body" ELSE "collect"])
    /\ UNCHANGED <<catalogueVars, audits, ledger>>

\* The remaining chunks of a chat.  A cancel event is seen between two.
CollectResponse(r) ==
    /\ req[r].pc = "collect"
    /\ \E u \in {0, 1}, ended \in AdapterEnds(r) \cup (IF req[r].cancel THEN {"cancelled"} ELSE {}) :
         End(r, ended, u)
    /\ UNCHANGED <<catalogueVars, audits, ledger>>

\* An embeddings call is unary; a batch that comes after the client left is
\* dropped, and no usage is reported.
CallEmbeddings(r) ==
    /\ req[r].pc = "invoke" /\ req[r].form = "embed" /\ req[r].provider = "plugin"
    /\ Becomes(r, [req[r] EXCEPT !.called = TRUE, !.pc = "batch"])
    /\ UNCHANGED <<catalogueVars, audits, ledger>>

EmbeddingsReturn(r) ==
    /\ req[r].pc = "batch"
    /\ \E ended \in PluginEnds(r) : End(r, IF req[r].cancel /\ ended = "whole" THEN "cancelled" ELSE ended, 0)
    /\ UNCHANGED <<catalogueVars, audits, ledger>>

----------------------------------------------------------------------------
(* The lazy stream.  It is suspended at a yield in "paused".                *)

\* The transport asks for the next event.
StreamNext(r) ==
    /\ req[r].pc \in {"body", "paused"}
    /\ \/ /\ ~req[r].cancel
          /\ \E u \in {req[r].usage, 1} :
               Becomes(r, [req[r] EXCEPT !.pc = "paused", !.usage = u, !.got = "part"])
       \/ \E ended \in AdapterEnds(r) \cup (IF req[r].cancel THEN {"cancelled"} ELSE {}) :
            /\ ended = "whole" => req[r].pc = "paused" /\ ~req[r].cancel
            /\ End(r, ended, req[r].usage)
    /\ UNCHANGED <<catalogueVars, audits, ledger>>

CloseStreamQuietly(r) ==
    /\ req[r].pc = "paused"
    /\ req[r].gone
    /\ Becomes(r, [req[r] EXCEPT !.cancel = TRUE, !.pc = "over"])
    /\ UNCHANGED <<catalogueVars, audits, ledger>>

\* The transport drops a stream that was being read: GeneratorExit runs the
\* finally block, with the cancel event set.
CloseStream(r) ==
    /\ req[r].pc = "paused"
    /\ req[r].gone
    /\ Becomes(r, [req[r] EXCEPT !.cancel = TRUE, !.pc = "finish",
                              !.ended = "cancelled", !.status = "cancelled"])
    /\ UNCHANGED <<catalogueVars, audits, ledger>>

\* A stream dropped before its first event was asked for: an unstarted
\* generator has no finally block to run.
AbandonStream(r) ==
    /\ req[r].pc = "body"
    /\ req[r].gone
    /\ Becomes(r, [req[r] EXCEPT !.pc = "over", !.excused = TRUE])
    /\ UNCHANGED <<catalogueVars, audits, ledger>>

----------------------------------------------------------------------------
(* The terminal outcome: audit first, usage event second, answer last.      *)

\* Two mutants: an answer although the row was refused, usage before the row.
ObserveFinishedAnyway(r) ==
    /\ req[r].pc = "finish"
    /\ \/ /\ FinishRequest(req[r].id, req[r].status, req[r].usage)
          /\ Goto(r, IF Billed /\ req[r].usage > 0 THEN "bill" ELSE "answer")
       \/ /\ Goto(r, "answer")
          /\ UNCHANGED audits
    /\ UNCHANGED <<catalogueVars, ledger>>

ObserveFinishedUsageFirst(r) ==
    /\ req[r].pc = "finish"
    /\ \/ /\ Billed /\ req[r].usage > 0 /\ ledger[req[r].id] = 0
          /\ ledger' = [ledger EXCEPT ![req[r].id] = 1]
          /\ UNCHANGED <<audits, req>>
       \/ /\ FinishRequest(req[r].id, req[r].status, req[r].usage)
          /\ Goto(r, "answer")
          /\ UNCHANGED ledger
    /\ UNCHANGED catalogueVars

\* The row first, then the usage event when there is a token to report.  The
\* store may refuse the row.
ObserveFinished(r) ==
    /\ req[r].pc = "finish"
    /\ \/ /\ FinishRequest(req[r].id, req[r].status, req[r].usage)
          /\ Goto(r, IF Billed /\ req[r].usage > 0 THEN "bill" ELSE "answer")
       \/ /\ Becomes(r, [req[r] EXCEPT !.pc = "over", !.got = "error", !.excused = TRUE])
          /\ UNCHANGED audits
    /\ UNCHANGED <<catalogueVars, ledger>>

\* The plugin records one event per request id; its answer may be lost.
RecordTokenUsage(r) ==
    /\ req[r].pc = "bill"
    /\ \/ ledger' = [ledger EXCEPT ![req[r].id] = 1] /\ Goto(r, "answer")
       \/ ledger' = [ledger EXCEPT ![req[r].id] = 1] /\ AnswerError(r)
       \/ UNCHANGED ledger /\ AnswerError(r)
    /\ UNCHANGED <<catalogueVars, audits>>

\* A complete response is 200 with a body, or [DONE] at the end of a stream;
\* any other end is an error response, or a stream that just stops.
Answers(r) ==
    /\ req[r].pc = "answer"
    /\ Becomes(r, [req[r] EXCEPT !.pc = "over",
                              !.got = IF req[r].status = "completed" THEN "all" ELSE "error"])
    /\ UNCHANGED <<catalogueVars, audits, ledger>>

----------------------------------------------------------------------------
(* Clients and the process.                                                 *)

\* A client goes away.  Embeddings and the reference server watch for it and
\* set the cancel event; the ASGI chat route does not.
Disconnect(r) ==
    /\ req[r].pc \notin {"new", "over"}
    /\ ~req[r].gone
    /\ Becomes(r, [req[r] EXCEPT !.gone = TRUE])
    /\ UNCHANGED <<catalogueVars, audits, ledger>>

WatchDisconnect(r) ==
    /\ req[r].pc \notin {"new", "over"}
    /\ req[r].gone
    /\ req[r].via = "reference" \/ req[r].form = "embed"
    /\ ~req[r].cancel
    /\ Becomes(r, [req[r] EXCEPT !.cancel = TRUE])
    /\ UNCHANGED <<catalogueVars, audits, ledger>>

\* The requests of a process end with it, wherever they were.
RequestsEnd ==
    req' = [r \in Request |-> IF req[r].pc \in {"new", "over"} THEN req[r]
                               ELSE [req[r] EXCEPT !.pc = "over", !.excused = TRUE]]

ProcessDies ==
    /\ RequestsEnd
    /\ \E r \in Request : req'[r] # req[r]
    /\ UNCHANGED <<catalogueVars, audits, ledger>>

Handle(r) ==
    \/ Authenticate(r) \/ CheckQuota(r) \/ Parse(r) \/ PlanRoutes(r) \/ ResolveMedia(r)
    \/ ObserveStarted(r) \/ ResolveOperatorBinding(r) \/ ResolveRouteSource(r) \/ AdapterRefuses(r)
    \/ FirstChunk(r) \/ CollectResponse(r) \/ CallEmbeddings(r) \/ EmbeddingsReturn(r)
    \/ StreamNext(r) \/ CloseStream(r) \/ AbandonStream(r)
    \/ ObserveFinished(r) \/ RecordTokenUsage(r) \/ Answers(r) \/ WatchDisconnect(r)

\* One request of the data plane, from its arrival on.
GatewayNext ==
    \/ \E r \in Request, a \in ApiKey, form \in Form, via \in Via, h \in Header \cup {Nothing} :
         Arrive(r, a, form, via, h)
    \/ \E r \in Request : Handle(r) \/ Disconnect(r)

\* One process serves the control plane and the data plane; a new one has its
\* own configuration.
ServerRestarts(c) == Restart(c) /\ RequestsEnd /\ UNCHANGED <<audits, ledger>>

ServerInit == CatalogueInit /\ GatewayInit

ServerNext ==
    \/ GatewayNext
    \/ CatalogueNext(Requests \ {"restart"}) /\ UNCHANGED gatewayVars
    \/ ProcessDies
    \/ \E c \in Config : ServerRestarts(c)

ServerSpec == ServerInit /\ [][ServerNext]_vars

\* A thread that has taken a request goes on with it: remote calls time out,
\* and a provider's stream is finite.
GatewayFairness == \A r \in Request : WF_vars(Handle(r))

----------------------------------------------------------------------------
(* Properties.                                                              *)

GatewayTypeOK ==
    /\ audits \in [Id -> Rows \cup {Nothing}]
    /\ ledger \in [Id -> {0, 1}]
    /\ \A r \in Request : req[r] # Fresh =>
         req[r].id \in Id /\ req[r].header \in Id /\ req[r].got \in Received

Answered(r) == req[r] # Fresh /\ req[r].got = "all"
Called(r) == req[r] # Fresh /\ req[r].called
AuditOf(r) == audits[req[r].id]
Closed(r) == Called(r) /\ (req[r].excused \/ req[r].id \notin ActiveTasks)

\* No provider is called for a request the ledger has not admitted under its
\* own row, whatever ids clients send.
CallsAreAudited == \A r \in Request : Called(r) => AuditOf(r) # Nothing /\ AuditOf(r).by = r

\* A row says completed only of a response that came to its end, and says so
\* of its own request, not of another one with the same id; and a client that
\* has the whole response, the 200 body or [DONE], finds it completed there.
AuditIsTrue ==
    \A r \in Request :
        /\ Called(r) /\ AuditOf(r) # Nothing /\ AuditOf(r).status = "completed" => req[r].ended = "whole"
        /\ Answered(r) => AuditOf(r) # Nothing /\ AuditOf(r).by = r /\ AuditOf(r).status = "completed"

\* What is billed was audited: a token in the usage ledger is a token of a
\* row that has ended.
BilledIsAudited ==
    \A i \in Id : ledger[i] > 0 => audits[i] # Nothing /\ audits[i].status \in Terminal /\ audits[i].usage = ledger[i]

\* Every request that reached a provider gets a terminal row, unless the store
\* refused it, the process died, or the client left before its stream was
\* first read.
AuditsEnd ==
    \A r \in Request : Called(r) ~> Closed(r)

\* The response header names the audit of its request (docs/API.md).
HeaderNamesAudit ==
    \A r \in Request : Answered(r) => audits[req[r].header] # Nothing /\ audits[req[r].header].by = r
=============================================================================
