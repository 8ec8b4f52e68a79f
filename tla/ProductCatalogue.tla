-------------------------- MODULE ProductCatalogue --------------------------
(* The control plane of the Exchange Product: endpoints, routes and their   *)
(* drafts, idempotency records, control credentials, API keys and operator  *)
(* grants (store.py, service.py, api.py, route_admission.py).               *)
(*                                                                          *)
(* Handlers are synchronous and run in a thread pool, so they interleave    *)
(* between two transactions of the store.  Every action is one transaction, *)
(* one read under the store's lock, or one remote read; op[t] is what the   *)
(* handler in thread t has read so far.  A refused request changes nothing  *)
(* and is left out, unless the refusal comes after a step that did.         *)
EXTENDS Naturals, FiniteSets

CONSTANTS
    Endpoint,     \* identifiers of gateway endpoints
    Route,        \* identifiers of gateway routes
    ApiKey,       \* identifiers of generated keys
    Key,          \* idempotency keys clients use
    Thread,       \* thread pool workers
    Principal,    \* configured control credentials
    Legacy,       \* the scope of credentials without an organization
    ScopeOf,      \* Principal -> Legacy or an organization's workspace
    Binding,      \* provider bindings a route may name
    Nothing,      \* no document
    MaxVersion,   \* bound: versions of one route
    MaxReactor    \* bound: versions of the Reactor source

ASSUME ScopeAssumption == ScopeOf \in [Principal -> UNION {{ScopeOf[p]} : p \in Principal}]

VARIABLES
    endpoints,    \* id -> document
    routes,       \* id -> document
    idempotency,  \* rows of the idempotency table
    enabled,      \* control credentials that are enabled
    apiKeys,      \* id -> row of api_credentials
    config,       \* operator configuration of the running process
    reactor,      \* the remote Reactor endpoint routes take as their source
    reactorPast,  \* every (version, digest) the Reactor ever showed
    op,           \* thread -> the request it is handling
    written,      \* id -> the binding last acknowledged to a client
    replies       \* answers given to requests with an idempotency key

tables == <<endpoints, routes, idempotency, enabled, apiKeys>>
catalogueVars == <<endpoints, routes, idempotency, enabled, apiKeys, config, reactor,
                   reactorPast, op, written, replies>>

Scope == {ScopeOf[p] : p \in Principal}
Organizations == Scope \ {Legacy}
Idle == [pc |-> "idle"]

\* A version of the Reactor endpoint and the digest of a deployment of it.
RouteSource == [version : 1..MaxReactor, digest : 1..MaxReactor]

EndpointDoc == [state : {"ACTIVE", "DISABLED"}, version : 1..2]
RouteDoc == [state : {"DRAFT", "ACTIVE"}, endpoint : Endpoint, scope : Scope, by : Principal \cup {Nothing},
             binding : Binding, version : 1..MaxVersion,
             source : RouteSource \cup {Nothing}]
ApiKeyDoc == [by : Principal, revoked : BOOLEAN, expired : BOOLEAN]
Config == [endpoint : SUBSET Organizations, source : SUBSET Organizations, bindings : SUBSET Binding]

\* Both bounds leave room for a first version, and no row is no document.
ASSUME CatalogueAssumption ==
    /\ MaxVersion \in Nat \ {0}
    /\ MaxReactor \in Nat \ {0}
    /\ Nothing \notin RouteDoc

CatalogueInit ==
    /\ endpoints = [e \in Endpoint |-> Nothing]
    /\ routes = [r \in Route |-> Nothing]
    /\ idempotency = {}
    /\ enabled = Principal
    /\ apiKeys = [a \in ApiKey |-> Nothing]
    /\ config \in Config
    /\ reactor = [version |-> 1, digest |-> 1]
    /\ reactorPast = {reactor}
    /\ op = [t \in Thread |-> Idle]
    /\ written = [r \in Route |-> Nothing]
    /\ replies = {}

----------------------------------------------------------------------------
(* Idempotency records.                                                     *)

Remembered(scope, key) == {i \in idempotency : i.scope = scope /\ i.key = key}

\* The identifiers a replay of this request is answered with.
ResolveIdempotency(scope, key, digest) ==
    {i.id : i \in {j \in Remembered(scope, key) : j.digest = digest}}

\* The key was used before with another body.
KeyConflict(scope, key, digest) == \E i \in Remembered(scope, key) : i.digest # digest

Row(scope, key, digest, id) == [scope |-> scope, key |-> key, digest |-> digest, id |-> id]
Answer(scope, key, digest, id) == replies' = replies \cup {Row(scope, key, digest, id)}

RememberTwice(scope, key, digest, id) ==
    idempotency' = (idempotency \ Remembered(scope, key)) \cup {Row(scope, key, digest, id)}

\* A record for a key that has one already breaks the primary key.
RememberIdempotency(scope, key, digest, id) ==
    /\ Remembered(scope, key) = {}
    /\ idempotency' = idempotency \cup {Row(scope, key, digest, id)}

----------------------------------------------------------------------------
(* Who is asking.                                                           *)

\* principal(): the bearer resolves to an enabled control credential.
Authenticated(p) == p \in enabled

LegacyOperator(p) == Authenticated(p) /\ ScopeOf[p] = Legacy
ScopedPrincipal(p) == Authenticated(p) /\ ScopeOf[p] # Legacy

AdmitBinding(b) == b \in config.bindings

Live(e) == endpoints[e] # Nothing
EndpointActive(e) == Live(e) /\ endpoints[e].state = "ACTIVE"

----------------------------------------------------------------------------
(* Endpoints and direct routes: three transactions for one request.         *)

\* What a keyed create is remembered under: no principal takes part.
CreateScope(kind) == <<kind, Legacy>>

\* create_endpoint and create_route look the key up first.
ResolveCreate(t, p, kind, k, e, b) ==
    /\ op[t] = Idle
    /\ LegacyOperator(p)
    /\ kind = "route" => Live(e)
    /\ ~KeyConflict(CreateScope(kind), k, <<e, b>>)
    /\ IF ResolveIdempotency(CreateScope(kind), k, <<e, b>>) # {}
         THEN \E id \in ResolveIdempotency(CreateScope(kind), k, <<e, b>>) :
                /\ Answer(CreateScope(kind), k, <<e, b>>, id)
                /\ UNCHANGED op
         ELSE /\ op' = [op EXCEPT ![t] = [pc |-> "save", kind |-> kind, key |-> k,
                                          endpoint |-> e, binding |-> b]]
              /\ UNCHANGED replies
    /\ UNCHANGED <<tables, config, reactor, reactorPast, written>>

SaveEndpoint(t) ==
    /\ op[t].pc = "save" /\ op[t].kind = "endpoint"
    /\ \E id \in Endpoint :
         /\ ~Live(id)
         /\ endpoints' = [endpoints EXCEPT ![id] = [state |-> "ACTIVE", version |-> 1]]
         /\ op' = [op EXCEPT ![t] = [pc |-> "remember", kind |-> "endpoint", key |-> op[t].key, id |-> id,
                                     digest |-> <<op[t].endpoint, op[t].binding>>]]
    /\ UNCHANGED <<routes, idempotency, enabled, apiKeys, config, reactor, reactorPast, written,
                   replies>>

\* A direct route is ACTIVE at once and has neither owner nor source.
SaveRoute(t) ==
    /\ op[t].pc = "save" /\ op[t].kind = "route"
    /\ \E id \in Route :
         /\ routes[id] = Nothing
         /\ routes' = [routes EXCEPT ![id] =
                [state |-> "ACTIVE", endpoint |-> op[t].endpoint, scope |-> Legacy, by |-> Nothing,
                 binding |-> op[t].binding, version |-> 1, source |-> Nothing]]
         /\ written' = [written EXCEPT ![id] = op[t].binding]
         /\ op' = [op EXCEPT ![t] = [pc |-> "remember", kind |-> "route", key |-> op[t].key, id |-> id,
                                     digest |-> <<op[t].endpoint, op[t].binding>>]]
    /\ UNCHANGED <<endpoints, idempotency, enabled, apiKeys, config, reactor, reactorPast, replies>>

\* The record is written last; when another request with the key came first
\* the client is told of an error and the saved document stays behind.
RememberCreate(t) ==
    /\ op[t].pc = "remember"
    /\ \/ /\ RememberIdempotency(CreateScope(op[t].kind), op[t].key, op[t].digest, op[t].id)
          /\ Answer(CreateScope(op[t].kind), op[t].key, op[t].digest, op[t].id)
       \/ /\ Remembered(CreateScope(op[t].kind), op[t].key) # {}
          /\ UNCHANGED <<idempotency, replies>>
    /\ op' = [op EXCEPT ![t] = Idle]
    /\ UNCHANGED <<endpoints, routes, enabled, apiKeys, config, reactor, reactorPast, written>>

ReadToDisableAgain(t, p, e) ==
    /\ op[t] = Idle
    /\ LegacyOperator(p)
    /\ Live(e)
    /\ op' = [op EXCEPT ![t] = [pc |-> "disable", endpoint |-> e, seen |-> endpoints[e]]]
    /\ UNCHANGED <<tables, config, reactor, reactorPast, written, replies>>

\* disable_endpoint reads the document ...
ReadToDisable(t, p, e) ==
    /\ op[t] = Idle
    /\ LegacyOperator(p)
    /\ EndpointActive(e)
    /\ op' = [op EXCEPT ![t] = [pc |-> "disable", endpoint |-> e, seen |-> endpoints[e]]]
    /\ UNCHANGED <<tables, config, reactor, reactorPast, written, replies>>

\* ... and replaces it by a disabled copy, whatever it is by then.
SaveDisabled(t) ==
    /\ op[t].pc = "disable"
    /\ endpoints' = [endpoints EXCEPT ![op[t].endpoint] =
           [state |-> "DISABLED", version |-> op[t].seen.version + 1]]
    /\ op' = [op EXCEPT ![t] = Idle]
    /\ UNCHANGED <<routes, idempotency, enabled, apiKeys, config, reactor, reactorPast, written, replies>>

----------------------------------------------------------------------------
(* Route drafts: document and idempotency record in one transaction.        *)

\* The store checks both grants again inside the transaction.
GrantsHold(doc, reactorSource) ==
    doc.scope # Legacy =>
        /\ doc.scope \in config.endpoint
        /\ Live(doc.endpoint)
        /\ reactorSource => doc.scope \in config.source

CreateRouteDraft(doc, scope, key, digest, reactorSource) ==
    /\ GrantsHold(doc, reactorSource)
    /\ ~KeyConflict(scope, key, digest)
    /\ IF ResolveIdempotency(scope, key, digest) # {}
         THEN /\ \E id \in ResolveIdempotency(scope, key, digest) : Answer(scope, key, digest, id)
              /\ UNCHANGED <<routes, idempotency, written>>
         ELSE \E id \in Route :
                /\ routes[id] = Nothing
                /\ routes' = [routes EXCEPT ![id] = doc]
                /\ written' = [written EXCEPT ![id] = doc.binding]
                /\ RememberIdempotency(scope, key, digest, id)
                /\ Answer(scope, key, digest, id)

Draft(p, e, b, source) ==
    [state |-> "DRAFT", endpoint |-> e, scope |-> ScopeOf[p], by |-> p, binding |-> b,
     version |-> 1, source |-> source]

\* The draft of an operator without organization: the client names the source,
\* and what it names is stored as it is.
CreateLegacyDraft(t, p, k, e, b, source) ==
    /\ op[t] = Idle
    /\ LegacyOperator(p)
    /\ AdmitBinding(b)
    /\ Live(e)
    /\ CreateRouteDraft(Draft(p, e, b, source), <<"draft", Legacy>>, k, <<e, b, p, source>>, FALSE)
    /\ UNCHANGED <<endpoints, enabled, apiKeys, config, reactor, reactorPast, op>>

\* The draft of a workspace for an admitted binding, without a source.
CreateBindingDraft(t, p, k, e, b) ==
    /\ op[t] = Idle
    /\ ScopedPrincipal(p)
    /\ AdmitBinding(b)
    /\ ScopeOf[p] \in config.endpoint
    /\ Live(e)
    /\ CreateRouteDraft(Draft(p, e, b, Nothing), <<"binding", ScopeOf[p]>>, k, <<e, b, p>>, FALSE)
    /\ UNCHANGED <<endpoints, enabled, apiKeys, config, reactor, reactorPast, op>>

\* The draft of a workspace over a version of a Reactor endpoint the client
\* selects: grants first ...
AdmitSourcedDraft(t, p, k, e, b, v) ==
    /\ op[t] = Idle
    /\ ScopedPrincipal(p)
    /\ AdmitBinding(b)
    /\ ScopeOf[p] \in config.endpoint
    /\ ScopeOf[p] \in config.source
    /\ op' = [op EXCEPT ![t] = [pc |-> "source", by |-> p, key |-> k, endpoint |-> e, binding |-> b,
                                version |-> v]]
    /\ UNCHANGED <<tables, config, reactor, reactorPast, written, replies>>

\* ... then the endpoint is read, which must still have the selected version ...
ResolveSourceEndpoint(t) ==
    /\ op[t].pc = "source"
    /\ IF reactor.version = op[t].version
         THEN op' = [op EXCEPT ![t].pc = "deployment"]
         ELSE op' = [op EXCEPT ![t] = Idle]
    /\ UNCHANGED <<tables, config, reactor, reactorPast, written, replies>>

\* ... and its deployment, for the digest ...
ResolveSourceDeployment(t) ==
    /\ op[t].pc = "deployment"
    /\ op' = [op EXCEPT ![t] = [pc |-> "draft", by |-> op[t].by, key |-> op[t].key,
                 endpoint |-> op[t].endpoint, binding |-> op[t].binding,
                 source |-> [version |-> op[t].version, digest |-> reactor.digest]]]
    /\ UNCHANGED <<tables, config, reactor, reactorPast, written, replies>>

\* ... and the draft stored with what was read.
CreateSourcedDraft(t) ==
    /\ op[t].pc = "draft"
    /\ CreateRouteDraft(Draft(op[t].by, op[t].endpoint, op[t].binding, op[t].source),
                        <<"sourced", ScopeOf[op[t].by]>>, op[t].key,
                        <<op[t].endpoint, op[t].binding, op[t].by, op[t].source.version>>, TRUE)
    /\ op' = [op EXCEPT ![t] = Idle]
    /\ UNCHANGED <<endpoints, enabled, apiKeys, config, reactor, reactorPast>>

\* A handler whose remote read or transaction is refused answers an error.
HandlerFails(t) ==
    /\ op[t].pc \in {"source", "deployment", "draft", "probe", "artifact", "commit"}
    /\ op' = [op EXCEPT ![t] = Idle]
    /\ UNCHANGED <<tables, config, reactor, reactorPast, written, replies>>

----------------------------------------------------------------------------
(* Editing and publishing a draft.                                          *)

OwnedDraft(r, p) ==
    /\ routes[r] # Nothing
    /\ routes[r].scope = ScopeOf[p]
    /\ routes[r].by = p
    /\ routes[r].state = "DRAFT"

\* Commit only when the stored route still has the expected version.
ReplaceRouteVersion(r, doc, expected) ==
    /\ routes[r].version = expected
    /\ routes' = [routes EXCEPT ![r] = doc]

\* edit_draft reads the draft; the client sends a version it has been shown.
ReadToEdit(t, p, r, b, v) ==
    /\ op[t] = Idle
    /\ LegacyOperator(p)
    /\ OwnedDraft(r, p)
    /\ AdmitBinding(b)
    /\ v \in 1..routes[r].version
    /\ v < MaxVersion
    /\ op' = [op EXCEPT ![t] = [pc |-> "edit", route |-> r, seen |-> routes[r], binding |-> b,
                                version |-> v]]
    /\ UNCHANGED <<tables, config, reactor, reactorPast, written, replies>>

\* A mutant: the version conflict of an edit is answered as success.
CommitEditQuietly(t) ==
    /\ op[t].pc = "edit"
    /\ written' = [written EXCEPT ![op[t].route] = op[t].binding]
    /\ \/ ReplaceRouteVersion(op[t].route,
             [op[t].seen EXCEPT !.binding = op[t].binding, !.version = op[t].version + 1], op[t].version)
       \/ routes[op[t].route].version # op[t].version /\ UNCHANGED routes
    /\ op' = [op EXCEPT ![t] = Idle]
    /\ UNCHANGED <<endpoints, idempotency, enabled, apiKeys, config, reactor, reactorPast, replies>>

CommitEdit(t) ==
    /\ op[t].pc = "edit"
    /\ \/ /\ ReplaceRouteVersion(op[t].route,
                 [op[t].seen EXCEPT !.binding = op[t].binding, !.version = op[t].version + 1], op[t].version)
          /\ written' = [written EXCEPT ![op[t].route] = op[t].binding]
       \/ /\ routes[op[t].route].version # op[t].version
          /\ UNCHANGED <<routes, written>>
    /\ op' = [op EXCEPT ![t] = Idle]
    /\ UNCHANGED <<endpoints, idempotency, enabled, apiKeys, config, reactor, reactorPast, replies>>

\* confirm_draft: the handler reads the draft to admit its binding ...
AdmitConfirm(t, p, r, v) ==
    /\ op[t] = Idle
    /\ Authenticated(p)
    /\ OwnedDraft(r, p)
    /\ AdmitBinding(routes[r].binding)
    /\ v \in 1..routes[r].version
    /\ v < MaxVersion
    /\ op' = [op EXCEPT ![t] = [pc |-> "inspect", by |-> p, route |-> r, version |-> v]]
    /\ UNCHANGED <<tables, config, reactor, reactorPast, written, replies>>

\* ... the service reads it again and checks the version ...
InspectDraft(t) ==
    /\ op[t].pc = "inspect"
    /\ IF OwnedDraft(op[t].route, op[t].by) /\ routes[op[t].route].version = op[t].version
         THEN op' = [op EXCEPT ![t] = [pc |-> "endpoint", route |-> op[t].route,
                                       seen |-> routes[op[t].route]]]
         ELSE op' = [op EXCEPT ![t] = Idle]
    /\ UNCHANGED <<tables, config, reactor, reactorPast, written, replies>>

CheckEndpointOnly(t) ==
    /\ op[t].pc = "endpoint"
    /\ op' = [op EXCEPT ![t].pc = IF EndpointActive(op[t].seen.endpoint) THEN "probe" ELSE "endpoint"]
    /\ UNCHANGED <<tables, config, reactor, reactorPast, written, replies>>

\* ... then the grant of a workspace's draft and the state of its endpoint ...
CheckDestination(t) ==
    /\ op[t].pc = "endpoint"
    /\ IF (op[t].seen.scope # Legacy => op[t].seen.scope \in config.endpoint) /\ EndpointActive(op[t].seen.endpoint)
         THEN op' = [op EXCEPT ![t].pc = "probe"]
         ELSE op' = [op EXCEPT ![t] = Idle]
    /\ UNCHANGED <<tables, config, reactor, reactorPast, written, replies>>

ProbeIdentityOnly(t) ==
    /\ op[t].pc = "probe"
    /\ op' = [op EXCEPT ![t].pc = "artifact"]
    /\ UNCHANGED <<tables, config, reactor, reactorPast, written, replies>>

\* ... then validate_target: the source endpoint is read and must not have
\* moved on since the draft ...
ProbeSource(t) ==
    /\ op[t].pc = "probe"
    /\ op[t].seen.source # Nothing => reactor.version = op[t].seen.source.version
    /\ op' = [op EXCEPT ![t].pc = "artifact"]
    /\ UNCHANGED <<tables, config, reactor, reactorPast, written, replies>>

\* ... its deployment must still carry the digest, and the provider answer.
ProbeDeployment(t) ==
    /\ op[t].pc = "artifact"
    /\ op[t].seen.source # Nothing => reactor.digest = op[t].seen.source.digest
    /\ op' = [op EXCEPT ![t].pc = "commit"]
    /\ UNCHANGED <<tables, config, reactor, reactorPast, written, replies>>

CommitConfirm(t) ==
    /\ op[t].pc = "commit"
    /\ ReplaceRouteVersion(op[t].route,
           [op[t].seen EXCEPT !.state = "ACTIVE", !.version = @ + 1], op[t].seen.version)
    /\ op' = [op EXCEPT ![t] = Idle]
    /\ UNCHANGED <<endpoints, idempotency, enabled, apiKeys, config, reactor, reactorPast, written,
                   replies>>

----------------------------------------------------------------------------
(* API keys and credentials.                                                *)

\* One transaction stores the key and its idempotency record; a replay is
\* answered without the secret.
CreateApiKey(p, k) ==
    LET scope == <<"api-key", ScopeOf[p]>>
        digest == <<p>>
    IN  /\ Authenticated(p)
        /\ ~KeyConflict(scope, k, digest)
        /\ IF ResolveIdempotency(scope, k, digest) # {}
             THEN /\ \E id \in ResolveIdempotency(scope, k, digest) : Answer(scope, k, digest, id)
                  /\ UNCHANGED <<apiKeys, idempotency>>
             ELSE \E id \in ApiKey :
                    /\ apiKeys[id] = Nothing
                    /\ apiKeys' = [apiKeys EXCEPT ![id] = [by |-> p, revoked |-> FALSE, expired |-> FALSE]]
                    /\ RememberIdempotency(scope, k, digest, id)
                    /\ Answer(scope, k, digest, id)
        /\ UNCHANGED <<endpoints, routes, enabled, config, reactor, reactorPast, op, written>>

\* Any credential of the key's scope may revoke it.
RevokeApiKey(p, a) ==
    /\ Authenticated(p)
    /\ apiKeys[a] # Nothing
    /\ ScopeOf[apiKeys[a].by] = ScopeOf[p]
    /\ ~apiKeys[a].revoked
    /\ apiKeys' = [apiKeys EXCEPT ![a].revoked = TRUE]
    /\ UNCHANGED <<endpoints, routes, idempotency, enabled, config, reactor, reactorPast, op, written,
                   replies>>

\* expires_at passes.
ApiKeyExpires(a) ==
    /\ apiKeys[a] # Nothing
    /\ ~apiKeys[a].expired
    /\ apiKeys' = [apiKeys EXCEPT ![a].expired = TRUE]
    /\ UNCHANGED <<endpoints, routes, idempotency, enabled, config, reactor, reactorPast, op, written,
                   replies>>

\* The command line revokes a credential in the shared database.
DisableCredential(p) ==
    /\ p \in enabled
    /\ enabled' = enabled \ {p}
    /\ UNCHANGED <<endpoints, routes, idempotency, apiKeys, config, reactor, reactorPast, op, written,
                   replies>>

\* configure_credentials enables every configured row, and only those.
ConfigureCredentials == enabled' = Principal /\ UNCHANGED apiKeys

\* create_app replaces the grants by those of the new configuration.  Requests
\* in progress end with the old process.
Restart(c) ==
    /\ config' = c
    /\ ConfigureCredentials
    /\ op' = [t \in Thread |-> Idle]
    /\ UNCHANGED <<endpoints, routes, idempotency, reactor, reactorPast, written, replies>>

\* What a key or route means to the data plane: resolve_data_plane_credential
\* and active_routes.
KeyAccepted(a) == apiKeys[a] # Nothing /\ ~apiKeys[a].revoked /\ ~apiKeys[a].expired

ActiveRoutes(e, scope) ==
    {r \in Route : /\ routes[r] # Nothing
                   /\ routes[r].endpoint = e
                   /\ routes[r].state = "ACTIVE"
                   /\ routes[r].scope = scope}

\* A deployment behind the Reactor endpoint is replaced; the endpoint's own
\* version moves with it or not.
ReactorMoves(both) ==
    /\ reactor.digest < MaxReactor /\ reactor.version < MaxReactor
    /\ reactor' = [version |-> IF both THEN reactor.version + 1 ELSE reactor.version,
                   digest |-> reactor.digest + 1]
    /\ reactorPast' = reactorPast \cup {reactor'}
    /\ UNCHANGED <<tables, config, op, written, replies>>

CatalogueNext(kinds) ==
    \/ \E t \in Thread, p \in Principal, k \in Key, e \in Endpoint, b \in Binding :
         \/ "endpoint" \in kinds /\ ResolveCreate(t, p, "endpoint", k, e, b)
         \/ "route" \in kinds /\ ResolveCreate(t, p, "route", k, e, b)
         \/ "draft" \in kinds /\ \E source \in RouteSource : CreateLegacyDraft(t, p, k, e, b, source)
         \/ "binding" \in kinds /\ CreateBindingDraft(t, p, k, e, b)
         \/ "sourced" \in kinds /\ \E v \in 1..MaxReactor : AdmitSourcedDraft(t, p, k, e, b, v)
    \/ \E t \in Thread, p \in Principal, r \in Route, v \in 1..MaxVersion :
         \/ "edit" \in kinds /\ \E b \in Binding : ReadToEdit(t, p, r, b, v)
         \/ "confirm" \in kinds /\ AdmitConfirm(t, p, r, v)
    \/ \E t \in Thread, p \in Principal, e \in Endpoint : "disable" \in kinds /\ ReadToDisable(t, p, e)
    \/ \E t \in Thread :
         \/ SaveEndpoint(t) \/ SaveRoute(t) \/ RememberCreate(t) \/ SaveDisabled(t)
         \/ ResolveSourceEndpoint(t) \/ ResolveSourceDeployment(t) \/ CreateSourcedDraft(t)
         \/ CommitEdit(t) \/ InspectDraft(t) \/ CheckDestination(t)
         \/ ProbeSource(t) \/ ProbeDeployment(t) \/ CommitConfirm(t) \/ HandlerFails(t)
    \/ \E p \in Principal, k \in Key, a \in ApiKey :
         \/ "api-key" \in kinds /\ (CreateApiKey(p, k) \/ RevokeApiKey(p, a) \/ ApiKeyExpires(a))
         \/ "credential" \in kinds /\ DisableCredential(p)
    \/ "restart" \in kinds /\ \E c \in Config : Restart(c)
    \/ "reactor" \in kinds /\ \E both \in BOOLEAN : ReactorMoves(both)

\* Every request of the control plane, in any order.
Requests == {"endpoint", "route", "draft", "binding", "sourced", "edit", "confirm", "disable",
             "api-key", "credential", "restart", "reactor"}

CatalogueSpec == CatalogueInit /\ [][CatalogueNext(Requests)]_catalogueVars

----------------------------------------------------------------------------
(* Properties.                                                              *)

TypeOK ==
    /\ endpoints \in [Endpoint -> EndpointDoc \cup {Nothing}]
    /\ routes \in [Route -> RouteDoc \cup {Nothing}]
    /\ enabled \subseteq Principal
    /\ apiKeys \in [ApiKey -> ApiKeyDoc \cup {Nothing}]
    /\ config \in Config
    /\ written \in [Route -> Binding \cup {Nothing}]

\* An edit a client was told has been stored is what the route says, whatever
\* confirmation or other edit ran beside it (replace_route_version).
NoLostEdit == \A r \in Route : routes[r] # Nothing => routes[r].binding = written[r]

\* A draft goes live only under a binding the running configuration admits
\* and, for a workspace's draft, a grant it has now: both were checked several
\* reads earlier.
PublishedWhilePermitted ==
    [][\A r \in Route : routes[r] # Nothing /\ routes[r].state = "DRAFT" /\ routes'[r].state = "ACTIVE" =>
          /\ routes'[r].binding \in config.bindings
          /\ routes[r].scope # Legacy => routes[r].scope \in config.endpoint]_catalogueVars

\* Version and digest of a source are read apart, for the draft and again for
\* the confirmation.  Of a workspace's route the source still existed as such:
\* the endpoint had this version while its deployment had this digest.  The
\* pair of an operator's route is the client's own and may never have existed;
\* the confirmation has seen each half of it, the version first.
PublishedSourceExisted ==
    \A r \in Route :
        routes[r] # Nothing /\ routes[r].state = "ACTIVE" /\ routes[r].source # Nothing =>
            /\ routes[r].scope # Legacy => routes[r].source \in reactorPast
            /\ \E first, then \in reactorPast :
                  /\ first.version = routes[r].source.version
                  /\ then.digest = routes[r].source.digest
                  /\ first.digest <= then.digest

\* Two answers to requests with one idempotency key name one resource, also
\* when the requests ran side by side or a process died between them.
ReplaysAgree ==
    \A a, b \in replies : a.scope = b.scope /\ a.key = b.key => a.id = b.id /\ a.digest = b.digest

=============================================================================
