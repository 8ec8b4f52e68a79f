-------------------------- MODULE CatalogueProofs --------------------------
(* Proofs about ProductCatalogue: an acknowledged edit is never lost, what  *)
(* is published was permitted and had a source that existed, and replays of *)
(* a keyed request agree, for any number of threads, routes and versions.   *)
(*                                                                          *)
(* One invariant carries them all.  It says of every document a handler has *)
(* read what is still known of it: its version is not above the stored one, *)
(* and with the same version it is the stored document.                     *)
EXTENDS ProductCatalogue, TLAPS

----------------------------------------------------------------------------
(* What a handler holds between two steps.                                  *)

SaveOp == [pc : {"save"}, kind : {"endpoint", "route"}, key : Key, endpoint : Endpoint, binding : Binding]
RememberOp == [pc : {"remember"}, kind : {"endpoint", "route"}, key : Key, id : Endpoint \cup Route,
               digest : Endpoint \X Binding]
DisableOp == [pc : {"disable"}, endpoint : Endpoint, seen : EndpointDoc]
SourceOp == [pc : {"source", "deployment"}, by : Principal, key : Key, endpoint : Endpoint,
             binding : Binding, version : 1..MaxReactor]
DraftOp == [pc : {"draft"}, by : Principal, key : Key, endpoint : Endpoint, binding : Binding,
            source : RouteSource]
EditOp == [pc : {"edit"}, route : Route, seen : RouteDoc, binding : Binding, version : 1..MaxVersion]
InspectOp == [pc : {"inspect"}, by : Principal, route : Route, version : 1..MaxVersion]
ConfirmOp == [pc : {"endpoint", "probe", "artifact", "commit"}, route : Route, seen : RouteDoc]

Op == {Idle} \cup SaveOp \cup RememberOp \cup DisableOp \cup SourceOp \cup DraftOp \cup EditOp
        \cup InspectOp \cup ConfirmOp

\* The Reactor's version never falls, so a source read in two parts either
\* existed or has a version the Reactor has left behind.
Shown(s) ==
    s # Nothing => /\ s.version <= reactor.version
                   /\ s.version = reactor.version => s \in reactorPast

Existed(s) == s # Nothing => s \in reactorPast
VersionSeen(s) == s # Nothing => \E m \in reactorPast : m.version = s.version
HalvesSeen(s) ==
    s # Nothing => \E first, then \in reactorPast :
                      first.version = s.version /\ then.digest = s.digest /\ first.digest <= then.digest

\* What is known of a document's source when it is stored, when its version has
\* been probed, and when its digest has: of an operator's draft, only what the
\* probes have seen.
Traceable(d) == d.scope # Legacy => Shown(d.source)
SourceProbed(d) == (d.scope # Legacy => Existed(d.source)) /\ VersionSeen(d.source)
SourceConfirmed(d) == (d.scope # Legacy => Existed(d.source)) /\ HalvesSeen(d.source)

ReadBefore(r, doc) ==
    /\ routes[r] # Nothing
    /\ doc.version <= routes[r].version
    /\ doc.version = routes[r].version => doc = routes[r]

Admitted(r, v) ==
    /\ routes[r] # Nothing
    /\ v <= routes[r].version
    /\ v = routes[r].version => routes[r].binding \in config.bindings

SaveKnown(o) == o.pc = "save" => Legacy \in Scope
DisableKnown(o) == o.pc = "disable" => o.seen.version = 1
SourceKnown(o) == o.pc = "deployment" => o.version <= reactor.version
DraftKnown(o) == o.pc = "draft" => Shown(o.source)
EditKnown(o) ==
    o.pc = "edit" => /\ ReadBefore(o.route, o.seen)
                     /\ o.seen.state = "DRAFT"
                     /\ o.version <= o.seen.version /\ o.version < MaxVersion
InspectKnown(o) == o.pc = "inspect" => Admitted(o.route, o.version) /\ o.version < MaxVersion
ConfirmKnown(o) ==
    o.pc \in {"endpoint", "probe", "artifact", "commit"} =>
        /\ ReadBefore(o.route, o.seen)
        /\ o.seen.state = "DRAFT"
        /\ o.seen.version < MaxVersion
        /\ o.seen.binding \in config.bindings
        /\ Traceable(o.seen)
GrantKnown(o) ==
    o.pc \in {"probe", "artifact", "commit"} =>
        (o.seen.scope # Legacy => o.seen.scope \in config.endpoint)
ProbeKnown(o) ==
    /\ o.pc = "artifact" => SourceProbed(o.seen)
    /\ o.pc = "commit" => SourceConfirmed(o.seen)

Known(o) ==
    /\ SaveKnown(o) /\ DisableKnown(o) /\ SourceKnown(o) /\ DraftKnown(o) /\ EditKnown(o)
    /\ InspectKnown(o) /\ ConfirmKnown(o) /\ GrantKnown(o) /\ ProbeKnown(o)

----------------------------------------------------------------------------
(* The inductive invariant.                                                 *)

TypeInv ==
    /\ TypeOK
    /\ op \in [Thread -> Op]
    /\ reactor \in RouteSource
    /\ reactor \in reactorPast
    /\ \A m \in reactorPast : m \in RouteSource /\ m.digest <= reactor.digest

ActiveIsFirst ==
    \A e \in Endpoint : endpoints[e] # Nothing /\ endpoints[e].state = "ACTIVE" => endpoints[e].version = 1

RoutesKnown ==
    \A r \in Route : routes[r] # Nothing =>
        /\ routes[r].binding = written[r]
        /\ Traceable(routes[r])
        /\ routes[r].state = "ACTIVE" => SourceConfirmed(routes[r])

OpsKnown == \A t \in Thread : Known(op[t])

\* The idempotency table has one row for a key in a scope, and a reply is a
\* row of it.
RowsKnown ==
    /\ replies \subseteq idempotency
    /\ \A i \in idempotency : i = Row(i.scope, i.key, i.digest, i.id)
    /\ \A i, j \in idempotency : i.scope = j.scope /\ i.key = j.key => i = j

CatalogueInv == TypeInv /\ ActiveIsFirst /\ RoutesKnown /\ OpsKnown /\ RowsKnown

----------------------------------------------------------------------------
(* Facts about versions and about what a step may change.                   *)

\* What every step but a restart does to what handlers have read.
Grows ==
    /\ config' = config
    /\ routes' \in [Route -> RouteDoc \cup {Nothing}]
    /\ \A r \in Route : routes[r] # Nothing =>
          /\ routes'[r] # Nothing
          /\ routes'[r] = routes[r] \/ routes[r].version < routes'[r].version
    /\ reactor' \in RouteSource
    /\ reactor.version <= reactor'.version
    /\ reactorPast \subseteq reactorPast'

\* The versions a document or a source carries are natural numbers.
LEMMA VersionTypes ==
    /\ \A d \in RouteDoc : d.version \in Nat /\ d.source \in RouteSource \cup {Nothing}
    /\ \A s \in RouteSource : s.version \in Nat /\ s.digest \in Nat
    /\ 1..MaxVersion \subseteq Nat /\ 1..MaxReactor \subseteq Nat
  BY CatalogueAssumption DEF RouteDoc, RouteSource

\* A source that was shown stays shown, one that existed keeps existing.
LEMMA SourceKept ==
  ASSUME TypeInv, Grows
  PROVE  /\ \A s \in RouteSource \cup {Nothing} : Shown(s) => Shown(s)'
         /\ \A d \in RouteDoc : (Traceable(d) => Traceable(d)')
         /\ \A d \in RouteDoc : (SourceProbed(d) => SourceProbed(d)')
         /\ \A d \in RouteDoc : (SourceConfirmed(d) => SourceConfirmed(d)')
  <1>1. \A s \in RouteSource \cup {Nothing} : Shown(s) => Shown(s)'
    BY VersionTypes, SMTT(30) DEF TypeInv, Grows, Shown
  <1>2. \A s : /\ Existed(s) => Existed(s)'
               /\ VersionSeen(s) => VersionSeen(s)'
               /\ HalvesSeen(s) => HalvesSeen(s)'
    BY DEF Grows, Existed, VersionSeen, HalvesSeen
  <1> QED BY <1>1, <1>2, VersionTypes DEF Traceable, SourceProbed, SourceConfirmed

\* What was read of a route is still what is known of it.
LEMMA RouteReadKept ==
  ASSUME TypeInv, Grows
  PROVE  /\ \A r \in Route, d \in RouteDoc : ReadBefore(r, d) => ReadBefore(r, d)'
         /\ \A r \in Route, v \in 1..MaxVersion : Admitted(r, v) => Admitted(r, v)'
  <1>1. ASSUME NEW r \in Route, routes[r] # Nothing
        PROVE  /\ routes[r] \in RouteDoc /\ routes'[r] \in RouteDoc
               /\ routes[r].version \in Nat /\ routes'[r].version \in Nat
    BY <1>1, VersionTypes DEF TypeInv, TypeOK, Grows
  <1>2. ASSUME NEW r \in Route, NEW d \in RouteDoc, ReadBefore(r, d)
        PROVE  ReadBefore(r, d)'
    BY <1>1, <1>2, VersionTypes DEF ReadBefore, Grows
  <1>3. ASSUME NEW r \in Route, NEW v \in 1..MaxVersion, Admitted(r, v)
        PROVE  Admitted(r, v)'
    BY <1>1, <1>3, VersionTypes DEF Admitted, Grows
  <1> QED BY <1>2, <1>3

\* The fields of a request in progress, by how far it has come.
LEMMA OpFields ==
  ASSUME NEW o \in Op
  PROVE  /\ o.pc = "save" => o \in SaveOp
         /\ o.pc = "remember" => o \in RememberOp
         /\ o.pc = "disable" => o \in DisableOp
         /\ o.pc \in {"source", "deployment"} => o \in SourceOp
         /\ o.pc = "draft" => o \in DraftOp
         /\ o.pc = "edit" => o \in EditOp
         /\ o.pc = "inspect" => o \in InspectOp
         /\ o.pc \in {"endpoint", "probe", "artifact", "commit"} => o \in ConfirmOp
  BY DEF Op, Idle, SaveOp, RememberOp, DisableOp, SourceOp, DraftOp, EditOp, InspectOp, ConfirmOp

\* Nothing a handler knows is lost by a step of another one.
LEMMA KnownKept ==
  ASSUME TypeInv, Grows
  PROVE  \A o \in Op : Known(o) => Known(o)'
  <1> SUFFICES ASSUME NEW o \in Op, Known(o) PROVE Known(o)'
    OBVIOUS
  <1>1. SaveKnown(o)' /\ DisableKnown(o)' BY DEF Known, SaveKnown, DisableKnown
  <1>2. SourceKnown(o)'
    <2>1. o.pc \in {"source", "deployment"} => o.version \in Nat
      BY OpFields, VersionTypes DEF SourceOp
    <2> QED BY <2>1, VersionTypes DEF Known, SourceKnown, TypeInv, Grows
  <1>3. DraftKnown(o)'
    <2>1. o.pc = "draft" => o.source \in RouteSource BY OpFields DEF DraftOp
    <2> QED BY <2>1, SourceKept DEF Known, DraftKnown
  <1>4. EditKnown(o)'
    <2>1. o.pc = "edit" => o.route \in Route /\ o.seen \in RouteDoc BY OpFields DEF EditOp
    <2> QED BY <2>1, RouteReadKept DEF Known, EditKnown
  <1>5. InspectKnown(o)'
    <2>1. o.pc = "inspect" => o.route \in Route /\ o.version \in 1..MaxVersion BY OpFields DEF InspectOp
    <2> QED BY <2>1, RouteReadKept DEF Known, InspectKnown
  <1>6. ConfirmKnown(o)' /\ GrantKnown(o)' /\ ProbeKnown(o)'
    <2>1. o.pc \in {"endpoint", "probe", "artifact", "commit"} =>
            o.route \in Route /\ o.seen \in RouteDoc /\ o.seen.source \in RouteSource \cup {Nothing}
      BY OpFields, VersionTypes DEF ConfirmOp
    <2>2. ConfirmKnown(o)' BY <2>1, RouteReadKept, SourceKept DEF Known, ConfirmKnown, Grows
    <2>3. GrantKnown(o)' BY DEF Known, GrantKnown, Grows
    <2>4. ProbeKnown(o)' BY <2>1, SourceKept DEF Known, ProbeKnown
    <2> QED BY <2>2, <2>3, <2>4
  <1> QED BY <1>1, <1>2, <1>3, <1>4, <1>5, <1>6 DEF Known

\* One handler steps, or none.
LEMMA OpsKept ==
  ASSUME TypeInv, OpsKnown, Grows
  PROVE  /\ UNCHANGED op => OpsKnown' /\ op' \in [Thread -> Op]
         /\ \A t \in Thread, o \in Op :
               op' = [op EXCEPT ![t] = o] /\ Known(o)' => OpsKnown' /\ op' \in [Thread -> Op]
  <1>1. ASSUME UNCHANGED op PROVE OpsKnown' /\ op' \in [Thread -> Op]
    <2>1. \A t \in Thread : op[t] \in Op /\ Known(op[t]) BY DEF TypeInv, OpsKnown
    <2>2. \A t \in Thread : op'[t] = op[t] BY <1>1
    <2>3. \A t \in Thread : Known(op[t])'
      <3> SUFFICES ASSUME NEW t \in Thread PROVE Known(op[t])' OBVIOUS
      <3>1. PICK o : o = op[t] OBVIOUS
      <3>2. o \in Op /\ Known(o) BY <2>1, <3>1
      <3>3. Known(o)' BY <3>2, KnownKept
      <3>4. op'[t] = o BY <2>2, <3>1
      <3> QED BY <3>3, <3>4
    <2> QED BY <1>1, <2>3 DEF TypeInv, OpsKnown
  <1>2. ASSUME NEW t \in Thread, NEW o \in Op, op' = [op EXCEPT ![t] = o], Known(o)'
        PROVE  OpsKnown' /\ op' \in [Thread -> Op]
    <2>1. op' \in [Thread -> Op] BY <1>2 DEF TypeInv
    <2>2. ASSUME NEW u \in Thread PROVE Known(op[u])'
      <3>1. PICK q : q = op[u] OBVIOUS
      <3>2. q \in Op /\ Known(q) BY <3>1 DEF TypeInv, OpsKnown
      <3>3. Known(q)' BY <3>2, KnownKept
      <3>4. op'[u] = IF u = t THEN o ELSE q BY <1>2, <3>1 DEF TypeInv
      <3> QED BY <1>2, <3>3, <3>4
    <2> QED BY <2>1, <2>2 DEF OpsKnown
  <1> QED BY <1>1, <1>2

\* A handler that ends, or has nothing under way, knows nothing.
LEMMA IdleKnown == Idle \in Op /\ Known(Idle) /\ Known(Idle)'
  BY DEF Idle, Op, Known, SaveKnown, DisableKnown, SourceKnown, DraftKnown, EditKnown, InspectKnown,
         ConfirmKnown, GrantKnown, ProbeKnown

----------------------------------------------------------------------------
(* The shapes steps have.                                                   *)

\* Answering a replay, and answering a request with the row written for it.
LEMMA AnswerKept ==
  ASSUME RowsKnown, NEW scope, NEW key, NEW digest, NEW id, Answer(scope, key, digest, id),
         \/ id \in ResolveIdempotency(scope, key, digest) /\ UNCHANGED idempotency
         \/ RememberIdempotency(scope, key, digest, id)
  PROVE  RowsKnown'
  <1> DEFINE row == Row(scope, key, digest, id)
  <1>1. CASE id \in ResolveIdempotency(scope, key, digest) /\ UNCHANGED idempotency
    <2>1. PICK i \in idempotency : i.scope = scope /\ i.key = key /\ i.digest = digest /\ i.id = id
      BY <1>1 DEF ResolveIdempotency, Remembered
    <2>2. i = row BY <2>1 DEF RowsKnown
    <2>3. replies' \subseteq idempotency' BY <1>1, <2>1, <2>2 DEF RowsKnown, Answer
    <2> QED BY <1>1, <2>3 DEF RowsKnown
  <1>2. CASE RememberIdempotency(scope, key, digest, id)
    <2>1. /\ idempotency' = idempotency \cup {row}
          /\ \A i \in idempotency : ~(i.scope = scope /\ i.key = key)
      BY <1>2 DEF RememberIdempotency, Remembered
    <2>2. row.scope = scope /\ row.key = key /\ row.digest = digest /\ row.id = id BY DEF Row
    <2>3. replies' \subseteq idempotency' BY <2>1 DEF RowsKnown, Answer
    <2>4. \A i \in idempotency' : i = Row(i.scope, i.key, i.digest, i.id)
      <3>1. row = Row(row.scope, row.key, row.digest, row.id) BY <2>2
      <3> QED BY <2>1, <3>1 DEF RowsKnown
    <2>5. \A i, j \in idempotency' : i.scope = j.scope /\ i.key = j.key => i = j
      <3> HIDE DEF row
      <3> QED BY <2>1, <2>2 DEF RowsKnown
    <2> QED BY <2>3, <2>4, <2>5 DEF RowsKnown
  <1> QED BY <1>1, <1>2

\* A step that only reads.
LEMMA QuietGrows ==
  ASSUME TypeInv, UNCHANGED <<routes, config, reactor, reactorPast>>
  PROVE  Grows
  BY VersionTypes DEF TypeInv, TypeOK, Grows

LEMMA QuietStep ==
  ASSUME CatalogueInv, NEW t \in Thread,
         UNCHANGED <<tables, config, reactor, reactorPast, written, replies>>
  PROVE  \A o \in Op : op' = [op EXCEPT ![t] = o] /\ Known(o) => CatalogueInv'
  <1> SUFFICES ASSUME NEW o \in Op, op' = [op EXCEPT ![t] = o], Known(o) PROVE CatalogueInv'
    OBVIOUS
  <1>1. TypeInv /\ OpsKnown BY DEF CatalogueInv
  <1>2. Grows BY <1>1, QuietGrows DEF tables
  <1>3. Known(o)' BY <1>1, <1>2, KnownKept
  <1>4. OpsKnown' /\ op' \in [Thread -> Op] BY <1>1, <1>2, <1>3, OpsKept
  <1>5. TypeInv' BY <1>1, <1>4 DEF TypeInv, TypeOK, tables
  <1>6. ActiveIsFirst' /\ RoutesKnown' /\ RowsKnown'
    BY DEF CatalogueInv, ActiveIsFirst, RoutesKnown, RowsKnown, Traceable, SourceConfirmed, Shown, Existed, HalvesSeen, tables
  <1> QED BY <1>4, <1>5, <1>6 DEF CatalogueInv

\* A route that is stored for the first time.
LEMMA NewRoute ==
  ASSUME TypeInv, RoutesKnown, NEW id \in Route, routes[id] = Nothing,
         NEW doc \in RouteDoc, Traceable(doc), doc.state = "ACTIVE" => SourceConfirmed(doc),
         routes' = [routes EXCEPT ![id] = doc], written' = [written EXCEPT ![id] = doc.binding],
         UNCHANGED <<config, reactor, reactorPast>>
  PROVE  /\ Grows /\ RoutesKnown'
         /\ written' \in [Route -> Binding \cup {Nothing}]
  <1>1. doc # Nothing /\ doc.binding \in Binding BY CatalogueAssumption DEF RouteDoc
  <1>2. \A r \in Route : routes'[r] = IF r = id THEN doc ELSE routes[r] BY DEF TypeInv, TypeOK
  <1>3. \A r \in Route : written'[r] = IF r = id THEN doc.binding ELSE written[r] BY DEF TypeInv, TypeOK
  <1>4. routes' \in [Route -> RouteDoc \cup {Nothing}] /\ written' \in [Route -> Binding \cup {Nothing}]
    BY <1>1 DEF TypeInv, TypeOK
  <1>5. Grows BY <1>2, <1>4, VersionTypes DEF TypeInv, Grows
  <1>6. RoutesKnown' BY <1>2, <1>3 DEF RoutesKnown, Traceable, SourceConfirmed, Shown, Existed, HalvesSeen
  <1> QED BY <1>4, <1>5, <1>6

\* A route that is replaced by a next version of what its handler has read.
LEMMA NextRoute ==
  ASSUME TypeInv, RoutesKnown, NEW id \in Route, routes[id] # Nothing,
         NEW doc \in RouteDoc, Traceable(doc), doc.state = "ACTIVE" => SourceConfirmed(doc),
         routes[id].version < doc.version,
         routes' = [routes EXCEPT ![id] = doc],
         \/ written' = [written EXCEPT ![id] = doc.binding]
         \/ UNCHANGED written /\ doc.binding = routes[id].binding,
         UNCHANGED <<config, reactor, reactorPast>>
  PROVE  /\ Grows /\ RoutesKnown'
         /\ written' \in [Route -> Binding \cup {Nothing}]
  <1>1. doc # Nothing /\ doc.binding \in Binding BY CatalogueAssumption DEF RouteDoc
  <1>2. \A r \in Route : routes'[r] = IF r = id THEN doc ELSE routes[r] BY DEF TypeInv, TypeOK
  <1>3. \A r \in Route : written'[r] = IF r = id THEN doc.binding ELSE written[r]
    BY DEF TypeInv, TypeOK, RoutesKnown
  <1>4. routes' \in [Route -> RouteDoc \cup {Nothing}] /\ written' \in [Route -> Binding \cup {Nothing}]
    BY <1>1 DEF TypeInv, TypeOK
  <1>5. Grows BY <1>1, <1>2, <1>4, VersionTypes DEF TypeInv, Grows
  <1>6. RoutesKnown' BY <1>2, <1>3 DEF RoutesKnown, Traceable, SourceConfirmed, Shown, Existed, HalvesSeen
  <1> QED BY <1>4, <1>5, <1>6

\* A draft is stored, or a replay of its request is answered.
LEMMA DraftStored ==
  ASSUME CatalogueInv, NEW doc \in RouteDoc, NEW scope, NEW key, NEW digest, NEW flag,
         doc.state = "DRAFT", Traceable(doc),
         CreateRouteDraft(doc, scope, key, digest, flag),
         UNCHANGED <<config, reactor, reactorPast>>
  PROVE  /\ Grows /\ RoutesKnown' /\ RowsKnown'
         /\ written' \in [Route -> Binding \cup {Nothing}]
  <1>1. TypeInv /\ RoutesKnown /\ RowsKnown BY DEF CatalogueInv
  <1>2. CASE ResolveIdempotency(scope, key, digest) # {}
    <2>1. PICK id \in ResolveIdempotency(scope, key, digest) : Answer(scope, key, digest, id)
      BY <1>2 DEF CreateRouteDraft
    <2>2. UNCHANGED <<routes, idempotency, written>> BY <1>2 DEF CreateRouteDraft
    <2>3. RowsKnown' BY <1>1, <2>1, <2>2, AnswerKept
    <2>4. Grows BY <1>1, <2>2, QuietGrows
    <2>5. RoutesKnown' BY <1>1, <2>2 DEF RoutesKnown, Traceable, SourceConfirmed, Shown, Existed, HalvesSeen
    <2> QED BY <1>1, <2>2, <2>3, <2>4, <2>5 DEF TypeInv, TypeOK
  <1>3. CASE ~(ResolveIdempotency(scope, key, digest) # {})
    <2>1. PICK id \in Route :
             /\ routes[id] = Nothing
             /\ routes' = [routes EXCEPT ![id] = doc]
             /\ written' = [written EXCEPT ![id] = doc.binding]
             /\ RememberIdempotency(scope, key, digest, id)
             /\ Answer(scope, key, digest, id)
      BY <1>3 DEF CreateRouteDraft
    <2>2. RowsKnown' BY <1>1, <2>1, AnswerKept
    <2> QED BY <1>1, <2>1, <2>2, NewRoute
  <1> QED BY <1>2, <1>3

----------------------------------------------------------------------------
(* Steps of the requests that create and disable.                           *)

\* The rest of the invariant, once routes, requests and rows are known.
LEMMA Assemble ==
  ASSUME CatalogueInv, Grows, RoutesKnown', RowsKnown', OpsKnown', op' \in [Thread -> Op],
         written' \in [Route -> Binding \cup {Nothing}],
         UNCHANGED <<endpoints, enabled, apiKeys, reactor, reactorPast>>
  PROVE  CatalogueInv'
  <1>1. TypeInv' BY DEF CatalogueInv, TypeInv, TypeOK, Grows
  <1>2. ActiveIsFirst' BY DEF CatalogueInv, ActiveIsFirst
  <1> QED BY <1>1, <1>2 DEF CatalogueInv

LEMMA ResolveCreateStep ==
  ASSUME CatalogueInv, NEW t \in Thread, NEW p \in Principal, NEW kind \in {"endpoint", "route"},
         NEW k \in Key, NEW e \in Endpoint, NEW b \in Binding, ResolveCreate(t, p, kind, k, e, b)
  PROVE  CatalogueInv'
  <1>1. UNCHANGED <<tables, config, reactor, reactorPast, written>> BY DEF ResolveCreate
  <1>2. CASE ResolveIdempotency(CreateScope(kind), k, <<e, b>>) # {}
    <2>1. PICK id \in ResolveIdempotency(CreateScope(kind), k, <<e, b>>) :
             Answer(CreateScope(kind), k, <<e, b>>, id) /\ UNCHANGED op
      BY <1>2 DEF ResolveCreate
    <2>2. TypeInv /\ OpsKnown /\ RowsKnown /\ RoutesKnown BY DEF CatalogueInv
    <2>3. RowsKnown' BY <1>1, <2>1, <2>2, AnswerKept DEF tables
    <2>4. Grows BY <1>1, <2>2, QuietGrows DEF tables
    <2>5. OpsKnown' /\ op' \in [Thread -> Op] BY <2>1, <2>2, <2>4, OpsKept
    <2>6. RoutesKnown' BY <1>1, <2>2 DEF RoutesKnown, Traceable, SourceConfirmed, Shown, Existed, HalvesSeen, tables
    <2>7. written' \in [Route -> Binding \cup {Nothing}] BY <1>1, <2>2 DEF TypeInv, TypeOK
    <2> QED BY <1>1, <2>3, <2>4, <2>5, <2>6, <2>7, Assemble DEF tables
  <1>3. CASE ~(ResolveIdempotency(CreateScope(kind), k, <<e, b>>) # {})
    <2>1. PICK o : o = [pc |-> "save", kind |-> kind, key |-> k, endpoint |-> e, binding |-> b]
      OBVIOUS
    <2>2. op' = [op EXCEPT ![t] = o] /\ UNCHANGED replies BY <1>3, <2>1 DEF ResolveCreate
    <2>3. o \in SaveOp /\ o.pc = "save" BY <2>1 DEF SaveOp
    <2>4. o \in Op BY <2>3 DEF Op
    <2>5. Legacy \in Scope BY DEF ResolveCreate, LegacyOperator, Scope
    <2>6. Known(o)
      BY <2>3, <2>5 DEF Known, SaveKnown, DisableKnown, SourceKnown, DraftKnown, EditKnown,
           InspectKnown, ConfirmKnown, GrantKnown, ProbeKnown
    <2> QED BY <1>1, <2>2, <2>4, <2>6, QuietStep
  <1> QED BY <1>2, <1>3

LEMMA SaveEndpointStep ==
  ASSUME CatalogueInv, NEW t \in Thread, SaveEndpoint(t)
  PROVE  CatalogueInv'
  <1>1. TypeInv /\ OpsKnown /\ RowsKnown /\ RoutesKnown /\ ActiveIsFirst BY DEF CatalogueInv
  <1>2. op[t] \in SaveOp BY <1>1, OpFields DEF TypeInv, SaveEndpoint
  <1>3. UNCHANGED <<routes, idempotency, enabled, apiKeys, config, reactor, reactorPast, written, replies>>
    BY DEF SaveEndpoint
  <1>4. PICK id \in Endpoint :
          /\ endpoints' = [endpoints EXCEPT ![id] = [state |-> "ACTIVE", version |-> 1]]
          /\ op' = [op EXCEPT ![t] = [pc |-> "remember", kind |-> "endpoint", key |-> op[t].key, id |-> id,
                                      digest |-> <<op[t].endpoint, op[t].binding>>]]
    BY DEF SaveEndpoint
  <1>5. PICK o : o = [pc |-> "remember", kind |-> "endpoint", key |-> op[t].key, id |-> id,
                      digest |-> <<op[t].endpoint, op[t].binding>>]
    OBVIOUS
  <1>6. o \in RememberOp /\ o.pc = "remember" BY <1>2, <1>5 DEF SaveOp, RememberOp
  <1>7. o \in Op /\ Known(o)'
    BY <1>6 DEF Op, Known, SaveKnown, DisableKnown, SourceKnown, DraftKnown, EditKnown,
         InspectKnown, ConfirmKnown, GrantKnown, ProbeKnown
  <1>8. Grows BY <1>1, <1>3, QuietGrows
  <1>9. OpsKnown' /\ op' \in [Thread -> Op] BY <1>1, <1>4, <1>5, <1>7, <1>8, OpsKept
  <1>10. PICK d : d = [state |-> "ACTIVE", version |-> 1] OBVIOUS
  <1>11. d \in EndpointDoc /\ d.version = 1 BY <1>10 DEF EndpointDoc
  <1>12. endpoints' \in [Endpoint -> EndpointDoc \cup {Nothing}]
    BY <1>1, <1>4, <1>10, <1>11 DEF TypeInv, TypeOK
  <1>13. ActiveIsFirst'
    <2>1. \A e \in Endpoint : endpoints'[e] = IF e = id THEN d ELSE endpoints[e]
      BY <1>1, <1>4, <1>10 DEF TypeInv, TypeOK
    <2> QED BY <1>1, <1>11, <2>1 DEF ActiveIsFirst
  <1>14. TypeInv' BY <1>1, <1>3, <1>9, <1>12 DEF TypeInv, TypeOK
  <1>15. RoutesKnown' /\ RowsKnown' BY <1>1, <1>3 DEF RoutesKnown, RowsKnown, Traceable, SourceConfirmed, Shown, Existed, HalvesSeen
  <1> QED BY <1>9, <1>13, <1>14, <1>15 DEF CatalogueInv

LEMMA SaveRouteStep ==
  ASSUME CatalogueInv, NEW t \in Thread, SaveRoute(t)
  PROVE  CatalogueInv'
  <1>1. TypeInv /\ OpsKnown /\ RowsKnown /\ RoutesKnown BY DEF CatalogueInv
  <1>2. op[t] \in SaveOp /\ Legacy \in Scope
    BY <1>1, OpFields DEF TypeInv, SaveRoute, OpsKnown, Known, SaveKnown
  <1>3. UNCHANGED <<endpoints, idempotency, enabled, apiKeys, config, reactor, reactorPast, replies>>
    BY DEF SaveRoute
  <1>4. PICK id \in Route :
          /\ routes[id] = Nothing
          /\ routes' = [routes EXCEPT ![id] =
                [state |-> "ACTIVE", endpoint |-> op[t].endpoint, scope |-> Legacy, by |-> Nothing,
                 binding |-> op[t].binding, version |-> 1, source |-> Nothing]]
          /\ written' = [written EXCEPT ![id] = op[t].binding]
          /\ op' = [op EXCEPT ![t] = [pc |-> "remember", kind |-> "route", key |-> op[t].key, id |-> id,
                                     digest |-> <<op[t].endpoint, op[t].binding>>]]
    BY DEF SaveRoute
  <1>5. PICK o : o = [pc |-> "remember", kind |-> "route", key |-> op[t].key, id |-> id,
                      digest |-> <<op[t].endpoint, op[t].binding>>]
    OBVIOUS
  <1>6. o \in RememberOp /\ o.pc = "remember" BY <1>2, <1>5 DEF SaveOp, RememberOp
  <1>7. o \in Op /\ Known(o)'
    BY <1>6 DEF Op, Known, SaveKnown, DisableKnown, SourceKnown, DraftKnown, EditKnown,
         InspectKnown, ConfirmKnown, GrantKnown, ProbeKnown
  <1>8. PICK doc : doc = [state |-> "ACTIVE", endpoint |-> op[t].endpoint, scope |-> Legacy, by |-> Nothing,
                          binding |-> op[t].binding, version |-> 1, source |-> Nothing]
    OBVIOUS
  <1>9. 1 \in 1..MaxVersion BY CatalogueAssumption
  <1>10. doc \in RouteDoc /\ doc.source = Nothing /\ doc.binding = op[t].binding
    BY <1>2, <1>8, <1>9 DEF SaveOp, RouteDoc
  <1>11. Traceable(doc) /\ SourceConfirmed(doc)
    BY <1>10 DEF Traceable, SourceConfirmed, Shown, Existed, HalvesSeen
  <1>12. Grows /\ RoutesKnown' /\ written' \in [Route -> Binding \cup {Nothing}]
    BY <1>1, <1>3, <1>4, <1>8, <1>10, <1>11, NewRoute
  <1>13. OpsKnown' /\ op' \in [Thread -> Op] BY <1>1, <1>4, <1>5, <1>7, <1>12, OpsKept
  <1>14. RowsKnown' BY <1>1, <1>3 DEF RowsKnown
  <1> QED BY <1>3, <1>12, <1>13, <1>14, Assemble

LEMMA RememberCreateStep ==
  ASSUME CatalogueInv, NEW t \in Thread, RememberCreate(t)
  PROVE  CatalogueInv'
  <1>1. TypeInv /\ OpsKnown /\ RowsKnown /\ RoutesKnown BY DEF CatalogueInv
  <1>2. UNCHANGED <<endpoints, routes, enabled, apiKeys, config, reactor, reactorPast, written>>
        /\ op' = [op EXCEPT ![t] = Idle]
    BY DEF RememberCreate
  <1>3. RowsKnown'
    <2>1. CASE UNCHANGED <<idempotency, replies>> BY <1>1, <2>1 DEF RowsKnown
    <2>2. CASE /\ RememberIdempotency(CreateScope(op[t].kind), op[t].key, op[t].digest, op[t].id)
               /\ Answer(CreateScope(op[t].kind), op[t].key, op[t].digest, op[t].id)
      BY <1>1, <2>2, AnswerKept
    <2> QED BY <2>1, <2>2 DEF RememberCreate
  <1>4. Grows BY <1>1, <1>2, QuietGrows
  <1>5. OpsKnown' /\ op' \in [Thread -> Op] BY <1>1, <1>2, <1>4, IdleKnown, OpsKept
  <1>6. RoutesKnown' BY <1>1, <1>2 DEF RoutesKnown, Traceable, SourceConfirmed, Shown, Existed, HalvesSeen
  <1>7. written' \in [Route -> Binding \cup {Nothing}] BY <1>1, <1>2 DEF TypeInv, TypeOK
  <1> QED BY <1>2, <1>3, <1>4, <1>5, <1>6, <1>7, Assemble

LEMMA ReadToDisableStep ==
  ASSUME CatalogueInv, NEW t \in Thread, NEW p \in Principal, NEW e \in Endpoint, ReadToDisable(t, p, e)
  PROVE  CatalogueInv'
  <1>1. PICK o : o = [pc |-> "disable", endpoint |-> e, seen |-> endpoints[e]] OBVIOUS
  <1>2. UNCHANGED <<tables, config, reactor, reactorPast, written, replies>> /\ op' = [op EXCEPT ![t] = o]
    BY <1>1 DEF ReadToDisable
  <1>3. endpoints[e] \in EndpointDoc /\ endpoints[e].version = 1
    BY DEF ReadToDisable, EndpointActive, Live, CatalogueInv, TypeInv, TypeOK, ActiveIsFirst
  <1>4. o \in DisableOp /\ o.pc = "disable" /\ o.seen.version = 1 BY <1>1, <1>3 DEF DisableOp
  <1>5. o \in Op BY <1>4 DEF Op
  <1>6. Known(o)
    BY <1>4 DEF Known, SaveKnown, DisableKnown, SourceKnown, DraftKnown, EditKnown,
         InspectKnown, ConfirmKnown, GrantKnown, ProbeKnown
  <1> QED BY <1>2, <1>5, <1>6, QuietStep

LEMMA SaveDisabledStep ==
  ASSUME CatalogueInv, NEW t \in Thread, SaveDisabled(t)
  PROVE  CatalogueInv'
  <1>1. TypeInv /\ OpsKnown /\ RowsKnown /\ RoutesKnown /\ ActiveIsFirst BY DEF CatalogueInv
  <1>2. op[t] \in DisableOp /\ op[t].seen.version = 1
    BY <1>1, OpFields DEF TypeInv, SaveDisabled, OpsKnown, Known, DisableKnown
  <1>3. UNCHANGED <<routes, idempotency, enabled, apiKeys, config, reactor, reactorPast, written, replies>>
        /\ op' = [op EXCEPT ![t] = Idle]
    BY DEF SaveDisabled
  <1>4. PICK d : d = [state |-> "DISABLED", version |-> 2] OBVIOUS
  <1>5. endpoints' = [endpoints EXCEPT ![op[t].endpoint] = d] BY <1>2, <1>4 DEF SaveDisabled
  <1>6. d \in EndpointDoc /\ d.state # "ACTIVE" BY <1>4 DEF EndpointDoc
  <1>7. endpoints' \in [Endpoint -> EndpointDoc \cup {Nothing}]
    BY <1>1, <1>5, <1>6 DEF TypeInv, TypeOK
  <1>8. ActiveIsFirst'
    <2>1. \A e \in Endpoint : endpoints'[e] = IF e = op[t].endpoint THEN d ELSE endpoints[e]
      BY <1>1, <1>5 DEF TypeInv, TypeOK
    <2> QED BY <1>1, <1>6, <2>1 DEF ActiveIsFirst
  <1>9. Grows BY <1>1, <1>3, QuietGrows
  <1>10. OpsKnown' /\ op' \in [Thread -> Op] BY <1>1, <1>3, <1>9, IdleKnown, OpsKept
  <1>11. TypeInv' BY <1>1, <1>3, <1>7, <1>10 DEF TypeInv, TypeOK
  <1>12. RoutesKnown' /\ RowsKnown' BY <1>1, <1>3 DEF RoutesKnown, RowsKnown, Traceable, SourceConfirmed, Shown, Existed, HalvesSeen
  <1> QED BY <1>8, <1>10, <1>11, <1>12 DEF CatalogueInv

----------------------------------------------------------------------------
(* Steps of drafts.                                                         *)

\* The draft a principal asks for is a document.
LEMMA DraftType ==
  ASSUME NEW p \in Principal, NEW e \in Endpoint, NEW b \in Binding, NEW s \in RouteSource \cup {Nothing}
  PROVE  /\ Draft(p, e, b, s) \in RouteDoc
         /\ Draft(p, e, b, s).state = "DRAFT"
         /\ Draft(p, e, b, s).source = s /\ Draft(p, e, b, s).scope = ScopeOf[p]
  <1>1. 1 \in 1..MaxVersion BY CatalogueAssumption
  <1>2. ScopeOf[p] \in Scope BY DEF Scope
  <1> QED BY <1>1, <1>2 DEF Draft, RouteDoc, RouteSource

\* A draft of a handler that does everything in one transaction.
LEMMA DirectDraft ==
  ASSUME CatalogueInv, NEW p \in Principal, NEW e \in Endpoint, NEW b \in Binding,
         NEW s \in RouteSource \cup {Nothing}, NEW scope, NEW key, NEW digest, NEW flag,
         ScopeOf[p] # Legacy => Shown(s),
         CreateRouteDraft(Draft(p, e, b, s), scope, key, digest, flag),
         UNCHANGED <<endpoints, enabled, apiKeys, config, reactor, reactorPast>>,
         \/ UNCHANGED op
         \/ \E t \in Thread : op' = [op EXCEPT ![t] = Idle]
  PROVE  CatalogueInv'
  <1>1. TypeInv /\ OpsKnown BY DEF CatalogueInv
  <1>2. Draft(p, e, b, s) \in RouteDoc /\ Draft(p, e, b, s).state = "DRAFT" /\ Traceable(Draft(p, e, b, s))
    BY DraftType DEF Traceable
  <1>3. Grows /\ RoutesKnown' /\ RowsKnown' /\ written' \in [Route -> Binding \cup {Nothing}]
    BY <1>2, DraftStored
  <1>4. OpsKnown' /\ op' \in [Thread -> Op] BY <1>1, <1>3, IdleKnown, OpsKept
  <1> QED BY <1>3, <1>4, Assemble

LEMMA CreateLegacyDraftStep ==
  ASSUME CatalogueInv, NEW t \in Thread, NEW p \in Principal, NEW k \in Key, NEW e \in Endpoint,
         NEW b \in Binding, NEW s \in RouteSource, CreateLegacyDraft(t, p, k, e, b, s)
  PROVE  CatalogueInv'
  <1>1. ScopeOf[p] = Legacy BY DEF CreateLegacyDraft, LegacyOperator
  <1>2. /\ CreateRouteDraft(Draft(p, e, b, s), <<"draft", Legacy>>, k, <<e, b, p, s>>, FALSE)
        /\ UNCHANGED <<endpoints, enabled, apiKeys, config, reactor, reactorPast, op>>
    BY DEF CreateLegacyDraft
  <1> QED BY <1>1, <1>2, DirectDraft

LEMMA CreateBindingDraftStep ==
  ASSUME CatalogueInv, NEW t \in Thread, NEW p \in Principal, NEW k \in Key, NEW e \in Endpoint,
         NEW b \in Binding, CreateBindingDraft(t, p, k, e, b)
  PROVE  CatalogueInv'
  <1>1. /\ CreateRouteDraft(Draft(p, e, b, Nothing), <<"binding", ScopeOf[p]>>, k, <<e, b, p>>, FALSE)
        /\ UNCHANGED <<endpoints, enabled, apiKeys, config, reactor, reactorPast, op>>
    BY DEF CreateBindingDraft
  <1>2. Shown(Nothing) BY DEF Shown
  <1> QED BY <1>1, <1>2, DirectDraft

LEMMA CreateSourcedDraftStep ==
  ASSUME CatalogueInv, NEW t \in Thread, CreateSourcedDraft(t)
  PROVE  CatalogueInv'
  <1>1. PICK o : o = op[t] OBVIOUS
  <1>2. o \in DraftOp /\ Shown(o.source)
    BY <1>1, OpFields DEF CreateSourcedDraft, CatalogueInv, TypeInv, OpsKnown, Known, DraftKnown
  <1>3. /\ CreateRouteDraft(Draft(o.by, o.endpoint, o.binding, o.source), <<"sourced", ScopeOf[o.by]>>,
                            o.key, <<o.endpoint, o.binding, o.by, o.source.version>>, TRUE)
        /\ UNCHANGED <<endpoints, enabled, apiKeys, config, reactor, reactorPast>>
        /\ op' = [op EXCEPT ![t] = Idle]
    BY <1>1 DEF CreateSourcedDraft
  <1>4. o.by \in Principal /\ o.endpoint \in Endpoint /\ o.binding \in Binding /\ o.source \in RouteSource
    BY <1>2 DEF DraftOp
  <1> QED BY <1>2, <1>3, <1>4, DirectDraft

LEMMA AdmitSourcedDraftStep ==
  ASSUME CatalogueInv, NEW t \in Thread, NEW p \in Principal, NEW k \in Key, NEW e \in Endpoint,
         NEW b \in Binding, NEW v \in 1..MaxReactor, AdmitSourcedDraft(t, p, k, e, b, v)
  PROVE  CatalogueInv'
  <1>1. PICK o : o = [pc |-> "source", by |-> p, key |-> k, endpoint |-> e, binding |-> b,
                      version |-> v]
    OBVIOUS
  <1>2. UNCHANGED <<tables, config, reactor, reactorPast, written, replies>> /\ op' = [op EXCEPT ![t] = o]
    BY <1>1 DEF AdmitSourcedDraft
  <1>3. o \in SourceOp /\ o.pc = "source" BY <1>1 DEF SourceOp
  <1>4. o \in Op BY <1>3 DEF Op
  <1>5. Known(o)
    BY <1>3 DEF Known, SaveKnown, DisableKnown, SourceKnown, DraftKnown, EditKnown,
         InspectKnown, ConfirmKnown, GrantKnown, ProbeKnown
  <1> QED BY <1>2, <1>4, <1>5, QuietStep

LEMMA ResolveSourceEndpointStep ==
  ASSUME CatalogueInv, NEW t \in Thread, ResolveSourceEndpoint(t)
  PROVE  CatalogueInv'
  <1>1. UNCHANGED <<tables, config, reactor, reactorPast, written, replies>> BY DEF ResolveSourceEndpoint
  <1>2. CASE op' = [op EXCEPT ![t] = Idle] BY <1>1, <1>2, IdleKnown, QuietStep
  <1>3. CASE reactor.version = op[t].version /\ op' = [op EXCEPT ![t].pc = "deployment"]
    <2>1. op[t] \in SourceOp /\ op[t].version <= reactor.version /\ op \in [Thread -> Op]
      BY <1>3, OpFields, VersionTypes DEF ResolveSourceEndpoint, CatalogueInv, TypeInv
    <2>2. PICK o : o = [op[t] EXCEPT !.pc = "deployment"] OBVIOUS
    <2>3. op' = [op EXCEPT ![t] = o] BY <1>3, <2>1, <2>2
    <2>4. o \in SourceOp /\ o.pc = "deployment" /\ o.version <= reactor.version BY <2>1, <2>2 DEF SourceOp
    <2>5. o \in Op BY <2>4 DEF Op
    <2>6. Known(o)
      BY <2>4 DEF Known, SaveKnown, DisableKnown, SourceKnown, DraftKnown, EditKnown,
           InspectKnown, ConfirmKnown, GrantKnown, ProbeKnown
    <2> QED BY <1>1, <2>3, <2>5, <2>6, QuietStep
  <1> QED BY <1>2, <1>3 DEF ResolveSourceEndpoint

LEMMA ResolveSourceDeploymentStep ==
  ASSUME CatalogueInv, NEW t \in Thread, ResolveSourceDeployment(t)
  PROVE  CatalogueInv'
  <1>1. op[t] \in SourceOp /\ op[t].version <= reactor.version /\ reactor \in RouteSource /\ reactor \in reactorPast
    BY OpFields DEF ResolveSourceDeployment, CatalogueInv, TypeInv, OpsKnown, Known, SourceKnown
  <1>2. PICK s : s = [version |-> op[t].version, digest |-> reactor.digest] OBVIOUS
  <1>3. PICK o : o = [pc |-> "draft", by |-> op[t].by, key |-> op[t].key,
                      endpoint |-> op[t].endpoint, binding |-> op[t].binding, source |-> s]
    OBVIOUS
  <1>4. UNCHANGED <<tables, config, reactor, reactorPast, written, replies>> /\ op' = [op EXCEPT ![t] = o]
    BY <1>2, <1>3 DEF ResolveSourceDeployment
  <1>5. s \in RouteSource BY <1>1, <1>2 DEF SourceOp, RouteSource
  <1>6. Shown(s)
    <2>1. reactor = [version |-> reactor.version, digest |-> reactor.digest] BY <1>1 DEF RouteSource
    <2> QED BY <1>1, <1>2, <2>1 DEF Shown
  <1>7. o \in DraftOp /\ o.pc = "draft" /\ o.source = s BY <1>1, <1>3, <1>5 DEF SourceOp, DraftOp
  <1>8. o \in Op BY <1>7 DEF Op
  <1>9. Known(o)
    BY <1>6, <1>7 DEF Known, SaveKnown, DisableKnown, SourceKnown, DraftKnown, EditKnown,
         InspectKnown, ConfirmKnown, GrantKnown, ProbeKnown
  <1> QED BY <1>4, <1>8, <1>9, QuietStep

LEMMA HandlerFailsStep ==
  ASSUME CatalogueInv, NEW t \in Thread, HandlerFails(t)
  PROVE  CatalogueInv'
  BY IdleKnown, QuietStep DEF HandlerFails

----------------------------------------------------------------------------
(* Steps of edits and confirmations.                                        *)

LEMMA ReadToEditStep ==
  ASSUME CatalogueInv, NEW t \in Thread, NEW p \in Principal, NEW r \in Route, NEW b \in Binding,
         NEW v \in 1..MaxVersion, ReadToEdit(t, p, r, b, v)
  PROVE  CatalogueInv'
  <1>1. PICK o : o = [pc |-> "edit", route |-> r, seen |-> routes[r], binding |-> b, version |-> v] OBVIOUS
  <1>2. UNCHANGED <<tables, config, reactor, reactorPast, written, replies>> /\ op' = [op EXCEPT ![t] = o]
    BY <1>1 DEF ReadToEdit
  <1>3. /\ routes[r] # Nothing /\ routes[r] \in RouteDoc /\ routes[r].state = "DRAFT"
        /\ v \in 1..routes[r].version /\ v < MaxVersion
    BY DEF ReadToEdit, OwnedDraft, CatalogueInv, TypeInv, TypeOK
  <1>4. o \in EditOp /\ o.pc = "edit" BY <1>1, <1>3 DEF EditOp
  <1>5. o \in Op BY <1>4 DEF Op
  <1>6. routes[r].version \in Nat /\ v <= routes[r].version BY <1>3, VersionTypes
  <1>7. EditKnown(o) BY <1>1, <1>3, <1>6 DEF EditKnown, ReadBefore
  <1>8. Known(o)
    BY <1>4, <1>7 DEF Known, SaveKnown, DisableKnown, SourceKnown, DraftKnown,
         InspectKnown, ConfirmKnown, GrantKnown, ProbeKnown
  <1> QED BY <1>2, <1>5, <1>8, QuietStep

LEMMA CommitEditStep ==
  ASSUME CatalogueInv, NEW t \in Thread, CommitEdit(t)
  PROVE  CatalogueInv'
  <1>1. TypeInv /\ OpsKnown /\ RowsKnown /\ RoutesKnown BY DEF CatalogueInv
  <1>2. PICK o : o = op[t] OBVIOUS
  <1>3. o \in EditOp /\ EditKnown(o) /\ o.pc = "edit"
    BY <1>1, <1>2, OpFields DEF CommitEdit, TypeInv, OpsKnown, Known
  <1>4. /\ UNCHANGED <<endpoints, idempotency, enabled, apiKeys, config, reactor, reactorPast, replies>>
        /\ op' = [op EXCEPT ![t] = Idle]
    BY DEF CommitEdit
  <1>5. CASE UNCHANGED <<routes, written>> BY <1>4, <1>5, IdleKnown, QuietStep DEF tables
  <1>6. CASE /\ ReplaceRouteVersion(o.route, [o.seen EXCEPT !.binding = o.binding, !.version = o.version + 1],
                                    o.version)
             /\ written' = [written EXCEPT ![o.route] = o.binding]
    <2>1. PICK doc : doc = [o.seen EXCEPT !.binding = o.binding, !.version = o.version + 1] OBVIOUS
    <2>2. /\ o.route \in Route /\ o.seen \in RouteDoc /\ o.binding \in Binding /\ o.version \in 1..MaxVersion
          /\ o.version < MaxVersion /\ o.seen.state = "DRAFT" /\ ReadBefore(o.route, o.seen)
          /\ o.version <= o.seen.version
      BY <1>3 DEF EditOp, EditKnown
    <2>3. o.version + 1 \in 1..MaxVersion BY <2>2, CatalogueAssumption
    <2>4. doc \in RouteDoc BY <2>1, <2>2, <2>3 DEF RouteDoc
    <2>5. /\ doc.state = "DRAFT" /\ doc.binding = o.binding /\ doc.version = o.version + 1
          /\ doc.source = o.seen.source /\ doc.scope = o.seen.scope
      BY <2>1, <2>2 DEF RouteDoc
    <2>6. routes[o.route] # Nothing /\ routes[o.route].version = o.version /\ routes' = [routes EXCEPT ![o.route] = doc]
      BY <1>6, <2>1, <2>2 DEF ReplaceRouteVersion, ReadBefore
    <2>7. o.seen = routes[o.route]
      <3>1. o.seen.version \in Nat /\ o.version \in Nat BY <2>2, VersionTypes
      <3> QED BY <2>2, <2>6, <3>1 DEF ReadBefore
    <2>8. Traceable(doc) BY <1>1, <2>2, <2>5, <2>6, <2>7 DEF RoutesKnown, Traceable
    <2>9. routes[o.route].version < doc.version
      <3>1. o.version \in Nat BY <2>2, VersionTypes
      <3> QED BY <2>5, <2>6, <3>1
    <2>10. doc.state # "ACTIVE" BY <2>5
    <2>11. Grows /\ RoutesKnown' /\ written' \in [Route -> Binding \cup {Nothing}]
      BY <1>1, <1>4, <1>6, <2>2, <2>4, <2>5, <2>6, <2>8, <2>9, <2>10, NextRoute
    <2>12. OpsKnown' /\ op' \in [Thread -> Op] BY <1>1, <1>4, <2>11, IdleKnown, OpsKept
    <2>13. RowsKnown' BY <1>1, <1>4 DEF RowsKnown
    <2> QED BY <1>4, <2>11, <2>12, <2>13, Assemble
  <1> QED BY <1>2, <1>5, <1>6 DEF CommitEdit

LEMMA AdmitConfirmStep ==
  ASSUME CatalogueInv, NEW t \in Thread, NEW p \in Principal, NEW r \in Route,
         NEW v \in 1..MaxVersion, AdmitConfirm(t, p, r, v)
  PROVE  CatalogueInv'
  <1>1. PICK o : o = [pc |-> "inspect", by |-> p, route |-> r, version |-> v] OBVIOUS
  <1>2. UNCHANGED <<tables, config, reactor, reactorPast, written, replies>> /\ op' = [op EXCEPT ![t] = o]
    BY <1>1 DEF AdmitConfirm
  <1>3. /\ routes[r] # Nothing /\ routes[r] \in RouteDoc /\ routes[r].binding \in config.bindings
        /\ v \in 1..routes[r].version /\ v < MaxVersion
    BY DEF AdmitConfirm, AdmitBinding, OwnedDraft, CatalogueInv, TypeInv, TypeOK
  <1>4. o \in InspectOp /\ o.pc = "inspect" BY <1>1 DEF InspectOp
  <1>5. o \in Op BY <1>4 DEF Op
  <1>6. v <= routes[r].version BY <1>3, VersionTypes
  <1>7. InspectKnown(o) BY <1>1, <1>3, <1>6 DEF InspectKnown, Admitted
  <1>8. Known(o)
    BY <1>4, <1>7 DEF Known, SaveKnown, DisableKnown, SourceKnown, DraftKnown, EditKnown,
         ConfirmKnown, GrantKnown, ProbeKnown
  <1> QED BY <1>2, <1>5, <1>8, QuietStep

LEMMA InspectDraftStep ==
  ASSUME CatalogueInv, NEW t \in Thread, InspectDraft(t)
  PROVE  CatalogueInv'
  <1>1. UNCHANGED <<tables, config, reactor, reactorPast, written, replies>> BY DEF InspectDraft
  <1>2. PICK q : q = op[t] OBVIOUS
  <1>3. q \in InspectOp /\ InspectKnown(q) /\ q.pc = "inspect"
    BY <1>2, OpFields DEF InspectDraft, CatalogueInv, TypeInv, OpsKnown, Known
  <1>4. CASE op' = [op EXCEPT ![t] = Idle] BY <1>1, <1>4, IdleKnown, QuietStep
  <1>5. CASE /\ OwnedDraft(q.route, q.by) /\ routes[q.route].version = q.version
             /\ op' = [op EXCEPT ![t] = [pc |-> "endpoint", route |-> q.route, seen |-> routes[q.route]]]
    <2>1. PICK o : o = [pc |-> "endpoint", route |-> q.route, seen |-> routes[q.route]] OBVIOUS
    <2>2. q.route \in Route BY <1>3 DEF InspectOp
    <2>3. /\ routes[q.route] # Nothing /\ routes[q.route] \in RouteDoc /\ routes[q.route].state = "DRAFT"
          /\ routes[q.route].version \in Nat /\ Traceable(routes[q.route])
      BY <1>5, <2>2, VersionTypes DEF OwnedDraft, CatalogueInv, TypeInv, TypeOK, RoutesKnown
    <2>4. routes[q.route].binding \in config.bindings /\ routes[q.route].version < MaxVersion
      BY <1>3, <1>5 DEF InspectKnown, Admitted
    <2>5. o \in ConfirmOp /\ o.pc = "endpoint" BY <2>1, <2>2, <2>3 DEF ConfirmOp
    <2>6. o \in Op BY <2>5 DEF Op
    <2>7. ConfirmKnown(o) BY <2>1, <2>3, <2>4 DEF ConfirmKnown, ReadBefore
    <2>8. Known(o)
      BY <2>5, <2>7 DEF Known, SaveKnown, DisableKnown, SourceKnown, DraftKnown, EditKnown,
           InspectKnown, GrantKnown, ProbeKnown
    <2> QED BY <1>1, <1>5, <2>1, <2>6, <2>8, QuietStep
  <1> QED BY <1>2, <1>4, <1>5 DEF InspectDraft

\* A confirmation goes on to its next check with the draft it has read.
LEMMA ConfirmMoves ==
  ASSUME CatalogueInv, NEW t \in Thread, op[t].pc \in {"endpoint", "probe", "artifact", "commit"},
         NEW pc \in {"probe", "artifact", "commit"}, op' = [op EXCEPT ![t].pc = pc],
         op[t].seen.scope # Legacy => op[t].seen.scope \in config.endpoint,
         pc = "artifact" => SourceProbed(op[t].seen),
         pc = "commit" => SourceConfirmed(op[t].seen),
         UNCHANGED <<tables, config, reactor, reactorPast, written, replies>>
  PROVE  CatalogueInv'
  <1>1. op[t] \in ConfirmOp /\ ConfirmKnown(op[t]) /\ op \in [Thread -> Op]
    BY OpFields DEF CatalogueInv, TypeInv, OpsKnown, Known
  <1>2. PICK o : o = [op[t] EXCEPT !.pc = pc] OBVIOUS
  <1>3. op' = [op EXCEPT ![t] = o] BY <1>1, <1>2
  <1>4. o \in ConfirmOp /\ o.pc = pc /\ o.seen = op[t].seen /\ o.route = op[t].route
    BY <1>1, <1>2 DEF ConfirmOp
  <1>5. o \in Op BY <1>4 DEF Op
  <1>6. ConfirmKnown(o) BY <1>1, <1>4 DEF ConfirmKnown
  <1>7. GrantKnown(o) /\ ProbeKnown(o) BY <1>4 DEF GrantKnown, ProbeKnown
  <1>8. Known(o)
    BY <1>4, <1>6, <1>7 DEF Known, SaveKnown, DisableKnown, SourceKnown, DraftKnown, EditKnown, InspectKnown
  <1> QED BY <1>3, <1>5, <1>8, QuietStep

LEMMA CheckDestinationStep ==
  ASSUME CatalogueInv, NEW t \in Thread, CheckDestination(t)
  PROVE  CatalogueInv'
  <1>1. UNCHANGED <<tables, config, reactor, reactorPast, written, replies>> BY DEF CheckDestination
  <1>2. CASE op' = [op EXCEPT ![t] = Idle] BY <1>1, <1>2, IdleKnown, QuietStep
  <1>3. CASE /\ op[t].seen.scope # Legacy => op[t].seen.scope \in config.endpoint
             /\ op' = [op EXCEPT ![t].pc = "probe"]
    BY <1>1, <1>3, ConfirmMoves DEF CheckDestination
  <1> QED BY <1>2, <1>3 DEF CheckDestination

\* The version of the source is the Reactor's own now; a source that was read
\* by Exchange itself was therefore read in one piece.
LEMMA ProbeSourceStep ==
  ASSUME CatalogueInv, NEW t \in Thread, ProbeSource(t)
  PROVE  CatalogueInv'
  <1>1. /\ op[t] \in Op /\ ConfirmKnown(op[t]) /\ GrantKnown(op[t])
        /\ reactor \in reactorPast
    BY DEF CatalogueInv, TypeInv, OpsKnown, Known
  <1>2. SourceProbed(op[t].seen)
    BY <1>1 DEF ProbeSource, ConfirmKnown, Traceable, SourceProbed, Shown, Existed, VersionSeen
  <1>3. op[t].seen.scope # Legacy => op[t].seen.scope \in config.endpoint
    BY <1>1 DEF ProbeSource, GrantKnown
  <1> QED BY <1>2, <1>3, ConfirmMoves DEF ProbeSource

\* The digest is the Reactor's own now, and its version was at the probe before.
LEMMA ProbeDeploymentStep ==
  ASSUME CatalogueInv, NEW t \in Thread, ProbeDeployment(t)
  PROVE  CatalogueInv'
  <1>1. /\ GrantKnown(op[t]) /\ ProbeKnown(op[t])
        /\ reactor \in reactorPast /\ \A m \in reactorPast : m.digest <= reactor.digest
    BY DEF CatalogueInv, TypeInv, OpsKnown, Known
  <1>2. SourceProbed(op[t].seen) /\ (op[t].seen.source # Nothing => reactor.digest = op[t].seen.source.digest)
    BY <1>1 DEF ProbeDeployment, ProbeKnown
  <1>3. SourceConfirmed(op[t].seen)
    BY <1>1, <1>2 DEF SourceProbed, SourceConfirmed, VersionSeen, HalvesSeen
  <1>4. op[t].seen.scope # Legacy => op[t].seen.scope \in config.endpoint
    BY <1>1 DEF ProbeDeployment, GrantKnown
  <1> QED BY <1>3, <1>4, ConfirmMoves DEF ProbeDeployment

\* What a confirmation that commits replaces, and by what.
LEMMA ConfirmCommits ==
  ASSUME CatalogueInv, NEW t \in Thread, CommitConfirm(t)
  PROVE  LET doc == [op[t].seen EXCEPT !.state = "ACTIVE", !.version = @ + 1]
         IN  /\ op[t] \in ConfirmOp
             /\ routes[op[t].route] # Nothing
             /\ op[t].seen = routes[op[t].route]
             /\ routes' = [routes EXCEPT ![op[t].route] = doc]
             /\ doc \in RouteDoc
             /\ doc.state = "ACTIVE" /\ doc.version = op[t].seen.version + 1
             /\ doc.binding = op[t].seen.binding /\ doc.source = op[t].seen.source
             /\ op[t].seen.binding \in config.bindings
             /\ op[t].seen.scope # Legacy => op[t].seen.scope \in config.endpoint
             /\ doc.scope = op[t].seen.scope
             /\ Traceable(op[t].seen) /\ SourceConfirmed(op[t].seen)
  <1>1. PICK o : o = op[t] OBVIOUS
  <1>2. o \in ConfirmOp /\ ConfirmKnown(o) /\ GrantKnown(o) /\ ProbeKnown(o) /\ o.pc = "commit"
    BY <1>1, OpFields DEF CommitConfirm, CatalogueInv, TypeInv, OpsKnown, Known
  <1>3. /\ ReadBefore(o.route, o.seen) /\ o.seen.version < MaxVersion
        /\ o.seen.binding \in config.bindings /\ Traceable(o.seen) /\ SourceConfirmed(o.seen)
        /\ o.seen.scope # Legacy => o.seen.scope \in config.endpoint
    BY <1>2 DEF ConfirmKnown, GrantKnown, ProbeKnown
  <1>4. o.route \in Route /\ o.seen \in RouteDoc BY <1>2 DEF ConfirmOp
  <1>5. PICK doc : doc = [o.seen EXCEPT !.state = "ACTIVE", !.version = @ + 1] OBVIOUS
  <1>6. o.seen.version + 1 \in 1..MaxVersion BY <1>3, <1>4, VersionTypes, CatalogueAssumption
  <1>7. doc \in RouteDoc BY <1>4, <1>5, <1>6 DEF RouteDoc
  <1>8. /\ doc.state = "ACTIVE" /\ doc.version = o.seen.version + 1
        /\ doc.binding = o.seen.binding /\ doc.source = o.seen.source /\ doc.scope = o.seen.scope
    BY <1>4, <1>5 DEF RouteDoc
  <1>9. routes[o.route].version = o.seen.version /\ routes' = [routes EXCEPT ![o.route] = doc]
    BY <1>1, <1>5 DEF CommitConfirm, ReplaceRouteVersion
  <1>10. routes[o.route] # Nothing /\ o.seen = routes[o.route] BY <1>3, <1>9 DEF ReadBefore
  <1> QED BY <1>1, <1>2, <1>3, <1>5, <1>7, <1>8, <1>9, <1>10

LEMMA CommitConfirmStep ==
  ASSUME CatalogueInv, NEW t \in Thread, CommitConfirm(t)
  PROVE  CatalogueInv'
  <1>1. TypeInv /\ OpsKnown /\ RowsKnown /\ RoutesKnown BY DEF CatalogueInv
  <1>2. PICK o : o = op[t] OBVIOUS
  <1>3. PICK doc : doc = [o.seen EXCEPT !.state = "ACTIVE", !.version = @ + 1] OBVIOUS
  <1>4. /\ o \in ConfirmOp /\ routes[o.route] # Nothing /\ o.seen = routes[o.route]
        /\ routes' = [routes EXCEPT ![o.route] = doc]
        /\ doc \in RouteDoc /\ doc.version = o.seen.version + 1
        /\ doc.binding = o.seen.binding /\ doc.source = o.seen.source
        /\ Traceable(doc) /\ SourceConfirmed(doc)
    BY <1>2, <1>3, ConfirmCommits DEF Traceable, SourceConfirmed
  <1>5. o.route \in Route /\ o.seen \in RouteDoc BY <1>4 DEF ConfirmOp
  <1>6. routes[o.route].version < doc.version BY <1>4, <1>5, VersionTypes
  <1>7. /\ UNCHANGED <<endpoints, idempotency, enabled, apiKeys, config, reactor, reactorPast, written, replies>>
        /\ op' = [op EXCEPT ![t] = Idle]
    BY DEF CommitConfirm
  <1>8. Grows /\ RoutesKnown' /\ written' \in [Route -> Binding \cup {Nothing}]
    BY <1>1, <1>4, <1>5, <1>6, <1>7, NextRoute
  <1>9. OpsKnown' /\ op' \in [Thread -> Op] BY <1>1, <1>7, <1>8, IdleKnown, OpsKept
  <1>10. RowsKnown' BY <1>1, <1>7 DEF RowsKnown
  <1> QED BY <1>7, <1>8, <1>9, <1>10, Assemble

----------------------------------------------------------------------------
(* Steps of keys, credentials, the process and the Reactor.                 *)

\* A step that leaves routes, requests and rows alone.
LEMMA KeysStep ==
  ASSUME CatalogueInv, UNCHANGED <<endpoints, routes, config, reactor, reactorPast, op, written>>,
         RowsKnown', enabled' \subseteq Principal,
         apiKeys' \in [ApiKey -> ApiKeyDoc \cup {Nothing}]
  PROVE  CatalogueInv'
  <1>1. TypeInv /\ OpsKnown /\ RoutesKnown /\ ActiveIsFirst BY DEF CatalogueInv
  <1>2. Grows BY <1>1, QuietGrows
  <1>3. OpsKnown' /\ op' \in [Thread -> Op] BY <1>1, <1>2, OpsKept
  <1>4. TypeInv' BY <1>1, <1>3 DEF TypeInv, TypeOK
  <1>5. RoutesKnown' /\ ActiveIsFirst' BY <1>1 DEF RoutesKnown, ActiveIsFirst, Traceable, SourceConfirmed, Shown, Existed, HalvesSeen
  <1> QED BY <1>3, <1>4, <1>5 DEF CatalogueInv

LEMMA CreateApiKeyStep ==
  ASSUME CatalogueInv, NEW p \in Principal, NEW k \in Key, CreateApiKey(p, k)
  PROVE  CatalogueInv'
  <1> DEFINE scope == <<"api-key", ScopeOf[p]>>
             digest == <<p>>
  <1>1. UNCHANGED <<endpoints, routes, enabled, config, reactor, reactorPast, op, written>>
    BY DEF CreateApiKey
  <1>2. TypeInv /\ RowsKnown BY DEF CatalogueInv
  <1>3. CASE ResolveIdempotency(scope, k, digest) # {}
    <2>1. PICK id \in ResolveIdempotency(scope, k, digest) : Answer(scope, k, digest, id)
      BY <1>3 DEF CreateApiKey
    <2>2. UNCHANGED <<apiKeys, idempotency>> BY <1>3 DEF CreateApiKey
    <2>3. RowsKnown' BY <1>2, <2>1, <2>2, AnswerKept
    <2> QED BY <1>1, <1>2, <2>2, <2>3, KeysStep DEF TypeInv, TypeOK
  <1>4. CASE ~(ResolveIdempotency(scope, k, digest) # {})
    <2>1. PICK id \in ApiKey :
             /\ apiKeys' = [apiKeys EXCEPT ![id] = [by |-> p, revoked |-> FALSE, expired |-> FALSE]]
             /\ RememberIdempotency(scope, k, digest, id)
             /\ Answer(scope, k, digest, id)
      BY <1>4 DEF CreateApiKey
    <2>2. RowsKnown' BY <1>2, <2>1, AnswerKept
    <2>3. [by |-> p, revoked |-> FALSE, expired |-> FALSE] \in ApiKeyDoc BY DEF ApiKeyDoc
    <2>4. apiKeys' \in [ApiKey -> ApiKeyDoc \cup {Nothing}] BY <1>2, <2>1, <2>3 DEF TypeInv, TypeOK
    <2> QED BY <1>1, <1>2, <2>2, <2>4, KeysStep DEF TypeInv, TypeOK
  <1> QED BY <1>3, <1>4

LEMMA ApiKeyEndsStep ==
  ASSUME CatalogueInv, NEW a \in ApiKey,
         (\E p \in Principal : RevokeApiKey(p, a)) \/ ApiKeyExpires(a)
  PROVE  CatalogueInv'
  <1>1. TypeInv /\ RowsKnown BY DEF CatalogueInv
  <1>2. /\ UNCHANGED <<endpoints, routes, idempotency, enabled, config, reactor, reactorPast, op, written, replies>>
        /\ apiKeys[a] # Nothing
        /\ \/ apiKeys' = [apiKeys EXCEPT ![a].revoked = TRUE]
           \/ apiKeys' = [apiKeys EXCEPT ![a].expired = TRUE]
    BY DEF RevokeApiKey, ApiKeyExpires
  <1>3. RowsKnown' BY <1>1, <1>2 DEF RowsKnown
  <1>4. apiKeys[a] \in ApiKeyDoc /\ apiKeys \in [ApiKey -> ApiKeyDoc \cup {Nothing}]
    BY <1>1, <1>2 DEF TypeInv, TypeOK
  <1>5. PICK row, gone : row = [apiKeys[a] EXCEPT !.revoked = TRUE] /\ gone = [apiKeys[a] EXCEPT !.expired = TRUE]
    OBVIOUS
  <1>6. row \in ApiKeyDoc BY <1>4, <1>5, Zenon DEF ApiKeyDoc
  <1>7. gone \in ApiKeyDoc BY <1>4, <1>5, Zenon DEF ApiKeyDoc
  <1>8. apiKeys' = [apiKeys EXCEPT ![a] = row] \/ apiKeys' = [apiKeys EXCEPT ![a] = gone]
    BY <1>2, <1>4, <1>5
  <1>9. apiKeys' \in [ApiKey -> ApiKeyDoc \cup {Nothing}] BY <1>4, <1>6, <1>7, <1>8
  <1> QED BY <1>1, <1>2, <1>3, <1>9, KeysStep DEF TypeInv, TypeOK

LEMMA DisableCredentialStep ==
  ASSUME CatalogueInv, NEW p \in Principal, DisableCredential(p)
  PROVE  CatalogueInv'
  <1>1. TypeInv /\ RowsKnown BY DEF CatalogueInv
  <1>2. RowsKnown' BY <1>1 DEF RowsKnown, DisableCredential
  <1>3. enabled' \subseteq Principal /\ apiKeys' \in [ApiKey -> ApiKeyDoc \cup {Nothing}]
    BY <1>1 DEF DisableCredential, TypeInv, TypeOK
  <1> QED BY <1>2, <1>3, KeysStep DEF DisableCredential

\* A restart takes the requests with the configuration they were admitted by.
LEMMA RestartStep ==
  ASSUME CatalogueInv, NEW c \in Config, Restart(c)
  PROVE  CatalogueInv'
  <1>1. TypeInv /\ RowsKnown /\ RoutesKnown /\ ActiveIsFirst BY DEF CatalogueInv
  <1>2. /\ config' = c /\ enabled' = Principal /\ op' = [t \in Thread |-> Idle]
        /\ UNCHANGED <<endpoints, routes, idempotency, apiKeys, reactor, reactorPast, written, replies>>
    BY DEF Restart, ConfigureCredentials
  <1>3. \A t \in Thread : op'[t] = Idle BY <1>2
  <1>4. OpsKnown' BY <1>3, IdleKnown DEF OpsKnown
  <1>5. op' \in [Thread -> Op] BY <1>2, IdleKnown
  <1>6. TypeInv' BY <1>1, <1>2, <1>5 DEF TypeInv, TypeOK
  <1>7. RowsKnown' /\ RoutesKnown' /\ ActiveIsFirst'
    BY <1>1, <1>2 DEF RowsKnown, RoutesKnown, ActiveIsFirst, Traceable, SourceConfirmed, Shown, Existed, HalvesSeen
  <1> QED BY <1>4, <1>6, <1>7 DEF CatalogueInv

LEMMA ReactorMovesStep ==
  ASSUME CatalogueInv, NEW both \in BOOLEAN, ReactorMoves(both)
  PROVE  CatalogueInv'
  <1>1. TypeInv /\ RowsKnown /\ RoutesKnown /\ ActiveIsFirst /\ OpsKnown BY DEF CatalogueInv
  <1>2. /\ UNCHANGED <<tables, config, op, written, replies>>
        /\ reactorPast' = reactorPast \cup {reactor'}
        /\ reactor.digest < MaxReactor /\ reactor.version < MaxReactor
    BY DEF ReactorMoves
  <1>3. reactor.version \in 1..MaxReactor /\ reactor.digest \in 1..MaxReactor BY <1>1 DEF TypeInv, RouteSource
  <1>4. \/ reactor' = [version |-> reactor.version + 1, digest |-> reactor.digest + 1]
        \/ reactor' = [version |-> reactor.version, digest |-> reactor.digest + 1]
    BY DEF ReactorMoves
  <1>5. reactor.version + 1 \in 1..MaxReactor /\ reactor.digest + 1 \in 1..MaxReactor
    BY <1>2, <1>3, CatalogueAssumption
  <1>6. reactor' \in RouteSource BY <1>3, <1>4, <1>5 DEF RouteSource
  <1>7. reactor.version <= reactor'.version BY <1>3, <1>4, CatalogueAssumption
  <1>8. Grows BY <1>1, <1>2, <1>6, <1>7 DEF TypeInv, TypeOK, Grows, tables
  <1>9. OpsKnown' /\ op' \in [Thread -> Op] BY <1>1, <1>2, <1>8, OpsKept
  <1>10. TypeInv'
    <2>1. \A m \in reactorPast' : m \in RouteSource /\ m.digest <= reactor'.digest
      BY <1>1, <1>2, <1>3, <1>4, <1>6, VersionTypes, SMTT(30) DEF TypeInv
    <2> QED BY <1>1, <1>2, <1>6, <1>9, <2>1 DEF TypeInv, TypeOK, tables
  <1>11. RoutesKnown'
    <2> SUFFICES ASSUME NEW r \in Route, routes'[r] # Nothing
                 PROVE  (/\ routes[r].binding = written[r]
                         /\ Traceable(routes[r])
                         /\ routes[r].state = "ACTIVE" => SourceConfirmed(routes[r]))'
      BY DEF RoutesKnown
    <2>1. PICK d : d = routes[r] OBVIOUS
    <2>2. routes'[r] = d /\ d # Nothing /\ d \in RouteDoc BY <1>1, <1>2, <2>1 DEF tables, TypeInv, TypeOK
    <2>3. d.binding = written[r] /\ Traceable(d) /\ (d.state = "ACTIVE" => SourceConfirmed(d))
      BY <1>1, <2>1, <2>2 DEF RoutesKnown
    <2>4. Traceable(d)' /\ (SourceConfirmed(d) => SourceConfirmed(d)')
      BY <1>1, <1>8, <2>2, <2>3, SourceKept
    <2> QED BY <1>2, <2>2, <2>3, <2>4
  <1>12. RowsKnown' /\ ActiveIsFirst' BY <1>1, <1>2 DEF RowsKnown, ActiveIsFirst, tables
  <1> QED BY <1>9, <1>10, <1>11, <1>12 DEF CatalogueInv

----------------------------------------------------------------------------
(* The theorems.                                                            *)

LEMMA CatalogueStart ==
  ASSUME CatalogueInit
  PROVE  CatalogueInv
  <1>1. TypeInv
    <2>1. reactor \in RouteSource
      <3>1. 1 \in 1..MaxReactor BY CatalogueAssumption
      <3> QED BY <3>1 DEF CatalogueInit, RouteSource
    <2>2. op \in [Thread -> Op] BY IdleKnown DEF CatalogueInit
    <2>3. TypeOK BY DEF CatalogueInit, TypeOK
    <2>4. reactorPast = {reactor} /\ reactor.digest \in Nat BY <2>1, VersionTypes DEF CatalogueInit
    <2> QED BY <2>1, <2>2, <2>3, <2>4 DEF TypeInv
  <1>2. OpsKnown
    <2>1. \A t \in Thread : op[t] = Idle BY DEF CatalogueInit
    <2> QED BY <2>1, IdleKnown DEF OpsKnown
  <1>3. ActiveIsFirst /\ RoutesKnown BY DEF CatalogueInit, ActiveIsFirst, RoutesKnown
  <1>4. RowsKnown BY DEF CatalogueInit, RowsKnown
  <1> QED BY <1>1, <1>2, <1>3, <1>4 DEF CatalogueInv

LEMMA CatalogueStep ==
  ASSUME CatalogueInv, CatalogueNext(Requests)
  PROVE  CatalogueInv'
  <1>1. ASSUME NEW t \in Thread, NEW p \in Principal, NEW k \in Key, NEW e \in Endpoint, NEW b \in Binding,
               \/ ResolveCreate(t, p, "endpoint", k, e, b) \/ ResolveCreate(t, p, "route", k, e, b)
               \/ \E s \in RouteSource : CreateLegacyDraft(t, p, k, e, b, s)
               \/ CreateBindingDraft(t, p, k, e, b)
               \/ \E v \in 1..MaxReactor : AdmitSourcedDraft(t, p, k, e, b, v)
        PROVE  CatalogueInv'
    BY <1>1, ResolveCreateStep, CreateLegacyDraftStep, CreateBindingDraftStep, AdmitSourcedDraftStep
  <1>2. ASSUME NEW t \in Thread, NEW p \in Principal, NEW r \in Route, NEW v \in 1..MaxVersion,
               (\E b \in Binding : ReadToEdit(t, p, r, b, v)) \/ AdmitConfirm(t, p, r, v)
        PROVE  CatalogueInv'
    BY <1>2, ReadToEditStep, AdmitConfirmStep
  <1>3. ASSUME NEW t \in Thread, NEW p \in Principal, NEW e \in Endpoint, ReadToDisable(t, p, e)
        PROVE  CatalogueInv'
    BY <1>3, ReadToDisableStep
  <1>4. ASSUME NEW t \in Thread,
               \/ SaveEndpoint(t) \/ SaveRoute(t) \/ RememberCreate(t) \/ SaveDisabled(t)
               \/ ResolveSourceEndpoint(t) \/ ResolveSourceDeployment(t) \/ CreateSourcedDraft(t)
               \/ CommitEdit(t) \/ InspectDraft(t) \/ CheckDestination(t)
               \/ ProbeSource(t) \/ ProbeDeployment(t) \/ CommitConfirm(t) \/ HandlerFails(t)
        PROVE  CatalogueInv'
    BY <1>4, SaveEndpointStep, SaveRouteStep, RememberCreateStep, SaveDisabledStep,
       ResolveSourceEndpointStep, ResolveSourceDeploymentStep, CreateSourcedDraftStep, CommitEditStep,
       InspectDraftStep, CheckDestinationStep, ProbeSourceStep, ProbeDeploymentStep, CommitConfirmStep,
       HandlerFailsStep
  <1>5. ASSUME NEW p \in Principal, NEW k \in Key, NEW a \in ApiKey,
               CreateApiKey(p, k) \/ RevokeApiKey(p, a) \/ ApiKeyExpires(a) \/ DisableCredential(p)
        PROVE  CatalogueInv'
    BY <1>5, CreateApiKeyStep, ApiKeyEndsStep, DisableCredentialStep
  <1>6. ASSUME NEW c \in Config, Restart(c) PROVE CatalogueInv' BY <1>6, RestartStep
  <1>7. ASSUME NEW both \in BOOLEAN, ReactorMoves(both) PROVE CatalogueInv' BY <1>7, ReactorMovesStep
  <1> QED BY <1>1, <1>2, <1>3, <1>4, <1>5, <1>6, <1>7 DEF CatalogueNext

LEMMA CatalogueStutter ==
  ASSUME CatalogueInv, UNCHANGED catalogueVars
  PROVE  CatalogueInv'
  <1>1. TypeInv /\ RowsKnown BY DEF CatalogueInv
  <1>2. RowsKnown' BY <1>1 DEF RowsKnown, catalogueVars
  <1> QED BY <1>1, <1>2, KeysStep DEF catalogueVars, TypeInv, TypeOK

\* Every state the control plane can reach satisfies the invariant: what each
\* handler has read is not newer than what is stored, and the same where the
\* versions are the same (store.py, service.py, api.py).
THEOREM CatalogueInvariant == CatalogueSpec => []CatalogueInv
  <1>1. CatalogueInit => CatalogueInv BY CatalogueStart
  <1>2. CatalogueInv /\ [CatalogueNext(Requests)]_catalogueVars => CatalogueInv'
    BY CatalogueStep, CatalogueStutter
  <1> QED BY <1>1, <1>2, PTL DEF CatalogueSpec

\* The documents of the store and the grants of the process keep their shape;
\* a version never passes its bound.
THEOREM CatalogueTypes == CatalogueSpec => []TypeOK
  <1>1. CatalogueInv => TypeOK BY DEF CatalogueInv, TypeInv
  <1> QED BY <1>1, CatalogueInvariant, PTL

\* replace_route_version loses no edit: a route says what the last client that
\* was told of success wrote, however many handlers edit and confirm it.
THEOREM CatalogueLosesNoEdit == CatalogueSpec => []NoLostEdit
  <1>1. CatalogueInv => NoLostEdit BY DEF CatalogueInv, RoutesKnown, NoLostEdit
  <1> QED BY <1>1, CatalogueInvariant, PTL

\* validate_target finds out about a source that was read in two pieces: the
\* pair a workspace's published route names is one the Reactor once had, and
\* each half of an operator's own was the Reactor's at its probe.
THEOREM CataloguePublishesExistingSources == CatalogueSpec => []PublishedSourceExisted
  <1>1. CatalogueInv => PublishedSourceExisted
    BY DEF CatalogueInv, RoutesKnown, SourceConfirmed, Existed, HalvesSeen, PublishedSourceExisted
  <1> QED BY <1>1, CatalogueInvariant, PTL

\* resolve_idempotency and remember_idempotency give one answer to one key,
\* whether the row is written with the document or two transactions later.
THEOREM CatalogueReplaysAgree == CatalogueSpec => []ReplaysAgree
  <1>1. CatalogueInv => ReplaysAgree BY DEF CatalogueInv, RowsKnown, ReplaysAgree
  <1> QED BY <1>1, CatalogueInvariant, PTL

\* Publishing a draft as an action: what PublishedWhilePermitted asks of a step.
Permitted ==
    \A r \in Route : routes[r] # Nothing /\ routes[r].state = "DRAFT" /\ routes'[r].state = "ACTIVE" =>
        /\ routes'[r].binding \in config.bindings
        /\ routes[r].scope # Legacy => routes[r].scope \in config.endpoint

\* A route is stored once, edited, confirmed, or left as it is.
LEMMA RouteChanges ==
  ASSUME CatalogueNext(Requests)
  PROVE  \/ UNCHANGED routes
         \/ \E id \in Route : \E doc : routes[id] = Nothing /\ routes' = [routes EXCEPT ![id] = doc]
         \/ \E t \in Thread : CommitEdit(t) \/ CommitConfirm(t)
  <1> DEFINE Stored == \E id \in Route : \E doc : routes[id] = Nothing /\ routes' = [routes EXCEPT ![id] = doc]
  <1>1. ASSUME NEW doc, NEW scope, NEW key, NEW digest, NEW flag, CreateRouteDraft(doc, scope, key, digest, flag)
        PROVE  UNCHANGED routes \/ Stored
    BY <1>1 DEF CreateRouteDraft
  <1>2. ASSUME NEW t \in Thread, NEW p \in Principal, NEW k \in Key, NEW e \in Endpoint, NEW b \in Binding,
               \/ ResolveCreate(t, p, "endpoint", k, e, b) \/ ResolveCreate(t, p, "route", k, e, b)
               \/ \E v \in 1..MaxReactor : AdmitSourcedDraft(t, p, k, e, b, v)
        PROVE  UNCHANGED routes
    BY <1>2 DEF ResolveCreate, AdmitSourcedDraft, tables
  <1>3. ASSUME NEW t \in Thread, NEW p \in Principal, NEW k \in Key, NEW e \in Endpoint, NEW b \in Binding,
               \/ \E s \in RouteSource : CreateLegacyDraft(t, p, k, e, b, s)
               \/ CreateBindingDraft(t, p, k, e, b)
        PROVE  UNCHANGED routes \/ Stored
    BY <1>1, <1>3 DEF CreateLegacyDraft, CreateBindingDraft
  <1>4. ASSUME NEW t \in Thread, CreateSourcedDraft(t) PROVE UNCHANGED routes \/ Stored
    BY <1>1, <1>4 DEF CreateSourcedDraft
  <1>5. ASSUME NEW t \in Thread, SaveRoute(t) PROVE Stored BY <1>5 DEF SaveRoute
  <1>6. ASSUME NEW t \in Thread, NEW p \in Principal, NEW r \in Route, NEW v \in 1..MaxVersion,
               (\E b \in Binding : ReadToEdit(t, p, r, b, v)) \/ AdmitConfirm(t, p, r, v)
        PROVE  UNCHANGED routes
    BY <1>6 DEF ReadToEdit, AdmitConfirm, tables
  <1>7. ASSUME NEW t \in Thread, NEW p \in Principal, NEW e \in Endpoint, ReadToDisable(t, p, e)
        PROVE  UNCHANGED routes
    BY <1>7 DEF ReadToDisable, tables
  <1>8. ASSUME NEW t \in Thread,
               \/ SaveEndpoint(t) \/ RememberCreate(t) \/ SaveDisabled(t)
               \/ ResolveSourceEndpoint(t) \/ ResolveSourceDeployment(t)
               \/ InspectDraft(t) \/ CheckDestination(t)
               \/ ProbeSource(t) \/ ProbeDeployment(t) \/ HandlerFails(t)
        PROVE  UNCHANGED routes
    BY <1>8 DEF SaveEndpoint, RememberCreate, SaveDisabled, ResolveSourceEndpoint, ResolveSourceDeployment,
         InspectDraft, CheckDestination, ProbeSource, ProbeDeployment, HandlerFails, tables
  <1>9. ASSUME NEW p \in Principal, NEW k \in Key, NEW a \in ApiKey,
               CreateApiKey(p, k) \/ RevokeApiKey(p, a) \/ ApiKeyExpires(a) \/ DisableCredential(p)
        PROVE  UNCHANGED routes
    BY <1>9 DEF CreateApiKey, RevokeApiKey, ApiKeyExpires, DisableCredential
  <1>10. ASSUME NEW c \in Config, Restart(c) PROVE UNCHANGED routes BY <1>10 DEF Restart
  <1>11. ASSUME NEW both \in BOOLEAN, ReactorMoves(both) PROVE UNCHANGED routes
    BY <1>11 DEF ReactorMoves, tables
  <1> HIDE DEF Stored
  <1>12. UNCHANGED routes \/ Stored \/ \E t \in Thread : CommitEdit(t) \/ CommitConfirm(t)
    BY <1>2, <1>3, <1>4, <1>5, <1>6, <1>7, <1>8, <1>9, <1>10, <1>11 DEF CatalogueNext
  <1> QED BY <1>12 DEF Stored

LEMMA PermittedStep ==
  ASSUME CatalogueInv, CatalogueNext(Requests)
  PROVE  Permitted
  <1>1. routes \in [Route -> RouteDoc \cup {Nothing}] BY DEF CatalogueInv, TypeInv, TypeOK
  <1>2. CASE UNCHANGED routes BY <1>2 DEF Permitted
  <1>3. CASE \E id \in Route : \E doc : routes[id] = Nothing /\ routes' = [routes EXCEPT ![id] = doc]
    <2>1. PICK id \in Route : \E doc : routes[id] = Nothing /\ routes' = [routes EXCEPT ![id] = doc] BY <1>3
    <2>2. \A r \in Route : routes[r] # Nothing => routes'[r] = routes[r] BY <1>1, <2>1
    <2> QED BY <2>2 DEF Permitted
  <1>4. ASSUME NEW t \in Thread, CommitEdit(t) PROVE Permitted
    <2>1. op[t] \in EditOp /\ op[t].seen.state = "DRAFT" /\ op[t].seen \in RouteDoc
      BY <1>4, OpFields DEF CommitEdit, CatalogueInv, TypeInv, OpsKnown, Known, EditKnown, EditOp
    <2>2. PICK doc : doc = [op[t].seen EXCEPT !.binding = op[t].binding, !.version = op[t].version + 1] OBVIOUS
    <2>3. doc.state = "DRAFT" BY <2>1, <2>2 DEF RouteDoc
    <2>4. UNCHANGED routes \/ routes' = [routes EXCEPT ![op[t].route] = doc]
      BY <1>4, <2>2 DEF CommitEdit, ReplaceRouteVersion
    <2>5. \A r \in Route : routes'[r] = routes[r] \/ routes'[r] = doc BY <1>1, <2>4
    <2> QED BY <2>3, <2>5 DEF Permitted
  <1>5. ASSUME NEW t \in Thread, CommitConfirm(t) PROVE Permitted
    <2>1. PICK o : o = op[t] OBVIOUS
    <2>2. PICK doc : doc = [o.seen EXCEPT !.state = "ACTIVE", !.version = @ + 1] OBVIOUS
    <2>3. /\ o.seen = routes[o.route] /\ routes' = [routes EXCEPT ![o.route] = doc]
          /\ doc.binding = o.seen.binding /\ o.seen.binding \in config.bindings
          /\ o.seen.scope # Legacy => o.seen.scope \in config.endpoint
      BY <1>5, <2>1, <2>2, ConfirmCommits
    <2>4. \A r \in Route : routes'[r] = routes[r] \/ (r = o.route /\ routes'[r] = doc) BY <1>1, <2>3
    <2> QED BY <2>3, <2>4 DEF Permitted
  <1> QED BY <1>2, <1>3, <1>4, <1>5, RouteChanges

\* confirm_draft publishes only what the running configuration permits, though
\* binding and grant were checked several reads before the commit.
THEOREM CataloguePublishesWhilePermitted == CatalogueSpec => PublishedWhilePermitted
  <1>1. CatalogueInv /\ [CatalogueNext(Requests)]_catalogueVars => [Permitted]_catalogueVars
    BY PermittedStep
  <1>2. [][Permitted]_catalogueVars => PublishedWhilePermitted BY PTL DEF Permitted, PublishedWhilePermitted
  <1> QED BY <1>1, <1>2, CatalogueInvariant, PTL DEF CatalogueSpec

=============================================================================
