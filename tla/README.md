# Cyrene Exchange: TLA+ verification

Cyrene Exchange is two programs in one repository. The *gateway*
(`src/cyrene_exchange`) serves OpenAI-compatible requests over routed model
providers. The *product* (`product/src/cyrene_exchange_product`) adds endpoints,
routes, credentials and audits to it and, in its `integrations` package, a hub
that carries out writes in other people's systems: issues, chat messages, mail,
cloud operations. The hub is the largest part of the code and the one in which a
wrong interleaving costs most: it promises, across crashes, retries and several
processes on one SQLite database, that an unknown write is never submitted again.
The project starts there and goes on to everything else that keeps state.

Paths below are relative to `src/`; `integrations/` abbreviates
`product/src/cyrene_exchange_product/integrations/`.

## Inventory

| part | state it keeps | operations | who meets it |
|---|---|---|---|
| **Integration outbox** (`integrations/store.py`) | `operations`, `outbox_jobs`, `wecom_inbound_events` | enqueue, claim, recover, mark sending, prepare/await Authority, begin execution, finish, retry, resolve | dispatcher workers, execute callbacks, webhooks, REST |
| **Dispatcher and execute callback** (`integrations/dispatcher.py`) | what a worker or a callback remembers between transactions | `run_once`, `_enqueue_authority`, `_poll_authority`, `execute_authorized_action` | store, Platform Authority, providers |
| **WeCom intake** (`integrations/intake.py`, `commands.py`) | none of its own | `admit_wecom_event`, link challenges | store |
| **Connector ledger** (`integrations/store.py`, `api.py`) | `connector_invocations`, `connector_grant_replays`, `connector_request_replays` | reserve, consume, attach, call, complete, discard, reconcile, trim | request handlers of `execute_connector_operation`, `send_teams_message`, `invoke_bilibili_operation` |
| **Connector security** (`integrations/connector_security.py`) | the registries above | verify, `inspect`, `consume`, `validate_authority_response` | ledger handlers |
| **Connector calls** (`integrations/connector_operations.py`, `clients.py`) | the invocation in hand | prepare, check scope, lease, call, read the answer | ledger handlers, Account Center, providers |
| **Email notification outbox** (`integrations/store.py`, `authorization_cloud.py`) | `email_notification_outbox` | claim, mark sending, finish, two releases, delivery request | `AuthorizationCloudRunner`, REST, the mail adapter |
| **Authorization monitor** (same files) | `authorization_monitor_state`, `authorization_observations`, `integration_notifications` | claim, complete, release, notify with dedupe, acknowledge | the same runner, REST |
| **Cloud refresh** (same files) | `cloud_refresh_operations`, `cloud_refresh_outbox`, `cloud_resource_observations` | enqueue, claim, complete, release | the same runner, REST |
| **Provider health** (`integrations/authorization_cloud_provider.py`) | none between calls | list, lease, probe, conclude | the monitor, Account Center, vendors |
| **Renewal sessions** (`integrations/api.py`, `store.py`) | `renewal_sessions`, `idempotency_records` | begin, complete start, unknown, fail, poll | REST handlers and the provider |
| **Account links** (`integrations/api.py`) | OAuth sessions, QR logins, Account Center's profiles | link, upgrade, rotate, complete, poll, unlink | REST, Account Center, the Bilibili plugin |
| **Connections and bindings** (`integrations/api.py`, `store.py`) | `integration_connections`, sync and actor bindings | create, register the cloud profile, attach | REST, Account Center, Platform |
| **Model gateway** (`src/cyrene_exchange/gateway.py`) | one request's attempt, its stream | authenticate, check quota, plan, call, stream, cancel | routers, plugins, lifecycle observer |
| **Product store and service** (`store.py`, `service.py`, `routing.py`, `audit.py`) | endpoints, routes, drafts, API keys, quotas, `request_audits`, idempotency | create, edit and confirm drafts, revoke, begin/finish request | gateway, REST |
| **Route admission** (`route_admission.py`) | none | resolve and probe a Reactor source | the service |
| **Quota and billing** (`quota.py`, `src/cyrene_exchange/billing.py`) | remote usage | check before, report after | gateway |
| **Host lifecycle** (`cli.py`, `server.py`, `runtime_activity.py`) | threads, drain flags | start, drain, stop | all workers |
| Profiles, catalogue schemas, protocol shapes, media | none | build requests, parse answers, validate arguments | taken as outcomes |

How they interact: REST handlers, webhooks and worker threads share one SQLite
database per program; every store method is one `BEGIN IMMEDIATE` transaction,
so interleaving happens between transactions and around remote calls. The
Platform Authority queues an operation and calls back into
`execute_authorized_action`, possibly twice, late, or while the worker that
queued it is polling. Providers answer, fail, or act without answering.

What is hard here: rows that two processes move in turn (claim fences, lease
expiry, late finishes); a process that dies between a persisted boundary and an
answer; recovery that runs as the first transaction of every claim and so can
stop everybody; replies and reconciliation that are second steps of something
already committed; one-use grants presented by two handlers; ledgers with three
budgets over the same rows.

What makes each part correct: a write happens at most once; a terminal state is
true and final; an operation and its job agree; every command gets exactly one
reply; a claim always ends (outbox). No repeat while a receipt is remembered; one
call per grant; a receipt says SUCCEEDED only of what happened, and FAILED only of
what did not, except where the code cannot tell and decides (listed below); budgets
hold (ledger and calls). One mail per notification, none
lost; every incident announced, reminders spaced; nothing sent after a drain
(runner). One provider session per renewal, its outcome the vendor's; an account
shown only to its owner; a connection that had its account, a binding that had its
authority (accounts). No lost edit; a published route was permitted, and its
source existed (an operator's, half by half); one answer per idempotency key
(catalogue). One audit row with one
true, terminal state per request that reached a provider; usage only for an
audited request (gateway).

`PROJECT.json` lists every component with its status and, under `hazards`, what
is hard to test at which line and which property watches it.

## Modules

| module | models |
|---|---|
| `IntegrationStore` | the three outbox tables and every transaction on them |
| `IntegrationDispatcher` | workers, execute callbacks, the Authority and the providers around them; the properties and the inductive invariant `CallInv` |
| `OutboxContract` | abstract: what the outbox promises about one job |
| `ConnectorLedger` | grants, the invocation ledger and its handlers; properties and `LedgerInv` |
| `AuthorizationStore` | monitor, observations, notifications, mails, refreshes: every transaction on them |
| `AuthorizationCloudRunner` | the runner's three stages over those tables, its host, the REST handlers beside it, the mail adapter |
| `AccountCenter` | the provider profiles the next five modules read and write remotely |
| `ProviderHealth` | how one health verdict is put together from listing, lease and probe |
| `ConnectorCall` | one invocation between its reservation and its receipt |
| `AccountRenewal` | renewal sessions and the provider session behind each |
| `AccountLinks` | linking, upgrading, rotating, QR logins |
| `IntegrationConnections` | connections, cloud registration, sync and actor bindings |
| `ProductCatalogue` | endpoints, routes, drafts, keys, credentials; route admission |
| `ModelGateway` | requests through the gateway over that catalogue, their audits and usage |
| `MCDispatcher`, `MCLedger`, `MCAuthorizationCloud`, `MCAccounts`, `MCCatalogue`, `MCGateway` | instances for TLC: scenes, bounds, symmetry |
| `IntegrationDispatcherProofs`, `OneEffectProofs`, `OutboxProofs` | theorems about the outbox: types, one effect, tables and contract |
| `ConnectorLedgerProofs` | theorems about the connector ledger |
| `RunnerProofs` | theorems about the authorization/cloud runner |
| `AccountsProofs` | theorems about renewals, health checks, connector calls, links and connections |
| `CatalogueProofs`, `GatewayProofs` | theorems about the product store and the gateway over it |

### The outbox

`ops`, `jobs` and `events` are the three tables. A job is identified by its kind
and idempotency key, as its unique index does, so an INSERT that would violate
the index is a guard: the whole transaction rolls back and the action is not
enabled. `claim_fence` and `attempts` only ever move together and are one number.
Clock time is replaced by a lease that may expire at any moment; `available_at`
only delays a claim. Each operator of `IntegrationStore` named after a method
(`claim_job` is `ClaimJob`, `finish_job` is `FinishAction` and `FinishMessage`)
is that method's transaction with every row it touches.

`IntegrationDispatcher` cuts the handlers at transactions and remote calls. `wk`
and `cb` hold what a worker or callback read earlier and still believes.
`WorkerRestart` and `CallerEnd` stand for crashes and for any exception that
`run_once` lets out. `auth` is the Authority's invocation per attempt key and
`effects` counts what providers did; both are external and follow how the code
uses them: a call that raises leaves open whether the provider acted.

`OutboxContract` says what all this is for: a job is submitted, departs, lands
with a true answer or unknown; only reads retry; only a resolving read turns
unknown into success. The provider may act on an open call at any time, also
after a read has resolved the write to SUCCEEDED: the read saw the state the
write asks for, not the write, and the call it belongs to may still be on its
way. `ImplementsContract` says that every step of the detailed system is, for
every job, such a move or nothing.

### The connector ledger and the call inside it

A request is one request id with its envelope. `ledger` has a row per request,
`older` the order of `created_at`, `grants` and `seen` the two registries, `hs`
what a handler remembers, `world` what the provider made of each attempt.
`forgotten` counts terminal receipts that expiry, eviction or trimming deleted:
it is what makes a repeated call legitimate. The actions follow
`execute_connector_operation`: `Reserve` or `ReserveReplays`, `Consume` or
`Refuse`, `Attach`, `Call`, an answer, `Complete`, and `Reconcile` after a status
read; `send_teams_message` is the same path with other answers, and
`RestAuthorize` is the Bilibili path up to its refused grant. Rows with equal
`created_at` are ordered by insertion. Byte budgets follow the entry budgets and
are not counted on their own.

The ledger takes the state of a receipt as given, and a definite one as true.
`ConnectorCall` is where it comes from: `call` is one invocation from its
preparation against host configuration and account, over grant, lease and provider
call, to the classification of the answer or of its absence; `effect` is whether the
provider acted. The answers of `Wire` are those some adapter or
`_connector_operation_response` reads differently, among them a state on no list
(`named`), a success of another request or resource (`other`), an error beside a
result without a state (`flagged`) and three ways to say that an outcome is unknown
(`Unsettled`). `call.answer` keeps the answer for the properties; the code does not.
`ReceiptIsTrue` holds but for `TakenAsFailure` and `TakenOnTrust`, which name the
answers the code reads as definite although they leave the write open. Each of them
is needed: without any one of the five the run finds a receipt that is not true.

### The authorization/cloud runner

`AuthorizationStore` keeps one table per variable. A notification is known by its
dedupe key, a tuple of stage, connection and two numbers; `feed` is their order.
Time is counted in reminder intervals, the one duration that changes which key is
built. `AuthorizationCloudRunner` has a `pc` per worker: the cycle's `run_once`
does a check, a refresh and a mail with the moment read at its start, and takes
each claim in two steps, the drain flag and the transaction under `_claim_gate`.
`host` is the application that starts the thread, drains it and joins it. A health
report is one of the kinds of its scene; how it is arrived at is `ProviderHealth`.
`world` counts the mails the adapter sent, `doubts` its answers that left it open.

### Accounts

`AccountCenter` holds `profiles`, which change between any two calls of Exchange.
`ProviderHealth` records in `was` what the account has shown since the check
began, so a verdict can be compared with every moment of the check, and whether
a listing could not be read, which the code takes for a missing account.
`AccountRenewal` has the stored session, the provider sessions started for it
(`vendor`) and the states each has shown; handlers of two processes interleave.
`AccountLinks` and `IntegrationConnections` cut the handlers of `api.py` at each
remote call; within one process a handler runs undisturbed to its answer, so only
other services, another process and its own death come between.

### The product

`ProductCatalogue` cuts the synchronous handlers at each transaction of the store
and each remote read; `op[t]` is what thread `t` has read so far. A refused
request that changed nothing is left out. An operator's draft stores any source its
client names (`CreateLegacyDraft`); a workspace's is read from the Reactor. `written` and `replies` record
what clients were told. `ModelGateway` extends it: a request is authenticated,
planned and served against the same endpoints, routes and keys while they change.
A response is reduced to how it ends, usage to one token or none. `CatalogueSpec`
is the control plane with all its requests, `ServerSpec` the process that serves
both planes; `ServerRestarts` ends the requests of the data plane with it and
starts the new process on its own configuration.

## Runs

Each MC module explores several *scenes*, fixed in the initial state: which kind
of work arrives and which processes exist. A scene keeps actors that meet each
other together and leaves out those that share no row with them.

| run | scenes and instance | shows |
|---|---|---|
| `outbox` | one REST operation, read or comment, 2 workers and 2 callbacks; one WeCom command from delivery to reply; a link challenge and a notice | `TypeOK`, `AtMostOneEffect`, `TerminalIsTrue`, `OperationMatchesJob`, `ReplyFollowsOutcome`, `EventShowsReply`, `ImplementsContract` |
| `outbox_liveness` | a close and its reconciliation query; challenge and notice; under fairness | `ResolvedOnlyByRead`, `LeasesEnd` |
| `ledger` | 2 handlers, 3 grants: a write, a message and a Bilibili request over one row at a time; three messages over 2 rows, 1 tombstone, 1 receipt | `NoBlindRepeat`, `GrantUsedOnce`, `AnswerFindsRow`, `WithinBudgets` |
| `ledger_reconcile` | a write and its status reads, 2 handlers, 3 grants | `VerifiedIsTrue` |
| `authorization_cloud` | five: incidents over three reminder intervals under two racing processes; a raced refresh with a shutdown; two refreshes of a changing resource; one mail with a shutdown and a crash; one process alone | `TypeOK`, `IncidentsAnnounced`, `RemindersSpaced`, `MailNotRepeated`, `ThreadLeavesNothing`, `LoneRunnerSurvives`, `QuietAfterDrain` |
| `accounts` | renewal with 2 processes; a health check and a connector call of each provider; links of 2 actors; connections, cloud profiles, member bindings | `OneProviderSession`, `OutcomeWasReached`, `VerdictWasTrue`, `ReceiptIsTrue`, `DoneUnderLease`, `OneProfilePerKey`, `LinkedIsOwned`, `ConnectionsBacked` |
| `accounts_liveness` | renewal and cloud registration, under fairness | `RenewalConverges`, `RegistrationConverges` |
| `catalogue` | two threads: keyed creations with a restart; drafts edited and confirmed; an operator's drafts of any pair of version and digest while the source moves; a workspace's drafts over that source; keys and credentials | `TypeOK`, `NoLostEdit`, `PublishedSourceExisted`, `ReplaysAgree`, `PublishedWhilePermitted` |
| `gateway` | one request of any shape while key, endpoint, client or process go; two requests that may carry one id; under fairness | `CallsAreAudited`, `AuditIsTrue`, `BilledIsAudited`, `AuditsEnd` |

The inductive invariants are proved for every instance and are not properties of a
run. The modules' type invariants that are no run's property (`GatewayTypeOK`,
`AccountsTypeOK` and its parts) hold on the same instances.

Runs that end in a violation, each a disagreement between code and its own words
(quoted under `findings`):

| run | what happens |
|---|---|
| `outbox_blocked` | recovery of an expired chat reply inserts that reply again; recovery, and with it every claim, fails from then on |
| `mail_resent` | an adapter that answers "outcome unknown" has its mail released and sent again |
| `gateway_request_id` | the id in a chat response's header is not the id of its audit row |

### Disagreements without a run of their own

The models reproduce what the code does here too; no property of a passing run
claims the opposite.

Outbox and ledger:

- the refusal of a WeCom command inserts its reply twice (`store.py:2797`, `2809`);
  the second INSERT fails and the refusal is never recorded, against the docstring
  at `store.py:2764`;
- a callback validated before its read was requeued executes under the spent
  attempt (`store.py:3036` against the docstring at `store.py:3376`);
- a status read that failed records the operation it asked about as FAILED
  (`api.py:5518-5525` and `5549` against `store.py:1266`);
- a Bilibili REST request presents a grant nobody registered (`api.py:4620` against
  `4467` and `docs/API.md:86-88`), under a ledger key that is fresh for every HTTP
  request;
- `resolve_unknown_operation` turns the unknown chat reply of a resolved close into
  SUCCEEDED together with it (`ResolveUnknownOperation`); a row left IN_PROGRESS by
  a crash matches no status read and stays in the tombstone budget (`Die`,
  `Reconcile`); `_trim_connector_receipts` drops the oldest response whatever its
  row's state, although it says "Evict only expired or terminal receipts"
  (`Trimmed`);
- failures of a write before it is sent are stored UNKNOWN_RESULT; Teams' rate limit
  is stored REJECTED because `clients.py:2720` and `api.py:5977` spell it
  differently.

Answers that are read as definite and are not (`TakenAsFailure`, `TakenOnTrust`):

- a Hugging Face error with state UNKNOWN_RESULT but no outcome UNKNOWN is of the
  class its code names, so FAILED with a 4xx code
  (`authorization_cloud_provider.py:2462`; the other adapters ask for both, `2665`,
  `2885`, `clients.py:3405`);
- a Graph error that names an expired authorization is a 409, and so FAILED, before
  anything asks whether its outcome is unknown (`authorization_cloud_provider.py:2654`);
- a result without a state that carries an error is failed (`api.py:2318`), and a
  Teams reply accepted beside a refusal reason is REJECTED (`clients.py:2690`);
- a write's result in a state on no list is verified (`api.py:2322`), and so is a
  success of another request or resource, which only Bilibili and Graph's mail
  compare (mail where the request names a message, or sends one).

Runner and accounts:

- a reminder's interval is counted from the latest notice; a second outage within
  one authorization generation is not announced; a cloud resource that flips back
  and forth is announced once for each pair of states; the lease check of a
  completion uses the cycle's moment and so never fails by time; a clean drain may
  be reported as failed; a mail that becomes UNKNOWN by its lease has no feed entry;
- a Hugging Face verdict VALID is stored with a refreshed generation nobody probed;
  a listing whose `profiles` is missing or no list asks for a new authorization of an
  account in order (`authorization_cloud_provider.py:1189-1211`), where
  `clients.py:1430` calls the same answer invalid (`HuggingFaceUnlisted`; the one
  exemption of `ReauthWasNeeded`);
- a renewal start repeated with its key after an ambiguous start, and denied
  locally, is stored FAILED for good although the provider session runs;
  `mark_renewal_start_unknown` overwrites the reason of a FAILED session;
- a host profile that needs no plan ids can be linked but not connected; the target
  of a cloud connection is not compared with its alias; a member binding is written
  although its delegation was revoked after the checks (`api.py:6851`;
  `BindingHadAuthority` says whose authority it was, not that it still is).

Product:

- version and digest of a source are read apart at confirmation, and an operator's
  draft names any pair (`service.py:202`). A draft of (v1, d2) made while the Reactor
  shows (v1, d1) passes the version read; the Reactor moves to (v2, d2); the digest
  read passes, and a pair that never existed is ACTIVE. `PublishedSourceExisted`
  claims the pair of a workspace's route only, and of an operator's each half, the
  version seen no later than the digest;
- a stream abandoned before its first chunk leaves its audit STARTED for as long as
  the process lives; a billing error after the terminal audit answers 500 for a
  completed request; two same-key creations that race, or a crash, may leave an
  ACTIVE document no key remembers; `edit_route_draft` does not compare the version
  it read with the command's; `create_route` does not admit its binding; a restart
  re-enables a credential that was disabled on the command line but is still
  configured; the source resolver takes the first ACTIVE route with the same
  binding; `build_product_app` passes no billing client.

**Bounds.** `MaxFence` bounds the claims of one job; the code has no bound.
`ReadAttempts` is 4 in the code and 3 in `outbox`, so a query still goes through a
retry and the exhausted one; one more fence lets a late process meet a row it no
longer owns. WeCom commands have three claims per job and one callback at a time;
`outbox_liveness` lowers both constants to 2, one expiry and one retry of each job.
Two workers and two callbacks are enough for every pairwise race on one row, and
the properties of a row do not depend on other rows except through recovery, which
takes all expired rows in one transaction (challenge and notice are two). In the
ledger three grants let a request be tried, forgotten and tried again while a third
grant competes; one row at a time makes every eviction happen. `ledger_reconcile`
runs without a receipt cache, whose contents its properties do not mention. In the
runner a scene bounds the clock (`until`), the claims of a connection (`checks`)
and of another row (`claims`); two claims of a row are what a lost lease needs,
three what a lost lease and a release need. `MaxVersion` and `MaxReactor` let a
draft be edited twice and confirmed while its source moves twice. Where the source
does not move, drafts name it as it is, and drafts over a selected version share one
binding (`SceneBounds`). The accounts
scenes have one account of each provider, one idempotency key and two actors or two
processes: their properties speak of one row and the requests that meet on it.

**Deadlock** is checked in the two outbox and accounts liveness runs. Elsewhere the
system may really stop: an aborting recovery stops every worker (`outbox_blocked`),
grants, keys and requests are finite, and hosts are shut down.

**Symmetry** is used on operations, events, workers, callbacks, requests, grants,
handlers, threads, routes and keys, which no action tells apart, and only in runs
without liveness.

**Fairness.** A dispatcher worker that can step does (`run_forever` polls until it
is stopped, and a stopped process is restarted) and a live lease expires or is
released (the clock moves); callbacks, providers and the Authority get none: they
may stay away for ever. `GatewayFairness` is that of a thread that is not blocked;
a client may stall and never leave. `RenewalFairness` and `ConnectionFairness` are
about clients that go on asking one process: a call repeated for ever succeeds some
time, which is what the answer `retry later` asks of them. They say what retrying
achieves, not that a single request ends well.

## Proofs

Every safety property of every passing run is a theorem: it holds for any number of
keys, events, workers, callbacks, requests, grants, handlers, connections, scenes,
actors, profiles, threads and routes, and for any budgets and bounds. The
assumptions are those the modules name. `StoreAssumption`, `LedgerAssumption` and
`ProcessAssumption` keep constants disjoint where the code's key prefixes keep them
apart and bounds natural; `ProfileAssumption`, `RenewalAssumption`,
`HealthAssumption`, `RowsAssumption` and `CatalogueAssumption` say that `Nothing`,
which stands for an absent row, is no row (and that versions are positive);
`LinkRefs` and `CloudRefs` that the references the code derives from an actor and
a key are references; `AuthorizationAssumption` and `ScenesAssumption` that
fingerprints and bounds are numbers, nobody is no worker, and a scene names what
exists; `ScopeAssumption` that every principal has a scope, `BilledAssumption` that
a billing plugin is there or not.

Each component has one inductive invariant; its theorem comes first in the module's
list, and the properties follow from it.

**The outbox.** `IntegrationDispatcherProofs`: `TypeCorrect` (`Spec => []TypeOK`),
one lemma per transaction. Every later proof needs the row shapes it gives.

`OneEffectProofs`: `CallInvariant`, then `WritesHappenOnce` and
`TerminalStatesAreTrue`. `AtMostOneEffect` alone is not inductive: a state with two
processes inside the same call satisfies it. `CallInv` adds that a call is in
progress only past the persisted boundary and in one process (`OneCallPerJob`),
that job, worker and callback agree on what the provider has done so far
(`EffectsKnown`), and that nobody is still calling for a FAILED row
(`FailedIsQuiet`), which is why recovery must say UNKNOWN and never FAILED of a
write.

`OutboxProofs`: `OutboxInvariant`, then `OperationsMatchJobs`,
`RepliesFollowOutcomes` and `EventsShowReplies`, the action property
`WritesResolvedByReads`, and the refinement `OutboxImplementsContract`. `OutboxInv`
adds to `CallInv` that operation and job agree, with the key of an awaited
invocation (`RowsMatch`, `KeysKnown`), and that a read about to resolve a write has
succeeded and names a close or reopen (`OriginalsKnown`, `ReadsKnown`). The proof
goes by what a step does to the tables: `TableStep` says how an operation may move
(`OpStep`) and a job (`JobStep`), one lemma per transaction shows it, recovery
included, and each theorem reads it off. The refinement needs that a job's status
and its count of effects do not change in the same step.

**The connector ledger.** `ConnectorLedgerProofs`: `LedgerInvariant`, then
`AttemptsNotRepeated`, `GrantsSpentOnce` and `AnswersFindRows`. `LedgerInv` adds who
owns a row in progress (`RowsOwned`), that an attempt is either remembered by a row
or counted as forgotten (`AttemptsKnown`), and that a consumed grant is in one
handler's hands until its call (`GrantsHeld`). The lemma behind every transaction
is `Others`: a transaction changes rows it is not about only by deleting terminal
ones. `BudgetsKept` adds that the budgeted sets are finite (`BudgetInv`); each
transaction is shown to leave a set smaller, or to add one row to a set it has
found below its budget. A receipt is stored on a row that counted as a tombstone
already, so it may free one and never adds one. `ReceiptsAreTrue` needs that a handler
waits for the last attempt of its request, which the row it owns keeps others from
adding to, that what a status read saw is of an attempt of that write, and that
the `operation_ref` of an unresolved row names its last attempt (`VerifyInv`):
without the last one `reconcile_connector_invocations` could store the outcome of
an earlier attempt.

**The runner.** `RunnerProofs`: `RunnerInvariant`, then types, `IncidentsAnnounced`,
`RemindersSpaced`, `MailNotRepeated`, `ThreadLeavesNothing`, `LoneRunnerSurvives`,
and the action property `QuietAfterDrain`. `RunnerInv` says what a worker's place
says of its locals (`Types`), that the owner of a claim stands where the claim is
used and remembers row and fence (`Owned`), that at most one worker is between
SENDING and the stored result of a mail and knows every earlier send (`Sends`),
that a drained worker has left the gates (`Drained`), what the draft of a finished
check promises of the feed (`Notices`), and that a worker without company holds
what it uses (`Lone`). Fences tell apart the workers that held one mail in turn.
The latest notice of an incident is a last position of the feed, which exists
because the naturals are well-founded.

**Accounts.** `AccountsProofs`, five invariants. `RenewalInv`: all starts of a
session carry one request id (`OneRequestId`), a vendor's session ends once
(`EndsOnce`), and what the table (`StoredIsTold`) or an answer on its way
(`OpIsTold`) says of an end, the vendor has said; from it `OneProviderSession` and
`OutcomeWasReached`. `CallInv`: what has been carried out was sent under a lease
for the target in the host's scope (`SentUnderLease`), and the result so far says no
more than the provider's effect unless its answer is one of those named above
(`ResultTrue`); from it `ReceiptIsTrue` and `DoneUnderLease`. `HealthInv`: every
fact a check goes on with was seen during the check, an unreadable listing
included; from it `VerdictWasTrue`.
`LinkInv`: every row was made under its actor and key (`RowsMade`), and a request
that will show one has found it held (`Linking`); from it `OneProfilePerKey` and
`LinkedIsOwned`. `ConnectionInv`: what a handler has listed (`ListingsSeen`) and
the authority it rests on (`AuthoritySeen`) were seen; from it `ConnectionsBacked`.

**The product.** `CatalogueProofs`: `CatalogueInv` says of every document a thread
has read that its version is not above the stored one and that with the same
version it is the stored document (`OpsKnown`), and of rows that what they show was
there (`RoutesKnown`, `RowsKnown`, `ActiveIsFirst`): a workspace's source as a pair,
an operator's half by half as its confirmation reads it (`SourceProbed`,
`SourceConfirmed`); from it `NoLostEdit`,
`PublishedSourceExisted`, `ReplaysAgree`, and `PublishedWhilePermitted` as an
action property. `GatewayProofs`: two requests may carry one id, so `GatewayInv`
speaks of the row a request owns: where the request stands says in what state that
row is (`Place`), what it is about to record (`Outcome`) and what row and client
say of it (`Record`); a row is changed only by its owner (`SameRows`). From it
`CallsAreAudited`, `AuditIsTrue` and `BilledIsAudited`, and `ServerHasCatalogue`:
the server implements the control plane alone, so the catalogue's theorems hold of
it.

Only model-checked: liveness (`LeasesEnd`, `RenewalConverges`,
`RegistrationConverges`, `AuditsEnd`), which the prover does not handle: their
fairness speaks of ENABLED.

## Not modelled, and the plan

Left out for good: parsing, formatting, signatures and encodings, the schemas of
single operations and profile documents, generated bindings, media downloads, smoke
tests and release scripts; remote services appear only as their possible outcomes.
The amounts behind a quota are not counted: the code reserves nothing and promises
nothing about concurrent requests.

Worth doing next, in this order:

1. Abstract specifications of the other components, as `OutboxContract` is for the
   outbox: a connector request (reserved, attempted, received, forgotten) and a
   mail (queued, sending, told), with `ConnectorLedger` and
   `AuthorizationCloudRunner` shown to implement them from the invariants above.
2. Connection of `ConnectorCall` with `ConnectorLedger`: that a call's receipt is one
   of the answers the ledger takes as given (`WriteAnswers`, `FateOf`).
3. The safety half of what the liveness runs show: that no step undoes the progress
   a lease, a renewal or a registration has made.
