-------------------------- MODULE IntegrationStore --------------------------
(***************************************************************************)
(* The outbox tables of integrations/store.py and the transactions that    *)
(* move a row.  Every operator named after a store method is ONE SQLite    *)
(* transaction: its guard is what the SELECT demands, its primed part what *)
(* the COMMIT leaves.  A row that does not match makes the method raise    *)
(* and the transaction roll back, so the action is simply not enabled; the *)
(* processes that call the store (IntegrationDispatcher) say what they do  *)
(* then.                                                                   *)
(*                                                                         *)
(* Two columns are one variable: `attempts` and `claim_fence` start at 0   *)
(* and are incremented together by claim_job and begin_authorized_         *)
(* execution and by nothing else, so `fence` stands for both.  Times are   *)
(* abstracted: a lease is "live" until it is "expired", which may happen   *)
(* at any moment, and available_at only delays a claim, which interleaving *)
(* does anyway.                                                            *)
(***************************************************************************)
EXTENDS Integers, FiniteSets

CONSTANTS
    RestKey,       \* idempotency keys of operations enqueued over REST
    Event,         \* inbound WeCom group commands; each names its operation
    Link,          \* inbound private WeCom link challenges
    Notice,        \* (incoming event, binding) pairs that raise a NOTIFY job
    Kinds,         \* the kinds of operation that users ask for
    NoOp,          \* reconciles_operation_id of an operation that has none
    ReadAttempts,  \* attempts a read-only query may use (4 in the code)
    MaxFence       \* bound on claims of one job

OpId == RestKey \cup Event

ASSUME StoreAssumption ==
    /\ MaxFence \in Nat
    /\ ReadAttempts \in Nat
    /\ RestKey \cap Event = {}
    /\ Link \cap Event = {}
    /\ NoOp \notin OpId
    /\ Kinds \subseteq {"query", "comment", "close", "reopen"}

VARIABLES
    ops,     \* operations
    jobs,    \* outbox_jobs
    events   \* wecom_inbound_events: the state column of each event

storeVars == <<ops, jobs, events>>

-----------------------------------------------------------------------------
(* Rows.  The unique index on (kind, idempotency_key) makes the pair the    *)
(* identity of a job: operation:<id>, command-reply:<event>:<id>,           *)
(* wecom-challenge:<event>, incoming:<event>:<binding>.                     *)

ActionJob(o) == <<"ISSUE_ACTION", o>>
ReplyJob(e) == <<"COMMAND_REPLY", e>>
ChallengeJob(e) == <<"CHALLENGE_REPLY", e>>
NotifyJob(n) == <<"NOTIFY", n>>

ActionJobs == {ActionJob(o) : o \in OpId}
ReplyJobs == {ReplyJob(e) : e \in Event}
ChallengeJobs == {ChallengeJob(e) : e \in Link}
NotifyJobs == {NotifyJob(n) : n \in Notice}
MessageJobs == ReplyJobs \cup ChallengeJobs \cup NotifyJobs
Job == ActionJobs \cup MessageJobs

\* Jobs whose operation_id column is set, and the operation it names.
JobsOf(o) == {ActionJob(o)} \cup (IF o \in Event THEN {ReplyJob(o)} ELSE {})

JobState == {"NONE", "READY", "CLAIMED", "AWAITING_AUTHORITY", "SENDING",
             "ACCEPTED", "SUCCEEDED", "FAILED", "UNKNOWN"}
OperationState == {"NONE", "QUEUED", "AWAITING_AUTHORITY", "RUNNING",
                   "ACCEPTED", "SUCCEEDED", "FAILED", "UNKNOWN"}
OperationKind == {"query", "comment", "close", "reopen"}
\* "IGNORED" stands for the IGNORED_* dispositions of a command.
WeComEventState == {"NONE", "RECEIVED", "IGNORED", "COMMAND_QUEUED",
                    "CHALLENGE_OBSERVING", "CHALLENGE_UNKNOWN",
                    "CHALLENGE_REPLY_PENDING", "REPLY_ACCEPTED", "UNKNOWN",
                    "REJECTED"}
Terminal == {"ACCEPTED", "SUCCEEDED", "FAILED", "UNKNOWN"}

\* An Authority idempotency key and the invocation it yields: 0 for a write
\* (the key is the operation id), the attempt number for a read.
NoKey == -1
AuthKey == 0..MaxFence

OpRow == [state : OperationState, kind : OperationKind,
          reconciles : OpId \cup {NoOp},
          inv : AuthKey \cup {NoKey}, key : AuthKey \cup {NoKey}]
JobRow == [state : JobState, fence : 0..MaxFence,
           lease : {"none", "live", "expired"},
           inv : AuthKey \cup {NoKey}, key : AuthKey \cup {NoKey}]

AbsentOp == [state |-> "NONE", kind |-> "query", reconciles |-> NoOp,
             inv |-> NoKey, key |-> NoKey]
AbsentJob == [state |-> "NONE", fence |-> 0, lease |-> "none",
              inv |-> NoKey, key |-> NoKey]
NewJob == [AbsentJob EXCEPT !.state = "READY"]

StoreTypeOK ==
    /\ ops \in [OpId -> OpRow]
    /\ jobs \in [Job -> JobRow]
    /\ events \in [Event \cup Link -> WeComEventState]

StoreInit ==
    /\ ops = [o \in OpId |-> AbsentOp]
    /\ jobs = [j \in Job |-> AbsentJob]
    /\ events = [e \in Event \cup Link |-> "NONE"]

-----------------------------------------------------------------------------
(* Shared parts of the transactions.                                        *)

\* The row a fenced UPDATE ... WHERE state=? AND claim_fence=? would hit.
Holds(j, f, st) == jobs[j].state = st /\ jobs[j].fence = f

\* A job row that leaves its claim: claim_owner and lease are cleared.
Released(row, st) == [row EXCEPT !.state = st, !.lease = "none"]

\* _enqueue_command_reply: only WeCom-origin operations get a reply, and the
\* INSERT raises IntegrityError when the unique index already has its key.
ReplyKeyFree(js, o) == o \in Event => js[ReplyJob(o)].state = "NONE"
EnqueueReply(js, o) ==
    [j \in Job |-> IF o \in Event /\ j = ReplyJob(o) THEN NewJob ELSE js[j]]

\* _update_operation_state.
SetOpState(o, st) == [ops EXCEPT ![o].state = st]

\* A read that goes back to the queue forgets its Authority attempt.
Requeued(row, st) == [row EXCEPT !.state = st, !.inv = NoKey, !.key = NoKey]

\* The message jobs that answer a WeCom event, and what their outcome makes
\* of it.
AnsweredEvents(j) == {e \in Event : j = ReplyJob(e)}
                       \cup {e \in Link : j = ChallengeJob(e)}
SetEvents(E, st) ==
    [e \in Event \cup Link |-> IF e \in E THEN st ELSE events[e]]

IsQuery(j) == \E o \in OpId : j = ActionJob(o) /\ ops[o].kind = "query"

-----------------------------------------------------------------------------
(* Admission: the transactions that create rows.                            *)

\* _persist_issue_action: the operation and its one job, atomically.  A key
\* already used returns the stored operation (or a conflict) unchanged.
PersistIssueAction(o, kind, reconciles) ==
    /\ ops[o].state = "NONE"
    /\ ops' = [ops EXCEPT ![o] = [AbsentOp EXCEPT !.state = "QUEUED",
                                       !.kind = kind, !.reconciles = reconciles]]
    /\ jobs' = [jobs EXCEPT ![ActionJob(o)] = NewJob]

\* enqueue_issue_action over REST.
EnqueueIssueAction(o, kind) ==
    /\ PersistIssueAction(o, kind, NoOp)
    /\ UNCHANGED events

\* enqueue_reconciliation_query: only an UNKNOWN close/reopen, by a new read.
\* The original is read before the transaction; it can leave UNKNOWN in
\* between only by another reconciliation, after which this one finds nothing
\* to resolve.
EnqueueReconciliationQuery(o, original) ==
    /\ ops[original].state = "UNKNOWN"
    /\ ops[original].kind \in {"close", "reopen"}
    /\ PersistIssueAction(o, "query", original)
    /\ UNCHANGED events

\* persist_wecom_inbound: a redelivered event returns the stored row, one
\* the bot wrote itself is ignored at once.
PersistWeComInbound(e) ==
    /\ events[e] = "NONE"
    /\ \E st \in {"RECEIVED", "IGNORED"} : events' = [events EXCEPT ![e] = st]
    /\ UNCHANGED <<ops, jobs>>

\* enqueue_issue_command_for_actor: the event must still be eligible.  The
\* event is read before the transaction; a delivery that marks it IGNORED in
\* between leaves the same rows as one that does so right after it.
EnqueueIssueCommandForActor(e, kind) ==
    /\ events[e] \in {"RECEIVED", "COMMAND_QUEUED"}
    /\ PersistIssueAction(e, kind, NoOp)
    /\ UNCHANGED events

\* mark_wecom_inbound_processed, a transaction of its own after the enqueue.
\* A delivery that crashed in between is repeated while the event is still
\* RECEIVED, and may by then resolve to no linked sender.
MarkInbound(e, st) ==
    /\ events[e] = "RECEIVED"
    /\ st = "COMMAND_QUEUED" => ops[e].state # "NONE"
    /\ events' = [events EXCEPT ![e] = st]
    /\ UNCHANGED <<ops, jobs>>

\* begin_wecom_challenge_observation: the first delivery claims the one
\* observation, a delivery that finds it in progress gives it up.
BeginChallengeObservation(e) ==
    /\ events[e] \in {"RECEIVED", "CHALLENGE_OBSERVING"}
    /\ events' = [events EXCEPT ![e] = IF @ = "RECEIVED"
                                       THEN "CHALLENGE_OBSERVING"
                                       ELSE "CHALLENGE_UNKNOWN"]
    /\ UNCHANGED <<ops, jobs>>

\* mark_wecom_challenge_unknown: Account Center did not clearly accept.
MarkChallengeUnknown(e) ==
    /\ events[e] = "CHALLENGE_OBSERVING"
    /\ events' = [events EXCEPT ![e] = "CHALLENGE_UNKNOWN"]
    /\ UNCHANGED <<ops, jobs>>

\* enqueue_wecom_challenge_reply: the event and its reply job, atomically.
EnqueueChallengeReply(e) ==
    /\ events[e] \in {"CHALLENGE_OBSERVING", "CHALLENGE_REPLY_PENDING"}
    /\ jobs[ChallengeJob(e)].state = "NONE"
    /\ jobs' = [jobs EXCEPT ![ChallengeJob(e)] = NewJob]
    /\ events' = [events EXCEPT ![e] = "CHALLENGE_REPLY_PENDING"]
    /\ UNCHANGED ops

\* ingest_github_event: one NOTIFY job per enabled binding.
IngestGitHubEvent(n) ==
    /\ jobs[NotifyJob(n)].state = "NONE"
    /\ jobs' = [jobs EXCEPT ![NotifyJob(n)] = NewJob]
    /\ UNCHANGED <<ops, events>>

-----------------------------------------------------------------------------
(* Claims, leases and recovery.                                             *)

Claimable(j) == jobs[j].state \in {"READY", "AWAITING_AUTHORITY"}

\* claim_job, second transaction: a new fence and a live lease.
ClaimJob(j) ==
    /\ Claimable(j)
    /\ jobs[j].fence < MaxFence
    /\ jobs' = [jobs EXCEPT ![j].state = "CLAIMED", ![j].lease = "live",
                            ![j].fence = @ + 1]
    /\ UNCHANGED <<ops, events>>

\* lease_expires_at passes.
LeaseExpires(j) ==
    /\ jobs[j].state \in {"CLAIMED", "SENDING"}
    /\ jobs[j].lease = "live"
    /\ jobs' = [jobs EXCEPT ![j].lease = "expired"]
    /\ UNCHANGED <<ops, events>>

\* Mutant: recovery looks only for expired claims.
ExpiredClaimsOnly ==
    {j \in Job : jobs[j].state = "CLAIMED" /\ jobs[j].lease = "expired"}

\* The rows the recovery transaction selects.
ExpiredJobs == {j \in Job : /\ jobs[j].state \in {"CLAIMED", "SENDING"}
                            /\ jobs[j].lease = "expired"}

\* Mutant: writes are retried like reads.
SendFateRetriesWrites(j) ==
    IF jobs[j].fence < ReadAttempts THEN "READY"
    ELSE IF IsQuery(j) THEN "FAILED" ELSE "UNKNOWN"

\* What recovery makes of an expired send: a read is retried within its
\* attempts, a write or message stays UNKNOWN.
SendFate(j) ==
    IF IsQuery(j)
    THEN IF jobs[j].fence < ReadAttempts THEN "READY" ELSE "FAILED"
    ELSE "UNKNOWN"

\* Mutant: an expired send is released like an expired claim.
RecoveredAsClaim(j) ==
    Released(jobs[j], IF jobs[j].inv # NoKey THEN "AWAITING_AUTHORITY" ELSE "READY")

\* The row recovery leaves: a claim goes back to where it came from.
RecoveredJob(j) ==
    CASE jobs[j].state = "CLAIMED" ->
            Released(jobs[j], IF jobs[j].inv # NoKey
                              THEN "AWAITING_AUTHORITY" ELSE "READY")
      [] jobs[j].state = "SENDING" /\ SendFate(j) = "READY" ->
            Requeued(Released(jobs[j], "READY"), "READY")
      [] OTHER -> Released(jobs[j], SendFate(j))

\* The operations whose row recovery rewrites: those named by the
\* operation_id of an expired send, whatever the job's kind.
ExpiredSendsOf(o) ==
    {j \in JobsOf(o) \cap ExpiredJobs : jobs[j].state = "SENDING"}
LostOps == {o \in OpId : \E j \in ExpiredSendsOf(o) : SendFate(j) # "READY"}

\* The recovery transaction inserts a reply for every operation in LostOps;
\* one IntegrityError rolls all of it back.
RecoveryAborts == \E o \in LostOps : ~ReplyKeyFree(jobs, o)

\* Mutant: a requeued read keeps the operation's Authority attempt.
RecoveredOpKeepsAttempt(o) ==
    CASE ExpiredSendsOf(o) = {} -> ops[o]
      [] o \in LostOps ->
            [ops[o] EXCEPT !.state = IF \E j \in ExpiredSendsOf(o) :
                                            SendFate(j) = "UNKNOWN"
                                     THEN "UNKNOWN" ELSE "FAILED"]
      [] OTHER -> [ops[o] EXCEPT !.state = "QUEUED"]

\* The operation row recovery leaves.
RecoveredOp(o) ==
    CASE ExpiredSendsOf(o) = {} -> ops[o]
      [] o \in LostOps ->
            [ops[o] EXCEPT !.state = IF \E j \in ExpiredSendsOf(o) :
                                            SendFate(j) = "UNKNOWN"
                                     THEN "UNKNOWN" ELSE "FAILED"]
      [] OTHER -> Requeued(ops[o], "QUEUED")

\* recover_expired_claims, the first transaction of every claim_job.
RecoverExpiredClaims ==
    /\ ~RecoveryAborts
    /\ jobs' = [j \in Job |->
                  IF j \in ExpiredJobs THEN RecoveredJob(j)
                  ELSE IF \E o \in LostOps \cap Event : j = ReplyJob(o)
                  THEN NewJob ELSE jobs[j]]
    /\ ops' = [o \in OpId |-> RecoveredOp(o)]
    /\ UNCHANGED events

-----------------------------------------------------------------------------
(* Transactions under a claim fence.                                        *)

\* mark_sending.  Its lease test compares with the moment of the claim
\* itself, which the dispatcher passes, so it never fails on its own.
MarkSending(j, f) ==
    /\ Holds(j, f, "CLAIMED")
    /\ jobs' = [jobs EXCEPT ![j].state = "SENDING"]
    /\ ops' = [o \in OpId |-> IF j = ActionJob(o)
                              THEN [ops[o] EXCEPT !.state = "RUNNING"]
                              ELSE ops[o]]
    /\ UNCHANGED events

\* Mutant: the refusal is recorded without looking at state and fence.
FailClaimedUnfenced(o, f) ==
    LET j == ActionJob(o)
        failed == [jobs EXCEPT ![j] = Released(@, "FAILED")]
    IN  /\ jobs[j].state \in {"CLAIMED", "SENDING"}
        /\ ReplyKeyFree(EnqueueReply(failed, o), o)
        /\ jobs' = failed
        /\ ops' = SetOpState(o, "FAILED")
        /\ UNCHANGED events

\* fail_claimed_job of an issue action: the operation fails and the reply is
\* enqueued twice (store.py:2797 and :2809), each INSERT needing a free key.
FailClaimedAction(o, f) ==
    LET j == ActionJob(o)
        failed == [jobs EXCEPT ![j] = Released(@, "FAILED")]
        once == EnqueueReply(failed, o)
    IN  /\ Holds(j, f, "CLAIMED")
        /\ ReplyKeyFree(failed, o)
        /\ ReplyKeyFree(once, o)
        /\ jobs' = EnqueueReply(once, o)
        /\ ops' = SetOpState(o, "FAILED")
        /\ UNCHANGED events

\* fail_claimed_job of a message: the event it answers is rejected.
FailClaimedMessage(j, f) ==
    /\ Holds(j, f, "CLAIMED")
    /\ jobs' = [jobs EXCEPT ![j] = Released(@, "FAILED")]
    /\ events' = SetEvents(AnsweredEvents(j), "REJECTED")
    /\ UNCHANGED ops

\* prepare_authority_enqueue: the key that will be sent is persisted first,
\* and a persisted key is reused.
PreparedKey(o) ==
    IF jobs[ActionJob(o)].key # NoKey THEN jobs[ActionJob(o)].key
    ELSE IF ops[o].kind = "query" THEN jobs[ActionJob(o)].fence
    ELSE 0
PrepareAuthorityEnqueue(o, f) ==
    /\ Holds(ActionJob(o), f, "CLAIMED")
    /\ jobs[ActionJob(o)].key = ops[o].key
    /\ jobs' = [jobs EXCEPT ![ActionJob(o)].key = PreparedKey(o)]
    /\ ops' = [ops EXCEPT ![o].key = PreparedKey(o)]
    /\ UNCHANGED events

\* mark_awaiting_authority.
MarkAwaitingAuthority(o, f, inv) ==
    /\ Holds(ActionJob(o), f, "CLAIMED")
    /\ jobs[ActionJob(o)].inv \in {NoKey, inv}
    /\ jobs' = [jobs EXCEPT ![ActionJob(o)] =
                   [Released(@, "AWAITING_AUTHORITY") EXCEPT !.inv = inv]]
    /\ ops' = [ops EXCEPT ![o].state = "AWAITING_AUTHORITY", ![o].inv = inv]
    /\ UNCHANGED events

\* update_authority_evidence.
UpdateAuthorityEvidence(o, f, inv) ==
    /\ Holds(ActionJob(o), f, "CLAIMED")
    /\ jobs[ActionJob(o)].inv = inv
    /\ jobs' = [jobs EXCEPT ![ActionJob(o)] = Released(@, "AWAITING_AUTHORITY")]
    /\ UNCHANGED <<ops, events>>

\* mark_authority_result_unknown.
MarkAuthorityResultUnknown(o, f, inv) ==
    LET j == ActionJob(o)
        unknown == [jobs EXCEPT ![j] = Released(@, "UNKNOWN")]
    IN  /\ Holds(j, f, "CLAIMED")
        /\ jobs[j].inv = inv
        /\ ReplyKeyFree(unknown, o)
        /\ jobs' = EnqueueReply(unknown, o)
        /\ ops' = SetOpState(o, "UNKNOWN")
        /\ UNCHANGED events

\* begin_authorized_execution: a CAS of operation and job to the write
\* boundary under a fence of its own.
BeginAuthorizedExecution(o, inv) ==
    LET j == ActionJob(o) IN
    /\ ops[o].state \in {"QUEUED", "AWAITING_AUTHORITY"}
    /\ ops[o].inv \in {NoKey, inv}
    /\ jobs[j].state \in {"AWAITING_AUTHORITY", "CLAIMED"}
    /\ jobs[j].inv \in {NoKey, inv}
    /\ jobs[j].fence < MaxFence
    /\ jobs' = [jobs EXCEPT ![j].state = "SENDING", ![j].lease = "live",
                            ![j].fence = @ + 1, ![j].inv = inv]
    /\ ops' = [ops EXCEPT ![o].state = "RUNNING", ![o].inv = inv]
    /\ UNCHANGED events

\* finish_job of an issue action: job, operation and reply move together.
FinishAction(o, f, status) ==
    LET j == ActionJob(o)
        finished == [jobs EXCEPT ![j] = Released(@, status)]
    IN  /\ Holds(j, f, "SENDING")
        /\ ReplyKeyFree(finished, o)
        /\ jobs' = EnqueueReply(finished, o)
        /\ ops' = SetOpState(o, status)
        /\ UNCHANGED events

\* finish_job of a message: the event it answers records the outcome.
EventOutcome(status) ==
    CASE status = "ACCEPTED" -> "REPLY_ACCEPTED"
      [] status = "UNKNOWN" -> "UNKNOWN"
      [] OTHER -> "REJECTED"
\* Mutant: the event row is forgotten.
FinishMessageForgetsEvent(j, f, status) ==
    /\ Holds(j, f, "SENDING")
    /\ jobs' = [jobs EXCEPT ![j] = Released(@, status)]
    /\ UNCHANGED <<ops, events>>

FinishMessage(j, f, status) ==
    /\ Holds(j, f, "SENDING")
    /\ jobs' = [jobs EXCEPT ![j] = Released(@, status)]
    /\ events' = SetEvents(AnsweredEvents(j), EventOutcome(status))
    /\ UNCHANGED ops

\* Mutant: a query whose attempts are used up fails without a reply.
RetryReadonlySilently(o, f) ==
    LET j == ActionJob(o)
        spent == jobs[j].fence >= ReadAttempts
    IN  /\ Holds(j, f, "SENDING")
        /\ ops[o].kind = "query"
        /\ jobs' = [jobs EXCEPT ![j] = IF spent THEN Released(@, "FAILED")
                                       ELSE Requeued(Released(@, "READY"), "READY")]
        /\ ops' = [ops EXCEPT ![o] = IF spent THEN [@ EXCEPT !.state = "FAILED"]
                                     ELSE Requeued(@, "QUEUED")]
        /\ UNCHANGED events

\* retry_readonly_job: back to the queue under a new Authority attempt, or
\* FAILED with a reply once the attempts are used up.
RetryReadonlyJob(o, f) ==
    LET j == ActionJob(o)
        failed == [jobs EXCEPT ![j] = Released(@, "FAILED")]
    IN  /\ Holds(j, f, "SENDING")
        /\ ops[o].kind = "query"
        /\ IF jobs[j].fence >= ReadAttempts
           THEN /\ ReplyKeyFree(failed, o)
                /\ jobs' = EnqueueReply(failed, o)
                /\ ops' = SetOpState(o, "FAILED")
           ELSE /\ jobs' = [jobs EXCEPT ![j] =
                              Requeued(Released(@, "READY"), "READY")]
                /\ ops' = [ops EXCEPT ![o] = Requeued(@, "QUEUED")]
        /\ UNCHANGED events

\* resolve_unknown_operation with a confirming read: the operation and every
\* UNKNOWN job that names it become SUCCEEDED.  An observation that does not
\* confirm only rewrites the operation's result, which is not modelled.
ResolveUnknownOperation(o) ==
    /\ ops[o].state = "UNKNOWN"
    /\ ops' = SetOpState(o, "SUCCEEDED")
    /\ jobs' = [j \in Job |-> IF j \in JobsOf(o) /\ jobs[j].state = "UNKNOWN"
                              THEN [jobs[j] EXCEPT !.state = "SUCCEEDED"]
                              ELSE jobs[j]]
    /\ UNCHANGED events
=============================================================================
