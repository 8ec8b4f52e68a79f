------------------------ MODULE IntegrationDispatcher ------------------------
(***************************************************************************)
(* The processes around the outbox tables: the dispatcher workers that run *)
(* DispatcherRunner.run_forever, the signed execute callbacks that enter   *)
(* IntegrationDispatcher.execute_authorized_action, the Platform Authority *)
(* that queues and dispatches invocations, and the provider the writes     *)
(* reach.  A handler is cut into one action per store transaction or       *)
(* remote call; what it read earlier it keeps in its own record, and a     *)
(* crash (or any exception run_once does not catch) drops that record.     *)
(***************************************************************************)
EXTENDS IntegrationStore

CONSTANTS Worker,    \* dispatcher processes
          Caller,    \* request handlers of the server processes
          NoJob      \* a worker that holds no job

ASSUME ProcessAssumption == NoJob \notin Job

VARIABLES
    wk,       \* wk[w]: what worker w remembers between its transactions
    cb,       \* cb[c]: what callback c remembers between its transactions
    auth,     \* auth[o][k]: the Authority's invocation for key k of o
    effects   \* effects[j]: how often a provider carried out the write or
              \* message of job j (a read has no effect)

vars == <<ops, jobs, events, wk, cb, auth, effects>>

-----------------------------------------------------------------------------
\* AuthorityInvocationState: PENDING also stands for AUTHORIZED, and DENIED
\* for DENIED, EXPIRED, REVOKED and FAILED, which are handled alike.
AuthState == {"NONE", "PENDING", "DISPATCHED", "DENIED", "COMPLETED",
              "UNKNOWN_RESULT"}

\* Outcome of a remote call: a terminal job state, "RETRY" for a
\* RetryableReadError, an Authority state for a poll, "none" before it.
Outcome == {"none", "ACCEPTED", "SUCCEEDED", "FAILED", "UNKNOWN", "RETRY"}
             \cup AuthState

WorkerPc == {"idle", "claiming", "claimed", "sending", "sent", "prepared",
             "enqueued", "polled"}
CallerPc == {"idle", "validated", "executing", "answered", "reconciling"}

IdleWorker == [pc |-> "idle", job |-> NoJob, fence |-> 0, inv |-> NoKey,
               out |-> "none"]
IdleCaller == [pc |-> "idle", op |-> NoOp, fence |-> 0, inv |-> NoKey,
               out |-> "none"]

TypeOK ==
    /\ StoreTypeOK
    /\ wk \in [Worker -> [pc : WorkerPc, job : Job \cup {NoJob},
                          fence : 0..MaxFence, inv : AuthKey \cup {NoKey},
                          out : Outcome]]
    /\ cb \in [Caller -> [pc : CallerPc, op : OpId \cup {NoOp},
                          fence : 0..MaxFence, inv : AuthKey \cup {NoKey},
                          out : Outcome]]
    /\ auth \in [OpId -> [AuthKey -> AuthState]]
    /\ effects \in [Job -> Nat]

Init ==
    /\ StoreInit
    /\ wk = [w \in Worker |-> IdleWorker]
    /\ cb = [c \in Caller |-> IdleCaller]
    /\ auth = [o \in OpId |-> [k \in AuthKey |-> "NONE"]]
    /\ effects = [j \in Job |-> 0]

-----------------------------------------------------------------------------
(* Admission (REST handlers, the GitHub hook and the WeCom hook).           *)

\* integrationReconcile reaches the store through reconcile_operation.
AdmitRest(o) ==
    /\ \/ \E kind \in Kinds : EnqueueIssueAction(o, kind)
       \/ \E original \in OpId : EnqueueReconciliationQuery(o, original)
    /\ UNCHANGED <<wk, cb, auth, effects>>

\* admit_wecom_event for a group command: persist, admit for the linked
\* sender (or ignore), then link the event to its operation.
AdmitCommand(e) ==
    /\ \/ PersistWeComInbound(e)
       \/ \E kind \in Kinds : EnqueueIssueCommandForActor(e, kind)
       \/ \E st \in {"IGNORED", "COMMAND_QUEUED"} : MarkInbound(e, st)
    /\ UNCHANGED <<wk, cb, auth, effects>>

\* admit_wecom_event for a private link challenge.
AdmitLink(e) ==
    /\ \/ PersistWeComInbound(e)
       \/ BeginChallengeObservation(e)
       \/ MarkChallengeUnknown(e)
       \/ EnqueueChallengeReply(e)
    /\ UNCHANGED <<wk, cb, auth, effects>>

AdmitNotice(n) ==
    /\ IngestGitHubEvent(n)
    /\ UNCHANGED <<wk, cb, auth, effects>>

LeaseTimeout(j) ==
    /\ LeaseExpires(j)
    /\ UNCHANGED <<wk, cb, auth, effects>>

-----------------------------------------------------------------------------
(* A dispatcher worker: one run_once after another.                         *)

\* claim_job, first transaction.  When recovery aborts, claim_job raises out
\* of run_forever and nothing changes.
WorkerRecover(w) ==
    /\ wk[w].pc = "idle"
    /\ RecoverExpiredClaims
    /\ wk' = [wk EXCEPT ![w].pc = "claiming"]
    /\ UNCHANGED <<cb, auth, effects>>

\* claim_job, second transaction.  run_once keeps the row as it was read.
WorkerClaim(w, j) ==
    /\ wk[w].pc = "claiming"
    /\ ClaimJob(j)
    /\ wk' = [wk EXCEPT ![w] = [pc |-> "claimed", job |-> j,
                                fence |-> jobs[j].fence + 1,
                                inv |-> jobs[j].inv, out |-> "none"]]
    /\ UNCHANGED <<cb, auth, effects>>

\* No job is due: IDLE, and run_forever polls again.
WorkerNoWork(w) ==
    /\ wk[w].pc = "claiming"
    /\ \A j \in Job : ~Claimable(j)
    /\ wk' = [wk EXCEPT ![w] = IdleWorker]
    /\ UNCHANGED <<ops, jobs, events, cb, auth, effects>>

\* _dispatch_notification / _command_reply / _challenge_reply, up to the
\* persisted write boundary.
WorkerMarkSending(w) ==
    /\ wk[w].pc = "claimed"
    /\ wk[w].job \in MessageJobs
    /\ MarkSending(wk[w].job, wk[w].fence)
    /\ wk' = [wk EXCEPT ![w].pc = "sending"]
    /\ UNCHANGED <<cb, auth, effects>>

\* The message port.  An exception leaves it open whether the provider acted.
WorkerSend(w) ==
    /\ wk[w].pc = "sending"
    /\ \E out \in {"ACCEPTED", "FAILED", "UNKNOWN"}, acted \in {0, 1} :
          /\ out = "ACCEPTED" => acted = 1
          /\ out = "FAILED" => acted = 0
          /\ wk' = [wk EXCEPT ![w].pc = "sent", ![w].out = out]
          /\ effects' = [effects EXCEPT ![wk[w].job] = @ + acted]
    /\ UNCHANGED <<ops, jobs, events, cb, auth>>

\* _finish_message, or finish_job(UNKNOWN) after an exception.
WorkerFinish(w) ==
    /\ wk[w].pc = "sent"
    /\ FinishMessage(wk[w].job, wk[w].fence, wk[w].out)
    /\ wk' = [wk EXCEPT ![w] = IdleWorker]
    /\ UNCHANGED <<cb, auth, effects>>

\* _enqueue_authority: persist the key, call the Authority, record the
\* invocation.
WorkerPrepare(w, o) ==
    /\ wk[w].pc = "claimed"
    /\ wk[w].job = ActionJob(o)
    /\ wk[w].inv = NoKey
    /\ PrepareAuthorityEnqueue(o, wk[w].fence)
    /\ wk' = [wk EXCEPT ![w].pc = "prepared", ![w].inv = PreparedKey(o)]
    /\ UNCHANGED <<cb, auth, effects>>

\* enqueue_authorized_action (external): idempotent in its key.
WorkerEnqueue(w, o) ==
    /\ wk[w].pc = "prepared"
    /\ wk[w].job = ActionJob(o)
    /\ auth' = [auth EXCEPT ![o][wk[w].inv] = IF @ = "NONE" THEN "PENDING" ELSE @]
    /\ wk' = [wk EXCEPT ![w].pc = "enqueued"]
    /\ UNCHANGED <<ops, jobs, events, cb, effects>>

WorkerMarkAwaiting(w, o) ==
    /\ wk[w].pc = "enqueued"
    /\ wk[w].job = ActionJob(o)
    /\ MarkAwaitingAuthority(o, wk[w].fence, wk[w].inv)
    /\ wk' = [wk EXCEPT ![w] = IdleWorker]
    /\ UNCHANGED <<cb, auth, effects>>

\* _poll_authority: the answer is read here and applied in a later step.
WorkerPoll(w, o) ==
    /\ wk[w].pc = "claimed"
    /\ wk[w].job = ActionJob(o)
    /\ wk[w].inv # NoKey
    /\ wk' = [wk EXCEPT ![w].pc = "polled", ![w].out = auth[o][wk[w].inv]]
    /\ UNCHANGED <<ops, jobs, events, cb, auth, effects>>

WorkerApplyPoll(w, o) ==
    /\ wk[w].pc = "polled"
    /\ wk[w].job = ActionJob(o)
    /\ CASE wk[w].out = "DENIED" -> FailClaimedAction(o, wk[w].fence)
         [] wk[w].out = "UNKNOWN_RESULT" ->
               MarkAuthorityResultUnknown(o, wk[w].fence, wk[w].inv)
         [] OTHER -> UpdateAuthorityEvidence(o, wk[w].fence, wk[w].inv)
    /\ wk' = [wk EXCEPT ![w] = IdleWorker]
    /\ UNCHANGED <<cb, auth, effects>>

\* An IntegrationAuthorizationError before any external effect (a disabled
\* binding, an incomplete reply context, no delegation, a port's refusal).
WorkerDenied(w) ==
    /\ \/ /\ wk[w].pc = "claimed"
          /\ wk[w].job \in MessageJobs
          /\ FailClaimedMessage(wk[w].job, wk[w].fence)
       \/ \E o \in OpId :
          /\ wk[w].pc \in {"claimed", "prepared"}
          /\ wk[w].job = ActionJob(o)
          /\ FailClaimedAction(o, wk[w].fence)
    /\ wk' = [wk EXCEPT ![w] = IdleWorker]
    /\ UNCHANGED <<cb, auth, effects>>

\* A crash, an uncaught exception (an IntegrityError of the reply index, a
\* transport error of the Authority) or SUPERSEDED after a stale fence: the
\* worker starts over and the row keeps its claim.
WorkerRestart(w) ==
    /\ wk[w].pc # "idle"
    /\ wk' = [wk EXCEPT ![w] = IdleWorker]
    /\ UNCHANGED <<ops, jobs, events, cb, auth, effects>>

-----------------------------------------------------------------------------
(* The Platform Authority (external).                                       *)

AuthoritySettles(o, k) ==
    /\ auth[o][k] \in {"PENDING", "DISPATCHED"}
    /\ \E st \in {"DENIED", "COMPLETED", "UNKNOWN_RESULT"} :
          /\ auth[o][k] = "PENDING" => st = "DENIED"
          /\ auth' = [auth EXCEPT ![o][k] = st]
    /\ UNCHANGED <<ops, jobs, events, wk, cb, effects>>

-----------------------------------------------------------------------------
(* A signed execute callback: execute_authorized_action.                    *)

\* The Authority delivers an approved invocation, once or again.  The handler
\* reads the operation and checks proof and intent; a mismatch raises and
\* leaves no trace.
CallerValidate(c, o, k) ==
    /\ cb[c].pc = "idle"
    /\ auth[o][k] \in {"PENDING", "DISPATCHED"}
    /\ ops[o].state # "NONE"
    /\ ops[o].inv \in {NoKey, k}
    /\ ops[o].key = k
    /\ auth' = [auth EXCEPT ![o][k] = "DISPATCHED"]
    /\ cb' = [cb EXCEPT ![c] = [pc |-> "validated", op |-> o, fence |-> 0,
                                inv |-> k, out |-> "none"]]
    /\ UNCHANGED <<ops, jobs, events, wk, effects>>

\* After the Account Center lease: the CAS to the write boundary.
CallerBegin(c, o) ==
    /\ cb[c].pc = "validated"
    /\ cb[c].op = o
    /\ BeginAuthorizedExecution(o, cb[c].inv)
    /\ cb' = [cb EXCEPT ![c].pc = "executing",
                        ![c].fence = jobs[ActionJob(o)].fence + 1]
    /\ UNCHANGED <<wk, auth, effects>>

\* The GitHub port.  A read is "SUCCEEDED" or fails; a write is acknowledged,
\* refused, or ends in an exception that leaves open whether it happened.
CallerCall(c, o) ==
    /\ cb[c].pc = "executing"
    /\ cb[c].op = o
    /\ \E out \in {"ACCEPTED", "SUCCEEDED", "FAILED", "UNKNOWN", "RETRY"},
          acted \in {0, 1} :
          /\ IF ops[o].kind = "query"
             THEN out # "ACCEPTED" /\ acted = 0
             ELSE /\ out \in {"ACCEPTED", "SUCCEEDED"} => acted = 1
                  /\ out = "FAILED" => acted = 0
          /\ cb' = [cb EXCEPT ![c].pc = "answered", ![c].out = out]
          /\ effects' = [effects EXCEPT ![ActionJob(o)] = @ + acted]
    /\ UNCHANGED <<ops, jobs, events, wk, auth>>

\* Mutant: a retryable error of a write is not translated.
CallerFinishRawStatus(c, o) ==
    /\ cb[c].pc = "answered"
    /\ cb[c].op = o
    /\ FinishAction(o, cb[c].fence, cb[c].out)
    /\ cb' = [cb EXCEPT ![c] = IdleCaller]
    /\ UNCHANGED <<wk, auth, effects>>

\* Mutant: the original is resolved whatever became of the read.
CallerFinishAlwaysReconciles(c, o) ==
    /\ cb[c].pc = "answered"
    /\ cb[c].op = o
    /\ FinishAction(o, cb[c].fence, IF cb[c].out = "RETRY" THEN "UNKNOWN"
                                    ELSE cb[c].out)
    /\ cb' = [cb EXCEPT ![c] = IF ops[o].reconciles # NoOp
                               THEN [@ EXCEPT !.pc = "reconciling"]
                               ELSE IdleCaller]
    /\ UNCHANGED <<wk, auth, effects>>

\* finish_job / retry_readonly_job with the answer.  A retryable error of a
\* write is an unknown result.
CallerFinish(c, o) ==
    /\ cb[c].pc = "answered"
    /\ cb[c].op = o
    /\ CASE cb[c].out = "RETRY" /\ ops[o].kind = "query" ->
               RetryReadonlyJob(o, cb[c].fence)
         [] cb[c].out = "RETRY" /\ ops[o].kind # "query" ->
               FinishAction(o, cb[c].fence, "UNKNOWN")
         [] OTHER -> FinishAction(o, cb[c].fence, cb[c].out)
    /\ cb' = [cb EXCEPT ![c] =
                IF cb[c].out = "SUCCEEDED" /\ ops[o].reconciles # NoOp
                THEN [@ EXCEPT !.pc = "reconciling"] ELSE IdleCaller]
    /\ UNCHANGED <<wk, auth, effects>>

\* resolve_unknown_operation, a transaction of its own after the read ended,
\* when the observed issue state confirms the original write.
CallerReconcile(c, o) ==
    /\ cb[c].pc = "reconciling"
    /\ cb[c].op = o
    /\ ResolveUnknownOperation(ops[o].reconciles)
    /\ cb' = [cb EXCEPT ![c] = IdleCaller]
    /\ UNCHANGED <<wk, auth, effects>>

\* A crash, a refusal (Account Center, a lost CAS, a stale fence), or a read
\* that does not confirm: the handler ends and the rows stay as they are.
CallerEnd(c) ==
    /\ cb[c].pc # "idle"
    /\ cb' = [cb EXCEPT ![c] = IdleCaller]
    /\ UNCHANGED <<ops, jobs, events, wk, auth, effects>>

-----------------------------------------------------------------------------
WorkerStep(w) ==
    \/ WorkerRecover(w) \/ WorkerNoWork(w)
    \/ \E j \in Job : WorkerClaim(w, j)
    \/ WorkerMarkSending(w) \/ WorkerSend(w) \/ WorkerFinish(w)
    \/ \E o \in OpId : \/ WorkerPrepare(w, o) \/ WorkerEnqueue(w, o)
                       \/ WorkerMarkAwaiting(w, o)
                       \/ WorkerPoll(w, o) \/ WorkerApplyPoll(w, o)
    \/ WorkerDenied(w) \/ WorkerRestart(w)

CallerStep(c) ==
    \/ \E o \in OpId, k \in AuthKey : CallerValidate(c, o, k)
    \/ \E o \in OpId : \/ CallerBegin(c, o) \/ CallerCall(c, o)
                       \/ CallerFinish(c, o) \/ CallerReconcile(c, o)
    \/ CallerEnd(c)

Next ==
    \/ \E o \in RestKey : AdmitRest(o)
    \/ \E e \in Event : AdmitCommand(e)
    \/ \E e \in Link : AdmitLink(e)
    \/ \E n \in Notice : AdmitNotice(n)
    \/ \E j \in Job : LeaseTimeout(j)
    \/ \E w \in Worker : WorkerStep(w)
    \/ \E c \in Caller : CallerStep(c)
    \/ \E o \in OpId, k \in AuthKey : AuthoritySettles(o, k)

Spec == Init /\ [][Next]_vars

\* A busy process either goes on or is stopped and starts over (WorkerRestart
\* and CallerEnd are steps of the process), an expiring lease does expire.
Fairness ==
    /\ \A w \in Worker : WF_vars(WorkerStep(w))
    /\ \A j \in Job : WF_vars(LeaseTimeout(j))

-----------------------------------------------------------------------------
(* What the outbox promises.                                                *)

\* A write or a message reaches its provider at most once, whatever crashes,
\* lease expiries, redelivered callbacks and competing workers do: the
\* SENDING boundary and the claim fence of mark_sending and
\* begin_authorized_execution.
AtMostOneEffect == \A j \in Job : effects[j] <= 1

\* A terminal state tells the truth about a write or a message: FAILED means
\* the provider did not act, ACCEPTED that it did (finish_job,
\* fail_claimed_job, recover_expired_claims).
TerminalIsTrue ==
    \A j \in Job : ~IsQuery(j) =>
        /\ jobs[j].state = "FAILED" => effects[j] = 0
        /\ jobs[j].state = "ACCEPTED" => effects[j] = 1

\* The operation and its ISSUE_ACTION job never disagree, though one
\* transaction moves them by separate UPDATEs and recovery, callback and
\* worker each have their own: same phase, same invocation, same key.
JobPhase(row) ==
    CASE row.state \in {"READY", "CLAIMED"} /\ row.inv = NoKey -> "QUEUED"
      [] row.state = "CLAIMED" /\ row.inv # NoKey -> "AWAITING_AUTHORITY"
      [] row.state = "SENDING" -> "RUNNING"
      [] OTHER -> row.state
OperationMatchesJob ==
    \A o \in OpId : LET row == jobs[ActionJob(o)] IN
        /\ ops[o].state = JobPhase(row)
        /\ ops[o].inv = row.inv
        /\ ops[o].key = row.key

\* A WeCom command is answered exactly when its operation has ended: no reply
\* before, none missing after (finish_job, fail_claimed_job,
\* retry_readonly_job, mark_authority_result_unknown, recovery).
ReplyFollowsOutcome ==
    \A e \in Event :
        jobs[ReplyJob(e)].state # "NONE" <=> ops[e].state \in Terminal

\* The inbox row of an answered event shows how its reply ended, even when
\* the delivery that should have linked it crashed or runs late (finish_job,
\* fail_claimed_job against mark_wecom_inbound_processed).
AnswerOf(e) == IF e \in Event THEN ReplyJob(e) ELSE ChallengeJob(e)
EventShowsReply ==
    \A e \in Event \cup Link :
        /\ jobs[AnswerOf(e)].state = "ACCEPTED" => events[e] = "REPLY_ACCEPTED"
        /\ jobs[AnswerOf(e)].state = "FAILED" => events[e] = "REJECTED"

\* Only a finished read-only query for it turns an UNKNOWN write into a
\* success, and a comment never (enqueue_reconciliation_query refuses it).
ResolvedOnlyByRead ==
    [][\A o \in OpId :
          (ops[o].state = "UNKNOWN" /\ ops'[o].state = "SUCCEEDED") =>
             /\ ops[o].kind \in {"close", "reopen"}
             /\ \E q \in OpId : /\ ops[q].reconciles = o
                                 /\ ops[q].kind = "query"
                                 /\ ops[q].state = "SUCCEEDED"]_vars

\* No claim and no send is held for ever: recovery releases the first and
\* settles the second (recover_expired_claims, "Release expired pre-send
\* claims and mark expired sends UNKNOWN").
LeasesEnd ==
    \A j \in Job : jobs[j].state \in {"CLAIMED", "SENDING"}
                      ~> jobs[j].state \notin {"CLAIMED", "SENDING"}

\* The outbox implements OutboxContract: every step of every process is, for
\* every job, a step of the contract or leaves the job alone.
ContractStatus(st) ==
    CASE st = "NONE" -> "none"
      [] st \in {"READY", "CLAIMED", "AWAITING_AUTHORITY"} -> "open"
      [] st = "SENDING" -> "flying"
      [] st = "ACCEPTED" -> "accepted"
      [] st = "SUCCEEDED" -> "succeeded"
      [] st = "FAILED" -> "failed"
      [] st = "UNKNOWN" -> "unknown"
Contract == INSTANCE OutboxContract
    WITH st <- [j \in Job |-> ContractStatus(jobs[j].state)],
         read <- [j \in Job |-> jobs[j].state # "NONE" /\ IsQuery(j)],
         eff <- effects
ImplementsContract == Contract!CSpec

-----------------------------------------------------------------------------
(* The inductive invariant behind AtMostOneEffect and TerminalIsTrue: who    *)
(* may be between a write boundary and its answer, and what the provider has *)
(* done by then.                                                             *)

Departed == {"SENDING"} \cup Terminal

\* What a remote call can answer, by the process that waits for it.
AnswersKnown ==
    /\ \A w \in Worker : wk[w].pc = "sent" =>
          wk[w].out \in {"ACCEPTED", "FAILED", "UNKNOWN"}
    /\ \A c \in Caller : cb[c].pc = "answered" =>
          cb[c].out \in Terminal \cup {"RETRY"}

\* A worker in a call, a callback in a call for a write.
Sends(w, j) == wk[w].job = j /\ wk[w].pc \in {"sending", "sent"}
Writes(c, o) == /\ cb[c].op = o /\ cb[c].pc \in {"executing", "answered"}
                /\ ops[o].kind # "query"

\* A call is in progress only for a job past its write boundary, and for one
\* job in one process only.
OneCallPerJob ==
    /\ \A w \in Worker : wk[w].pc \in {"sending", "sent"} =>
          wk[w].job \in MessageJobs /\ jobs[wk[w].job].state \in Departed
    /\ \A c \in Caller : cb[c].pc # "idle" =>
          cb[c].op \in OpId /\ ops[cb[c].op].state # "NONE"
    /\ \A c \in Caller, o \in OpId : Writes(c, o) =>
          jobs[ActionJob(o)].state \in Departed
    /\ \A w, x \in Worker, j \in Job : Sends(w, j) /\ Sends(x, j) => w = x
    /\ \A c, d \in Caller, o \in OpId : Writes(c, o) /\ Writes(d, o) => c = d

\* What the provider has done, as far as job, worker and callback know.
EffectsKnown ==
    /\ \A o \in OpId :
          /\ ops[o].state = "NONE" <=> jobs[ActionJob(o)].state = "NONE"
          /\ ops[o].kind = "query" => effects[ActionJob(o)] = 0
    /\ \A j \in Job : jobs[j].state \notin Departed => effects[j] = 0
    /\ \A w \in Worker :
          /\ wk[w].pc = "sending" => effects[wk[w].job] = 0
          /\ wk[w].pc = "sent" /\ wk[w].out = "FAILED" => effects[wk[w].job] = 0
          /\ wk[w].pc = "sent" /\ wk[w].out = "ACCEPTED" => effects[wk[w].job] = 1
    /\ \A c \in Caller, o \in OpId : Writes(c, o) =>
          /\ cb[c].pc = "executing" => effects[ActionJob(o)] = 0
          /\ cb[c].pc = "answered" /\ cb[c].out = "FAILED" =>
                effects[ActionJob(o)] = 0
          /\ cb[c].pc = "answered" /\ cb[c].out \in {"ACCEPTED", "SUCCEEDED"} =>
                effects[ActionJob(o)] = 1

\* Nobody is still calling for a failed write or message.
FailedIsQuiet ==
    \A j \in Job : jobs[j].state = "FAILED" =>
        /\ \A w \in Worker : ~(wk[w].job = j /\ wk[w].pc = "sending")
        /\ \A c \in Caller, o \in OpId :
              j = ActionJob(o) => ~(Writes(c, o) /\ cb[c].pc = "executing")

CallInv ==
    /\ TypeOK
    /\ AnswersKnown
    /\ OneCallPerJob
    /\ EffectsKnown
    /\ FailedIsQuiet
    /\ AtMostOneEffect
    /\ TerminalIsTrue
=============================================================================
