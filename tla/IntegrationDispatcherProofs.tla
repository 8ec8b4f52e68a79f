--------------------- MODULE IntegrationDispatcherProofs ---------------------
(***************************************************************************)
(* Proofs about IntegrationDispatcher for every set of operations, events, *)
(* workers and callers and every bound.                                    *)
(***************************************************************************)
EXTENDS IntegrationDispatcher, TLAPS

-----------------------------------------------------------------------------
(* Jobs.                                                                    *)

\* An ISSUE_ACTION job belongs to one operation and is no message job; every
\* job of an operation or an event is a job.
LEMMA JobIdentity ==
    /\ \A o \in OpId : ActionJob(o) \in Job /\ ActionJob(o) \notin MessageJobs
    /\ \A o, p \in OpId : ActionJob(o) = ActionJob(p) => o = p
    /\ \A e \in Event : ReplyJob(e) \in MessageJobs
    /\ \A e \in Link : ChallengeJob(e) \in MessageJobs
    /\ \A n \in Notice : NotifyJob(n) \in MessageJobs
    /\ MessageJobs \subseteq Job
    /\ \A j \in Job : j \in MessageJobs \/ \E o \in OpId : j = ActionJob(o)
    /\ Event \subseteq OpId
  BY DEF ActionJob, ReplyJob, ChallengeJob, NotifyJob, Job, MessageJobs,
         ActionJobs, ReplyJobs, ChallengeJobs, NotifyJobs, OpId

\* The constants of the rows.
LEMMA RowTypes ==
    /\ AbsentOp \in OpRow
    /\ NewJob \in JobRow
    /\ \A row \in JobRow, st \in JobState :
          /\ Released(row, st) \in JobRow
          /\ Requeued(row, st) \in JobRow
          /\ [row EXCEPT !.state = st] \in JobRow
    /\ \A row \in OpRow, st \in OperationState :
          /\ Requeued(row, st) \in OpRow
          /\ [row EXCEPT !.state = st] \in OpRow
  <1>1. AbsentOp \in OpRow
    BY StoreAssumption DEF AbsentOp, OpRow, OperationState, OperationKind
  <1>2. NewJob \in JobRow
    BY StoreAssumption DEF AbsentJob, NewJob, JobRow, JobState
  <1>3. ASSUME NEW row \in JobRow, NEW st \in JobState
        PROVE  /\ Released(row, st) \in JobRow
               /\ Requeued(row, st) \in JobRow
               /\ [row EXCEPT !.state = st] \in JobRow
    BY DEF JobRow, Released, Requeued
  <1>4. ASSUME NEW row \in OpRow, NEW st \in OperationState
        PROVE  /\ Requeued(row, st) \in OpRow
               /\ [row EXCEPT !.state = st] \in OpRow
    BY DEF OpRow, Requeued
  <1> QED
    BY <1>1, <1>2, <1>3, <1>4

-----------------------------------------------------------------------------
(* Each transaction leaves well-typed tables.                               *)

LEMMA PersistType ==
    ASSUME StoreTypeOK, NEW o \in OpId, NEW kind \in OperationKind,
           NEW r \in OpId \cup {NoOp}, PersistIssueAction(o, kind, r),
           UNCHANGED events
    PROVE  StoreTypeOK'
  BY JobIdentity, RowTypes
  DEF PersistIssueAction, StoreTypeOK, OpRow, OperationState, AbsentOp

LEMMA EventType ==
    ASSUME StoreTypeOK, NEW e \in Event \cup Link, NEW st \in WeComEventState,
           events' = [events EXCEPT ![e] = st], UNCHANGED <<ops, jobs>>
    PROVE  StoreTypeOK'
  BY DEF StoreTypeOK

LEMMA ClaimType ==
    ASSUME StoreTypeOK, NEW j \in Job, ClaimJob(j) \/ LeaseExpires(j)
    PROVE  StoreTypeOK'
  BY StoreAssumption DEF ClaimJob, LeaseExpires, StoreTypeOK, JobRow, JobState

LEMMA NewMessageType ==
    ASSUME StoreTypeOK, NEW j \in Job, jobs' = [jobs EXCEPT ![j] = NewJob],
           ops' = ops,
           \/ events' = events
           \/ \E e \in Event \cup Link, st \in WeComEventState :
                 events' = [events EXCEPT ![e] = st]
    PROVE  StoreTypeOK'
  BY RowTypes DEF StoreTypeOK

\* The reply of a WeCom operation is a new row or none.
LEMMA EnqueueReplyType ==
    ASSUME NEW js \in [Job -> JobRow], NEW o \in OpId
    PROVE  EnqueueReply(js, o) \in [Job -> JobRow]
  BY RowTypes DEF EnqueueReply

\* Moving the state columns of one operation and its job.
LEMMA MoveType ==
    ASSUME StoreTypeOK, NEW j \in Job, NEW o \in OpId,
           NEW st \in JobState, NEW ost \in OperationState
    PROVE  /\ [jobs EXCEPT ![j] = Released(@, st)] \in [Job -> JobRow]
           /\ SetOpState(o, ost) \in [OpId -> OpRow]
  BY RowTypes DEF StoreTypeOK, SetOpState

LEMMA RecoverType ==
    ASSUME StoreTypeOK, RecoverExpiredClaims
    PROVE  StoreTypeOK'
  <1>1. ASSUME NEW j \in Job
        PROVE  RecoveredJob(j) \in JobRow
    <2>1. jobs[j] \in JobRow
      BY DEF StoreTypeOK
    <2>2. SendFate(j) \in JobState
      BY DEF SendFate, JobState
    <2> QED
      BY <2>1, <2>2, RowTypes DEF RecoveredJob, JobState
  <1>2. ASSUME NEW o \in OpId
        PROVE  RecoveredOp(o) \in OpRow
    <2>1. ops[o] \in OpRow
      BY DEF StoreTypeOK
    <2> QED
      BY <2>1, RowTypes DEF RecoveredOp, OperationState
  <1> QED
    BY <1>1, <1>2, RowTypes DEF RecoverExpiredClaims, StoreTypeOK

LEMMA MarkSendingType ==
    ASSUME StoreTypeOK, NEW j \in Job, NEW f, MarkSending(j, f)
    PROVE  StoreTypeOK'
  <1>1. jobs' \in [Job -> JobRow]
    BY DEF MarkSending, StoreTypeOK, JobRow, JobState
  <1>2. ASSUME NEW o \in OpId PROVE [ops[o] EXCEPT !.state = "RUNNING"] \in OpRow
    BY RowTypes DEF StoreTypeOK, OperationState
  <1> QED
    BY <1>1, <1>2 DEF MarkSending, StoreTypeOK

LEMMA FailClaimedActionType ==
    ASSUME StoreTypeOK, NEW o \in OpId, NEW f, FailClaimedAction(o, f)
    PROVE  StoreTypeOK'
  <1> DEFINE failed == [jobs EXCEPT ![ActionJob(o)] = Released(@, "FAILED")]
  <1>1. /\ failed \in [Job -> JobRow]
        /\ SetOpState(o, "FAILED") \in [OpId -> OpRow]
    BY MoveType, JobIdentity DEF JobState, OperationState
  <1>2. EnqueueReply(EnqueueReply(failed, o), o) \in [Job -> JobRow]
    BY <1>1, EnqueueReplyType
  <1> QED
    BY <1>1, <1>2 DEF FailClaimedAction, StoreTypeOK

\* Every other transaction that ends an action with one reply.
LEMMA EndActionType ==
    ASSUME StoreTypeOK, NEW o \in OpId, NEW st \in Terminal,
           jobs' = EnqueueReply([jobs EXCEPT ![ActionJob(o)] = Released(@, st)], o),
           ops' = SetOpState(o, st), UNCHANGED events
    PROVE  StoreTypeOK'
  <1>1. st \in JobState /\ st \in OperationState
    BY DEF Terminal, JobState, OperationState
  <1>2. /\ [jobs EXCEPT ![ActionJob(o)] = Released(@, st)] \in [Job -> JobRow]
        /\ SetOpState(o, st) \in [OpId -> OpRow]
    BY <1>1, MoveType, JobIdentity
  <1> QED
    BY <1>2, EnqueueReplyType DEF StoreTypeOK

LEMMA MessageEndType ==
    ASSUME StoreTypeOK, NEW j, NEW st \in JobState,
           jobs' = [jobs EXCEPT ![j] = Released(@, st)], ops' = ops,
           NEW E, NEW est \in WeComEventState, events' = SetEvents(E, est)
    PROVE  StoreTypeOK'
  <1>1. jobs' \in [Job -> JobRow]
    BY RowTypes DEF StoreTypeOK
  <1> QED
    BY <1>1 DEF StoreTypeOK, SetEvents

LEMMA PrepareType ==
    ASSUME StoreTypeOK, NEW o \in OpId, NEW f, PrepareAuthorityEnqueue(o, f)
    PROVE  StoreTypeOK' /\ PreparedKey(o) \in AuthKey
  <1>1. PreparedKey(o) \in AuthKey
    BY StoreAssumption, JobIdentity
    DEF PreparedKey, StoreTypeOK, JobRow, AuthKey
  <1>2. jobs' \in [Job -> JobRow]
    <2>1. jobs[ActionJob(o)] \in JobRow
      BY JobIdentity DEF StoreTypeOK
    <2>2. [jobs[ActionJob(o)] EXCEPT !.key = PreparedKey(o)] \in JobRow
      BY <1>1, <2>1 DEF JobRow
    <2>3. jobs' = [jobs EXCEPT ![ActionJob(o)] =
                      [jobs[ActionJob(o)] EXCEPT !.key = PreparedKey(o)]]
      BY DEF PrepareAuthorityEnqueue
    <2> QED
      BY <2>2, <2>3 DEF StoreTypeOK
  <1>3. ops' \in [OpId -> OpRow]
    <2>1. ops[o] \in OpRow
      BY DEF StoreTypeOK
    <2>2. [ops[o] EXCEPT !.key = PreparedKey(o)] \in OpRow
      BY <1>1, <2>1 DEF OpRow
    <2>3. ops' = [ops EXCEPT ![o] = [ops[o] EXCEPT !.key = PreparedKey(o)]]
      BY DEF PrepareAuthorityEnqueue
    <2> QED
      BY <2>2, <2>3 DEF StoreTypeOK
  <1> QED
    BY <1>1, <1>2, <1>3 DEF PrepareAuthorityEnqueue, StoreTypeOK

LEMMA AwaitType ==
    ASSUME StoreTypeOK, NEW o \in OpId, NEW f, NEW inv \in AuthKey \cup {NoKey},
           \/ MarkAwaitingAuthority(o, f, inv)
           \/ UpdateAuthorityEvidence(o, f, inv)
    PROVE  StoreTypeOK'
  <1>1. jobs[ActionJob(o)] \in JobRow
    BY JobIdentity DEF StoreTypeOK
  <1>2. Released(jobs[ActionJob(o)], "AWAITING_AUTHORITY") \in JobRow
    BY <1>1, RowTypes DEF JobState
  <1>3. [Released(jobs[ActionJob(o)], "AWAITING_AUTHORITY") EXCEPT !.inv = inv]
           \in JobRow
    BY <1>2 DEF JobRow
  <1>4. ops' \in [OpId -> OpRow]
    BY DEF MarkAwaitingAuthority, UpdateAuthorityEvidence, StoreTypeOK, OpRow,
       OperationState
  <1>5. jobs' \in [Job -> JobRow]
    BY <1>2, <1>3
    DEF MarkAwaitingAuthority, UpdateAuthorityEvidence, StoreTypeOK
  <1> QED
    BY <1>4, <1>5
    DEF MarkAwaitingAuthority, UpdateAuthorityEvidence, StoreTypeOK

LEMMA BeginType ==
    ASSUME StoreTypeOK, NEW o \in OpId, NEW inv \in AuthKey \cup {NoKey},
           BeginAuthorizedExecution(o, inv)
    PROVE  StoreTypeOK'
  BY StoreAssumption, JobIdentity DEF BeginAuthorizedExecution, StoreTypeOK,
     JobRow, OpRow, JobState, OperationState

LEMMA RetryType ==
    ASSUME StoreTypeOK, NEW o \in OpId, NEW f, RetryReadonlyJob(o, f)
    PROVE  StoreTypeOK'
  <1>1. CASE jobs[ActionJob(o)].fence >= ReadAttempts
    BY <1>1, EndActionType DEF RetryReadonlyJob, Terminal
  <1>2. CASE ~(jobs[ActionJob(o)].fence >= ReadAttempts)
    <2>1. jobs[ActionJob(o)] \in JobRow /\ ops[o] \in OpRow
      BY JobIdentity DEF StoreTypeOK
    <2>2. Requeued(Released(jobs[ActionJob(o)], "READY"), "READY") \in JobRow
      BY <2>1, RowTypes DEF JobState
    <2>3. Requeued(ops[o], "QUEUED") \in OpRow
      BY <2>1, RowTypes DEF OperationState
    <2> QED
      BY <1>2, <2>2, <2>3 DEF RetryReadonlyJob, StoreTypeOK
  <1> QED
    BY <1>1, <1>2

LEMMA ResolveType ==
    ASSUME StoreTypeOK, NEW o, ResolveUnknownOperation(o)
    PROVE  StoreTypeOK'
  <1>1. ops' \in [OpId -> OpRow]
    BY RowTypes DEF ResolveUnknownOperation, SetOpState, StoreTypeOK, OperationState
  <1>2. jobs' \in [Job -> JobRow]
    BY RowTypes DEF ResolveUnknownOperation, StoreTypeOK, JobState
  <1> QED
    BY <1>1, <1>2 DEF ResolveUnknownOperation, StoreTypeOK

-----------------------------------------------------------------------------
(* Type correctness.                                                        *)

WorkerRow == [pc : WorkerPc, job : Job \cup {NoJob}, fence : 0..MaxFence,
              inv : AuthKey \cup {NoKey}, out : Outcome]
CallerRow == [pc : CallerPc, op : OpId \cup {NoOp}, fence : 0..MaxFence,
              inv : AuthKey \cup {NoKey}, out : Outcome]

\* The part of TypeOK about the processes and the world outside the store.
ProcessTypeOK ==
    /\ wk \in [Worker -> WorkerRow]
    /\ cb \in [Caller -> CallerRow]
    /\ auth \in [OpId -> [AuthKey -> AuthState]]
    /\ effects \in [Job -> Nat]

LEMMA TypeSplit ==
    /\ TypeOK <=> StoreTypeOK /\ ProcessTypeOK
    /\ TypeOK' <=> StoreTypeOK' /\ ProcessTypeOK'
  BY DEF TypeOK, ProcessTypeOK, WorkerRow, CallerRow

LEMMA IdleTypes == IdleWorker \in WorkerRow /\ IdleCaller \in CallerRow
  BY StoreAssumption DEF IdleWorker, IdleCaller, WorkerRow, CallerRow, WorkerPc,
     CallerPc, Outcome

\* What a call can answer is an outcome, and every final answer a job state.
LEMMA OutcomeTypes ==
    /\ AuthState \subseteq Outcome
    /\ Terminal \cup {"RETRY"} \subseteq Outcome
    /\ Terminal \subseteq JobState
  BY DEF Outcome, Terminal, JobState

TypeInv == TypeOK /\ AnswersKnown

LEMMA TypeInit == Init => TypeInv
  <1> SUFFICES ASSUME Init PROVE TypeInv
    OBVIOUS
  <1>1. StoreTypeOK
    <2>1. AbsentJob \in JobRow
      BY StoreAssumption DEF AbsentJob, JobRow, JobState
    <2> QED
      BY <2>1, RowTypes DEF Init, StoreInit, StoreTypeOK, WeComEventState
  <1>2. ProcessTypeOK
    BY IdleTypes DEF Init, ProcessTypeOK, AuthState
  <1>3. AnswersKnown
    BY DEF Init, AnswersKnown, IdleWorker, IdleCaller
  <1> QED
    BY <1>1, <1>2, <1>3, TypeSplit DEF TypeInv

LEMMA AdmitTypeStep ==
    ASSUME TypeInv,
           \/ \E o \in RestKey : AdmitRest(o)
           \/ \E e \in Event : AdmitCommand(e)
           \/ \E e \in Link : AdmitLink(e)
           \/ \E n \in Notice : AdmitNotice(n)
           \/ \E j \in Job : LeaseTimeout(j)
    PROVE  TypeInv'
  <1> USE TypeSplit DEF TypeInv
  <1>1. UNCHANGED <<wk, cb, auth, effects>>
    BY DEF AdmitRest, AdmitCommand, AdmitLink, AdmitNotice, LeaseTimeout
  <1>2. ProcessTypeOK' /\ AnswersKnown'
    BY <1>1 DEF ProcessTypeOK, AnswersKnown
  <1>3. ASSUME NEW o \in RestKey, AdmitRest(o) PROVE StoreTypeOK'
    BY <1>3, PersistType, StoreAssumption DEF AdmitRest, EnqueueIssueAction,
       EnqueueReconciliationQuery, OpId, OperationKind
  <1>4. ASSUME NEW e \in Event, AdmitCommand(e) PROVE StoreTypeOK'
    BY <1>4, PersistType, EventType, StoreAssumption DEF AdmitCommand,
       EnqueueIssueCommandForActor, PersistWeComInbound, MarkInbound,
       WeComEventState, OpId, OperationKind
  <1>5. ASSUME NEW e \in Link, AdmitLink(e) PROVE StoreTypeOK'
    <2>1. CASE EnqueueChallengeReply(e)
      BY <2>1, NewMessageType, JobIdentity
      DEF EnqueueChallengeReply, WeComEventState
    <2>2. CASE BeginChallengeObservation(e)
      BY <2>2 DEF BeginChallengeObservation, StoreTypeOK, WeComEventState
    <2>3. CASE PersistWeComInbound(e) \/ MarkChallengeUnknown(e)
      BY <2>3, EventType
      DEF PersistWeComInbound, MarkChallengeUnknown, WeComEventState
    <2> QED
      BY <1>5, <2>1, <2>2, <2>3 DEF AdmitLink
  <1>6. ASSUME NEW n \in Notice, AdmitNotice(n) PROVE StoreTypeOK'
    BY <1>6, NewMessageType, JobIdentity DEF AdmitNotice, IngestGitHubEvent
  <1>7. ASSUME NEW j \in Job, LeaseTimeout(j) PROVE StoreTypeOK'
    BY <1>7, ClaimType DEF LeaseTimeout
  <1> QED
    BY <1>2, <1>3, <1>4, <1>5, <1>6, <1>7

\* The provider's count stays a natural number.
LEMMA EffectsType ==
    ASSUME NEW eff \in [Job -> Nat], NEW j, NEW acted \in {0, 1}
    PROVE  [eff EXCEPT ![j] = @ + acted] \in [Job -> Nat]
  <1>1. \A k \in Job : eff[k] + acted \in Nat
    OBVIOUS
  <1> QED
    BY <1>1

LEMMA WorkerTypeStep ==
    ASSUME TypeInv, NEW w \in Worker, WorkerStep(w)
    PROVE  TypeInv'
  <1> USE TypeSplit DEF TypeInv
  <1>0. wk[w] \in WorkerRow
    BY DEF ProcessTypeOK
  \* A worker that ends its run.
  <1>i. ASSUME wk' = [wk EXCEPT ![w] = IdleWorker],
               UNCHANGED <<cb, auth, effects>>
        PROVE  ProcessTypeOK' /\ AnswersKnown'
    BY <1>i, IdleTypes DEF ProcessTypeOK, AnswersKnown, IdleWorker
  <1>1. CASE WorkerRecover(w)
    BY <1>1, <1>0, RecoverType DEF WorkerRecover, ProcessTypeOK, AnswersKnown,
       WorkerRow, WorkerPc
  <1>2. CASE WorkerNoWork(w)
    BY <1>2, <1>i DEF WorkerNoWork, StoreTypeOK
  <1>3. ASSUME NEW j \in Job, WorkerClaim(w, j) PROVE TypeInv'
    <2> DEFINE row == [pc |-> "claimed", job |-> j, fence |-> jobs[j].fence + 1,
                       inv |-> jobs[j].inv, out |-> "none"]
    <2>1. row \in WorkerRow
      BY <1>3, StoreAssumption DEF WorkerClaim, ClaimJob, StoreTypeOK, JobRow,
         WorkerRow, WorkerPc, Outcome
    <2>2. wk' = [wk EXCEPT ![w] = row] /\ row.pc = "claimed"
      BY <1>3 DEF WorkerClaim
    <2>3. ProcessTypeOK' /\ AnswersKnown'
      BY <1>3, <2>1, <2>2 DEF WorkerClaim, ProcessTypeOK, AnswersKnown
    <2> QED
      BY <1>3, <2>3, ClaimType DEF WorkerClaim
  <1>4. CASE WorkerMarkSending(w)
    BY <1>4, <1>0, MarkSendingType, JobIdentity DEF WorkerMarkSending,
       ProcessTypeOK, AnswersKnown, WorkerRow, WorkerPc
  <1>5. CASE WorkerSend(w)
    <2>1. PICK out \in {"ACCEPTED", "FAILED", "UNKNOWN"}, acted \in {0, 1} :
             /\ wk' = [wk EXCEPT ![w].pc = "sent", ![w].out = out]
             /\ effects' = [effects EXCEPT ![wk[w].job] = @ + acted]
      BY <1>5 DEF WorkerSend
    <2>2. wk' \in [Worker -> WorkerRow] /\ AnswersKnown'
      BY <1>0, <1>5, <2>1 DEF WorkerSend, ProcessTypeOK, AnswersKnown, WorkerRow,
         WorkerPc, Outcome
    <2>3. effects' \in [Job -> Nat]
      BY <2>1, EffectsType DEF ProcessTypeOK
    <2> QED
      BY <1>5, <2>2, <2>3 DEF WorkerSend, ProcessTypeOK, StoreTypeOK
  <1>6. CASE WorkerFinish(w)
    <2>1. wk[w].out \in JobState /\ EventOutcome(wk[w].out) \in WeComEventState
      BY <1>6 DEF WorkerFinish, AnswersKnown, JobState, EventOutcome,
         WeComEventState
    <2>2. StoreTypeOK'
      BY <1>6, <2>1, MessageEndType DEF WorkerFinish, FinishMessage
    <2> QED
      BY <1>6, <2>2, <1>i DEF WorkerFinish
  <1>7. ASSUME NEW o \in OpId, WorkerPrepare(w, o) PROVE TypeInv'
    <2>1. StoreTypeOK' /\ PreparedKey(o) \in AuthKey
      BY <1>7, PrepareType DEF WorkerPrepare
    <2>2. wk' \in [Worker -> WorkerRow] /\ AnswersKnown'
      BY <1>0, <1>7, <2>1 DEF WorkerPrepare, ProcessTypeOK, AnswersKnown,
         WorkerRow, WorkerPc
    <2> QED
      BY <1>7, <2>1, <2>2 DEF WorkerPrepare, ProcessTypeOK
  <1>8. ASSUME NEW o \in OpId, WorkerEnqueue(w, o) PROVE TypeInv'
    <2>1. auth' \in [OpId -> [AuthKey -> AuthState]]
      BY <1>8 DEF WorkerEnqueue, ProcessTypeOK, AuthState
    <2>2. wk' \in [Worker -> WorkerRow] /\ AnswersKnown'
      BY <1>0, <1>8 DEF WorkerEnqueue, ProcessTypeOK, AnswersKnown, WorkerRow,
         WorkerPc
    <2> QED
      BY <1>8, <2>1, <2>2 DEF WorkerEnqueue, ProcessTypeOK, StoreTypeOK
  <1>9. ASSUME NEW o \in OpId, WorkerMarkAwaiting(w, o) PROVE TypeInv'
    BY <1>9, <1>0, <1>i, AwaitType DEF WorkerMarkAwaiting, WorkerRow
  <1>10. ASSUME NEW o \in OpId, WorkerPoll(w, o) PROVE TypeInv'
    <2>1. auth[o][wk[w].inv] \in Outcome
      BY <1>10, <1>0, OutcomeTypes DEF WorkerPoll, ProcessTypeOK, WorkerRow
    <2>2. wk' \in [Worker -> WorkerRow] /\ AnswersKnown'
      BY <1>0, <1>10, <2>1 DEF WorkerPoll, ProcessTypeOK, AnswersKnown, WorkerRow,
         WorkerPc
    <2> QED
      BY <1>10, <2>2 DEF WorkerPoll, ProcessTypeOK, StoreTypeOK
  <1>11. ASSUME NEW o \in OpId, WorkerApplyPoll(w, o) PROVE TypeInv'
    <2>1. CASE wk[w].out = "DENIED"
      BY <1>11, <2>1, <1>i, FailClaimedActionType DEF WorkerApplyPoll
    <2>2. CASE wk[w].out = "UNKNOWN_RESULT"
      BY <1>11, <2>2, <1>i, EndActionType
      DEF WorkerApplyPoll, MarkAuthorityResultUnknown, Terminal
    <2>3. CASE wk[w].out \notin {"DENIED", "UNKNOWN_RESULT"}
      BY <1>11, <2>3, <1>0, <1>i, AwaitType DEF WorkerApplyPoll, WorkerRow
    <2> QED
      BY <2>1, <2>2, <2>3
  <1>12. CASE WorkerDenied(w)
    <2>1. UNCHANGED <<cb, auth, effects>> /\ wk' = [wk EXCEPT ![w] = IdleWorker]
      BY <1>12 DEF WorkerDenied
    <2>2. ASSUME FailClaimedMessage(wk[w].job, wk[w].fence) PROVE StoreTypeOK'
      BY <2>2, MessageEndType DEF FailClaimedMessage, JobState, WeComEventState
    <2>3. StoreTypeOK'
      BY <1>12, <2>2, FailClaimedActionType DEF WorkerDenied
    <2> QED
      BY <2>1, <2>3, <1>i
  <1>13. CASE WorkerRestart(w)
    BY <1>13, <1>i DEF WorkerRestart, StoreTypeOK
  <1> QED
    BY <1>1, <1>2, <1>3, <1>4, <1>5, <1>6, <1>7, <1>8, <1>9, <1>10, <1>11, <1>12,
       <1>13 DEF WorkerStep

LEMMA CallerTypeStep ==
    ASSUME TypeInv, NEW c \in Caller, CallerStep(c)
    PROVE  TypeInv'
  <1> USE TypeSplit DEF TypeInv
  <1>0. cb[c] \in CallerRow
    BY DEF ProcessTypeOK
  \* A callback that ends.
  <1>i. ASSUME cb' = [cb EXCEPT ![c] = IdleCaller],
               UNCHANGED <<wk, auth, effects>>
        PROVE  ProcessTypeOK' /\ AnswersKnown'
    BY <1>i, IdleTypes DEF ProcessTypeOK, AnswersKnown, IdleCaller
  <1>1. ASSUME NEW o \in OpId, NEW k \in AuthKey, CallerValidate(c, o, k)
        PROVE  TypeInv'
    <2> DEFINE row == [pc |-> "validated", op |-> o, fence |-> 0, inv |-> k,
                       out |-> "none"]
    <2>1. row \in CallerRow
      BY StoreAssumption DEF CallerRow, CallerPc, Outcome
    <2>2. cb' = [cb EXCEPT ![c] = row] /\ row.pc = "validated"
      BY <1>1 DEF CallerValidate
    <2>3. auth' \in [OpId -> [AuthKey -> AuthState]]
      BY <1>1 DEF CallerValidate, ProcessTypeOK, AuthState
    <2> QED
      BY <1>1, <2>1, <2>2, <2>3
      DEF CallerValidate, ProcessTypeOK, AnswersKnown, StoreTypeOK
  <1>2. ASSUME NEW o \in OpId, CallerBegin(c, o) PROVE TypeInv'
    <2>1. StoreTypeOK'
      BY <1>2, <1>0, BeginType DEF CallerBegin, CallerRow
    <2>2. jobs[ActionJob(o)].fence + 1 \in 0..MaxFence
      BY <1>2, JobIdentity, StoreAssumption
      DEF CallerBegin, BeginAuthorizedExecution, StoreTypeOK, JobRow
    <2>3. cb' \in [Caller -> CallerRow] /\ AnswersKnown'
      BY <1>0, <1>2, <2>2 DEF CallerBegin, ProcessTypeOK, AnswersKnown, CallerRow,
         CallerPc
    <2> QED
      BY <1>2, <2>1, <2>3 DEF CallerBegin, ProcessTypeOK
  <1>3. ASSUME NEW o \in OpId, CallerCall(c, o) PROVE TypeInv'
    <2>1. PICK out \in {"ACCEPTED", "SUCCEEDED", "FAILED", "UNKNOWN", "RETRY"},
               acted \in {0, 1} :
             /\ cb' = [cb EXCEPT ![c].pc = "answered", ![c].out = out]
             /\ effects' = [effects EXCEPT ![ActionJob(o)] = @ + acted]
      BY <1>3 DEF CallerCall
    <2>2. cb' \in [Caller -> CallerRow] /\ AnswersKnown'
      BY <1>0, <1>3, <2>1 DEF CallerCall, ProcessTypeOK, AnswersKnown, CallerRow,
         CallerPc, Outcome, Terminal
    <2>3. effects' \in [Job -> Nat]
      BY <2>1, EffectsType DEF ProcessTypeOK
    <2> QED
      BY <1>3, <2>2, <2>3 DEF CallerCall, ProcessTypeOK, StoreTypeOK
  <1>4. ASSUME NEW o \in OpId, CallerFinish(c, o) PROVE TypeInv'
    <2>1. cb[c].out \in Terminal \cup {"RETRY"}
      BY <1>4 DEF CallerFinish, AnswersKnown
    <2>2. ASSUME NEW f, NEW st \in Terminal, FinishAction(o, f, st)
          PROVE  StoreTypeOK'
      BY <2>2, EndActionType DEF FinishAction
    <2>3. StoreTypeOK'
      BY <1>4, <2>1, <2>2, RetryType DEF CallerFinish, Terminal
    <2>4. [cb[c] EXCEPT !.pc = "reconciling"] \in CallerRow
      BY <1>0 DEF CallerRow, CallerPc
    <2>5. ProcessTypeOK' /\ AnswersKnown'
      BY <1>0, <1>4, <2>4, IdleTypes DEF CallerFinish, ProcessTypeOK,
         AnswersKnown, IdleCaller, CallerRow
    <2> QED
      BY <2>3, <2>5
  <1>5. ASSUME NEW o \in OpId, CallerReconcile(c, o) PROVE TypeInv'
    BY <1>5, <1>i, ResolveType DEF CallerReconcile
  <1>6. CASE CallerEnd(c)
    BY <1>6, <1>i DEF CallerEnd, StoreTypeOK
  <1> QED
    BY <1>1, <1>2, <1>3, <1>4, <1>5, <1>6 DEF CallerStep

LEMMA TypeStep == TypeInv /\ [Next]_vars => TypeInv'
  <1> SUFFICES ASSUME TypeInv, [Next]_vars PROVE TypeInv'
    OBVIOUS
  <1>1. CASE UNCHANGED vars
    BY <1>1 DEF vars, TypeInv, TypeOK, StoreTypeOK, AnswersKnown
  <1>2. ASSUME NEW o \in OpId, NEW k \in AuthKey, AuthoritySettles(o, k)
        PROVE  TypeInv'
    <2>1. auth' \in [OpId -> [AuthKey -> AuthState]]
      BY <1>2, TypeSplit
      DEF AuthoritySettles, TypeInv, ProcessTypeOK, AuthState
    <2> QED
      BY <1>2, <2>1, TypeSplit
      DEF AuthoritySettles, TypeInv, ProcessTypeOK, StoreTypeOK, AnswersKnown
  <1> QED
    BY <1>1, <1>2, AdmitTypeStep, WorkerTypeStep, CallerTypeStep DEF Next

\* Tables and processes are always well typed: in particular a job or an
\* operation is never given a state that only an error class stands for, and
\* no fence, key or invocation leaves its range, for any number of workers,
\* callbacks and operations.
THEOREM TypeCorrect == Spec => []TypeOK
  <1>1. TypeInv => TypeOK
    BY DEF TypeInv
  <1> QED
    BY TypeInit, TypeStep, <1>1, PTL DEF Spec

=============================================================================
