--------------------------- MODULE OneEffectProofs ---------------------------
(***************************************************************************)
(* CallInv is inductive, hence a write or a message reaches its provider   *)
(* at most once and a terminal state tells the truth about it.             *)
(*                                                                         *)
(* Most steps are quiet: they start no call, end no call with news and     *)
(* never bring a job back over its write boundary.  QuietPreserves settles *)
(* all of them at once; the six steps around a call are treated one by     *)
(* one.                                                                    *)
(***************************************************************************)
EXTENDS IntegrationDispatcherProofs

\* How a quiet step may move one job: along the pre-send states, out of them
\* into FAILED or UNKNOWN, by a lost send or by a reconciliation; a query may
\* move anyhow.
QuietJob(j) ==
    \/ jobs'[j].state = jobs[j].state
    \/ jobs[j].state \notin Departed /\ jobs'[j].state \notin Departed
    \/ jobs[j].state \notin Departed /\ jobs'[j].state \in {"FAILED", "UNKNOWN"}
    \/ jobs[j].state = "SENDING" /\ jobs'[j].state = "UNKNOWN"
    \/ jobs[j].state = "UNKNOWN" /\ jobs'[j].state = "SUCCEEDED"
    \/ IsQuery(j)

\* An operation keeps its kind, unless it is admitted in this step.
QuietOp(o) ==
    \/ ops'[o].kind = ops[o].kind /\ (ops'[o].state = "NONE" <=> ops[o].state = "NONE")
    \/ /\ ops[o].state = "NONE" /\ ops'[o].state # "NONE"
       /\ jobs'[ActionJob(o)].state = "READY"

QuietStep ==
    /\ effects' = effects
    /\ \A w \in Worker : wk'[w].pc \in {"sending", "sent"} => wk'[w] = wk[w]
    /\ \A c \in Caller :
          /\ cb'[c].pc \in {"executing", "answered"} => cb'[c] = cb[c]
          /\ cb'[c].pc # "idle" =>
                cb'[c].op \in OpId /\ ops[cb'[c].op].state # "NONE"
    /\ \A o \in OpId : QuietOp(o)
    /\ \A o \in OpId : ops'[o].state = "NONE" <=> jobs'[ActionJob(o)].state = "NONE"
    /\ \A j \in Job : QuietJob(j)

LEMMA MessageIsNoQuery ==
    /\ \A j \in MessageJobs : ~IsQuery(j)
    /\ \A o \in OpId : IsQuery(ActionJob(o)) <=> ops[o].kind = "query"
    /\ \A j \in MessageJobs : ~IsQuery(j)'
    /\ \A o \in OpId : IsQuery(ActionJob(o))' <=> ops'[o].kind = "query"
  BY JobIdentity DEF IsQuery

LEMMA QuietPreserves ==
    ASSUME CallInv, TypeInv', QuietStep
    PROVE  CallInv'
  <1>1. TypeOK' /\ AnswersKnown'
    BY DEF TypeInv
  \* A query has no effect, before and after.
  <1>2. \A o \in OpId : ops'[o].kind = "query" => effects'[ActionJob(o)] = 0
    BY JobIdentity DEF CallInv, EffectsKnown, QuietStep, QuietOp, Departed, Terminal
  <1>3. \A c \in Caller, o \in OpId : Writes(c, o)' =>
           Writes(c, o) /\ cb'[c] = cb[c] /\ ops'[o].kind = ops[o].kind
    BY DEF CallInv, OneCallPerJob, QuietStep, QuietOp, Writes
  <1>4. \A w \in Worker, j \in Job : Sends(w, j)' => Sends(w, j) /\ wk'[w] = wk[w]
    BY DEF QuietStep, Sends
  \* Once over the boundary, a write or message never comes back.
  <1>5. \A j \in Job : jobs[j].state \in Departed /\ ~IsQuery(j) =>
           jobs'[j].state \in Departed
    BY DEF QuietStep, QuietJob, Departed, Terminal
  <1>6. OneCallPerJob'
    <2>1. \A w \in Worker : wk'[w].pc \in {"sending", "sent"} =>
             wk'[w].job \in MessageJobs /\ jobs'[wk'[w].job].state \in Departed
      BY <1>5, JobIdentity, MessageIsNoQuery DEF CallInv, OneCallPerJob, QuietStep
    <2>2. \A c \in Caller : cb'[c].pc # "idle" =>
             cb'[c].op \in OpId /\ ops'[cb'[c].op].state # "NONE"
      BY DEF QuietStep, QuietOp
    <2>3. \A c \in Caller, o \in OpId : Writes(c, o)' =>
             jobs'[ActionJob(o)].state \in Departed
      BY <1>3, <1>5, JobIdentity, MessageIsNoQuery
      DEF CallInv, OneCallPerJob, Writes
    <2> QED
      BY <1>3, <1>4, <2>1, <2>2, <2>3 DEF CallInv, OneCallPerJob
  <1>7. EffectsKnown'
    <2>1. \A j \in Job : jobs'[j].state \notin Departed => effects'[j] = 0
      BY <1>5, JobIdentity, MessageIsNoQuery DEF CallInv, EffectsKnown, QuietStep
    <2>2. \A w \in Worker :
             /\ wk'[w].pc = "sending" => effects'[wk'[w].job] = 0
             /\ wk'[w].pc = "sent" /\ wk'[w].out = "FAILED" =>
                   effects'[wk'[w].job] = 0
             /\ wk'[w].pc = "sent" /\ wk'[w].out = "ACCEPTED" =>
                   effects'[wk'[w].job] = 1
      BY DEF CallInv, EffectsKnown, QuietStep
    <2>3. \A c \in Caller, o \in OpId : Writes(c, o)' =>
             /\ cb'[c].pc = "executing" => effects'[ActionJob(o)] = 0
             /\ cb'[c].pc = "answered" /\ cb'[c].out = "FAILED" =>
                   effects'[ActionJob(o)] = 0
             /\ cb'[c].pc = "answered" /\ cb'[c].out \in {"ACCEPTED", "SUCCEEDED"} =>
                   effects'[ActionJob(o)] = 1
      BY <1>3 DEF CallInv, EffectsKnown, QuietStep
    <2>4. \A o \in OpId : ops'[o].state = "NONE" <=> jobs'[ActionJob(o)].state = "NONE"
      BY DEF QuietStep
    <2> QED
      BY <1>2, <2>1, <2>2, <2>3, <2>4 DEF EffectsKnown
  \* A job that fails in a quiet step had not left yet: nobody calls for it.
  <1>8. FailedIsQuiet'
    <2> SUFFICES ASSUME NEW j \in Job, jobs'[j].state = "FAILED"
                 PROVE  /\ \A w \in Worker :
                              ~(wk'[w].job = j /\ wk'[w].pc = "sending")
                        /\ \A c \in Caller, o \in OpId :
                              j = ActionJob(o) =>
                                ~(Writes(c, o)' /\ cb'[c].pc = "executing")
      BY DEF FailedIsQuiet
    <2>1. jobs[j].state = "FAILED" \/ jobs[j].state \notin Departed \/ IsQuery(j)
      BY DEF QuietStep, QuietJob, Departed, Terminal
    <2>2. ASSUME NEW w \in Worker, wk'[w].job = j, wk'[w].pc = "sending"
          PROVE  FALSE
      BY <2>1, <2>2, MessageIsNoQuery
      DEF CallInv, OneCallPerJob, FailedIsQuiet, QuietStep
    <2>3. ASSUME NEW c \in Caller, NEW o \in OpId, j = ActionJob(o),
                 Writes(c, o)', cb'[c].pc = "executing"
          PROVE  FALSE
      BY <2>1, <2>3, <1>3, MessageIsNoQuery
      DEF CallInv, OneCallPerJob, FailedIsQuiet, Writes
    <2> QED
      BY <2>2, <2>3
  <1>9. AtMostOneEffect'
    BY DEF CallInv, AtMostOneEffect, QuietStep
  <1>10. TerminalIsTrue'
    <2> SUFFICES ASSUME NEW j \in Job, ~IsQuery(j)'
                 PROVE  /\ jobs'[j].state = "FAILED" => effects'[j] = 0
                        /\ jobs'[j].state = "ACCEPTED" => effects'[j] = 1
      BY DEF TerminalIsTrue
    <2>1. CASE ~IsQuery(j)
      BY <2>1 DEF CallInv, TerminalIsTrue, EffectsKnown, QuietStep, QuietJob,
         Departed, Terminal
    \* The operation was admitted in this very step.
    <2>2. CASE IsQuery(j)
      <3>1. PICK o \in OpId : j = ActionJob(o) /\ ops[o].kind = "query"
        BY <2>2 DEF IsQuery
      <3>2. jobs'[j].state = "READY"
        BY <3>1, MessageIsNoQuery DEF QuietStep, QuietOp
      <3> QED
        BY <3>2
    <2> QED
      BY <2>1, <2>2
  <1> QED
    BY <1>1, <1>6, <1>7, <1>8, <1>9, <1>10 DEF CallInv

-----------------------------------------------------------------------------
(* The quiet steps.                                                         *)

LEMMA AdmitIsQuiet ==
    ASSUME CallInv,
           \/ \E o \in RestKey : AdmitRest(o)
           \/ \E e \in Event : AdmitCommand(e)
           \/ \E e \in Link : AdmitLink(e)
           \/ \E n \in Notice : AdmitNotice(n)
           \/ \E j \in Job : LeaseTimeout(j)
    PROVE  QuietStep
  <1>1. UNCHANGED <<wk, cb, auth, effects>>
    BY DEF AdmitRest, AdmitCommand, AdmitLink, AdmitNotice, LeaseTimeout
  <1>2. StoreTypeOK
    BY TypeSplit DEF CallInv
  <1>3. ASSUME NEW o \in OpId, NEW kind, NEW r, PersistIssueAction(o, kind, r)
        PROVE  QuietStep
    <2>1. \A p \in OpId : ops'[p] = ops[p] \/ (p = o /\ ops'[p].state = "QUEUED")
      BY <1>2, <1>3 DEF PersistIssueAction, StoreTypeOK, AbsentOp
    <2>2. \A k \in Job : jobs'[k] = jobs[k] \/ (k = ActionJob(o) /\ jobs'[k] = NewJob)
      BY <1>2, <1>3 DEF PersistIssueAction, StoreTypeOK
    <2>3. /\ ops[o].state = "NONE" /\ ops'[o].state = "QUEUED"
          /\ jobs'[ActionJob(o)].state = "READY"
      BY <1>2, <1>3, JobIdentity
      DEF PersistIssueAction, StoreTypeOK, NewJob, AbsentJob, AbsentOp
    <2>4. \A p \in OpId : QuietOp(p)
      BY <2>1, <2>3 DEF QuietOp
    <2>5. \A k \in Job : QuietJob(k)
      BY <2>2, <2>3, JobIdentity
      DEF QuietJob, CallInv, EffectsKnown, Departed, Terminal
    <2>6. \A p \in OpId : ops'[p].state = "NONE" <=> jobs'[ActionJob(p)].state = "NONE"
      BY <2>1, <2>2, <2>3, JobIdentity DEF CallInv, EffectsKnown
    <2> QED
      BY <1>1, <2>4, <2>5, <2>6 DEF QuietStep, CallInv, OneCallPerJob
  \* A new message job, or none, and no operation.
  <1>4. ASSUME ops' = ops,
               \A k \in Job : \/ jobs'[k].state = jobs[k].state
                              \/ /\ k \in MessageJobs
                                 /\ jobs[k].state = "NONE"
                                 /\ jobs'[k].state = "READY"
        PROVE  QuietStep
    BY <1>1, <1>4, JobIdentity DEF QuietStep, QuietOp, QuietJob, CallInv,
       OneCallPerJob, EffectsKnown, Departed, Terminal
  <1>5. ASSUME NEW j \in MessageJobs, jobs[j].state = "NONE",
               jobs' = [jobs EXCEPT ![j] = NewJob], ops' = ops
        PROVE  QuietStep
    BY <1>2, <1>4, <1>5, JobIdentity DEF StoreTypeOK, NewJob, AbsentJob
  <1>6. ASSUME UNCHANGED <<ops, jobs>> PROVE QuietStep
    BY <1>4, <1>6
  <1>7. ASSUME NEW o \in RestKey, AdmitRest(o) PROVE QuietStep
    BY <1>7, <1>3
    DEF AdmitRest, EnqueueIssueAction, EnqueueReconciliationQuery, OpId
  <1>8. ASSUME NEW e \in Event, AdmitCommand(e) PROVE QuietStep
    BY <1>8, <1>3, <1>6 DEF AdmitCommand, PersistWeComInbound,
       EnqueueIssueCommandForActor, MarkInbound, OpId
  <1>9. ASSUME NEW e \in Link, AdmitLink(e) PROVE QuietStep
    BY <1>9, <1>5, <1>6, JobIdentity DEF AdmitLink, PersistWeComInbound,
       BeginChallengeObservation, MarkChallengeUnknown, EnqueueChallengeReply
  <1>10. ASSUME NEW n \in Notice, AdmitNotice(n) PROVE QuietStep
    BY <1>10, <1>5, JobIdentity DEF AdmitNotice, IngestGitHubEvent
  <1>11. ASSUME NEW j \in Job, LeaseTimeout(j) PROVE QuietStep
    <2>1. \A k \in Job : jobs'[k].state = jobs[k].state
      BY <1>2, <1>11 DEF LeaseTimeout, LeaseExpires, StoreTypeOK, JobRow
    <2> QED
      BY <1>4, <1>11, <2>1 DEF LeaseTimeout, LeaseExpires
  <1> QED
    BY <1>7, <1>8, <1>9, <1>10, <1>11

\* What a transaction of a quiet worker or callback step may do to the tables.
QuietTables ==
    /\ \A o \in OpId : ops'[o].kind = ops[o].kind
    /\ \A o \in OpId : (ops'[o].state = "NONE" <=> ops[o].state = "NONE")
    /\ \A o \in OpId : (jobs'[ActionJob(o)].state = "NONE"
                            <=> jobs[ActionJob(o)].state = "NONE")
    /\ \A j \in Job : QuietJob(j)

LEMMA RecoverIsQuiet ==
    ASSUME StoreTypeOK, CallInv, RecoverExpiredClaims
    PROVE  QuietTables
  <1>1. \A j \in Job : jobs[j] \in JobRow
    BY DEF StoreTypeOK
  <1>2. \A o \in OpId : ops[o] \in OpRow
    BY DEF StoreTypeOK
  <1>3. ASSUME NEW j \in ExpiredJobs
        PROVE  \/ /\ jobs[j].state = "CLAIMED"
                  /\ jobs'[j].state \in {"AWAITING_AUTHORITY", "READY"}
               \/ /\ jobs[j].state = "SENDING" /\ IsQuery(j)
                  /\ jobs'[j].state \in {"READY", "FAILED"}
               \/ /\ jobs[j].state = "SENDING" /\ ~IsQuery(j)
                  /\ jobs'[j].state = "UNKNOWN"
    <2>1. j \in Job /\ jobs[j].state \in {"CLAIMED", "SENDING"}
      BY DEF ExpiredJobs
    <2>2. jobs'[j] = RecoveredJob(j)
      BY <2>1 DEF RecoverExpiredClaims
    <2>3. \A st : Released(jobs[j], st).state = st
      BY <1>1, <2>1 DEF Released, JobRow
    <2>4. Requeued(Released(jobs[j], "READY"), "READY").state = "READY"
      BY <1>1, <2>1 DEF Released, Requeued, JobRow
    <2> QED
      BY <2>1, <2>2, <2>3, <2>4 DEF RecoveredJob, SendFate
  <1>4. ASSUME NEW j \in Job, j \notin ExpiredJobs
        PROVE  \/ jobs'[j] = jobs[j]
               \/ /\ jobs[j].state = "NONE" /\ jobs'[j].state = "READY"
                  /\ j \in MessageJobs
    BY <1>4, JobIdentity DEF RecoverExpiredClaims, RecoveryAborts, ReplyKeyFree,
       NewJob, AbsentJob
  <1>5. \A j \in Job : QuietJob(j)
    BY <1>3, <1>4 DEF QuietJob, Departed, Terminal
  <1>6. ASSUME NEW o \in OpId
        PROVE  /\ ops'[o].kind = ops[o].kind
               /\ \/ ops'[o] = ops[o]
                  \/ ExpiredSendsOf(o) # {} /\ ops'[o].state # "NONE"
    <2>1. ops'[o] = RecoveredOp(o)
      BY DEF RecoverExpiredClaims
    <2>2. \A st : /\ [ops[o] EXCEPT !.state = st].kind = ops[o].kind
                  /\ [ops[o] EXCEPT !.state = st].state = st
      BY <1>2 DEF OpRow
    <2>3. /\ Requeued(ops[o], "QUEUED").kind = ops[o].kind
          /\ Requeued(ops[o], "QUEUED").state = "QUEUED"
      BY <1>2 DEF Requeued, OpRow
    <2>4. CASE ExpiredSendsOf(o) = {}
      BY <2>1, <2>4 DEF RecoveredOp, LostOps
    <2>5. CASE ExpiredSendsOf(o) # {} /\ o \in LostOps
      BY <2>1, <2>2, <2>5 DEF RecoveredOp
    <2>6. CASE ExpiredSendsOf(o) # {} /\ o \notin LostOps
      BY <2>1, <2>3, <2>6 DEF RecoveredOp
    <2> QED
      BY <2>4, <2>5, <2>6
  <1>7. ASSUME NEW o \in OpId
        PROVE  jobs'[ActionJob(o)].state = "NONE" <=> jobs[ActionJob(o)].state = "NONE"
    BY <1>3, <1>4, JobIdentity
  \* An expired send names an operation that exists.
  <1>8. ASSUME NEW o \in OpId, ExpiredSendsOf(o) # {}
        PROVE  ops[o].state # "NONE"
    <2>1. CASE o \in LostOps
      <3>1. PICK j \in ExpiredSendsOf(o) : SendFate(j) # "READY"
        BY <2>1 DEF LostOps
      <3>2. j = ActionJob(o) \/ (o \in Event /\ j = ReplyJob(o))
        BY <3>1 DEF ExpiredSendsOf, JobsOf
      <3>3. CASE j = ActionJob(o)
        BY <3>1, <3>3 DEF ExpiredSendsOf, CallInv, EffectsKnown
      <3>4. CASE o \in Event /\ j = ReplyJob(o)
        BY <2>1, <3>1, <3>4 DEF ExpiredSendsOf, RecoverExpiredClaims,
           RecoveryAborts, ReplyKeyFree
      <3> QED
        BY <3>2, <3>3, <3>4
    <2>2. CASE o \notin LostOps
      <3>1. PICK j \in ExpiredSendsOf(o) : SendFate(j) = "READY"
        BY <1>8, <2>2 DEF LostOps
      <3>2. IsQuery(j) /\ (j = ActionJob(o) \/ (o \in Event /\ j = ReplyJob(o)))
        BY <3>1 DEF ExpiredSendsOf, JobsOf, SendFate
      <3>3. j = ActionJob(o) /\ jobs[j].state = "SENDING"
        BY <3>1, <3>2, MessageIsNoQuery, JobIdentity DEF ExpiredSendsOf
      <3> QED
        BY <3>3 DEF CallInv, EffectsKnown
    <2> QED
      BY <2>1, <2>2
  <1> QED
    BY <1>5, <1>6, <1>7, <1>8 DEF QuietTables

\* Every other transaction of a worker or callback rewrites the row of one
\* existing operation or job, and may add its reply.
LEMMA RewriteIsQuiet ==
    ASSUME CallInv, StoreTypeOK, NEW j \in Job, jobs[j].state # "NONE",
           jobs'[j].state # "NONE", QuietJob(j),
           \A k \in Job \ {j} :
              \/ jobs'[k].state = jobs[k].state
              \/ /\ k \in MessageJobs
                 /\ jobs[k].state = "NONE" /\ jobs'[k].state = "READY",
           \A o \in OpId :
              /\ ops'[o].kind = ops[o].kind
              /\ \/ ops'[o].state = ops[o].state
                 \/ j = ActionJob(o) /\ ops'[o].state # "NONE"
    PROVE  QuietTables
  <1>1. \A k \in Job : QuietJob(k)
    BY DEF QuietJob, Departed, Terminal
  <1>2. \A o \in OpId : (jobs'[ActionJob(o)].state = "NONE"
                            <=> jobs[ActionJob(o)].state = "NONE")
    BY JobIdentity
  <1>3. \A o \in OpId : (ops'[o].state = "NONE" <=> ops[o].state = "NONE")
    BY DEF CallInv, EffectsKnown
  <1> QED
    BY <1>1, <1>2, <1>3 DEF QuietTables

\* Ending an action and replying: the rows it leaves.
LEMMA EndActionRows ==
    ASSUME StoreTypeOK, NEW o \in OpId, NEW st,
           NEW js, js = [jobs EXCEPT ![ActionJob(o)] = Released(@, st)],
           ReplyKeyFree(js, o),
           \/ jobs' = EnqueueReply(js, o)
           \/ jobs' = EnqueueReply(EnqueueReply(js, o), o),
           ops' = SetOpState(o, st)
    PROVE  /\ jobs'[ActionJob(o)].state = st
           /\ ops'[o].state = st
           /\ \A p \in OpId : ops'[p].kind = ops[p].kind
           /\ \A p \in OpId \ {o} : ops'[p] = ops[p]
           /\ \A k \in Job \ {ActionJob(o)} :
                 \/ jobs'[k].state = jobs[k].state
                 \/ /\ k \in MessageJobs
                    /\ jobs[k].state = "NONE" /\ jobs'[k].state = "READY"
  <1>1. /\ js[ActionJob(o)].state = st
        /\ \A k \in Job \ {ActionJob(o)} : js[k] = jobs[k]
    BY JobIdentity DEF StoreTypeOK, JobRow, Released
  <1>2. \A k \in Job : jobs'[k] = js[k] \/ (o \in Event /\ k = ReplyJob(o) /\ jobs'[k] = NewJob)
    BY DEF EnqueueReply
  <1>3. ActionJob(o) \in Job /\ (o \in Event => ReplyJob(o) # ActionJob(o))
    BY JobIdentity
  <1>4. o \in Event => jobs[ReplyJob(o)].state = "NONE" /\ ReplyJob(o) \in MessageJobs
    BY <1>1, <1>3, JobIdentity DEF ReplyKeyFree
  <1>5. NewJob.state = "READY"
    BY DEF NewJob, AbsentJob
  <1>6. /\ ops'[o].state = st
        /\ \A p \in OpId : ops'[p].kind = ops[p].kind
        /\ \A p \in OpId \ {o} : ops'[p] = ops[p]
    BY DEF SetOpState, StoreTypeOK, OpRow
  <1> QED
    BY <1>1, <1>2, <1>3, <1>4, <1>5, <1>6

\* The tables under a quiet step of one worker.
LEMMA WorkerIsQuiet ==
    ASSUME CallInv, NEW w \in Worker, WorkerStep(w),
           ~WorkerMarkSending(w), ~WorkerSend(w), ~WorkerFinish(w)
    PROVE  QuietStep
  <1> USE TypeSplit
  <1>0. StoreTypeOK /\ wk \in [Worker -> WorkerRow]
    BY DEF CallInv, ProcessTypeOK
  \* It suffices that the tables are quiet and the worker is not in a call.
  <1>q. ASSUME QuietTables, UNCHANGED <<cb, effects>>,
               \A x \in Worker : wk'[x] = wk[x] \/ wk'[x].pc \notin {"sending", "sent"}
        PROVE  QuietStep
    BY <1>q DEF QuietStep, QuietTables, QuietOp, CallInv, OneCallPerJob, EffectsKnown
  <1>u. ASSUME UNCHANGED <<ops, jobs>> PROVE QuietTables
    BY <1>u DEF QuietTables, QuietJob
  <1>i. ASSUME wk' = [wk EXCEPT ![w] = IdleWorker]
        PROVE  \A x \in Worker : wk'[x] = wk[x] \/ wk'[x].pc \notin {"sending", "sent"}
    BY <1>i, <1>0 DEF IdleWorker
  \* fail_claimed_job of an action.
  <1>f. ASSUME NEW o \in OpId, NEW f, FailClaimedAction(o, f) PROVE QuietTables
    <2>1. /\ jobs[ActionJob(o)].state = "CLAIMED"
          /\ jobs'[ActionJob(o)].state = "FAILED"
          /\ ops'[o].state = "FAILED"
          /\ \A p \in OpId : ops'[p].kind = ops[p].kind
          /\ \A p \in OpId \ {o} : ops'[p] = ops[p]
          /\ \A k \in Job \ {ActionJob(o)} :
                \/ jobs'[k].state = jobs[k].state
                \/ /\ k \in MessageJobs
                   /\ jobs[k].state = "NONE" /\ jobs'[k].state = "READY"
      BY <1>0, <1>f, EndActionRows DEF FailClaimedAction, Holds
    <2>2. QuietJob(ActionJob(o))
      BY <2>1 DEF QuietJob, Departed, Terminal
    <2> QED
      BY <1>0, <2>1, <2>2, RewriteIsQuiet, JobIdentity
  \* A claim of an action that is rewritten and stays before the boundary.
  <1>r. ASSUME NEW o \in OpId, jobs[ActionJob(o)].state = "CLAIMED",
               jobs'[ActionJob(o)].state \in {"CLAIMED", "AWAITING_AUTHORITY"},
               \A k \in Job \ {ActionJob(o)} : jobs'[k] = jobs[k],
               \A p \in OpId : ops'[p].kind = ops[p].kind,
               \A p \in OpId \ {o} : ops'[p] = ops[p],
               ops'[o].state = ops[o].state \/ ops'[o].state = "AWAITING_AUTHORITY"
        PROVE  QuietTables
    <2>1. QuietJob(ActionJob(o))
      BY <1>r DEF QuietJob, Departed, Terminal
    <2>2. \A p \in OpId :
             /\ ops'[p].kind = ops[p].kind
             /\ \/ ops'[p].state = ops[p].state
                \/ ActionJob(o) = ActionJob(p) /\ ops'[p].state # "NONE"
      BY <1>r
    <2> QED
      BY <1>0, <1>r, <2>1, <2>2, RewriteIsQuiet, JobIdentity
  <1>1. CASE WorkerRecover(w)
    <2>1. \A x \in Worker : wk'[x] = wk[x] \/ wk'[x].pc \notin {"sending", "sent"}
      BY <1>0, <1>1 DEF WorkerRecover, WorkerRow
    <2> QED
      BY <1>0, <1>1, <1>q, <2>1, RecoverIsQuiet DEF WorkerRecover
  <1>2. CASE WorkerNoWork(w)
    BY <1>2, <1>i, <1>q, <1>u DEF WorkerNoWork
  <1>3. ASSUME NEW j \in Job, WorkerClaim(w, j) PROVE QuietStep
    <2>1. /\ \A k \in Job \ {j} : jobs'[k] = jobs[k]
          /\ jobs[j].state \in {"READY", "AWAITING_AUTHORITY"}
          /\ jobs'[j].state = "CLAIMED"
          /\ ops' = ops
      BY <1>0, <1>3 DEF WorkerClaim, ClaimJob, Claimable, StoreTypeOK, JobRow
    <2>2. QuietJob(j)
      BY <2>1 DEF QuietJob, Departed, Terminal
    <2>3. QuietTables
      BY <1>0, <2>1, <2>2, RewriteIsQuiet
    <2>4. \A x \in Worker : wk'[x] = wk[x] \/ wk'[x].pc \notin {"sending", "sent"}
      BY <1>0, <1>3 DEF WorkerClaim
    <2> QED
      BY <1>3, <1>q, <2>3, <2>4 DEF WorkerClaim
  <1>4. ASSUME NEW o \in OpId, WorkerPrepare(w, o) PROVE QuietStep
    <2>1. /\ jobs[ActionJob(o)].state = "CLAIMED"
          /\ jobs'[ActionJob(o)].state = "CLAIMED"
          /\ \A k \in Job \ {ActionJob(o)} : jobs'[k] = jobs[k]
      BY <1>0, <1>4, JobIdentity
      DEF WorkerPrepare, PrepareAuthorityEnqueue, Holds, StoreTypeOK, JobRow
    <2>2. /\ \A p \in OpId : ops'[p].kind = ops[p].kind /\ ops'[p].state = ops[p].state
          /\ \A p \in OpId \ {o} : ops'[p] = ops[p]
      BY <1>0, <1>4 DEF WorkerPrepare, PrepareAuthorityEnqueue, StoreTypeOK, OpRow
    <2>3. \A x \in Worker : wk'[x] = wk[x] \/ wk'[x].pc \notin {"sending", "sent"}
      BY <1>0, <1>4 DEF WorkerPrepare, WorkerRow
    <2> QED
      BY <1>4, <1>q, <1>r, <2>1, <2>2, <2>3 DEF WorkerPrepare
  <1>5. ASSUME NEW o \in OpId, WorkerEnqueue(w, o) PROVE QuietStep
    <2>1. \A x \in Worker : wk'[x] = wk[x] \/ wk'[x].pc \notin {"sending", "sent"}
      BY <1>0, <1>5 DEF WorkerEnqueue, WorkerRow
    <2> QED
      BY <1>5, <1>q, <1>u, <2>1 DEF WorkerEnqueue
  <1>a. ASSUME NEW o \in OpId, NEW f, NEW inv,
               \/ MarkAwaitingAuthority(o, f, inv)
               \/ UpdateAuthorityEvidence(o, f, inv)
        PROVE  QuietTables
    <2>1. /\ jobs[ActionJob(o)].state = "CLAIMED"
          /\ jobs'[ActionJob(o)].state = "AWAITING_AUTHORITY"
          /\ \A k \in Job \ {ActionJob(o)} : jobs'[k] = jobs[k]
      <3>1. jobs[ActionJob(o)] \in JobRow /\ ActionJob(o) \in Job
        BY <1>0, JobIdentity DEF StoreTypeOK
      <3>2. Released(jobs[ActionJob(o)], "AWAITING_AUTHORITY").state = "AWAITING_AUTHORITY"
        BY <3>1 DEF Released, JobRow
      <3>3. [Released(jobs[ActionJob(o)], "AWAITING_AUTHORITY") EXCEPT !.inv = inv].state
               = "AWAITING_AUTHORITY"
        BY <3>1, <3>2, RowTypes DEF JobRow, JobState
      <3> QED
        BY <1>0, <1>a, <3>1, <3>2, <3>3 DEF MarkAwaitingAuthority,
           UpdateAuthorityEvidence, Holds, StoreTypeOK
    <2>2. /\ \A p \in OpId : ops'[p].kind = ops[p].kind
          /\ \A p \in OpId \ {o} : ops'[p] = ops[p]
          /\ ops'[o].state = ops[o].state \/ ops'[o].state = "AWAITING_AUTHORITY"
      BY <1>0, <1>a DEF MarkAwaitingAuthority, UpdateAuthorityEvidence,
         StoreTypeOK, OpRow
    <2> QED
      BY <1>r, <2>1, <2>2
  <1>6. ASSUME NEW o \in OpId, WorkerMarkAwaiting(w, o) PROVE QuietStep
    BY <1>6, <1>i, <1>a, <1>q DEF WorkerMarkAwaiting
  <1>7. ASSUME NEW o \in OpId, WorkerPoll(w, o) PROVE QuietStep
    <2>1. \A x \in Worker : wk'[x] = wk[x] \/ wk'[x].pc \notin {"sending", "sent"}
      BY <1>0, <1>7 DEF WorkerPoll, WorkerRow
    <2> QED
      BY <1>7, <1>q, <1>u, <2>1 DEF WorkerPoll
  <1>8. ASSUME NEW o \in OpId, WorkerApplyPoll(w, o) PROVE QuietStep
    <2>1. ASSUME NEW f, NEW inv, MarkAuthorityResultUnknown(o, f, inv)
          PROVE  QuietTables
      <3>1. /\ jobs[ActionJob(o)].state = "CLAIMED"
            /\ jobs'[ActionJob(o)].state = "UNKNOWN"
            /\ ops'[o].state = "UNKNOWN"
            /\ \A p \in OpId : ops'[p].kind = ops[p].kind
            /\ \A p \in OpId \ {o} : ops'[p] = ops[p]
            /\ \A k \in Job \ {ActionJob(o)} :
                  \/ jobs'[k].state = jobs[k].state
                  \/ /\ k \in MessageJobs
                     /\ jobs[k].state = "NONE" /\ jobs'[k].state = "READY"
        BY <1>0, <2>1, EndActionRows DEF MarkAuthorityResultUnknown, Holds
      <3>2. QuietJob(ActionJob(o))
        BY <3>1 DEF QuietJob, Departed, Terminal
      <3> QED
        BY <1>0, <3>1, <3>2, RewriteIsQuiet, JobIdentity
    <2>2. QuietTables
      BY <1>8, <1>a, <1>f, <2>1 DEF WorkerApplyPoll
    <2> QED
      BY <1>8, <1>i, <1>q, <2>2 DEF WorkerApplyPoll
  <1>9. CASE WorkerDenied(w)
    <2>1. ASSUME wk[w].job \in MessageJobs,
                 FailClaimedMessage(wk[w].job, wk[w].fence)
          PROVE  QuietTables
      <3> DEFINE j == wk[w].job
      <3>1. /\ jobs[j].state = "CLAIMED" /\ jobs'[j].state = "FAILED"
            /\ \A k \in Job \ {j} : jobs'[k] = jobs[k]
            /\ ops' = ops
        BY <1>0, <2>1, JobIdentity
        DEF FailClaimedMessage, Holds, Released, StoreTypeOK, JobRow
      <3>2. QuietJob(j)
        BY <3>1 DEF QuietJob, Departed, Terminal
      <3> QED
        BY <1>0, <2>1, <3>1, <3>2, RewriteIsQuiet, JobIdentity
    <2>2. QuietTables
      BY <1>9, <1>f, <2>1 DEF WorkerDenied
    <2> QED
      BY <1>9, <1>i, <1>q, <2>2 DEF WorkerDenied
  <1>10. CASE WorkerRestart(w)
    BY <1>10, <1>i, <1>q, <1>u DEF WorkerRestart
  <1> QED
    BY <1>1, <1>2, <1>3, <1>4, <1>5, <1>6, <1>7, <1>8, <1>9, <1>10 DEF WorkerStep

LEMMA CallerIsQuiet ==
    ASSUME CallInv, NEW c \in Caller,
           \/ \E o \in OpId, k \in AuthKey : CallerValidate(c, o, k)
           \/ \E o \in OpId : CallerReconcile(c, o)
           \/ CallerEnd(c)
    PROVE  QuietStep
  <1> USE TypeSplit
  <1>0. StoreTypeOK /\ cb \in [Caller -> CallerRow]
    BY DEF CallInv, ProcessTypeOK
  <1>q. ASSUME QuietTables, UNCHANGED <<wk, effects>>,
               \A d \in Caller :
                  \/ cb'[d] = cb[d]
                  \/ cb'[d].pc = "idle"
                  \/ /\ cb'[d].pc \notin {"executing", "answered"}
                     /\ cb'[d].op \in OpId /\ ops[cb'[d].op].state # "NONE"
        PROVE  QuietStep
    BY <1>q DEF QuietStep, QuietTables, QuietOp, CallInv, OneCallPerJob, EffectsKnown
  <1>u. ASSUME UNCHANGED <<ops, jobs>> PROVE QuietTables
    BY <1>u DEF QuietTables, QuietJob
  <1>1. ASSUME NEW o \in OpId, NEW k \in AuthKey, CallerValidate(c, o, k)
        PROVE  QuietStep
    <2>1. /\ cb'[c].pc = "validated" /\ cb'[c].op = o /\ ops[o].state # "NONE"
          /\ \A d \in Caller \ {c} : cb'[d] = cb[d]
      BY <1>0, <1>1 DEF CallerValidate
    <2> QED
      BY <1>1, <1>q, <1>u, <2>1 DEF CallerValidate
  <1>2. ASSUME NEW o \in OpId, CallerReconcile(c, o) PROVE QuietStep
    <2>1. \A d \in Caller : cb'[d] = cb[d] \/ cb'[d].pc = "idle"
      BY <1>0, <1>2 DEF CallerReconcile, IdleCaller
    <2>2. \A p \in OpId :
             /\ ops'[p].kind = ops[p].kind
             /\ ops'[p].state = ops[p].state
                  \/ (ops[p].state = "UNKNOWN" /\ ops'[p].state = "SUCCEEDED")
      BY <1>0, <1>2 DEF CallerReconcile, ResolveUnknownOperation, SetOpState,
         StoreTypeOK, OpRow
    <2>3. \A k \in Job :
             \/ jobs'[k] = jobs[k]
             \/ jobs[k].state = "UNKNOWN" /\ jobs'[k].state = "SUCCEEDED"
      BY <1>0, <1>2 DEF CallerReconcile, ResolveUnknownOperation, StoreTypeOK, JobRow
    <2>4. QuietTables
      BY <2>2, <2>3, JobIdentity DEF QuietTables, QuietJob
    <2> QED
      BY <1>2, <1>q, <2>1, <2>4 DEF CallerReconcile
  <1>3. CASE CallerEnd(c)
    <2>1. \A d \in Caller : cb'[d] = cb[d] \/ cb'[d].pc = "idle"
      BY <1>0, <1>3 DEF CallerEnd, IdleCaller
    <2> QED
      BY <1>3, <1>q, <1>u, <2>1 DEF CallerEnd
  <1> QED
    BY <1>1, <1>2, <1>3

-----------------------------------------------------------------------------
(* The steps around a call.                                                 *)

\* mark_sending: the claim was held, so nobody has called for this message.
LEMMA MarkSendingStep ==
    ASSUME CallInv, TypeInv', NEW w \in Worker, WorkerMarkSending(w)
    PROVE  CallInv'
  <1> DEFINE j == wk[w].job
  <1>0. StoreTypeOK /\ wk \in [Worker -> WorkerRow] /\ wk[w] \in WorkerRow
    BY TypeSplit DEF CallInv, ProcessTypeOK
  <1>1. /\ j \in MessageJobs /\ j \in Job /\ jobs[j].state = "CLAIMED"
        /\ wk[w].pc = "claimed"
        /\ jobs'[j].state = "SENDING"
        /\ \A k \in Job \ {j} : jobs'[k] = jobs[k]
    BY <1>0, JobIdentity
    DEF WorkerMarkSending, MarkSending, Holds, StoreTypeOK, JobRow
  <1>2. UNCHANGED <<ops, cb, effects>>
    BY <1>0, <1>1, JobIdentity DEF WorkerMarkSending, MarkSending, StoreTypeOK
  <1>3. /\ wk'[w].pc = "sending" /\ wk'[w].job = j
        /\ \A x \in Worker \ {w} : wk'[x] = wk[x]
    BY <1>0 DEF WorkerMarkSending, WorkerRow
  <1>4. TypeOK' /\ AnswersKnown'
    BY DEF TypeInv
  <1>5. \A x \in Worker : ~Sends(x, j)
    BY <1>1 DEF CallInv, OneCallPerJob, Sends, Departed, Terminal
  <1>6. \A o \in OpId : jobs'[ActionJob(o)] = jobs[ActionJob(o)]
    BY <1>1, JobIdentity
  <1>7. OneCallPerJob'
    <2>1. \A x \in Worker : wk'[x].pc \in {"sending", "sent"} =>
             wk'[x].job \in MessageJobs /\ jobs'[wk'[x].job].state \in Departed
      BY <1>1, <1>3, JobIdentity DEF CallInv, OneCallPerJob, Departed
    <2>2. \A x, y \in Worker, k \in Job : Sends(x, k)' /\ Sends(y, k)' => x = y
      BY <1>3, <1>5 DEF CallInv, OneCallPerJob, Sends
    <2> QED
      BY <1>2, <1>6, <2>1, <2>2 DEF CallInv, OneCallPerJob, Writes
  <1>8. EffectsKnown'
    <2>1. effects[j] = 0
      BY <1>1 DEF CallInv, EffectsKnown, Departed, Terminal
    <2>2. \A k \in Job : jobs'[k].state \notin Departed => effects'[k] = 0
      BY <1>1, <1>2 DEF CallInv, EffectsKnown, Departed
    <2>3. \A x \in Worker :
             /\ wk'[x].pc = "sending" => effects'[wk'[x].job] = 0
             /\ wk'[x].pc = "sent" /\ wk'[x].out = "FAILED" => effects'[wk'[x].job] = 0
             /\ wk'[x].pc = "sent" /\ wk'[x].out = "ACCEPTED" => effects'[wk'[x].job] = 1
      BY <1>2, <1>3, <2>1 DEF CallInv, EffectsKnown
    <2> QED
      BY <1>2, <1>6, <2>2, <2>3 DEF CallInv, EffectsKnown, Writes
  <1>9. FailedIsQuiet'
    BY <1>1, <1>2, <1>3 DEF CallInv, FailedIsQuiet, Writes
  <1>10. AtMostOneEffect' /\ TerminalIsTrue'
    BY <1>1, <1>2 DEF CallInv, AtMostOneEffect, TerminalIsTrue, IsQuery
  <1> QED
    BY <1>4, <1>7, <1>8, <1>9, <1>10 DEF CallInv

\* The message port answers: the only call for this message, and its first.
LEMMA SendStep ==
    ASSUME CallInv, TypeInv', NEW w \in Worker, WorkerSend(w)
    PROVE  CallInv'
  <1> DEFINE j == wk[w].job
  <1>0. /\ wk \in [Worker -> WorkerRow] /\ wk[w] \in WorkerRow
        /\ effects \in [Job -> Nat]
    BY TypeSplit DEF CallInv, ProcessTypeOK
  <1>1. wk[w].pc = "sending" /\ UNCHANGED <<ops, jobs, events, cb, auth>>
    BY DEF WorkerSend
  <1>2. j \in MessageJobs /\ j \in Job /\ effects[j] = 0 /\ jobs[j].state # "FAILED"
        /\ jobs[j].state \in Departed
    BY <1>1, JobIdentity DEF CallInv, OneCallPerJob, EffectsKnown, FailedIsQuiet
  <1>3. PICK out \in {"ACCEPTED", "FAILED", "UNKNOWN"}, acted \in {0, 1} :
           /\ out = "ACCEPTED" => acted = 1
           /\ out = "FAILED" => acted = 0
           /\ wk' = [wk EXCEPT ![w].pc = "sent", ![w].out = out]
           /\ effects' = [effects EXCEPT ![j] = @ + acted]
    BY DEF WorkerSend
  <1>4. /\ wk'[w].pc = "sent" /\ wk'[w].job = j /\ wk'[w].out = out
        /\ \A x \in Worker \ {w} : wk'[x] = wk[x]
    BY <1>0, <1>3 DEF WorkerRow
  <1>5. effects'[j] = acted /\ \A k \in Job \ {j} : effects'[k] = effects[k]
    BY <1>0, <1>2, <1>3
  \* Before this step the message cannot be ACCEPTED, as it had no effect.
  <1>6. jobs[j].state # "ACCEPTED"
    BY <1>2, MessageIsNoQuery DEF CallInv, TerminalIsTrue
  <1>7. \A x \in Worker \ {w} : ~Sends(x, j)
    BY <1>1, <1>2 DEF CallInv, OneCallPerJob, Sends
  <1>8. OneCallPerJob'
    BY <1>1, <1>2, <1>4 DEF CallInv, OneCallPerJob, Sends, Writes
  <1>9. EffectsKnown'
    <2>1. \A o \in OpId : effects'[ActionJob(o)] = effects[ActionJob(o)]
      BY <1>2, <1>5, JobIdentity
    <2>2. \A k \in Job : jobs'[k].state \notin Departed => effects'[k] = 0
      BY <1>1, <1>2, <1>5 DEF CallInv, EffectsKnown
    <2>3. \A x \in Worker :
             /\ wk'[x].pc = "sending" => effects'[wk'[x].job] = 0
             /\ wk'[x].pc = "sent" /\ wk'[x].out = "FAILED" => effects'[wk'[x].job] = 0
             /\ wk'[x].pc = "sent" /\ wk'[x].out = "ACCEPTED" => effects'[wk'[x].job] = 1
      <3> TAKE x \in Worker
      <3>1. CASE x = w
        BY <1>3, <1>4, <1>5, <3>1
      <3>2. CASE x # w /\ wk[x].pc \in {"sending", "sent"}
        <4>1. wk[x].job # j /\ wk[x].job \in Job
          BY <1>7, <3>2, JobIdentity DEF Sends, CallInv, OneCallPerJob
        <4> QED
          BY <1>4, <1>5, <3>2, <4>1 DEF CallInv, EffectsKnown
      <3>3. CASE x # w /\ wk[x].pc \notin {"sending", "sent"}
        BY <1>4, <3>3
      <3> QED
        BY <3>1, <3>2, <3>3
    <2> QED
      BY <1>1, <2>1, <2>2, <2>3 DEF CallInv, EffectsKnown, Writes
  <1>10. FailedIsQuiet'
    BY <1>1, <1>4 DEF CallInv, FailedIsQuiet, Writes
  <1>11. AtMostOneEffect'
    BY <1>5 DEF CallInv, AtMostOneEffect
  <1>12. TerminalIsTrue'
    <2>1. \A k \in Job : IsQuery(k)' <=> IsQuery(k)
      BY <1>1 DEF IsQuery
    <2> QED
      BY <1>1, <1>2, <1>5, <1>6, <2>1 DEF CallInv, TerminalIsTrue
  <1> QED
    BY <1>8, <1>9, <1>10, <1>11, <1>12 DEF CallInv, TypeInv

\* finish_job of a message, by the one worker that called.
LEMMA FinishMessageStep ==
    ASSUME CallInv, TypeInv', NEW w \in Worker, WorkerFinish(w)
    PROVE  CallInv'
  <1> DEFINE j == wk[w].job
  <1>0. StoreTypeOK /\ wk \in [Worker -> WorkerRow]
    BY TypeSplit DEF CallInv, ProcessTypeOK
  <1>1. /\ wk[w].pc = "sent" /\ jobs[j].state = "SENDING"
        /\ UNCHANGED <<ops, cb, auth, effects>>
    BY DEF WorkerFinish, FinishMessage, Holds
  <1>2. j \in MessageJobs /\ j \in Job
    BY <1>1, JobIdentity DEF CallInv, OneCallPerJob
  <1>3. /\ jobs'[j].state = wk[w].out
        /\ \A k \in Job \ {j} : jobs'[k] = jobs[k]
    BY <1>0, <1>2 DEF WorkerFinish, FinishMessage, Released, StoreTypeOK, JobRow
  <1>4. wk[w].out \in {"ACCEPTED", "FAILED", "UNKNOWN"}
    BY <1>1 DEF CallInv, AnswersKnown
  <1>5. wk'[w].pc = "idle" /\ \A x \in Worker \ {w} : wk'[x] = wk[x]
    BY <1>0 DEF WorkerFinish, IdleWorker
  <1>6. \A x \in Worker \ {w} : ~Sends(x, j)
    BY <1>1, <1>2 DEF CallInv, OneCallPerJob, Sends
  <1>7. \A o \in OpId : jobs'[ActionJob(o)] = jobs[ActionJob(o)]
    BY <1>2, <1>3, JobIdentity
  <1>8. OneCallPerJob'
    <2>1. \A x \in Worker : wk'[x].pc \in {"sending", "sent"} =>
             wk'[x].job \in MessageJobs /\ jobs'[wk'[x].job].state \in Departed
      BY <1>3, <1>4, <1>5, JobIdentity
      DEF CallInv, OneCallPerJob, Departed, Terminal
    <2>2. \A x, y \in Worker, k \in Job : Sends(x, k)' /\ Sends(y, k)' => x = y
      BY <1>5 DEF CallInv, OneCallPerJob, Sends
    <2> QED
      BY <1>1, <1>7, <2>1, <2>2 DEF CallInv, OneCallPerJob, Writes
  <1>9. EffectsKnown'
    <2>1. \A k \in Job : jobs'[k].state \notin Departed => effects'[k] = 0
      BY <1>1, <1>3, <1>4 DEF CallInv, EffectsKnown, Departed, Terminal
    <2>2. \A x \in Worker :
             /\ wk'[x].pc = "sending" => effects'[wk'[x].job] = 0
             /\ wk'[x].pc = "sent" /\ wk'[x].out = "FAILED" => effects'[wk'[x].job] = 0
             /\ wk'[x].pc = "sent" /\ wk'[x].out = "ACCEPTED" => effects'[wk'[x].job] = 1
      BY <1>1, <1>5 DEF CallInv, EffectsKnown
    <2> QED
      BY <1>1, <1>7, <2>1, <2>2 DEF CallInv, EffectsKnown, Writes
  <1>10. FailedIsQuiet'
    <2>1. \A x \in Worker : ~(wk'[x].job = j /\ wk'[x].pc = "sending")
      BY <1>5, <1>6 DEF Sends
    <2>2. \A o \in OpId : j # ActionJob(o)
      BY <1>2, JobIdentity
    <2> QED
      BY <1>1, <1>3, <1>5, <2>1, <2>2 DEF CallInv, FailedIsQuiet, Writes
  <1>11. AtMostOneEffect'
    BY <1>1 DEF CallInv, AtMostOneEffect
  <1>12. TerminalIsTrue'
    <2>1. \A k \in Job : IsQuery(k)' <=> IsQuery(k)
      BY <1>1 DEF IsQuery
    <2> QED
      BY <1>1, <1>2, <1>3, <2>1 DEF CallInv, TerminalIsTrue, EffectsKnown
  <1> QED
    BY <1>8, <1>9, <1>10, <1>11, <1>12 DEF CallInv, TypeInv

\* begin_authorized_execution: the job was still before its boundary, so no
\* other callback is in a call for this write.
LEMMA BeginStep ==
    ASSUME CallInv, TypeInv', NEW c \in Caller, NEW o \in OpId, CallerBegin(c, o)
    PROVE  CallInv'
  <1> DEFINE j == ActionJob(o)
  <1>0. StoreTypeOK /\ cb \in [Caller -> CallerRow] /\ cb[c] \in CallerRow
    BY TypeSplit DEF CallInv, ProcessTypeOK
  <1>1. /\ cb[c].pc = "validated" /\ cb[c].op = o
        /\ ops[o].state # "NONE"
        /\ jobs[j].state \in {"AWAITING_AUTHORITY", "CLAIMED"}
        /\ UNCHANGED <<wk, auth, effects>>
    BY DEF CallerBegin, BeginAuthorizedExecution
  <1>2. j \in Job /\ j \notin MessageJobs
    BY JobIdentity
  <1>3. /\ jobs'[j].state = "SENDING"
        /\ \A k \in Job \ {j} : jobs'[k] = jobs[k]
    BY <1>0, <1>2 DEF CallerBegin, BeginAuthorizedExecution, StoreTypeOK, JobRow
  <1>4. /\ \A p \in OpId : ops'[p].kind = ops[p].kind
        /\ \A p \in OpId \ {o} : ops'[p] = ops[p]
        /\ ops'[o].state = "RUNNING"
    BY <1>0 DEF CallerBegin, BeginAuthorizedExecution, StoreTypeOK, OpRow
  <1>5. /\ cb'[c].pc = "executing" /\ cb'[c].op = o /\ cb'[c].out = cb[c].out
        /\ \A d \in Caller \ {c} : cb'[d] = cb[d]
    BY <1>0, <1>1 DEF CallerBegin, CallerRow
  <1>6. \A d \in Caller : ~Writes(d, o)
    BY <1>1 DEF CallInv, OneCallPerJob, Departed, Terminal
  <1>7. \A d \in Caller, p \in OpId : Writes(d, p)' =>
           \/ d = c /\ p = o
           \/ d # c /\ p # o /\ Writes(d, p)
    BY <1>4, <1>5, <1>6 DEF Writes
  <1>8. \A p \in OpId \ {o} : ActionJob(p) # j /\ ActionJob(p) \in Job
    BY JobIdentity
  <1>9. OneCallPerJob'
    <2>1. \A w \in Worker : wk'[w].pc \in {"sending", "sent"} =>
             wk'[w].job \in MessageJobs /\ jobs'[wk'[w].job].state \in Departed
      BY <1>1, <1>2, <1>3, JobIdentity DEF CallInv, OneCallPerJob
    <2>2. \A d \in Caller : cb'[d].pc # "idle" =>
             cb'[d].op \in OpId /\ ops'[cb'[d].op].state # "NONE"
      BY <1>4, <1>5 DEF CallInv, OneCallPerJob
    <2>3. \A d \in Caller, p \in OpId : Writes(d, p)' =>
             jobs'[ActionJob(p)].state \in Departed
      BY <1>3, <1>7, <1>8 DEF CallInv, OneCallPerJob, Departed
    <2>4. \A d, e \in Caller, p \in OpId : Writes(d, p)' /\ Writes(e, p)' => d = e
      BY <1>7 DEF CallInv, OneCallPerJob
    <2>5. \A w, x \in Worker, k \in Job : Sends(w, k)' /\ Sends(x, k)' => w = x
      BY <1>1 DEF CallInv, OneCallPerJob, Sends
    <2> QED
      BY <2>1, <2>2, <2>3, <2>4, <2>5 DEF OneCallPerJob
  <1>10. EffectsKnown'
    <2>1. effects[j] = 0
      BY <1>1, <1>2 DEF CallInv, EffectsKnown, Departed, Terminal
    <2>2. \A k \in Job : jobs'[k].state \notin Departed => effects'[k] = 0
      BY <1>1, <1>3 DEF CallInv, EffectsKnown, Departed
    <2>3. \A p \in OpId :
             /\ ops'[p].state = "NONE" <=> jobs'[ActionJob(p)].state = "NONE"
             /\ ops'[p].kind = "query" => effects'[ActionJob(p)] = 0
      BY <1>1, <1>3, <1>4, <1>8 DEF CallInv, EffectsKnown
    <2>5. \A d \in Caller, p \in OpId : Writes(d, p)' =>
             /\ cb'[d].pc = "executing" => effects'[ActionJob(p)] = 0
             /\ cb'[d].pc = "answered" /\ cb'[d].out = "FAILED" =>
                   effects'[ActionJob(p)] = 0
             /\ cb'[d].pc = "answered" /\ cb'[d].out \in {"ACCEPTED", "SUCCEEDED"} =>
                   effects'[ActionJob(p)] = 1
      BY <1>1, <1>5, <1>7, <2>1 DEF CallInv, EffectsKnown
    <2> QED
      BY <1>1, <2>2, <2>3, <2>5 DEF CallInv, EffectsKnown
  <1>11. FailedIsQuiet'
    <2>1. \A k \in Job : jobs'[k].state = "FAILED" => k # j /\ jobs[k].state = "FAILED"
      BY <1>3
    <2> QED
      BY <1>1, <1>5, <1>7, <2>1 DEF CallInv, FailedIsQuiet
  <1>12. AtMostOneEffect' /\ TerminalIsTrue'
    <2>1. \A k \in Job : IsQuery(k)' <=> IsQuery(k)
      BY <1>4 DEF IsQuery
    <2> QED
      BY <1>1, <1>3, <2>1 DEF CallInv, AtMostOneEffect, TerminalIsTrue
  <1> QED
    BY <1>9, <1>10, <1>11, <1>12 DEF CallInv, TypeInv

\* The provider answers the one callback that writes.
LEMMA CallStep ==
    ASSUME CallInv, TypeInv', NEW c \in Caller, NEW o \in OpId, CallerCall(c, o)
    PROVE  CallInv'
  <1> DEFINE j == ActionJob(o)
  <1>0. /\ cb \in [Caller -> CallerRow] /\ cb[c] \in CallerRow
        /\ effects \in [Job -> Nat]
    BY TypeSplit DEF CallInv, ProcessTypeOK
  <1>1. /\ cb[c].pc = "executing" /\ cb[c].op = o
        /\ UNCHANGED <<ops, jobs, events, wk, auth>>
    BY DEF CallerCall
  <1>2. j \in Job /\ j \notin MessageJobs
    BY JobIdentity
  <1>3. PICK out \in {"ACCEPTED", "SUCCEEDED", "FAILED", "UNKNOWN", "RETRY"},
             acted \in {0, 1} :
           /\ IF ops[o].kind = "query"
              THEN out # "ACCEPTED" /\ acted = 0
              ELSE /\ out \in {"ACCEPTED", "SUCCEEDED"} => acted = 1
                   /\ out = "FAILED" => acted = 0
           /\ cb' = [cb EXCEPT ![c].pc = "answered", ![c].out = out]
           /\ effects' = [effects EXCEPT ![j] = @ + acted]
    BY DEF CallerCall
  <1>4. /\ cb'[c].pc = "answered" /\ cb'[c].op = o /\ cb'[c].out = out
        /\ \A d \in Caller \ {c} : cb'[d] = cb[d]
    BY <1>0, <1>1, <1>3 DEF CallerRow
  <1>5. effects[j] = 0
    BY <1>1 DEF CallInv, EffectsKnown, Writes
  <1>6. effects'[j] = acted /\ \A k \in Job \ {j} : effects'[k] = effects[k]
    BY <1>0, <1>2, <1>3, <1>5
  <1>7. \A d \in Caller, p \in OpId : Writes(d, p)' =>
           \/ d = c /\ p = o /\ ops[o].kind # "query" /\ Writes(c, o)
           \/ d # c /\ p # o /\ Writes(d, p)
    BY <1>1, <1>4 DEF CallInv, OneCallPerJob, Writes
  <1>8. \A p \in OpId \ {o} : effects'[ActionJob(p)] = effects[ActionJob(p)]
    BY <1>6, JobIdentity
  <1>9. OneCallPerJob'
    <2>1. \A d \in Caller : cb'[d].pc # "idle" =>
             cb'[d].op \in OpId /\ ops'[cb'[d].op].state # "NONE"
      BY <1>1, <1>4 DEF CallInv, OneCallPerJob
    <2>2. \A d \in Caller, p \in OpId : Writes(d, p)' =>
             jobs'[ActionJob(p)].state \in Departed
      BY <1>1, <1>7 DEF CallInv, OneCallPerJob
    <2>3. \A d, e \in Caller, p \in OpId : Writes(d, p)' /\ Writes(e, p)' => d = e
      BY <1>7 DEF CallInv, OneCallPerJob
    <2> QED
      BY <1>1, <2>1, <2>2, <2>3 DEF CallInv, OneCallPerJob, Sends
  <1>10. EffectsKnown'
    <2>1. \A k \in Job : jobs'[k].state \notin Departed => effects'[k] = 0
      <3>1. CASE ops[o].kind = "query"
        BY <1>1, <1>3, <1>6, <3>1 DEF CallInv, EffectsKnown
      <3>2. CASE ops[o].kind # "query"
        BY <1>1, <1>6, <3>2 DEF CallInv, EffectsKnown, OneCallPerJob, Writes
      <3> QED
        BY <3>1, <3>2
    <2>2. \A w \in Worker : wk[w].pc \in {"sending", "sent"} =>
             effects'[wk[w].job] = effects[wk[w].job]
      BY <1>2, <1>6, JobIdentity DEF CallInv, OneCallPerJob
    <2>3. \A p \in OpId :
             /\ ops'[p].state = "NONE" <=> jobs'[ActionJob(p)].state = "NONE"
             /\ ops'[p].kind = "query" => effects'[ActionJob(p)] = 0
      BY <1>1, <1>3, <1>6, <1>8 DEF CallInv, EffectsKnown
    <2>4. \A d \in Caller, p \in OpId : Writes(d, p)' =>
             /\ cb'[d].pc = "executing" => effects'[ActionJob(p)] = 0
             /\ cb'[d].pc = "answered" /\ cb'[d].out = "FAILED" =>
                   effects'[ActionJob(p)] = 0
             /\ cb'[d].pc = "answered" /\ cb'[d].out \in {"ACCEPTED", "SUCCEEDED"} =>
                   effects'[ActionJob(p)] = 1
      <3> TAKE d \in Caller, p \in OpId
      <3> HAVE Writes(d, p)'
      <3>1. CASE d = c /\ p = o
        <4>1. ops[o].kind # "query"
          BY <1>7, <3>1
        <4> QED
          BY <1>3, <1>4, <1>6, <3>1, <4>1
      <3>2. CASE d # c /\ p # o /\ Writes(d, p)
        BY <1>4, <1>8, <3>2 DEF CallInv, EffectsKnown
      <3> QED
        BY <1>7, <3>1, <3>2
    <2> QED
      BY <1>1, <2>1, <2>2, <2>3, <2>4 DEF CallInv, EffectsKnown
  <1>11. FailedIsQuiet'
    BY <1>1, <1>4, <1>7 DEF CallInv, FailedIsQuiet
  <1>12. AtMostOneEffect'
    BY <1>6 DEF CallInv, AtMostOneEffect
  <1>13. TerminalIsTrue'
    <2>1. \A k \in Job : IsQuery(k)' <=> IsQuery(k)
      BY <1>1 DEF IsQuery
    <2>2. ~IsQuery(j) => jobs[j].state \notin {"FAILED", "ACCEPTED"}
      BY <1>1, <1>2, <1>5, MessageIsNoQuery
      DEF CallInv, TerminalIsTrue, FailedIsQuiet, Writes
    <2> QED
      BY <1>1, <1>6, <2>1, <2>2 DEF CallInv, TerminalIsTrue
  <1> QED
    BY <1>9, <1>10, <1>11, <1>12, <1>13 DEF CallInv, TypeInv

\* finish_job or retry_readonly_job by the callback that called.
LEMMA FinishStep ==
    ASSUME CallInv, TypeInv', NEW c \in Caller, NEW o \in OpId, CallerFinish(c, o)
    PROVE  CallInv'
  <1> DEFINE j == ActionJob(o)
  <1>0. StoreTypeOK /\ cb \in [Caller -> CallerRow] /\ cb[c] \in CallerRow
    BY TypeSplit DEF CallInv, ProcessTypeOK
  <1>1. /\ cb[c].pc = "answered" /\ cb[c].op = o
        /\ UNCHANGED <<wk, auth, effects>>
    BY DEF CallerFinish
  <1>2. j \in Job /\ j \notin MessageJobs
    BY JobIdentity
  \* The tables: only this action and maybe its new reply move.
  <1>3. /\ jobs[j].state = "SENDING"
        /\ jobs'[j].state # "NONE" /\ ops'[o].state # "NONE"
        /\ \A p \in OpId : ops'[p].kind = ops[p].kind
        /\ \A p \in OpId \ {o} : ops'[p] = ops[p]
        /\ \A k \in Job \ {j} :
              \/ jobs'[k].state = jobs[k].state
              \/ /\ k \in MessageJobs
                 /\ jobs[k].state = "NONE" /\ jobs'[k].state = "READY"
        /\ ops[o].kind # "query" =>
              jobs'[j].state = IF cb[c].out = "RETRY" THEN "UNKNOWN" ELSE cb[c].out
    <2>1. cb[c].out \in Terminal \cup {"RETRY"}
      BY <1>1 DEF CallInv, AnswersKnown
    <2>2. ASSUME NEW st \in Terminal, FinishAction(o, cb[c].fence, st)
          PROVE  /\ jobs[j].state = "SENDING"
                 /\ jobs'[j].state = st /\ ops'[o].state = st
                 /\ \A p \in OpId : ops'[p].kind = ops[p].kind
                 /\ \A p \in OpId \ {o} : ops'[p] = ops[p]
                 /\ \A k \in Job \ {j} :
                       \/ jobs'[k].state = jobs[k].state
                       \/ /\ k \in MessageJobs
                          /\ jobs[k].state = "NONE" /\ jobs'[k].state = "READY"
      BY <1>0, <2>2, EndActionRows DEF FinishAction, Holds
    <2>3. CASE cb[c].out # "RETRY"
      <3>1. FinishAction(o, cb[c].fence, cb[c].out) /\ cb[c].out \in Terminal
        BY <2>1, <2>3 DEF CallerFinish
      <3> QED
        BY <2>2, <2>3, <3>1 DEF Terminal
    <2>4. CASE cb[c].out = "RETRY" /\ ops[o].kind # "query"
      <3>1. FinishAction(o, cb[c].fence, "UNKNOWN")
        BY <2>4 DEF CallerFinish
      <3> QED
        BY <2>2, <2>4, <3>1 DEF Terminal
    <2>5. CASE cb[c].out = "RETRY" /\ ops[o].kind = "query"
      <3>1. RetryReadonlyJob(o, cb[c].fence)
        BY <2>5 DEF CallerFinish
      <3>2. CASE jobs[j].fence >= ReadAttempts
        BY <1>0, <2>5, <3>1, <3>2, EndActionRows DEF RetryReadonlyJob, Holds
      <3>3. CASE ~(jobs[j].fence >= ReadAttempts)
        <4>1. /\ Requeued(Released(jobs[j], "READY"), "READY").state = "READY"
              /\ Requeued(ops[o], "QUEUED").state = "QUEUED"
              /\ Requeued(ops[o], "QUEUED").kind = ops[o].kind
          BY <1>0, <1>2 DEF StoreTypeOK, JobRow, OpRow, Released, Requeued
        <4> QED
          BY <1>0, <1>2, <2>5, <3>1, <3>3, <4>1
          DEF RetryReadonlyJob, Holds, StoreTypeOK
      <3> QED
        BY <3>2, <3>3
    <2> QED
      BY <2>3, <2>4, <2>5
  <1>4. /\ cb'[c].pc \in {"idle", "reconciling"}
        /\ cb'[c].pc # "idle" => cb'[c].op = o
        /\ \A d \in Caller \ {c} : cb'[d] = cb[d]
    BY <1>0, <1>1 DEF CallerFinish, IdleCaller, CallerRow
  <1>5. \A d \in Caller, p \in OpId : Writes(d, p)' =>
           d # c /\ p # o /\ Writes(d, p) /\ cb'[d] = cb[d]
    BY <1>1, <1>3, <1>4 DEF CallInv, OneCallPerJob, Writes
  <1>6. \A p \in OpId \ {o} :
           /\ ActionJob(p) # j /\ ActionJob(p) \in Job
           /\ jobs'[ActionJob(p)].state = jobs[ActionJob(p)].state
    BY <1>3, JobIdentity
  <1>7. ops[o].kind # "query" =>
           /\ jobs'[j].state \in Terminal
           /\ jobs'[j].state = "FAILED" => effects[j] = 0
           /\ jobs'[j].state = "ACCEPTED" => effects[j] = 1
    BY <1>1, <1>3 DEF CallInv, AnswersKnown, EffectsKnown, Writes, Terminal
  <1>8. \A k \in Job \ {j} : jobs'[k].state # jobs[k].state =>
           /\ jobs[k].state = "NONE" /\ jobs'[k].state = "READY" /\ effects[k] = 0
           /\ \A w \in Worker : ~Sends(w, k)
    BY <1>3 DEF CallInv, EffectsKnown, OneCallPerJob, Sends, Departed, Terminal
  <1>9. OneCallPerJob'
    <2>1. \A w \in Worker : wk'[w].pc \in {"sending", "sent"} =>
             wk'[w].job \in MessageJobs /\ jobs'[wk'[w].job].state \in Departed
      BY <1>1, <1>2, <1>8, JobIdentity DEF CallInv, OneCallPerJob, Sends
    <2>2. \A d \in Caller : cb'[d].pc # "idle" =>
             cb'[d].op \in OpId /\ ops'[cb'[d].op].state # "NONE"
      BY <1>3, <1>4 DEF CallInv, OneCallPerJob
    <2>3. \A d \in Caller, p \in OpId : Writes(d, p)' =>
             jobs'[ActionJob(p)].state \in Departed
      BY <1>5, <1>6 DEF CallInv, OneCallPerJob
    <2>4. \A d, e \in Caller, p \in OpId : Writes(d, p)' /\ Writes(e, p)' => d = e
      BY <1>5 DEF CallInv, OneCallPerJob
    <2> QED
      BY <1>1, <2>1, <2>2, <2>3, <2>4 DEF CallInv, OneCallPerJob, Sends
  <1>10. EffectsKnown'
    <2>1. \A k \in Job : jobs'[k].state \notin Departed => effects'[k] = 0
      BY <1>1, <1>7, <1>8 DEF CallInv, EffectsKnown, Departed
    <2>2. \A p \in OpId :
             /\ ops'[p].state = "NONE" <=> jobs'[ActionJob(p)].state = "NONE"
             /\ ops'[p].kind = "query" => effects'[ActionJob(p)] = 0
      BY <1>1, <1>3, <1>6 DEF CallInv, EffectsKnown
    <2> QED
      BY <1>1, <1>5, <2>1, <2>2 DEF CallInv, EffectsKnown
  <1>11. FailedIsQuiet'
    <2> SUFFICES ASSUME NEW k \in Job, jobs'[k].state = "FAILED"
                 PROVE  /\ \A w \in Worker :
                              ~(wk'[w].job = k /\ wk'[w].pc = "sending")
                        /\ \A d \in Caller, p \in OpId :
                              k = ActionJob(p) =>
                                ~(Writes(d, p)' /\ cb'[d].pc = "executing")
      BY DEF FailedIsQuiet
    <2>1. CASE k = j
      BY <1>1, <1>2, <1>5, <1>6, <2>1 DEF CallInv, OneCallPerJob
    <2>2. CASE k # j
      <3>1. jobs[k].state = "FAILED"
        BY <1>8, <2>2
      <3> QED
        BY <1>1, <1>5, <3>1 DEF CallInv, FailedIsQuiet
    <2> QED
      BY <2>1, <2>2
  <1>12. AtMostOneEffect'
    BY <1>1 DEF CallInv, AtMostOneEffect
  <1>13. TerminalIsTrue'
    <2>1. \A k \in Job : IsQuery(k)' <=> IsQuery(k)
      BY <1>3 DEF IsQuery
    <2>2. ~IsQuery(j) => ops[o].kind # "query"
      BY DEF IsQuery
    <2> QED
      BY <1>1, <1>7, <1>8, <2>1, <2>2 DEF CallInv, TerminalIsTrue
  <1> QED
    BY <1>9, <1>10, <1>11, <1>12, <1>13 DEF CallInv, TypeInv

-----------------------------------------------------------------------------
(* The theorems.                                                            *)

LEMMA CallInit == Init => CallInv
  <1> SUFFICES ASSUME Init PROVE CallInv
    OBVIOUS
  <1>1. TypeOK /\ AnswersKnown
    BY TypeInit DEF TypeInv
  <1>2. /\ \A w \in Worker : wk[w].pc = "idle"
        /\ \A c \in Caller : cb[c].pc = "idle"
        /\ \A j \in Job : jobs[j].state = "NONE" /\ effects[j] = 0
        /\ \A o \in OpId : ops[o].state = "NONE"
    BY DEF Init, StoreInit, IdleWorker, IdleCaller, AbsentJob, AbsentOp
  <1>3. OneCallPerJob /\ FailedIsQuiet
    BY <1>2 DEF OneCallPerJob, FailedIsQuiet, Sends, Writes
  <1>4. EffectsKnown /\ AtMostOneEffect /\ TerminalIsTrue
    BY <1>2, JobIdentity DEF EffectsKnown, AtMostOneEffect, TerminalIsTrue, Writes
  <1> QED
    BY <1>1, <1>3, <1>4 DEF CallInv

LEMMA CallInvStep == CallInv /\ [Next]_vars => CallInv'
  <1> SUFFICES ASSUME CallInv, [Next]_vars PROVE CallInv'
    OBVIOUS
  <1>1. TypeInv'
    BY TypeStep DEF CallInv, TypeInv
  <1>2. ASSUME UNCHANGED vars \/ \E o \in OpId, k \in AuthKey : AuthoritySettles(o, k)
        PROVE  CallInv'
    <2>1. UNCHANGED <<ops, jobs, events, wk, cb, effects>>
      BY <1>2 DEF vars, AuthoritySettles
    <2>2. QuietStep
      BY <2>1 DEF QuietStep, QuietOp, QuietJob, CallInv, OneCallPerJob, EffectsKnown
    <2> QED
      BY <1>1, <2>2, QuietPreserves
  <1>3. ASSUME NEW w \in Worker, WorkerStep(w) PROVE CallInv'
    BY <1>1, <1>3, WorkerIsQuiet, QuietPreserves, MarkSendingStep, SendStep,
       FinishMessageStep
  <1>4. ASSUME NEW c \in Caller, CallerStep(c) PROVE CallInv'
    BY <1>1, <1>4, CallerIsQuiet, QuietPreserves, BeginStep, CallStep, FinishStep
    DEF CallerStep
  <1> QED
    BY <1>1, <1>2, <1>3, <1>4, AdmitIsQuiet, QuietPreserves DEF Next

\* The inductive invariant holds throughout: at most one process is between
\* the write boundary and its answer for any write or message.
THEOREM CallInvariant == Spec => []CallInv
  BY CallInit, CallInvStep, PTL DEF Spec

\* Whatever the workers, callbacks, crashes, lease expiries and redeliveries
\* do, a write or a message reaches its provider at most once.
THEOREM WritesHappenOnce == Spec => []AtMostOneEffect
  <1>1. CallInv => AtMostOneEffect
    BY DEF CallInv
  <1> QED
    BY CallInvariant, <1>1, PTL

\* FAILED and ACCEPTED never misreport a write or a message.
THEOREM TerminalStatesAreTrue == Spec => []TerminalIsTrue
  <1>1. CallInv => TerminalIsTrue
    BY DEF CallInv
  <1> QED
    BY CallInvariant, <1>1, PTL

=============================================================================
